-------------------------- MODULE ClientDataProofs --------------------------
(***************************************************************************)
(* Proofs about what the client keeps of the user's data: a file that is   *)
(* moved between providers (ProviderMove), the replicated manifest and the *)
(* rows of a table (ManifestMerge), and the journal (JournalCodec).  What  *)
(* the code computes in a loop is a function of the round; Loops has the   *)
(* induction.                                                              *)
(***************************************************************************)
EXTENDS ProviderMove, ManifestMerge, JournalCodec, FiniteSetTheorems, Loops, TLAPS

(***************************************************************************)
(* Numbers and loops.                                                      *)
(***************************************************************************)
\* A set of numbers below a bound has a least and a greatest element.
LEMMA Extremes ==
    ASSUME NEW N \in Nat, NEW S \in SUBSET (0..N), S # {}
    PROVE  Min(S) \in S /\ Max(S) \in S /\ \A x \in S : Min(S) <= x /\ x <= Max(S)
<1>1. PICK n \in S : \A m \in S : n <= m
  BY LeastNumber
<1>2. PICK k \in {N - x : x \in S} : \A m \in {N - x : x \in S} : k <= m
  <2>1. {N - x : x \in S} \in SUBSET Nat /\ {N - x : x \in S} # {}
    OBVIOUS
  <2> QED BY <2>1, LeastNumber
<1>3. PICK g \in S : k = N - g
  BY <1>2
<1>4. \A x \in S : x <= g
  <2>1. \A x \in S : k <= N - x
    BY <1>2
  <2>2. g \in 0..N /\ \A x \in S : x \in 0..N
    OBVIOUS
  <2> QED BY <1>3, <2>1, <2>2
<1>5. Min(S) \in S /\ \A x \in S : Min(S) <= x
  BY <1>1 DEF Min
<1>6. Max(S) \in S /\ \A x \in S : Max(S) >= x
  BY <1>4 DEF Max
<1> QED BY <1>5, <1>6

\* A finite set has a greatest element in a total order R.
LEMMA Greatest ==
    ASSUME NEW S, IsFiniteSet(S), S # {}, NEW R,
           \A p, q \in S : p # q => <<p, q>> \in R \/ <<q, p>> \in R,
           \A p, q, r \in S : <<p, q>> \in R /\ <<q, r>> \in R => <<p, r>> \in R
    PROVE  \E p \in S : \A q \in S \ {p} : <<p, q>> \in R
<1>1. PICK n \in Nat : ExistsBijection(1..n, S)
  BY FS_CardinalityType
<1>2. PICK f \in [1..n -> S] : \A x \in S : \E i \in 1..n : f[i] = x
  BY <1>1 DEF ExistsBijection, Bijection, Injection, Surjection
<1> DEFINE Top(p, k) == \A i \in 1..k : f[i] = p \/ <<p, f[i]>> \in R
           P == {k \in Nat : k + 1 <= n => \E p \in S : Top(p, k + 1)}
<1>3. 0 \in P
  <2> SUFFICES ASSUME 1 <= n PROVE \E p \in S : Top(p, 0 + 1)
    OBVIOUS
  <2>1. f[1] \in S /\ Top(f[1], 0 + 1)
    OBVIOUS
  <2> QED BY <2>1
<1>4. ASSUME NEW k \in P PROVE k + 1 \in P
  <2>0. k \in Nat /\ (k + 1) + 1 = k + 2
    OBVIOUS
  <2> SUFFICES ASSUME (k + 1) + 1 <= n PROVE \E p \in S : Top(p, (k + 1) + 1)
    BY SMTT(30), <2>0
  <2>1. k \in Nat /\ k + 1 <= n /\ k + 2 \in 1..n
    BY <2>0
  <2>2. PICK p \in S : Top(p, k + 1)
    BY <2>1
  <2>3. f[k + 2] \in S
    BY <2>1
  <2>4. \A i \in 1..k + 2 : i \in 1..k + 1 \/ i = k + 2
    BY <2>1
  <2>5. CASE f[k + 2] = p \/ <<p, f[k + 2]>> \in R
    <3>1. Top(p, k + 2)
      BY <2>2, <2>4, <2>5
    <3> QED BY <3>1
  <2>6. CASE f[k + 2] # p /\ <<f[k + 2], p>> \in R
    <3>1. ASSUME NEW i \in 1..k + 1 PROVE f[i] = f[k + 2] \/ <<f[k + 2], f[i]>> \in R
      <4>1. f[i] \in S
        BY <2>1
      <4>2. f[i] = p \/ <<p, f[i]>> \in R
        BY <2>2
      <4> QED BY <2>3, <2>6, <4>1, <4>2
    <3>2. Top(f[k + 2], k + 2)
      BY <2>4, <3>1
    <3> QED BY <2>3, <3>2
  <2> QED BY <2>3, <2>5, <2>6
<1>5. P = Nat
  <2> HIDE DEF P
  <2>1. P \in SUBSET Nat
    BY DEF P
  <2> QED BY <1>3, <1>4, <2>1, SetInduction
<1>6. PICK k \in Nat : k + 1 = n
  <2>1. n # 0
    BY <1>2
  <2>2. n - 1 \in Nat /\ (n - 1) + 1 = n
    BY <2>1
  <2> QED BY <2>2
<1>7. PICK p \in S : Top(p, n)
  <2>1. k \in P
    <3> HIDE DEF P
    <3> QED BY <1>5
  <2>2. \E p \in S : Top(p, k + 1)
    BY <1>6, <2>1
  <2> QED BY <1>6, <2>2
<1>8. \A q \in S \ {p} : <<p, q>> \in R
  BY <1>2, <1>7
<1> QED BY <1>8

\* A finite set of integers has a greatest element.
LEMMA FiniteMax ==
    ASSUME NEW S \in SUBSET Int, IsFiniteSet(S), S # {}
    PROVE  Max(S) \in S /\ \A x \in S : x <= Max(S)
<1>1. PICK R : R = {x \in S \X S : x[1] > x[2]}
  OBVIOUS
<1>2. \A p, q \in S : p # q => <<p, q>> \in R \/ <<q, p>> \in R
  BY <1>1
<1>3. \A p, q, r \in S : <<p, q>> \in R /\ <<q, r>> \in R => <<p, r>> \in R
  BY <1>1
<1>4. PICK p \in S : \A q \in S \ {p} : <<p, q>> \in R
  BY <1>2, <1>3, Greatest
<1>5. \A q \in S \ {p} : p > q
  BY <1>1, <1>4
<1>6. \A q \in S : p >= q
  BY <1>5
<1> QED BY <1>6 DEF Max
-----------------------------------------------------------------------------
(***************************************************************************)
(* The cross-provider move.                                                *)
(***************************************************************************)
Places == MvProviders \X MvRefs
WalEntries == [op : {"row", "del"}, row : Places]
LastRow(log) == log[Max(RowEntries(log))].row
MovedTo == <<mvMove.dst, mvMove.ref>>

MoveRecords == [step : {"idle", "copy", "update", "run", "journal", "delete", "mark"},
                src : Places \cup {None}, dst : MvProviders \cup {None},
                ref : MvRefs \cup {None}, log : MvProviders \cup {None}]
SaveRecords == [step : {"idle", "bodies", "manifest", "clear", "flag"},
                todo : SUBSET MvProviders, done : SUBSET MvProviders]

MoveTypes ==
    /\ MvTypeOK
    /\ mvWal \in [MvProviders -> Seq(WalEntries)]
    /\ mvMove \in MoveRecords /\ mvSave \in SaveRecords
    /\ mvNext \in Nat /\ mvLeft \in Nat
    /\ mvOrder \in Orders /\ mvActive \in MvProviders /\ mvSplit \in BOOLEAN

\* Every ref was handed out.
RefsUsed ==
    /\ \A x \in mvBlobs : x[2] < mvNext
    /\ mvRow # None => mvRow[2] < mvNext
    /\ \A p \in MvProviders : mvBody[p] # None => mvBody[p] < mvNext
    /\ \A p \in MvProviders : \A k \in DOMAIN mvWal[p] : mvWal[p][k].row[2] < mvNext

\* What a move has done at each of its steps.  Once it has copied the file, its ref is
\* later than that of any pending delete; once it has logged the row, that is the row the
\* log leaves behind.
MoveFine ==
    /\ mvMove.step # "idle" => mvMove.src \in Places /\ mvMove.dst \in MvProviders
    /\ mvMove.step \in {"copy", "update", "run"} => mvRow = mvMove.src
    /\ mvMove.step \notin {"idle", "copy"} =>
          /\ mvMove.ref \in MvRefs /\ MovedTo \in mvBlobs /\ mvMove.log \in MvProviders
          /\ mvMove.src[2] < mvMove.ref
          /\ \A x \in Pending : x[2] < mvMove.ref
    /\ mvMove.step \in {"journal", "delete", "mark"} => mvRow = MovedTo
    /\ mvMove.step \in {"run", "journal", "delete", "mark"} /\ ~mvSplit =>
          \A p \in MvProviders : RowEntries(mvWal[p]) # {} => LastRow(mvWal[p]) = MovedTo

\* The logs: a delete is logged under its own provider.  While one log holds the updates, the
\* row it leaves behind is not to be deleted.
OneHolds ==
    \A p \in MvProviders : RowEntries(mvWal[p]) # {} =>
        /\ \A q \in MvProviders \ {p} : RowEntries(mvWal[q]) = {}
        /\ LastRow(mvWal[p]) \notin Pending
LogsFine ==
    /\ \A p \in MvProviders : \A k \in DOMAIN mvWal[p] :
          mvWal[p][k].op = "del" => mvWal[p][k].row[1] = p
    /\ ~mvSplit => OneHolds

\* Some blob is later than anything that is to be deleted.
Latest == \E b \in mvBlobs : \A x \in Pending : x[2] < b[2]

\* The inductive invariant.
MoveInd == MoveTypes /\ RefsUsed /\ MoveFine /\ LogsFine /\ Latest /\ SessionReadable
-----------------------------------------------------------------------------
\* What is pending, entry by entry.
LEMMA PendingIs ==
    \A x : x \in Pending <=> \E p \in MvProviders : \E k \in DOMAIN mvWal[p] :
                                mvWal[p][k].op = "del" /\ mvWal[p][k].row = x
BY DEF Pending, ToSet

LEMMA PendingNext ==
    \A x : x \in Pending' <=> \E p \in MvProviders : \E k \in DOMAIN mvWal'[p] :
                                 mvWal'[p][k].op = "del" /\ mvWal'[p][k].row = x
BY DEF Pending, ToSet

\* The updates in a log are at places of it.
LEMMA LastIsRow ==
    ASSUME NEW log \in Seq(WalEntries), RowEntries(log) # {}
    PROVE  /\ Max(RowEntries(log)) \in RowEntries(log) /\ LastRow(log) \in Places
           /\ \A k \in RowEntries(log) : k <= Max(RowEntries(log))
<1>1. RowEntries(log) \in SUBSET (0..Len(log)) /\ Len(log) \in Nat
  BY DEF RowEntries
<1>2. /\ Max(RowEntries(log)) \in RowEntries(log)
      /\ \A k \in RowEntries(log) : k <= Max(RowEntries(log))
  BY <1>1, Extremes
<1>3. log[Max(RowEntries(log))] \in WalEntries
  BY <1>2 DEF RowEntries
<1>4. LastRow(log) \in Places
  BY <1>3 DEF LastRow, WalEntries
<1> QED BY <1>2, <1>4

LEMMA AppendRow ==
    ASSUME NEW log \in Seq(WalEntries), NEW x \in Places
    PROVE  LET new == Append(log, [op |-> "row", row |-> x])
           IN  new \in Seq(WalEntries) /\ RowEntries(new) # {} /\ LastRow(new) = x
<1>1. PICK e : e = [op |-> "row", row |-> x]
  OBVIOUS
<1>2. e \in WalEntries /\ e.op = "row" /\ e.row = x
  BY <1>1 DEF WalEntries
<1>3. PICK new : new = Append(log, e)
  OBVIOUS
<1>4. new \in Seq(WalEntries) /\ Len(new) = Len(log) + 1 /\ new[Len(log) + 1] = e
  BY <1>2, <1>3
<1>5. Len(new) \in RowEntries(new) /\ \A k \in RowEntries(new) : k \in 1..Len(new)
  BY <1>2, <1>4 DEF RowEntries
<1>6. Max(RowEntries(new)) = Len(new)
  BY <1>4, <1>5, LastIsRow
<1> QED BY <1>1, <1>2, <1>3, <1>4, <1>5, <1>6 DEF LastRow

LEMMA AppendDel ==
    ASSUME NEW log \in Seq(WalEntries), NEW x \in Places
    PROVE  LET new == Append(log, [op |-> "del", row |-> x])
           IN  /\ new \in Seq(WalEntries) /\ RowEntries(new) = RowEntries(log)
               /\ RowEntries(log) # {} => LastRow(new) = LastRow(log)
<1>1. PICK e : e = [op |-> "del", row |-> x]
  OBVIOUS
<1>2. e \in WalEntries /\ e.op # "row"
  BY <1>1 DEF WalEntries
<1>3. PICK new : new = Append(log, e)
  OBVIOUS
<1>4. /\ new \in Seq(WalEntries) /\ Len(new) = Len(log) + 1 /\ new[Len(log) + 1] = e
      /\ \A k \in 1..Len(log) : new[k] = log[k]
  BY <1>2, <1>3
<1>5. RowEntries(new) = RowEntries(log)
  BY <1>2, <1>4 DEF RowEntries
<1>6. RowEntries(log) # {} => LastRow(new) = LastRow(log)
  <2>1. RowEntries(log) # {} => Max(RowEntries(log)) \in 1..Len(log)
    BY LastIsRow DEF RowEntries
  <2> QED BY <1>4, <1>5, <2>1 DEF LastRow
<1> QED BY <1>1, <1>3, <1>4, <1>5, <1>6
-----------------------------------------------------------------------------
\* The rows an unlock may come to.
Rows == {x \in Places \cup {None} : x # None => x[2] < mvNext}

LEMMA ReplayedFine ==
    ASSUME MoveInd, NEW x \in Rows, NEW p \in MvProviders
    PROVE  /\ Replayed(x, mvWal[p]) \in Rows
           /\ Replayed(x, mvWal[p]) # x =>
                RowEntries(mvWal[p]) # {} /\ Replayed(x, mvWal[p]) = LastRow(mvWal[p])
<1>1. mvWal[p] \in Seq(WalEntries)
  BY DEF MoveInd, MoveTypes
<1>2. CASE x = None \/ RowEntries(mvWal[p]) = {}
  BY <1>2 DEF Replayed
<1>3. CASE x # None /\ RowEntries(mvWal[p]) # {}
  <2>1. Replayed(x, mvWal[p]) = LastRow(mvWal[p])
    BY <1>3 DEF Replayed, LastRow
  <2>2. LastRow(mvWal[p]) \in Places /\ Max(RowEntries(mvWal[p])) \in DOMAIN mvWal[p]
    BY <1>1, <1>3, LastIsRow DEF RowEntries
  <2>3. LastRow(mvWal[p])[2] < mvNext
    BY <2>2 DEF MoveInd, RefsUsed, LastRow
  <2> QED BY <1>3, <2>1, <2>2, <2>3 DEF Rows
<1> QED BY <1>2, <1>3

\* The loop of the unlock, round by round.
LEMMA RowAfterRounds ==
    ASSUME MoveInd, NEW order \in Orders, NEW row \in Rows
    PROVE  /\ RowAfter(order, row) \in [0..Len(order) -> Rows]
           /\ \A k \in 1..Len(order) :
                RowAfter(order, row)[k] =
                    IF order[k] \in mvFlag THEN Replayed(RowAfter(order, row)[k - 1], mvWal[order[k]])
                    ELSE RowAfter(order, row)[k - 1]
<1>0. PICK N \in Nat : N = Len(order) /\ \A k \in 1..N : order[k] \in MvProviders
  <2>1. Cardinality(MvProviders) \in Nat
    BY MoveAssumption, FS_CardinalityType
  <2> QED BY <2>1 DEF Orders
<1>1. PICK S : S = Rows
  OBVIOUS
<1>2. PICK g : g = [k \in 1..N |-> [x \in S |-> IF order[k] \in mvFlag
                                                 THEN Replayed(x, mvWal[order[k]]) ELSE x]]
  OBVIOUS
<1>3. g \in [1..N -> [S -> S]]
  <2>1. \A k \in 1..N : \A x \in S : Replayed(x, mvWal[order[k]]) \in S
    BY <1>0, <1>1, ReplayedFine
  <2> QED BY <1>2, <2>1
<1>4. PICK f \in [0..N -> S] : f[0] = row /\ \A i \in 1..N : f[i] = g[i][f[i - 1]]
  <2>1. PICK b \in S : b = row
    BY <1>1
  <2>2. \E u : IsRun(u, S, b, N, g)
    <3>1. g \in Rounds(S, N)
      BY <1>3 DEF Rounds
    <3> QED BY <3>1, Iterates
  <2> QED BY <2>1, <2>2 DEF IsRun
<1> DEFINE Eq(h) == h = [k \in 0..Len(order) |->
                            IF k = 0 THEN row
                            ELSE IF order[k] \in mvFlag THEN Replayed(h[k - 1], mvWal[order[k]])
                            ELSE h[k - 1]]
<1>5. Eq(f)
  <2>1. \A k \in 1..N : f[k - 1] \in S
    BY <1>4
  <2>2. \A k \in 1..N : f[k] = IF order[k] \in mvFlag THEN Replayed(f[k - 1], mvWal[order[k]])
                               ELSE f[k - 1]
    BY <1>2, <1>4, <2>1
  <2> QED BY <1>0, <1>4, <2>2
<1>6. PICK h : h = RowAfter(order, row)
  OBVIOUS
<1>7. RowAfter(order, row) = CHOOSE u : Eq(u)
  BY DEF RowAfter
<1>8. Eq(h)
  <2> HIDE DEF Eq
  <2> QED BY <1>5, <1>6, <1>7
<1>9. \A k \in 1..N : h[k] = IF order[k] \in mvFlag THEN Replayed(h[k - 1], mvWal[order[k]])
                             ELSE h[k - 1]
  BY SMTT(30), <1>0, <1>8
<1>10. h \in [0..N -> S]
  <2> DEFINE P == {n \in Nat : n <= N => h[n] \in S}
  <2>1. 0 \in P
    BY <1>0, <1>1, <1>8
  <2>2. ASSUME NEW n \in P PROVE n + 1 \in P
    <3> SUFFICES ASSUME n + 1 <= N PROVE h[n + 1] \in S
      OBVIOUS
    <3>1. n + 1 \in 1..N /\ h[n] \in S /\ (n + 1) - 1 = n
      OBVIOUS
    <3>2. h[n + 1] = IF order[n + 1] \in mvFlag THEN Replayed(h[n], mvWal[order[n + 1]]) ELSE h[n]
      BY <1>9, <3>1
    <3> QED BY <1>0, <1>1, <3>1, <3>2, ReplayedFine
  <2>3. P = Nat
    <3> HIDE DEF P
    <3>1. P \in SUBSET Nat
      BY DEF P
    <3> QED BY <2>1, <2>2, <3>1, SetInduction
  <2>4. \A n \in 0..N : h[n] \in S
    BY <2>3
  <2> QED BY <1>0, <1>8, <2>4
<1> QED BY <1>0, <1>1, <1>6, <1>9, <1>10

\* From one round on the row stays, or is the one that some provider's log leaves.
FromALog(x) == \E p \in MvProviders : RowEntries(mvWal[p]) # {} /\ x = LastRow(mvWal[p])
LEMMA RowFrom ==
    ASSUME MoveInd, NEW order \in Orders, NEW row \in Rows, NEW k \in 1..Len(order)
    PROVE  LET f == RowAfter(order, row)
           IN  f[Len(order)] = f[k] \/ FromALog(f[Len(order)])
<1>0. PICK N \in Nat : N = Len(order) /\ \A i \in 1..N : order[i] \in MvProviders
  <2>1. Cardinality(MvProviders) \in Nat
    BY MoveAssumption, FS_CardinalityType
  <2> QED BY <2>1 DEF Orders
<1>1. PICK f : f = RowAfter(order, row)
  OBVIOUS
<1>2. /\ \A i \in 0..N : f[i] \in Rows
      /\ \A i \in 1..N : f[i] = IF order[i] \in mvFlag THEN Replayed(f[i - 1], mvWal[order[i]])
                                ELSE f[i - 1]
  BY <1>0, <1>1, RowAfterRounds
<1> DEFINE Q(n) == f[k + n] = f[k] \/ FromALog(f[k + n])
           P == {n \in Nat : k + n <= N => Q(n)}
<1>3. 0 \in P
  OBVIOUS
<1>4. ASSUME NEW n \in P PROVE n + 1 \in P
  <2> SUFFICES ASSUME k + (n + 1) <= N PROVE Q(n + 1)
    OBVIOUS
  <2>1. Q(n) /\ k + (n + 1) \in 1..N /\ k + (n + 1) - 1 = k + n /\ k + n \in 0..N
    BY <1>0
  <2>2. f[k + (n + 1)] = f[k + n] \/ f[k + (n + 1)] = Replayed(f[k + n], mvWal[order[k + (n + 1)]])
    BY <1>2, <2>1
  <2>3. CASE f[k + (n + 1)] = f[k + n]
    BY <2>1, <2>3
  <2>4. CASE f[k + (n + 1)] # f[k + n]
    <3>1. PICK x \in Rows : x = f[k + n]
      BY <1>2, <2>1
    <3>2. PICK p \in MvProviders : p = order[k + (n + 1)]
      BY <1>0, <2>1
    <3>3. f[k + (n + 1)] = Replayed(x, mvWal[p]) /\ Replayed(x, mvWal[p]) # x
      BY <2>2, <2>4, <3>1, <3>2
    <3>4. RowEntries(mvWal[p]) # {} /\ Replayed(x, mvWal[p]) = LastRow(mvWal[p])
      BY <3>3, ReplayedFine
    <3>5. FromALog(f[k + (n + 1)])
      BY <3>3, <3>4 DEF FromALog
    <3> QED BY <3>5
  <2> QED BY <2>3, <2>4
<1>5. P = Nat
  <2> HIDE DEF P
  <2>1. P \in SUBSET Nat
    BY DEF P
  <2> QED BY <1>3, <1>4, <2>1, SetInduction
<1>6. PICK n \in Nat : k + n = N
  <2>1. N - k \in Nat /\ k + (N - k) = N
    BY <1>0
  <2> QED BY <2>1
<1>7. Q(n)
  <2>1. n \in P
    BY <1>5
  <2>2. k + n <= N
    BY <1>0, <1>6
  <2> QED BY <2>1, <2>2
<1> QED BY <1>0, <1>1, <1>6, <1>7
-----------------------------------------------------------------------------
LEMMA OrderLength ==
    ASSUME NEW order \in Orders
    PROVE  Len(order) \in Nat /\ DOMAIN order = 1..Len(order)
           /\ \A k \in 1..Len(order) : order[k] \in MvProviders
<1>1. Cardinality(MvProviders) \in Nat
  BY MoveAssumption, FS_CardinalityType
<1> QED BY <1>1 DEF Orders

LEMMA FirstRowFine ==
    ASSUME MoveInd, NEW order \in Orders
    PROVE  FirstRow(order) \in Rows
<1>1. PICK has : has = {k \in DOMAIN order : mvBody[order[k]] # None}
  OBVIOUS
<1>2. CASE has = {}
  BY <1>1, <1>2 DEF FirstRow, Rows
<1>3. CASE has # {}
  <2>1. PICK m : m = Min(has)
    OBVIOUS
  <2>2. m \in has
    <3>1. has \in SUBSET (0..Len(order)) /\ Len(order) \in Nat
      BY <1>1, OrderLength
    <3> QED BY <1>3, <2>1, <3>1, Extremes
  <2>3. order[m] \in MvProviders /\ mvBody[order[m]] # None
    BY <1>1, <2>2, OrderLength
  <2>4. mvBody[order[m]] \in MvRefs /\ mvBody[order[m]] < mvNext
    BY <2>3 DEF MoveInd, MoveTypes, MvTypeOK, RefsUsed
  <2>5. FirstRow(order) = <<order[m], mvBody[order[m]]>>
    BY <1>1, <1>3, <2>1 DEF FirstRow
  <2> QED BY <2>3, <2>4, <2>5 DEF Rows, Places
<1> QED BY <1>2, <1>3

\* An unlock deletes only what a move has logged, and never the blob of the row it comes to:
\* a delete is retried only where the row is elsewhere, and the row that a later log brings
\* is not to be deleted, while one log holds the updates.
LEMMA RecoverFine ==
    ASSUME MoveInd, NEW order \in Orders
    PROVE  LET r == Recover(order, FirstRow(order))
           IN  r.row \in Rows /\ r.del \subseteq Pending /\ (~mvSplit => r.row \notin r.del)
<1>1. PICK r : r = Recover(order, FirstRow(order))
  OBVIOUS
<1>2. PICK row \in Rows : row = FirstRow(order)
  BY FirstRowFine
<1>3. PICK f : f = RowAfter(order, row)
  OBVIOUS
<1>4. PICK N \in Nat : N = Len(order)
  BY OrderLength
<1>5. DOMAIN order = 1..N /\ \A k \in 1..N : order[k] \in MvProviders
  BY <1>4, OrderLength
<1>6. r.row = f[N]
  BY <1>1, <1>2, <1>3, <1>4 DEF Recover
<1>7. r.del = UNION {Reconciled(f[k], order[k]) : k \in {j \in DOMAIN order : order[j] \in mvFlag}}
  BY <1>1, <1>2, <1>3 DEF Recover
<1>8. f[N] \in Rows
  BY <1>3, <1>4, RowAfterRounds
<1>9. ASSUME NEW x \in r.del
      PROVE  x \in Pending /\ \E k \in 1..N : x[1] = order[k] /\ f[k] # None /\ f[k][1] # order[k]
  <2>1. PICK k \in 1..N : x \in Reconciled(f[k], order[k])
    BY <1>5, <1>7
  <2>2. PICK i \in DOMAIN mvWal[order[k]] :
            /\ mvWal[order[k]][i].op = "del" /\ mvWal[order[k]][i].row = x
            /\ DecideReplay(f[k] # None /\ f[k][1] # order[k]) = "Retry"
    BY <2>1 DEF Reconciled, ToSet
  <2>3. f[k] # None /\ f[k][1] # order[k]
    BY <2>2 DEF DecideReplay
  <2>4. x[1] = order[k]
    BY <1>5, <2>2 DEF MoveInd, LogsFine
  <2>5. x \in Pending
    BY <1>5, <2>2, PendingIs
  <2> QED BY <2>3, <2>4, <2>5
<1>10. ~mvSplit => r.row \notin r.del
  <2> SUFFICES ASSUME ~mvSplit, r.row \in r.del PROVE FALSE
    OBVIOUS
  <2>1. PICK k \in 1..N : r.row[1] = order[k] /\ f[k] # None /\ f[k][1] # order[k]
    BY <1>9
  <2>2. f[N] # f[k]
    BY <1>6, <2>1
  <2>3. FromALog(f[N])
    BY <1>3, <1>4, <2>2, RowFrom
  <2>4. f[N] \notin Pending
    BY <2>3 DEF FromALog, MoveInd, LogsFine, OneHolds
  <2> QED BY <1>6, <1>9, <2>4
<1> QED BY <1>1, <1>6, <1>8, <1>9, <1>10
-----------------------------------------------------------------------------
(***************************************************************************)
(* One lemma per action.                                                   *)
(***************************************************************************)
LEMMA MoveStartsWell ==
    ASSUME MoveInit
    PROVE  MoveInd
<1>1. PICK p \in MvProviders :
        /\ mvBlobs = {<<p, 1>>} /\ mvBody = [q \in MvProviders |-> IF q = p THEN 1 ELSE None]
        /\ mvWal = [q \in MvProviders |-> <<>>] /\ mvFlag = {} /\ mvFlagQ = {}
        /\ mvRow = None /\ mvOpen = FALSE /\ mvDirty = {} /\ mvMove = NoMove /\ mvSave = NoSave
        /\ mvAgain = {} /\ mvNext = 2 /\ mvLeft = MvSessions
        /\ mvOrder \in Orders /\ mvActive \in MvProviders /\ mvSplit = FALSE
  BY DEF MoveInit
<1>2. \A q \in MvProviders : mvWal[q] = <<>> /\ RowEntries(mvWal[q]) = {}
  BY <1>1 DEF RowEntries
<1>3. Pending = {}
  BY <1>2, PendingIs
<1>4. MoveTypes
  <2>1. mvWal \in [MvProviders -> Seq(WalEntries)]
    BY <1>1
  <2>2. MvTypeOK
    BY <1>1, MoveAssumption DEF MvTypeOK, NoMove, NoSave
  <2> QED BY <1>1, <2>1, <2>2, MoveAssumption DEF MoveTypes, MoveRecords, SaveRecords, NoMove, NoSave
<1>5. RefsUsed
  BY <1>1, <1>2 DEF RefsUsed
<1>6. MoveFine
  BY <1>1 DEF MoveFine, NoMove
<1>7. LogsFine
  BY <1>2 DEF LogsFine, OneHolds
<1>8. Latest /\ SessionReadable
  BY <1>1, <1>3 DEF Latest, SessionReadable
<1> QED BY <1>4, <1>5, <1>6, <1>7, <1>8 DEF MoveInd

\* A step that leaves the logs alone.
LEMMA LogsSame ==
    ASSUME mvWal' = mvWal, mvSplit' = mvSplit, LogsFine
    PROVE  Pending' = Pending /\ LogsFine'
<1>1. Pending' = Pending
  BY DEF Pending
<1>2. OneHolds' = OneHolds
  BY <1>1 DEF OneHolds, RowEntries, LastRow
<1> QED BY <1>1, <1>2 DEF LogsFine

\* The order and the active provider stay, and so does the history of the logs.
Settled == mvOrder' = mvOrder /\ mvActive' = mvActive /\ mvSplit' = mvSplit

\* setActiveProviderId() changes nothing that matters here.
LEMMA MvSwitchFine ==
    ASSUME MoveInd, NEW p \in MvProviders, MvSwitch(p)
    PROVE  MoveInd'
<1>1. /\ mvWal' = mvWal /\ mvSplit' = mvSplit /\ mvRow' = mvRow /\ mvBlobs' = mvBlobs
      /\ mvNext' = mvNext /\ mvMove' = mvMove /\ mvOpen' = mvOpen /\ mvFound' = mvFound
      /\ mvBody' = mvBody
  BY DEF MvSwitch
<1>2. Pending' = Pending /\ LogsFine'
  BY <1>1, LogsSame DEF MoveInd
<1>3. MoveTypes'
  BY DEF MvSwitch, MoveInd, MoveTypes, MvTypeOK
<1>4. RefsUsed'
  BY <1>1 DEF MoveInd, RefsUsed
<1>5. MoveFine'
  BY <1>1, <1>2 DEF MoveInd, MoveFine, MovedTo
<1>6. Latest' /\ SessionReadable'
  BY <1>1, <1>2 DEF MoveInd, Latest, SessionReadable
<1> QED BY <1>2, <1>3, <1>4, <1>5, <1>6 DEF MoveInd

LEMMA MvStartFine ==
    ASSUME MoveInd, NEW dst \in MvProviders, MvStart(dst)
    PROVE  MoveInd'
<1>1. /\ mvRow \in Places /\ mvMove' = [step |-> "copy", src |-> mvRow, dst |-> dst,
                   ref |-> None, log |-> None]
      /\ mvBlobs' = mvBlobs /\ mvNext' = mvNext /\ mvRow' = mvRow /\ mvOpen' = mvOpen /\ mvOpen
      /\ mvWal' = mvWal /\ Settled /\ mvBody' = mvBody /\ mvFound' = mvFound
  BY DEF MvStart, Settled, mvRest, MoveInd, MoveTypes, MvTypeOK, Places
<1>2. Pending' = Pending /\ LogsFine'
  BY <1>1, LogsSame DEF Settled, MoveInd
<1>3. MoveTypes'
  <2>1. mvMove' \in MoveRecords
    BY <1>1 DEF MoveRecords
  <2>2. MvTypeOK'
    BY <1>1 DEF MvStart, MoveInd, MoveTypes, MvTypeOK
  <2> QED BY <1>1, <2>1, <2>2 DEF MvStart, Settled, mvRest, MoveInd, MoveTypes
<1>4. RefsUsed'
  BY <1>1 DEF MoveInd, RefsUsed
<1>5. MoveFine'
  BY <1>1 DEF MoveFine
<1>6. Latest' /\ SessionReadable'
  BY <1>1, <1>2 DEF MoveInd, Latest, SessionReadable
<1> QED BY <1>2, <1>3, <1>4, <1>5, <1>6 DEF MoveInd

\* The next step of a move, as a record.
NextStep(step, ref, log) ==
    [step |-> step, src |-> mvMove.src, dst |-> mvMove.dst, ref |-> ref, log |-> log]

LEMMA AdvanceIs ==
    ASSUME MoveTypes, NEW ref \in MvRefs \cup {None}, NEW log \in MvProviders \cup {None}, Advance(ref, log)
    PROVE  /\ mvMove' = NextStep(After(mvMove.step), ref, log)
           /\ After(mvMove.step) \in {"update", "run", "journal", "delete", "mark"}
BY DEF MoveTypes, MoveRecords, Advance, After, NextStep

LEMMA AdvancesIs ==
    ASSUME MoveTypes, Advances1
    PROVE  mvMove' = NextStep(After(mvMove.step), mvMove.ref, mvMove.log)
<1>1. PICK ref \in MvRefs \cup {None} : ref = mvMove.ref
  BY DEF MoveTypes, MoveRecords
<1>2. PICK log \in MvProviders \cup {None} : log = mvMove.log
  BY DEF MoveTypes, MoveRecords
<1> QED BY <1>1, <1>2, AdvanceIs DEF Advances1

LEMMA MvCopyFine ==
    ASSUME MoveInd, NEW ok \in BOOLEAN, MvCopy(ok)
    PROVE  MoveInd'
<1>1. /\ mvMove.step = "copy" /\ mvNext \in MvRefs /\ mvNext \in Nat
      /\ mvBlobs' = (IF ok THEN mvBlobs \cup {<<mvMove.dst, mvNext>>} ELSE mvBlobs)
      /\ mvNext' = mvNext + 1 /\ mvRow' = mvRow /\ mvOpen' = mvOpen
      /\ mvWal' = mvWal /\ Settled /\ mvBody' = mvBody /\ mvFound' = mvFound
      /\ mvMove.src \in Places /\ mvMove.dst \in MvProviders /\ mvRow = mvMove.src
  BY DEF MvCopy, Settled, mvRest, MoveInd, MoveTypes, MoveFine
<1>2. Pending' = Pending /\ LogsFine'
  BY <1>1, LogsSame DEF Settled, MoveInd
<1>3. IF ok THEN mvMove' = NextStep("update", mvNext, mvActive) ELSE mvMove' = NoMove
  <2>1. MoveTypes /\ mvActive \in MvProviders
    BY DEF MoveInd, MoveTypes
  <2>2. ok => Advance(mvNext, mvActive)
    BY DEF MvCopy, CopyThrows
  <2>3. ok => mvMove' = NextStep(After(mvMove.step), mvNext, mvActive)
    BY <1>1, <2>1, <2>2, AdvanceIs
  <2>4. ~ok => mvMove' = NoMove
    BY DEF MvCopy, CopyThrows
  <2> QED BY <1>1, <2>3, <2>4 DEF After
<1>4. MoveTypes'
  <2>1. mvBlobs' \in SUBSET Places
    BY <1>1 DEF MoveInd, MoveTypes, MvTypeOK, Places
  <2>2. mvMove' \in MoveRecords
    BY <1>1, <1>3 DEF NoMove, NextStep, MoveRecords, MoveInd, MoveTypes
  <2>3. mvOpen
    BY <1>1 DEF MoveInd, MoveTypes, MvTypeOK
  <2>4. mvMove'.step \in {"idle", "copy", "update", "run", "journal", "delete", "mark"}
    BY <1>3 DEF NoMove, NextStep
  <2>5. MvTypeOK'
    BY <1>1, <2>1, <2>3, <2>4 DEF MvCopy, MoveInd, MoveTypes, MvTypeOK, Places
  <2> QED BY <1>1, <2>2, <2>5 DEF MvCopy, Settled, mvRest, MoveInd, MoveTypes
<1>5. RefsUsed'
  <2>1. \A x \in mvBlobs' : x[2] < mvNext'
    <3>1. \A x \in mvBlobs : x[2] \in Nat /\ x[2] < mvNext
      BY MoveAssumption DEF MoveInd, MoveTypes, MvTypeOK, RefsUsed
    <3> QED BY <1>1, <3>1
  <2>2. mvRow' # None => mvRow'[2] < mvNext'
    <3>1. mvRow[2] \in Nat /\ mvRow[2] < mvNext
      BY <1>1, MoveAssumption DEF MoveInd, RefsUsed, Places
    <3> QED BY <1>1, <3>1
  <2>3. \A p \in MvProviders : mvBody'[p] # None => mvBody'[p] < mvNext'
    <3>1. \A p \in MvProviders : mvBody[p] # None => mvBody[p] \in Nat /\ mvBody[p] < mvNext
      BY MoveAssumption DEF MoveInd, MoveTypes, MvTypeOK, RefsUsed
    <3> QED BY <1>1, <3>1
  <2>4. \A p \in MvProviders : \A k \in DOMAIN mvWal'[p] : mvWal'[p][k].row[2] < mvNext'
    <3>1. ASSUME NEW p \in MvProviders, NEW k \in DOMAIN mvWal[p]
          PROVE  mvWal[p][k].row[2] \in Nat /\ mvWal[p][k].row[2] < mvNext
      <4>1. mvWal[p] \in Seq(WalEntries)
        BY DEF MoveInd, MoveTypes
      <4>2. mvWal[p][k] \in WalEntries
        BY <4>1
      <4>3. mvWal[p][k].row \in Places
        BY <4>2 DEF WalEntries
      <4> QED BY <4>3, MoveAssumption DEF MoveInd, RefsUsed, Places
    <3> QED BY <1>1, <3>1
  <2> QED BY <2>1, <2>2, <2>3, <2>4 DEF RefsUsed
<1>6. MoveFine'
  <2>1. CASE ~ok
    BY <1>3, <2>1 DEF MoveFine, NoMove
  <2>2. CASE ok
    <3>1. MovedTo' \in mvBlobs' /\ mvMove'.src[2] < mvMove'.ref /\ mvMove'.ref \in MvRefs
      <4>1. mvMove.src[2] < mvNext
        BY <1>1, MoveAssumption DEF MoveInd, RefsUsed, Places
      <4> QED BY <1>1, <1>3, <2>2, <4>1 DEF MovedTo, NextStep
    <3>2. \A x \in Pending : x[2] < mvNext
      BY PendingIs DEF MoveInd, RefsUsed
    <3>3. mvMove'.log \in MvProviders
      BY <1>3, <2>2 DEF NextStep, MoveInd, MoveTypes
    <3> QED BY <1>1, <1>2, <1>3, <2>2, <3>1, <3>2, <3>3 DEF MoveFine, NextStep
  <2> QED BY <2>1, <2>2
<1>7. Latest' /\ SessionReadable'
  <2>1. mvBlobs \subseteq mvBlobs'
    BY <1>1
  <2> QED BY <1>1, <1>2, <2>1 DEF MoveInd, Latest, SessionReadable
<1> QED BY <1>2, <1>4, <1>5, <1>6, <1>7 DEF MoveInd

\* A step on the logs of one provider.
LEMMA OneLog ==
    ASSUME MoveInd, NEW p \in MvProviders, NEW e \in WalEntries,
           mvWal' = [mvWal EXCEPT ![p] = Append(@, e)]
    PROVE  /\ mvWal' \in [MvProviders -> Seq(WalEntries)]
           /\ mvWal'[p] = Append(mvWal[p], e) /\ mvWal[p] \in Seq(WalEntries)
           /\ \A q \in MvProviders : q # p => mvWal'[q] = mvWal[q]
           /\ \A q \in MvProviders : \A k \in DOMAIN mvWal'[q] :
                 (k \in DOMAIN mvWal[q] /\ mvWal'[q][k] = mvWal[q][k]) \/ (q = p /\ mvWal'[q][k] = e)
           /\ Pending' = IF e.op = "del" THEN Pending \cup {e.row} ELSE Pending
<1>1. mvWal \in [MvProviders -> Seq(WalEntries)] /\ mvWal[p] \in Seq(WalEntries)
  BY DEF MoveInd, MoveTypes
<1>2. mvWal'[p] = Append(mvWal[p], e) /\ \A q \in MvProviders : q # p => mvWal'[q] = mvWal[q]
  BY <1>1
<1>3. PICK log \in Seq(WalEntries) : log = mvWal[p]
  BY <1>1
<1>4. PICK new : new = Append(log, e)
  OBVIOUS
<1>5. /\ new \in Seq(WalEntries) /\ DOMAIN new = 1..Len(log) + 1 /\ DOMAIN log = 1..Len(log)
      /\ new[Len(log) + 1] = e /\ \A k \in 1..Len(log) : new[k] = log[k]
  BY <1>4
<1>6. mvWal' \in [MvProviders -> Seq(WalEntries)]
  BY <1>1, <1>2, <1>3, <1>4, <1>5
<1>7. \A k \in DOMAIN new : (k \in DOMAIN log /\ new[k] = log[k]) \/ new[k] = e
  BY <1>5
<1>8. \A q \in MvProviders : \A k \in DOMAIN mvWal'[q] :
         (k \in DOMAIN mvWal[q] /\ mvWal'[q][k] = mvWal[q][k]) \/ (q = p /\ mvWal'[q][k] = e)
  BY <1>2, <1>3, <1>4, <1>7
<1>9. \A q \in MvProviders : \A k \in DOMAIN mvWal[q] : k \in DOMAIN mvWal'[q] /\ mvWal'[q][k] = mvWal[q][k]
  BY <1>2, <1>3, <1>4, <1>5
<1>10. Len(log) + 1 \in DOMAIN mvWal'[p] /\ mvWal'[p][Len(log) + 1] = e
  BY <1>2, <1>3, <1>4, <1>5
<1>11. Pending' = IF e.op = "del" THEN Pending \cup {e.row} ELSE Pending
  <2>1. ASSUME NEW x \in Pending' PROVE x \in Pending \/ (e.op = "del" /\ x = e.row)
    BY <1>8, PendingIs, PendingNext
  <2>2. Pending \subseteq Pending'
    BY <1>9, PendingIs, PendingNext
  <2>3. e.op = "del" => e.row \in Pending'
    BY <1>10, PendingNext
  <2> QED BY <2>1, <2>2, <2>3
<1> QED BY <1>1, <1>2, <1>6, <1>8, <1>11

LEMMA MvUpdateFine ==
    ASSUME MoveInd, MvUpdate
    PROVE  MoveInd'
<1>1. /\ mvMove.step = "update" /\ mvRow' = mvRow /\ mvRow = mvMove.src
      /\ mvBlobs' = mvBlobs /\ mvNext' = mvNext /\ mvOpen' = mvOpen
      /\ mvBody' = mvBody /\ mvFound' = mvFound
      /\ mvMove.ref \in MvRefs /\ MovedTo \in mvBlobs /\ mvMove.src[2] < mvMove.ref
      /\ \A x \in Pending : x[2] < mvMove.ref
      /\ mvMove.src \in Places /\ mvMove.dst \in MvProviders
  BY DEF MvUpdate, MoveInd, MoveFine
<1>2. mvMove' = NextStep("run", mvMove.ref, mvMove.log)
  BY <1>1, AdvancesIs DEF MvUpdate, MoveInd, After
<1>3. MovedTo \in Places /\ MovedTo' = MovedTo
  BY <1>1, <1>2 DEF MovedTo, Places, NextStep
<1>4. PICK a \in MvProviders : a = mvMove.log
  BY <1>1 DEF MoveInd, MoveFine
<1>5. PICK e : e = [op |-> "row", row |-> MovedTo]
  OBVIOUS
<1>6. e \in WalEntries /\ e.op = "row" /\ e.row = MovedTo
  BY <1>3, <1>5 DEF WalEntries
<1>7. mvWal' = [mvWal EXCEPT ![a] = Append(@, e)]
  BY <1>4, <1>5 DEF MvUpdate, Updated, MovedTo
<1>8. /\ mvWal' \in [MvProviders -> Seq(WalEntries)]
      /\ mvWal'[a] = Append(mvWal[a], e) /\ mvWal[a] \in Seq(WalEntries)
      /\ \A q \in MvProviders : q # a => mvWal'[q] = mvWal[q]
      /\ \A q \in MvProviders : \A k \in DOMAIN mvWal'[q] :
            (k \in DOMAIN mvWal[q] /\ mvWal'[q][k] = mvWal[q][k]) \/ (q = a /\ mvWal'[q][k] = e)
      /\ Pending' = IF e.op = "del" THEN Pending \cup {e.row} ELSE Pending
  BY <1>6, <1>7, OneLog
<1>9. Pending' = Pending
  BY <1>6, <1>8
<1>10. mvSplit' = (\E q \in MvProviders \ {a} : RowEntries(mvWal[q]) # {})
  BY <1>4 DEF MvUpdate
<1>11. MoveTypes'
  <2>1. mvMove' \in MoveRecords
    BY <1>1, <1>2, <1>4 DEF NextStep, MoveRecords
  <2>2. MvTypeOK'
    BY <1>1, <1>2 DEF MvUpdate, MoveInd, MoveTypes, MvTypeOK, NextStep
  <2>3. mvSplit' \in BOOLEAN
    BY <1>10
  <2> QED BY <1>1, <1>8, <2>1, <2>2, <2>3 DEF MvUpdate, MoveInd, MoveTypes
<1>12. RefsUsed'
  <2>1. MovedTo[2] < mvNext
    BY <1>1 DEF MoveInd, RefsUsed
  <2> QED BY <1>1, <1>6, <1>8, <2>1 DEF MoveInd, RefsUsed
<1>13. RowEntries(mvWal'[a]) # {} /\ LastRow(mvWal'[a]) = MovedTo
  BY <1>3, <1>5, <1>8, AppendRow
<1>14. ASSUME ~mvSplit', NEW q \in MvProviders, RowEntries(mvWal'[q]) # {}
       PROVE  q = a
  BY <1>8, <1>10, <1>14
<1>15. MoveFine'
  BY <1>1, <1>2, <1>3, <1>4, <1>9, <1>13, <1>14 DEF MoveFine, NextStep
<1>16. LogsFine'
  <2>1. MovedTo \notin Pending
    <3>1. MovedTo[2] = mvMove.ref /\ mvMove.ref \in Nat
      BY <1>1, MoveAssumption DEF MovedTo
    <3> QED BY <1>1, <3>1
  <2>2. \A p \in MvProviders : \A k \in DOMAIN mvWal'[p] :
            mvWal'[p][k].op = "del" => mvWal'[p][k].row[1] = p
    BY <1>6, <1>8 DEF MoveInd, LogsFine
  <2>3. ~mvSplit' => OneHolds'
    BY <1>9, <1>13, <1>14, <2>1 DEF OneHolds
  <2> QED BY <2>2, <2>3 DEF LogsFine
<1>17. Latest' /\ SessionReadable'
  BY <1>1, <1>9 DEF MoveInd, Latest, SessionReadable
<1> QED BY <1>11, <1>12, <1>15, <1>16, <1>17 DEF MoveInd

LEMMA MvRunFine ==
    ASSUME MoveInd, MvRun
    PROVE  MoveInd'
<1>1. /\ mvMove.step = "run" /\ mvRow' = MovedTo /\ mvWal' = mvWal
      /\ mvBlobs' = mvBlobs /\ mvNext' = mvNext /\ mvOpen' = mvOpen
      /\ Settled /\ mvBody' = mvBody /\ mvFound' = mvFound
      /\ mvMove.ref \in MvRefs /\ MovedTo \in mvBlobs /\ mvMove.log \in MvProviders
      /\ mvMove.src \in Places /\ mvMove.dst \in MvProviders
  BY DEF MvRun, Updated, mvRest, Settled, MoveInd, MoveFine, MovedTo
<1>2. mvMove' = NextStep("journal", mvMove.ref, mvMove.log)
  BY <1>1, AdvancesIs DEF MvRun, MoveInd, After
<1>3. Pending' = Pending /\ LogsFine'
  BY <1>1, LogsSame DEF Settled, MoveInd
<1>4. MovedTo \in Places /\ MovedTo' = MovedTo
  BY <1>1, <1>2 DEF MovedTo, Places, NextStep
<1>5. MoveTypes'
  <2>1. mvMove' \in MoveRecords
    BY <1>1, <1>2 DEF NextStep, MoveRecords
  <2>2. MvTypeOK'
    BY <1>1, <1>2, <1>4 DEF MvRun, MoveInd, MoveTypes, MvTypeOK, NextStep, Places
  <2> QED BY <1>1, <2>1, <2>2 DEF MvRun, mvRest, MoveInd, MoveTypes
<1>6. RefsUsed'
  BY <1>1 DEF MoveInd, RefsUsed
<1>7. MoveFine'
  BY <1>1, <1>2, <1>3, <1>4 DEF MoveInd, MoveFine, NextStep, Settled
<1>8. Latest' /\ SessionReadable'
  BY <1>1, <1>3 DEF MoveInd, Latest, SessionReadable
<1> QED BY <1>3, <1>5, <1>6, <1>7, <1>8 DEF MoveInd

\* Every log that holds an update leaves the row of the move.
LeavesMoved == \A p \in MvProviders : RowEntries(mvWal[p]) # {} => LastRow(mvWal[p]) = MovedTo

LEMMA MvJournalFine ==
    ASSUME MoveInd, NEW ok \in BOOLEAN, MvJournal(ok)
    PROVE  MoveInd'
<1>1. /\ mvMove.step = "journal" /\ mvRow' = mvRow /\ mvRow = MovedTo
      /\ mvBlobs' = mvBlobs /\ mvNext' = mvNext /\ mvOpen' = mvOpen
      /\ Settled /\ mvBody' = mvBody /\ mvFound' = mvFound
      /\ mvMove.ref \in MvRefs /\ MovedTo \in mvBlobs /\ mvMove.src[2] < mvMove.ref
      /\ \A x \in Pending : x[2] < mvMove.ref
      /\ mvMove.src \in Places /\ mvMove.dst \in MvProviders
      /\ mvMove.log \in MvProviders /\ (~mvSplit => LeavesMoved)
  BY DEF MvJournal, MoveInd, MoveFine, LeavesMoved, Settled, mvRest
<1>2. mvMove' = NextStep("delete", mvMove.ref, mvMove.log)
  BY <1>1, AdvancesIs DEF MvJournal, MoveInd, After
<1>3. MovedTo' = MovedTo /\ mvMove.ref \in Nat
  BY <1>1, <1>2, MoveAssumption DEF MovedTo, NextStep
<1>4. PICK src \in Places : src = mvMove.src
  BY <1>1
<1>5. PICK p \in MvProviders : p = src[1]
  BY DEF Places
<1>6. PICK e \in WalEntries : e = [op |-> "del", row |-> src]
  BY DEF WalEntries
<1>7. e.op = "del" /\ e.row = src
  BY <1>6
<1>8. MvTypeOK'
  BY <1>1, <1>2 DEF MvJournal, MoveInd, MoveTypes, MvTypeOK, NextStep
<1>11. mvMove' \in MoveRecords /\ mvLeft' \in Nat /\ mvOrder' \in Orders /\ mvActive' \in MvProviders
       /\ mvSplit' \in BOOLEAN /\ mvSave' \in SaveRecords /\ mvNext' \in Nat
  BY <1>1, <1>2 DEF MvJournal, mvRest, MoveInd, MoveTypes, NextStep, MoveRecords, Settled
<1>9. CASE ~ok
  <2>1. mvWal' = mvWal
    BY <1>9 DEF MvJournal
  <2>2. Pending' = Pending /\ LogsFine'
    BY <1>1, <2>1, LogsSame DEF Settled, MoveInd
  <2>3. MoveTypes'
    BY <1>8, <1>11, <2>1 DEF MoveInd, MoveTypes
  <2>4. RefsUsed'
    BY <1>1, <2>1 DEF MoveInd, RefsUsed
  <2>5. MoveFine'
    BY <1>1, <1>2, <1>3, <2>1, <2>2 DEF MoveFine, NextStep, Settled, LeavesMoved
  <2>6. Latest' /\ SessionReadable'
    BY <1>1, <2>2 DEF MoveInd, Latest, SessionReadable
  <2> QED BY <2>2, <2>3, <2>4, <2>5, <2>6 DEF MoveInd
<1>10. CASE ok
  <2>1. mvWal' = [mvWal EXCEPT ![p] = Append(@, e)]
    BY <1>1, <1>4, <1>5, <1>6, <1>10 DEF MvJournal
  <2>2. /\ mvWal' \in [MvProviders -> Seq(WalEntries)]
        /\ mvWal'[p] = Append(mvWal[p], e) /\ mvWal[p] \in Seq(WalEntries)
        /\ \A q \in MvProviders : q # p => mvWal'[q] = mvWal[q]
        /\ \A q \in MvProviders : \A k \in DOMAIN mvWal'[q] :
              (k \in DOMAIN mvWal[q] /\ mvWal'[q][k] = mvWal[q][k]) \/ (q = p /\ mvWal'[q][k] = e)
        /\ Pending' = Pending \cup {src}
    <3>1. /\ mvWal' \in [MvProviders -> Seq(WalEntries)]
          /\ mvWal'[p] = Append(mvWal[p], e) /\ mvWal[p] \in Seq(WalEntries)
          /\ \A q \in MvProviders : q # p => mvWal'[q] = mvWal[q]
          /\ \A q \in MvProviders : \A k \in DOMAIN mvWal'[q] :
                (k \in DOMAIN mvWal[q] /\ mvWal'[q][k] = mvWal[q][k]) \/ (q = p /\ mvWal'[q][k] = e)
          /\ Pending' = IF e.op = "del" THEN Pending \cup {e.row} ELSE Pending
      BY <2>1, OneLog
    <3> QED BY <1>7, <3>1
  <2>3. \A q \in MvProviders : /\ RowEntries(mvWal'[q]) = RowEntries(mvWal[q])
                               /\ RowEntries(mvWal[q]) # {} => LastRow(mvWal'[q]) = LastRow(mvWal[q])
    <3>1. /\ RowEntries(mvWal'[p]) = RowEntries(mvWal[p])
          /\ RowEntries(mvWal[p]) # {} => LastRow(mvWal'[p]) = LastRow(mvWal[p])
      BY <1>6, <2>2, AppendDel
    <3> QED BY <2>2, <3>1
  <2>4. MoveTypes'
    BY <1>8, <1>11, <2>2 DEF MoveInd, MoveTypes
  <2>5. src[2] < mvNext
    <3>1. mvMove.ref < mvNext
      BY <1>1 DEF MoveInd, RefsUsed, MovedTo
    <3>2. src[2] \in Nat /\ mvNext \in Nat
      BY MoveAssumption DEF Places, MoveInd, MoveTypes
    <3> QED BY <1>1, <1>3, <1>4, <3>1, <3>2
  <2>6. RefsUsed'
    BY <1>1, <1>7, <2>2, <2>5 DEF MoveInd, RefsUsed
  <2>7. \A x \in Pending' : x[2] < mvMove.ref
    BY <1>1, <1>4, <2>2
  <2>8. MoveFine'
    BY <1>1, <1>2, <1>3, <2>3, <2>7 DEF MoveFine, NextStep, Settled, LeavesMoved
  <2>9. MovedTo \notin Pending'
    BY <1>3, <2>7 DEF MovedTo
  <2>10. LogsFine'
    <3>1. \A q \in MvProviders : \A k \in DOMAIN mvWal'[q] :
              mvWal'[q][k].op = "del" => mvWal'[q][k].row[1] = q
      BY <1>5, <1>7, <2>2 DEF MoveInd, LogsFine
    <3>2. ~mvSplit' => OneHolds'
      <4> SUFFICES ASSUME ~mvSplit' PROVE OneHolds'
        OBVIOUS
      <4>1. OneHolds /\ LeavesMoved
        BY <1>1 DEF Settled, MoveInd, LogsFine
      <4> QED BY <2>3, <2>9, <4>1 DEF OneHolds, LeavesMoved
    <3> QED BY <3>1, <3>2 DEF LogsFine
  <2>11. Latest'
    BY <1>1, <2>7 DEF Latest, MovedTo
  <2>12. SessionReadable'
    BY <1>1 DEF MoveInd, SessionReadable
  <2> QED BY <2>4, <2>6, <2>8, <2>10, <2>11, <2>12 DEF MoveInd
<1> QED BY <1>9, <1>10

LEMMA MvDeleteFine ==
    ASSUME MoveInd, NEW ok \in BOOLEAN, MvDelete(ok)
    PROVE  MoveInd'
<1>1. /\ mvMove.step = "delete" /\ mvRow' = mvRow /\ mvRow = MovedTo
      /\ mvBlobs' = (IF ok THEN mvBlobs \ {mvMove.src} ELSE mvBlobs)
      /\ mvNext' = mvNext /\ mvOpen' = mvOpen /\ mvWal' = mvWal
      /\ Settled /\ mvBody' = mvBody /\ mvFound' = mvFound
      /\ mvMove.ref \in MvRefs /\ MovedTo \in mvBlobs /\ mvMove.src[2] < mvMove.ref
      /\ \A x \in Pending : x[2] < mvMove.ref
      /\ mvMove.src \in Places /\ mvMove.dst \in MvProviders
      /\ mvMove.log \in MvProviders /\ (~mvSplit => LeavesMoved)
  BY DEF MvDelete, MoveInd, MoveFine, LeavesMoved, Settled, mvRest
<1>2. mvMove' = NextStep("mark", mvMove.ref, mvMove.log)
  BY <1>1, AdvancesIs DEF MvDelete, MoveInd, After
<1>3. Pending' = Pending /\ LogsFine'
  BY <1>1, LogsSame DEF Settled, MoveInd
<1>4. MovedTo' = MovedTo /\ MovedTo # mvMove.src /\ MovedTo[2] = mvMove.ref
  <2>1. MovedTo' = MovedTo /\ MovedTo[2] = mvMove.ref
    BY <1>2 DEF MovedTo, NextStep
  <2>2. mvMove.ref \in Nat
    BY <1>1, MoveAssumption
  <2>3. mvMove.src[2] # mvMove.ref
    BY <1>1, <2>2
  <2> QED BY <2>1, <2>3
<1>5. MovedTo \in mvBlobs' /\ mvBlobs' \subseteq mvBlobs
  BY <1>1, <1>4
<1>6. MoveTypes'
  <2>1. MvTypeOK'
    BY <1>1, <1>2, <1>5 DEF MvDelete, MoveInd, MoveTypes, MvTypeOK, NextStep
  <2>2. mvMove' \in MoveRecords
    BY <1>1, <1>2 DEF NextStep, MoveRecords
  <2> QED BY <1>1, <2>1, <2>2 DEF MvDelete, mvRest, MoveInd, MoveTypes
<1>7. RefsUsed'
  BY <1>1, <1>5 DEF MoveInd, RefsUsed
<1>8. MoveFine'
  BY <1>1, <1>2, <1>3, <1>4, <1>5 DEF MoveFine, NextStep, Settled, LeavesMoved
<1>9. Latest'
  BY <1>1, <1>3, <1>4, <1>5 DEF Latest
<1>10. SessionReadable'
  BY <1>1, <1>5 DEF SessionReadable
<1> QED BY <1>3, <1>6, <1>7, <1>8, <1>9, <1>10 DEF MoveInd

LEMMA MvMarkFine ==
    ASSUME MoveInd, MvMark
    PROVE  MoveInd'
<1>1. /\ mvMove' = NoMove /\ mvRow' = mvRow /\ mvBlobs' = mvBlobs
      /\ mvNext' = mvNext /\ mvOpen' = mvOpen /\ mvWal' = mvWal
      /\ Settled /\ mvBody' = mvBody /\ mvFound' = mvFound
      /\ mvMove.src \in Places /\ mvMove.dst \in MvProviders
  BY DEF MvMark, Settled, mvRest, MoveInd, MoveFine
<1>2. Pending' = Pending /\ LogsFine'
  BY <1>1, LogsSame DEF Settled, MoveInd
<1>3. MoveTypes'
  <2>1. {mvMove.src[1], mvMove.dst} \in SUBSET MvProviders
    BY <1>1 DEF Places
  <2>2. mvDirty' \in SUBSET MvProviders /\ mvFlagQ' \in SUBSET MvProviders /\ mvAgain' \in SUBSET MvProviders
    BY <2>1 DEF MvMark, MoveInd, MoveTypes, MvTypeOK
  <2>3. MvTypeOK'
    BY <1>1, <2>2 DEF MvMark, MoveInd, MoveTypes, MvTypeOK, NoMove
  <2>4. mvMove' \in MoveRecords
    BY <1>1 DEF NoMove, MoveRecords
  <2> QED BY <1>1, <2>3, <2>4 DEF MvMark, Settled, mvRest, MoveInd, MoveTypes
<1>4. RefsUsed'
  BY <1>1 DEF MoveInd, RefsUsed
<1>5. MoveFine'
  BY <1>1 DEF MoveFine, NoMove
<1>6. Latest' /\ SessionReadable'
  BY <1>1, <1>2 DEF MoveInd, Latest, SessionReadable
<1> QED BY <1>2, <1>3, <1>4, <1>5, <1>6 DEF MoveInd

\* The steps on flags and bodies leave the logs, the row and the blobs alone.
LEMMA FlagsAndBodies ==
    ASSUME MoveInd, MvTypeOK', mvWal' = mvWal, Settled, mvRow' = mvRow,
           mvBlobs' = mvBlobs, mvNext' = mvNext, mvLeft' = mvLeft, mvMove' = mvMove,
           mvOpen' = mvOpen, mvFound' = mvFound,
           mvSave' \in SaveRecords,
           \A p \in MvProviders : mvBody'[p] # None => mvBody'[p] < mvNext
    PROVE  MoveInd'
<1>1. Pending' = Pending /\ LogsFine'
  BY LogsSame DEF Settled, MoveInd
<1>2. MoveTypes'
  BY DEF Settled, MoveInd, MoveTypes
<1>3. RefsUsed'
  BY DEF MoveInd, RefsUsed
<1>4. MoveFine'
  BY <1>1 DEF Settled, MoveInd, MoveFine, MovedTo
<1>5. Latest' /\ SessionReadable'
  BY <1>1 DEF MoveInd, Latest, SessionReadable
<1> QED BY <1>1, <1>2, <1>3, <1>4, <1>5 DEF MoveInd

LEMMA MvFlagCommitsFine ==
    ASSUME MoveInd, NEW p \in MvProviders, MvFlagCommits(p)
    PROVE  MoveInd'
<1>1. MvTypeOK'
  BY DEF MvFlagCommits, MoveInd, MoveTypes, MvTypeOK
<1> QED BY <1>1, FlagsAndBodies DEF MvFlagCommits, Settled, mvRest, MoveInd, MoveTypes, RefsUsed

LEMMA MvSaveStartFine ==
    ASSUME MoveInd, MvSaveStart
    PROVE  MoveInd'
<1>1. mvSave' \in SaveRecords
  BY DEF MvSaveStart, MoveInd, MoveTypes, MvTypeOK, SaveRecords
<1>2. MvTypeOK'
  BY <1>1 DEF MvSaveStart, MoveInd, MoveTypes, MvTypeOK
<1> QED BY <1>1, <1>2, FlagsAndBodies DEF MvSaveStart, Settled, mvRest, MoveInd, RefsUsed

LEMMA MvSaveBodyFine ==
    ASSUME MoveInd, NEW p \in MvProviders, MvSaveBody(p)
    PROVE  MoveInd'
<1>1. RowOf(p) \in MvRefs \cup {None} /\ (RowOf(p) # None => RowOf(p) < mvNext)
  BY DEF RowOf, MoveInd, MoveTypes, MvTypeOK, RefsUsed
<1>2. mvSave' \in SaveRecords
  BY DEF MvSaveBody, MoveInd, MoveTypes, SaveRecords
<1>3. /\ mvBody' \in [MvProviders -> MvRefs \cup {None}]
      /\ \A q \in MvProviders : mvBody'[q] # None => mvBody'[q] < mvNext
  BY <1>1 DEF MvSaveBody, MoveInd, MoveTypes, MvTypeOK, RefsUsed
<1>4. mvOpen
  BY DEF MvSaveBody, MoveInd, MoveTypes, MvTypeOK
<1>5. MvTypeOK'
  BY <1>2, <1>3, <1>4 DEF MvSaveBody, MoveInd, MoveTypes, MvTypeOK
<1> QED BY <1>2, <1>3, <1>5, FlagsAndBodies DEF MvSaveBody, Settled, mvRest

LEMMA MvManifestFine ==
    ASSUME MoveInd, MvManifest
    PROVE  MoveInd'
<1>1. mvSave' \in SaveRecords
  BY DEF MvManifest, MoveInd, MoveTypes, SaveRecords
<1>2. mvOpen
  BY DEF MvManifest, MoveInd, MoveTypes, MvTypeOK
<1>3. MvTypeOK'
  BY <1>1, <1>2 DEF MvManifest, MoveInd, MoveTypes, MvTypeOK
<1> QED BY <1>1, <1>3, FlagsAndBodies DEF MvManifest, Settled, mvRest, MoveInd, RefsUsed

LEMMA SaveOverFine ==
    ASSUME MoveInd, SaveOver
    PROVE  MoveInd'
<1>1. mvSave' \in SaveRecords
  BY DEF SaveOver, NoSave, SaveRecords
<1>2. MvTypeOK'
  BY <1>1 DEF SaveOver, NoSave, MoveInd, MoveTypes, MvTypeOK, SaveRecords
<1> QED BY <1>1, <1>2, FlagsAndBodies DEF SaveOver, Settled, mvRest, MoveInd, RefsUsed

\* Logs that are emptied or left alone.
LEMMA LogsCleared ==
    ASSUME MoveInd, NEW S \in SUBSET MvProviders, mvSplit' = mvSplit,
           mvWal' = [p \in MvProviders |-> IF p \in S THEN <<>> ELSE mvWal[p]]
    PROVE  /\ mvWal' \in [MvProviders -> Seq(WalEntries)]
           /\ Pending' \subseteq Pending /\ LogsFine'
           /\ \A p \in MvProviders : mvWal'[p] = mvWal[p] \/ RowEntries(mvWal'[p]) = {}
           /\ \A p \in MvProviders : \A k \in DOMAIN mvWal'[p] :
                 k \in DOMAIN mvWal[p] /\ mvWal'[p][k] = mvWal[p][k]
<1>1. mvWal \in [MvProviders -> Seq(WalEntries)]
  BY DEF MoveInd, MoveTypes
<1>2. mvWal' \in [MvProviders -> Seq(WalEntries)]
  BY <1>1
<1>3. \A p \in MvProviders : \A k \in DOMAIN mvWal'[p] :
         k \in DOMAIN mvWal[p] /\ mvWal'[p][k] = mvWal[p][k]
  <2>1. DOMAIN <<>> = {}
    OBVIOUS
  <2> QED BY <2>1
<1>4. Pending' \subseteq Pending
  BY <1>3, PendingIs, PendingNext
<1>5. \A p \in MvProviders : mvWal'[p] = mvWal[p] \/ RowEntries(mvWal'[p]) = {}
  BY DEF RowEntries
<1>6. LogsFine'
  <2>1. \A p \in MvProviders : \A k \in DOMAIN mvWal'[p] :
            mvWal'[p][k].op = "del" => mvWal'[p][k].row[1] = p
    BY <1>3 DEF MoveInd, LogsFine
  <2>2. OneHolds => OneHolds'
    BY <1>4, <1>5 DEF OneHolds
  <2> QED BY <2>1, <2>2 DEF MoveInd, LogsFine
<1> QED BY <1>2, <1>3, <1>4, <1>5, <1>6

\* Phase 5: the log of one provider goes, then its flag.
LEMMA MvClearWalFine ==
    ASSUME MoveInd, NEW p \in MvProviders, MvClearWal(p)
    PROVE  MoveInd'
<1>1. /\ mvRow' = mvRow /\ mvBlobs' = mvBlobs /\ mvNext' = mvNext /\ mvOpen' = mvOpen
      /\ Settled /\ mvBody' = mvBody /\ mvFound' = mvFound /\ mvMove' = mvMove
      /\ mvLeft' = mvLeft
  BY DEF MvClearWal, Settled, mvRest
<1>2. PICK S \in SUBSET MvProviders : S = {p}
  OBVIOUS
<1>3. mvWal' = [q \in MvProviders |-> IF q \in S THEN <<>> ELSE mvWal[q]]
  BY <1>2 DEF MvClearWal
<1>4. /\ mvWal' \in [MvProviders -> Seq(WalEntries)]
      /\ Pending' \subseteq Pending /\ LogsFine'
      /\ \A q \in MvProviders : mvWal'[q] = mvWal[q] \/ RowEntries(mvWal'[q]) = {}
      /\ \A q \in MvProviders : \A k \in DOMAIN mvWal'[q] :
            k \in DOMAIN mvWal[q] /\ mvWal'[q][k] = mvWal[q][k]
  BY <1>1, <1>3, LogsCleared DEF Settled
<1>5. mvSave' \in SaveRecords
  BY DEF MvClearWal, MoveInd, MoveTypes, SaveRecords
<1>6. MvTypeOK'
  BY <1>1, <1>5 DEF MvClearWal, MoveInd, MoveTypes, MvTypeOK, SaveRecords
<1>7. MoveTypes'
  BY <1>1, <1>4, <1>5, <1>6 DEF Settled, MoveInd, MoveTypes
<1>8. RefsUsed'
  BY <1>1, <1>4 DEF MoveInd, RefsUsed
<1>9. MoveFine'
  BY <1>1, <1>4 DEF Settled, MoveInd, MoveFine, MovedTo
<1>10. Latest' /\ SessionReadable'
  BY <1>1, <1>4 DEF MoveInd, Latest, SessionReadable
<1> QED BY <1>4, <1>7, <1>8, <1>9, <1>10 DEF MoveInd

LEMMA MvClearFlagFine ==
    ASSUME MoveInd, NEW p \in MvProviders, MvClearFlag(p)
    PROVE  MoveInd'
<1>1. mvSave' \in SaveRecords
  BY DEF MvClearFlag, MoveInd, MoveTypes, SaveRecords
<1>2. mvOpen
  BY DEF MvClearFlag, MoveInd, MoveTypes, MvTypeOK
<1>3. MvTypeOK'
  BY <1>1, <1>2 DEF MvClearFlag, MoveInd, MoveTypes, MvTypeOK, SaveRecords
<1> QED BY <1>1, <1>3, FlagsAndBodies DEF MvClearFlag, Settled, mvRest, MoveInd, RefsUsed

LEMMA MvUnlockFine ==
    ASSUME MoveInd, NEW order \in Orders, NEW failed, MvUnlock(order, failed)
    PROVE  MoveInd' /\ (~mvSplit => (mvRow' \in mvBlobs => mvRow' \in mvBlobs'))
<1>1. PICK r : r = Recover(order, FirstRow(order))
  OBVIOUS
<1>2. r.row \in Rows /\ r.del \subseteq Pending /\ (~mvSplit => r.row \notin r.del)
  BY <1>1, RecoverFine
<1>3. /\ ~mvOpen /\ mvOpen' = TRUE /\ mvRow' = r.row /\ mvLeft' = mvLeft - 1 /\ mvLeft > 0
      /\ mvBlobs' = mvBlobs \ (r.del \ failed)
      /\ mvWal' = [p \in MvProviders |-> IF p \in mvFlag THEN <<>> ELSE mvWal[p]]
      /\ mvFlag' = {} /\ mvFound' = (r.row \in mvBlobs')
      /\ mvNext' = mvNext /\ Settled /\ mvBody' = mvBody /\ mvMove' = mvMove
      /\ mvSave' = mvSave
  BY <1>1 DEF MvUnlock, Settled
<1>4. PICK S \in SUBSET MvProviders : S = mvFlag
  BY DEF MoveInd, MoveTypes, MvTypeOK
<1>5. /\ mvWal' \in [MvProviders -> Seq(WalEntries)]
      /\ Pending' \subseteq Pending /\ LogsFine'
      /\ \A p \in MvProviders : mvWal'[p] = mvWal[p] \/ RowEntries(mvWal'[p]) = {}
      /\ \A p \in MvProviders : \A k \in DOMAIN mvWal'[p] :
            k \in DOMAIN mvWal[p] /\ mvWal'[p][k] = mvWal[p][k]
  <2>1. mvWal' = [p \in MvProviders |-> IF p \in S THEN <<>> ELSE mvWal[p]]
    BY <1>3, <1>4
  <2> QED BY <1>3, <2>1, LogsCleared DEF Settled
<1>6. MvTypeOK'
  BY <1>2, <1>3 DEF MvUnlock, MoveInd, MoveTypes, MvTypeOK, Rows, Places
<1>7. MoveTypes'
  BY <1>3, <1>5, <1>6 DEF Settled, MoveInd, MoveTypes
<1>8. RefsUsed'
  BY <1>2, <1>3, <1>5 DEF MoveInd, RefsUsed, Rows
<1>9. MoveFine'
  <2>1. mvMove'.step = "idle"
    BY <1>3 DEF MoveInd, MoveTypes, MvTypeOK
  <2> QED BY <2>1 DEF MoveFine
<1>10. Latest'
  <2>1. PICK b \in mvBlobs : \A x \in Pending : x[2] < b[2]
    BY DEF MoveInd, Latest
  <2>2. b[2] \in Nat
    BY MoveAssumption DEF MoveInd, MoveTypes, MvTypeOK
  <2>3. b \notin Pending
    BY <2>1, <2>2
  <2>4. b \in mvBlobs'
    BY <1>2, <1>3, <2>3
  <2> QED BY <1>5, <2>1, <2>4 DEF Latest
<1>11. SessionReadable' /\ (~mvSplit => (mvRow' \in mvBlobs => mvRow' \in mvBlobs'))
  BY <1>2, <1>3 DEF SessionReadable
<1> QED BY <1>5, <1>7, <1>8, <1>9, <1>10, <1>11 DEF MoveInd

LEMMA MvCrashFine ==
    ASSUME MoveInd, MvCrash
    PROVE  MoveInd'
<1>1. /\ mvOpen' = FALSE /\ mvRow' = None /\ mvMove' = NoMove /\ mvSave' = NoSave
      /\ mvBlobs' = mvBlobs /\ mvBody' = mvBody /\ mvWal' = mvWal /\ mvNext' = mvNext
      /\ mvLeft' = mvLeft /\ Settled
  BY DEF MvCrash, Settled, mvRest
<1>2. Pending' = Pending /\ LogsFine'
  BY <1>1, LogsSame DEF Settled, MoveInd
<1>3. MvTypeOK'
  BY <1>1 DEF MvCrash, MoveInd, MoveTypes, MvTypeOK, NoMove, NoSave
<1>4. MoveTypes'
  BY <1>1, <1>3 DEF Settled, MoveInd, MoveTypes, MoveRecords, SaveRecords, NoMove, NoSave
<1>5. RefsUsed'
  BY <1>1 DEF MoveInd, RefsUsed
<1>6. MoveFine'
  BY <1>1 DEF MoveFine, NoMove
<1>7. Latest' /\ SessionReadable'
  BY <1>1, <1>2 DEF MoveInd, Latest, SessionReadable
<1> QED BY <1>2, <1>4, <1>5, <1>6, <1>7 DEF MoveInd

LEMMA MoveStepFine ==
    ASSUME MoveInd, MoveNext
    PROVE  MoveInd' /\ (~mvOpen /\ mvOpen' /\ ~mvSplit => (mvRow' \in mvBlobs => mvRow' \in mvBlobs'))
<1> USE MoveInd
<1> DEFINE Goal ==
      MoveInd' /\ (~mvOpen /\ mvOpen' /\ ~mvSplit => (mvRow' \in mvBlobs => mvRow' \in mvBlobs'))
<1>1. ASSUME NEW p \in MvProviders, MvSwitch(p) \/ MvStart(p) \/ MvFlagCommits(p) \/ MvSaveBody(p)
      PROVE  Goal
  <2>1. mvOpen' = mvOpen
    BY <1>1 DEF MvSwitch, MvStart, MvFlagCommits, MvSaveBody
  <2> QED BY <1>1, <2>1, MvSwitchFine, MvStartFine, MvFlagCommitsFine, MvSaveBodyFine
<1>2. ASSUME NEW p \in MvProviders, MvClearWal(p) \/ MvClearFlag(p) PROVE Goal
  <2>1. mvOpen' = mvOpen
    BY <1>2 DEF MvClearWal, MvClearFlag
  <2> QED BY <1>2, <2>1, MvClearWalFine, MvClearFlagFine
<1>3. ASSUME MvUpdate \/ MvRun \/ MvMark \/ MvSaveStart \/ MvManifest PROVE Goal
  <2>1. mvOpen' = mvOpen
    BY <1>3 DEF MvUpdate, MvRun, MvMark, MvSaveStart, MvManifest
  <2> QED BY <1>3, <2>1, MvUpdateFine, MvRunFine, MvMarkFine, MvSaveStartFine, MvManifestFine
<1>4. ASSUME NEW ok \in BOOLEAN, MvCopy(ok) \/ MvJournal(ok) \/ MvDelete(ok) PROVE Goal
  <2>1. mvOpen' = mvOpen
    BY <1>4 DEF MvCopy, MvJournal, MvDelete
  <2> QED BY <1>4, <2>1, MvCopyFine, MvJournalFine, MvDeleteFine
<1>5. ASSUME MvSaved \/ MvSaveFails \/ MvCrash PROVE Goal
  <2>1. SaveOver \/ MvCrash
    BY <1>5 DEF MvSaved, MvSaveFails
  <2>2. ~mvOpen => ~mvOpen'
    BY <2>1 DEF SaveOver, MvCrash
  <2> QED BY <2>1, <2>2, SaveOverFine, MvCrashFine
<1>6. ASSUME NEW failed, MvUnlock(mvOrder, failed) PROVE Goal
  <2>1. PICK order \in Orders : order = mvOrder
    BY DEF MoveInd, MoveTypes
  <2> QED BY <1>6, <2>1, MvUnlockFine
<1> QED BY <1>1, <1>2, <1>3, <1>4, <1>5, <1>6 DEF MoveNext

LEMMA MoveStutters ==
    ASSUME MoveInd, UNCHANGED moveVars
    PROVE  MoveInd'
<1>1. MvTypeOK'
  BY DEF moveVars, MoveInd, MoveTypes, MvTypeOK
<1> QED BY <1>1, FlagsAndBodies DEF moveVars, Settled, MoveInd, MoveTypes, RefsUsed

\* A cross-provider move never loses the file's content: for any providers, moves, switches,
\* saves, failing calls and crashes, some provider holds a blob of it.  Within a session that
\* opened with a row it could read (mvFound), the row names a blob at every step
\* (crossProviderMove(), the reconciler of the unlock); that a session opens with such a row
\* is not claimed.
THEOREM MoveKeepsFile == MoveSpec => []MoveInv
<1>1. MoveInit => MoveInd
  BY MoveStartsWell
<1>2. MoveInd /\ [MoveNext]_moveVars => MoveInd'
  BY MoveStepFine, MoveStutters
<1>3. MoveInd => MoveInv
  <2>1. Latest => ContentKept
    BY DEF Latest, ContentKept
  <2> QED BY <2>1 DEF MoveInd, MoveTypes, MoveInv
<1> QED BY <1>1, <1>2, <1>3, PTL DEF MoveSpec

\* Unlocking does not delete the blob of the row it opens with, whatever bodies, logs and flags
\* the crash left and whichever deletes fail (decide_replay(), plan_reconcile()), as long as the
\* last update was logged while no other provider's log held one (~mvSplit).
THEOREM UnlockSparesRow == MoveSpec => UnlockKeepsBlob
<1>1. MoveInit => MoveInd
  BY MoveStartsWell
<1>2. MoveInd /\ [MoveNext]_moveVars => MoveInd'
  BY MoveStepFine, MoveStutters
<1>3. MoveInd /\ [MoveNext]_moveVars =>
        [~mvOpen /\ mvOpen' /\ ~mvSplit => (mvRow' \in mvBlobs => mvRow' \in mvBlobs')]_moveVars
  BY MoveStepFine
<1> QED BY <1>1, <1>2, <1>3, PTL DEF MoveSpec, UnlockKeepsBlob
-----------------------------------------------------------------------------
(***************************************************************************)
(* The manifest.                                                           *)
(***************************************************************************)
MEntries == [name : Nat, primary : BOOLEAN, created : Int, updated : Int, tomb : BOOLEAN]
EntryMaps == UNION {[S -> MEntries] : S \in SUBSET MProviders}
Manifests == [version : Nat, es : EntryMaps]

\* No tombstone is primary.
Sound(es) == \A p \in DOMAIN es : es[p].tomb => ~es[p].primary

LEMMA EntryMapIs ==
    \A es : es \in EntryMaps <=> DOMAIN es \in SUBSET MProviders /\ es \in [DOMAIN es -> MEntries]
BY DEF EntryMaps

\* The same entry but for the primary flag, field by field.
Alike(e, f) == e.name = f.name /\ e.created = f.created /\ e.updated = f.updated /\ e.tomb = f.tomb

LEMMA AlikeIs ==
    ASSUME NEW e \in MEntries, NEW f \in MEntries
    PROVE  Alike(e, f) <=> SameButFlag(e, f)
BY DEF MEntries, Alike, SameButFlag

LEMMA FlaggedEntry ==
    ASSUME NEW e \in MEntries, NEW b \in BOOLEAN
    PROVE  LET x == [e EXCEPT !.primary = b]
           IN  x \in MEntries /\ x.primary = b /\ Alike(x, e)
BY DEF MEntries, Alike

\* The claims of a manifest are finitely many.
LEMMA FiniteClaims ==
    ASSUME NEW es \in EntryMaps
    PROVE  /\ Active(es) \subseteq DOMAIN es /\ Primaries(es) \subseteq Active(es)
           /\ IsFiniteSet(Active(es)) /\ IsFiniteSet(Primaries(es))
<1>1. Active(es) \subseteq DOMAIN es /\ Primaries(es) \subseteq Active(es)
  BY DEF Active, Primaries
<1>2. Active(es) \in SUBSET MProviders /\ Primaries(es) \in SUBSET MProviders
  BY <1>1, EntryMapIs
<1>3. IsFiniteSet(MProviders)
  BY ManifestAssumption
<1> QED BY <1>1, <1>2, <1>3, FS_Subset

\* Of the claims one is the latest, of the active entries one is the oldest.
LEMMA WinnerExists ==
    ASSUME NEW es \in EntryMaps, NEW S \in SUBSET DOMAIN es, IsFiniteSet(S), S # {}
    PROVE  /\ \E p \in S : \A q \in S \ {p} :
                 es[p].updated > es[q].updated \/ (es[p].updated = es[q].updated /\ p > q)
           /\ \E p \in S : \A q \in S \ {p} :
                 es[p].created < es[q].created \/ (es[p].created = es[q].created /\ p < q)
<1>1. \A p \in S : p \in Nat /\ es[p].updated \in Int /\ es[p].created \in Int
  <2>1. \A p \in S : es[p] \in MEntries /\ p \in MProviders
    BY EntryMapIs
  <2> QED BY <2>1, ManifestAssumption DEF MEntries
<1>2. PICK u \in [S -> Int] : \A p \in S : u[p] = es[p].updated
  <2>1. [p \in S |-> es[p].updated] \in [S -> Int]
    BY <1>1
  <2> QED BY <2>1
<1>3. PICK c \in [S -> Int] : \A p \in S : c[p] = es[p].created
  <2>1. [p \in S |-> es[p].created] \in [S -> Int]
    BY <1>1
  <2> QED BY <2>1
<1>4. \E p \in S : \A q \in S \ {p} : u[p] > u[q] \/ (u[p] = u[q] /\ p > q)
  <2>1. PICK R : R = {x \in S \X S : u[x[1]] > u[x[2]] \/ (u[x[1]] = u[x[2]] /\ x[1] > x[2])}
    OBVIOUS
  <2>2. \A p, q \in S : <<p, q>> \in R <=> u[p] > u[q] \/ (u[p] = u[q] /\ p > q)
    BY <2>1
  <2>3. \A p, q \in S : p # q => <<p, q>> \in R \/ <<q, p>> \in R
    BY <1>1, <2>2
  <2>4. \A p, q, r \in S : <<p, q>> \in R /\ <<q, r>> \in R => <<p, r>> \in R
    BY <1>1, <2>2
  <2>5. PICK p \in S : \A q \in S \ {p} : <<p, q>> \in R
    BY <2>3, <2>4, Greatest
  <2> QED BY <2>2, <2>5
<1>5. \E p \in S : \A q \in S \ {p} : c[p] < c[q] \/ (c[p] = c[q] /\ p < q)
  <2>1. PICK R : R = {x \in S \X S : c[x[1]] < c[x[2]] \/ (c[x[1]] = c[x[2]] /\ x[1] < x[2])}
    OBVIOUS
  <2>2. \A p, q \in S : <<p, q>> \in R <=> c[p] < c[q] \/ (c[p] = c[q] /\ p < q)
    BY <2>1
  <2>3. \A p, q \in S : p # q => <<p, q>> \in R \/ <<q, p>> \in R
    BY <1>1, <2>2
  <2>4. \A p, q, r \in S : <<p, q>> \in R /\ <<q, r>> \in R => <<p, r>> \in R
    BY <1>1, <2>2
  <2>5. PICK p \in S : \A q \in S \ {p} : <<p, q>> \in R
    BY <2>3, <2>4, Greatest
  <2> QED BY <2>2, <2>5
<1> QED BY <1>2, <1>3, <1>4, <1>5

\* enforce_primary_uniqueness() changes flags only, and leaves one primary unless no entry
\* is active.
LEMMA Enforced ==
    ASSUME NEW es \in EntryMaps, Sound(es)
    PROVE  LET out == EnforcePrimary(es)
           IN  /\ out \in EntryMaps /\ DOMAIN out = DOMAIN es
               /\ \A p \in DOMAIN es : Alike(out[p], es[p])
               /\ Sound(out) /\ Active(out) = Active(es)
               /\ Active(es) = {} \/ Cardinality(Primaries(out)) = 1
<1> DEFINE later(p, q) == es[p].updated > es[q].updated \/ (es[p].updated = es[q].updated /\ p > q)
           older(p, q) == es[p].created < es[q].created \/ (es[p].created = es[q].created /\ p < q)
           winner == IF Primaries(es) # {}
                     THEN CHOOSE p \in Primaries(es) : \A q \in Primaries(es) \ {p} : later(p, q)
                     ELSE CHOOSE p \in Active(es) : \A q \in Active(es) \ {p} : older(p, q)
<1>1. CASE Cardinality(Primaries(es)) = 1 \/ Active(es) = {}
  <2>1. EnforcePrimary(es) = es
    BY <1>1 DEF EnforcePrimary
  <2> QED BY <1>1, <2>1 DEF Alike
<1>2. CASE Cardinality(Primaries(es)) # 1 /\ Active(es) # {}
  <2>1. winner \in Active(es)
    <3>1. CASE Primaries(es) # {}
      <4>1. \E p \in Primaries(es) : \A q \in Primaries(es) \ {p} : later(p, q)
        BY <3>1, FiniteClaims, WinnerExists
      <4> QED BY <3>1, <4>1, FiniteClaims
    <3>2. CASE Primaries(es) = {}
      <4>1. \E p \in Active(es) : \A q \in Active(es) \ {p} : older(p, q)
        BY <1>2, FiniteClaims, WinnerExists
      <4> QED BY <3>2, <4>1
    <3> QED BY <3>1, <3>2
  <2>2. PICK w \in Active(es) : w = winner
    BY <2>1
  <2>3. PICK out : out = EnforcePrimary(es)
    OBVIOUS
  <2>4. out = [p \in DOMAIN es |-> IF p \in Primaries(es) \cup {w}
                                   THEN [es[p] EXCEPT !.primary = (p = w)] ELSE es[p]]
    BY <1>2, <2>2, <2>3 DEF EnforcePrimary
  <2>5. \A p \in DOMAIN es : es[p] \in MEntries /\ p \in MProviders
    BY EntryMapIs
  <2>6. ASSUME NEW p \in DOMAIN es
        PROVE  /\ out[p] \in MEntries /\ Alike(out[p], es[p])
               /\ p \in Primaries(es) \cup {w} => out[p].primary = (p = w)
               /\ p \notin Primaries(es) \cup {w} => out[p] = es[p]
    <3>1. CASE p \in Primaries(es) \cup {w}
      <4>1. PICK e \in MEntries : e = es[p]
        BY <2>5
      <4>2. PICK b \in BOOLEAN : b = (p = w)
        OBVIOUS
      <4>3. out[p] = [e EXCEPT !.primary = b]
        BY <2>4, <3>1, <4>1, <4>2
      <4> QED BY <3>1, <4>1, <4>2, <4>3, FlaggedEntry
    <3>2. CASE p \notin Primaries(es) \cup {w}
      BY <2>4, <2>5, <3>2 DEF Alike
    <3> QED BY <3>1, <3>2
  <2>7. DOMAIN out = DOMAIN es /\ out \in [DOMAIN es -> MEntries]
    BY <2>4, <2>6
  <2>8. out \in EntryMaps
    BY <2>7, EntryMapIs
  <2>9. Active(out) = Active(es)
    BY <2>6, <2>7, Zenon DEF Active, Alike
  <2>10. Primaries(out) = {w}
    <3>1. w \in Primaries(out)
      BY <2>6, <2>7, <2>9, FiniteClaims DEF Primaries
    <3>2. ASSUME NEW p \in Primaries(out), p # w PROVE FALSE
      <4>1. p \in Active(es) /\ p \in DOMAIN es /\ out[p].primary
        BY <2>7, <2>9 DEF Primaries, Active
      <4>2. CASE p \in Primaries(es)
        BY <2>6, <3>2, <4>1, <4>2
      <4>3. CASE p \notin Primaries(es)
        BY <2>6, <3>2, <4>1, <4>3 DEF Primaries
      <4> QED BY <4>2, <4>3
    <3> QED BY <3>1, <3>2
  <2>11. Sound(out)
    <3>1. ASSUME NEW p \in DOMAIN out, out[p].tomb, out[p].primary PROVE FALSE
      <4>1. p \in DOMAIN es /\ es[p].tomb /\ ~es[p].primary
        BY <2>6, <2>7, <3>1 DEF Sound, Alike
      <4>2. p \notin Primaries(es) /\ p # w
        BY <4>1 DEF Primaries, Active
      <4> QED BY <2>6, <3>1, <4>1, <4>2
    <3> QED BY <3>1 DEF Sound
  <2>12. Cardinality(Primaries(out)) = 1
    BY <2>10, FS_Singleton
  <2> QED BY <2>3, <2>6, <2>7, <2>8, <2>9, <2>11, <2>12
<1> QED BY <1>1, <1>2
-----------------------------------------------------------------------------
\* The loop of merge_manifests(), round by round.
JoinOf(u, a, b) ==
    /\ u \in EntryMaps /\ DOMAIN u = DOMAIN a \cup DOMAIN b
    /\ \A p \in DOMAIN a \cup DOMAIN b :
          (p \in DOMAIN a /\ u[p] = a[p]) \/ (p \in DOMAIN b /\ u[p] = b[p])
    /\ \A p \in DOMAIN a : ~EntryIsBetter(a[p], u[p])
    /\ \A p \in DOMAIN b : ~EntryIsBetter(b[p], u[p])

LEMMA JoinedFine ==
    ASSUME NEW a \in EntryMaps, NEW b \in EntryMaps
    PROVE  JoinOf(Joined(a, b), a, b)
<1>1. /\ DOMAIN a \in SUBSET MProviders /\ DOMAIN b \in SUBSET MProviders
      /\ \A p \in DOMAIN a : a[p] \in MEntries
      /\ \A p \in DOMAIN b : b[p] \in MEntries
  BY EntryMapIs
<1>2. PICK j : j = Joined(a, b)
  OBVIOUS
<1>3. j = [p \in DOMAIN a \cup DOMAIN b |->
              IF p \notin DOMAIN a THEN b[p]
              ELSE IF p \in DOMAIN b /\ EntryIsBetter(b[p], a[p]) THEN b[p]
              ELSE a[p]]
  BY <1>2 DEF Joined
<1>4. ASSUME NEW e \in MEntries, NEW w \in MEntries
      PROVE  ~EntryIsBetter(e, e) /\ (EntryIsBetter(e, w) => ~EntryIsBetter(w, e))
  BY DEF EntryIsBetter, MEntries
<1>5. DOMAIN j = DOMAIN a \cup DOMAIN b
  BY <1>3
<1>6. ASSUME NEW p \in DOMAIN a \cup DOMAIN b
      PROVE  (p \in DOMAIN a /\ j[p] = a[p]) \/ (p \in DOMAIN b /\ j[p] = b[p])
  <2>1. j[p] = IF p \notin DOMAIN a THEN b[p]
               ELSE IF p \in DOMAIN b /\ EntryIsBetter(b[p], a[p]) THEN b[p]
               ELSE a[p]
    BY <1>3
  <2> QED BY <2>1, Zenon
<1>7. j \in EntryMaps
  <2>1. j \in [DOMAIN j -> MEntries]
    BY <1>1, <1>3, <1>5, <1>6
  <2> QED BY <1>1, <1>5, <2>1, EntryMapIs
<1>8. \A p \in DOMAIN a : ~EntryIsBetter(a[p], j[p])
  BY <1>1, <1>3, <1>4
<1>9. \A p \in DOMAIN b : ~EntryIsBetter(b[p], j[p])
  BY <1>1, <1>3, <1>4
<1> QED BY <1>2, <1>5, <1>6, <1>7, <1>8, <1>9 DEF JoinOf

LEMMA UnionRounds ==
    ASSUME NEW ms \in Seq(Manifests)
    PROVE  /\ UnionAt(ms) \in [0..Len(ms) -> EntryMaps] /\ UnionAt(ms)[0] = EmptyMap
           /\ \A k \in 1..Len(ms) : UnionAt(ms)[k] = Joined(UnionAt(ms)[k - 1], ms[k].es)
<1>0. PICK N \in Nat : N = Len(ms)
  OBVIOUS
<1>1. \A k \in 1..N : ms[k].es \in EntryMaps
  <2>1. \A k \in 1..N : ms[k] \in Manifests
    BY <1>0
  <2> QED BY <2>1 DEF Manifests
<1>2. PICK S : S = EntryMaps
  OBVIOUS
<1>3. PICK b \in S : b = EmptyMap
  <2>1. EmptyMap \in EntryMaps
    BY EntryMapIs DEF EmptyMap
  <2> QED BY <1>2, <2>1
<1>4. PICK g : g = [k \in 1..N |-> [x \in S |-> Joined(x, ms[k].es)]]
  OBVIOUS
<1>5. g \in Rounds(S, N)
  <2>1. \A k \in 1..N : \A x \in S : Joined(x, ms[k].es) \in S
    BY <1>1, <1>2, JoinedFine DEF JoinOf
  <2> QED BY <1>4, <2>1 DEF Rounds
<1>6. PICK f : IsRun(f, S, b, N, g)
  BY <1>5, Iterates
<1> DEFINE Eq(h) == h = [k \in 0..Len(ms) |-> IF k = 0 THEN EmptyMap ELSE Joined(h[k - 1], ms[k].es)]
<1>7. Eq(f)
  <2>1. f \in [0..N -> S] /\ f[0] = b /\ \A k \in 1..N : f[k] = g[k][f[k - 1]]
    BY <1>6 DEF IsRun
  <2>2. \A k \in 1..N : f[k - 1] \in S
    BY <2>1
  <2>3. \A k \in 1..N : f[k] = Joined(f[k - 1], ms[k].es)
    BY <1>4, <2>1, <2>2
  <2> QED BY <1>0, <1>3, <2>1, <2>3
<1>8. PICK h : h = UnionAt(ms)
  OBVIOUS
<1>9. UnionAt(ms) = CHOOSE u : Eq(u)
  BY DEF UnionAt
<1>10. Eq(h)
  <2> HIDE DEF Eq
  <2> QED BY <1>7, <1>8, <1>9
<1>11. h[0] = EmptyMap /\ \A k \in 1..N : h[k] = Joined(h[k - 1], ms[k].es)
  BY <1>0, <1>10
<1>12. h \in [0..N -> S]
  <2> DEFINE P == {n \in Nat : n <= N => h[n] \in S}
  <2>1. 0 \in P
    BY <1>3, <1>11
  <2>2. ASSUME NEW n \in P PROVE n + 1 \in P
    <3> SUFFICES ASSUME n + 1 <= N PROVE h[n + 1] \in S
      OBVIOUS
    <3>1. n + 1 \in 1..N /\ h[n] \in S /\ (n + 1) - 1 = n
      OBVIOUS
    <3>2. h[n + 1] = Joined(h[n], ms[n + 1].es)
      BY <1>11, <3>1
    <3> QED BY ZenonT(40), <1>1, <1>2, <3>1, <3>2, JoinedFine DEF JoinOf
  <2>3. P = Nat
    <3> HIDE DEF P
    <3>1. P \in SUBSET Nat
      BY DEF P
    <3> QED BY <2>1, <2>2, <3>1, SetInduction
  <2>4. \A n \in 0..N : h[n] \in S
    BY <2>3
  <2> QED BY <1>0, <1>10, <2>4
<1> QED BY <1>0, <1>2, <1>8, <1>11, <1>12

\* What the union of some manifests is: entries of theirs, and none of theirs is better.
UnionOf(u, ms, n) ==
    /\ u \in EntryMaps
    /\ \A p \in DOMAIN u : \E k \in 1..n : p \in DOMAIN ms[k].es /\ u[p] = ms[k].es[p]
    /\ \A k \in 1..n : \A p \in DOMAIN ms[k].es :
          p \in DOMAIN u /\ ~EntryIsBetter(ms[k].es[p], u[p])

LEMMA UnionFine ==
    ASSUME NEW ms \in Seq(Manifests)
    PROVE  UnionOf(Union(ms), ms, Len(ms))
<1>0. PICK N \in Nat : N = Len(ms)
  OBVIOUS
<1>1. \A k \in 1..N : ms[k].es \in EntryMaps
  <2>1. \A k \in 1..N : ms[k] \in Manifests
    BY <1>0
  <2> QED BY <2>1 DEF Manifests
<1>2. PICK h : h = UnionAt(ms)
  OBVIOUS
<1>3. /\ h \in [0..N -> EntryMaps] /\ h[0] = EmptyMap
      /\ \A k \in 1..N : h[k] = Joined(h[k - 1], ms[k].es)
  BY <1>0, <1>2, UnionRounds
<1>4. ASSUME NEW x \in MEntries, NEW y \in MEntries, NEW z \in MEntries,
             ~EntryIsBetter(x, y), ~EntryIsBetter(y, z)
      PROVE  ~EntryIsBetter(x, z)
  BY <1>4 DEF EntryIsBetter, MEntries
<1> DEFINE P == {n \in Nat : n <= N => UnionOf(h[n], ms, n)}
<1>5. 0 \in P
  <2>1. h[0] \in EntryMaps /\ DOMAIN h[0] = {}
    BY <1>3 DEF EmptyMap
  <2>2. UnionOf(h[0], ms, 0)
    BY <2>1 DEF UnionOf
  <2> QED BY <2>2
<1>6. ASSUME NEW n \in P PROVE n + 1 \in P
  <2> SUFFICES ASSUME n + 1 <= N PROVE UnionOf(h[n + 1], ms, n + 1)
    OBVIOUS
  <2>1. n \in Nat /\ n + 1 \in 1..N /\ UnionOf(h[n], ms, n) /\ (n + 1) - 1 = n
    OBVIOUS
  <2>2. PICK a \in EntryMaps : a = h[n]
    BY <1>3, <2>1
  <2>3. PICK b \in EntryMaps : b = ms[n + 1].es
    BY <1>1, <2>1
  <2>4. PICK u : u = Joined(a, b)
    OBVIOUS
  <2>5. h[n + 1] = u
    BY <1>3, <2>1, <2>2, <2>3, <2>4
  <2>6. JoinOf(u, a, b)
    BY <2>4, JoinedFine
  <2>7. \A k \in 1..n + 1 : k \in 1..n \/ k = n + 1
    BY <2>1
  <2>8. \A p \in DOMAIN u : \E k \in 1..n + 1 : p \in DOMAIN ms[k].es /\ u[p] = ms[k].es[p]
    <3>1. ASSUME NEW p \in DOMAIN a PROVE \E k \in 1..n + 1 : p \in DOMAIN ms[k].es /\ a[p] = ms[k].es[p]
      BY <2>1, <2>2 DEF UnionOf
    <3>2. n + 1 \in 1..n + 1
      BY <2>1
    <3> QED BY <2>3, <2>6, <3>1, <3>2 DEF JoinOf
  <2>9. ASSUME NEW k \in 1..n + 1, NEW p \in DOMAIN ms[k].es
        PROVE  p \in DOMAIN u /\ ~EntryIsBetter(ms[k].es[p], u[p])
    <3>1. CASE k = n + 1
      BY <2>3, <2>6, <3>1 DEF JoinOf
    <3>2. CASE k \in 1..n
      <4>1. p \in DOMAIN a /\ ~EntryIsBetter(ms[k].es[p], a[p])
        BY <2>1, <2>2, <3>2 DEF UnionOf
      <4>2. ~EntryIsBetter(a[p], u[p]) /\ p \in DOMAIN u
        BY <2>6, <4>1 DEF JoinOf
      <4>3. ms[k].es[p] \in MEntries /\ a[p] \in MEntries /\ u[p] \in MEntries
        <5>1. ms[k].es \in EntryMaps
          BY <1>1, <2>1, <3>2
        <5> QED BY <2>6, <4>1, <4>2, <5>1, EntryMapIs DEF JoinOf
      <4> QED BY <1>4, <4>1, <4>2, <4>3
    <3> QED BY <2>7, <3>1, <3>2
  <2>10. UnionOf(u, ms, n + 1)
    BY <2>6, <2>8, <2>9 DEF UnionOf, JoinOf
  <2> QED BY <2>5, <2>10
<1>7. P = Nat
  <2> HIDE DEF P
  <2>1. P \in SUBSET Nat
    BY DEF P
  <2> QED BY <1>5, <1>6, <2>1, SetInduction
<1>8. UnionOf(h[N], ms, N)
  BY <1>7
<1> QED BY <1>0, <1>2, <1>8 DEF Union
-----------------------------------------------------------------------------
\* What a manifest is as some device wrote it: one primary, none of them a tombstone, and no
\* stamp later than the clock of one of the devices.
Stamped(es, clock, off) == \A p \in DOMAIN es : \E e \in MDevices : es[p].updated <= clock + off[e]
GoodManifest(m, clock, off) ==
    /\ m \in Manifests /\ Sound(m.es) /\ Stamped(m.es, clock, off)
    /\ Cardinality(Primaries(m.es)) = 1

\* Entries taken from some of the manifests of H, but for the primary flag.
Recombined(es, H) ==
    \A p \in DOMAIN es : \E n \in H : p \in DOMAIN n.es /\ Alike(es[p], n.es[p])

Skew(off) == \A a, b \in MDevices : off[a] - off[b] <= MaxSkew

LEMMA VersionType ==
    ASSUME NEW ms \in Seq(Manifests), Len(ms) > 0
    PROVE  MaxVersion(ms) + 1 \in Nat
<1>1. PICK n \in Nat : n = Len(ms) /\ n > 0
  OBVIOUS
<1>2. \A k \in 1..n : ms[k].version \in Nat
  <2>1. \A k \in 1..n : ms[k] \in Manifests
    BY <1>1
  <2> QED BY <2>1 DEF Manifests
<1>3. PICK T : T = {ms[k].version : k \in 1..n}
  OBVIOUS
<1>4. PICK f : f = [k \in 1..n |-> ms[k].version]
  OBVIOUS
<1>5. f \in Surjection(1..n, T)
  BY <1>3, <1>4 DEF Surjection
<1>6. IsFiniteSet(1..n)
  BY FS_Interval
<1>7. IsFiniteSet(T)
  BY <1>5, <1>6, FS_Surjection
<1>8. T \in SUBSET Int /\ T # {} /\ T \in SUBSET Nat
  <2>1. 1 \in 1..n
    BY <1>1
  <2> QED BY <1>2, <1>3, <2>1
<1>9. Max(T) \in T
  BY <1>7, <1>8, FiniteMax
<1>10. MaxVersion(ms) = Max(T)
  BY <1>1, <1>3 DEF MaxVersion
<1>11. MaxVersion(ms) \in Nat
  BY <1>8, <1>9, <1>10
<1> QED BY <1>11

\* merge_manifests() of manifests as devices wrote them: what it returns is one, or has no
\* active provider; and within the skew allowed it fails for no entry.
LEMMA MergeFine ==
    ASSUME NEW clock \in Int, NEW off \in [MDevices -> Int], NEW d \in MDevices, NEW floor,
           NEW ms \in Seq(Manifests), Len(ms) > 0,
           \A k \in 1..Len(ms) : GoodManifest(ms[k], clock, off)
    PROVE  LET r == MergeManifests(ms, clock + off[d], floor)
           IN  /\ r.m = None \/ (r.m \in Manifests /\ (Active(r.m.es) = {} \/ GoodManifest(r.m, clock, off)))
               /\ Skew(off) => r.err # "entry"
               /\ r.m # None => Recombined(r.m.es, {ms[k] : k \in 1..Len(ms)})
<1>1. PICK u : u = Union(ms)
  OBVIOUS
<1>2. UnionOf(u, ms, Len(ms))
  BY <1>1, UnionFine
<1>3. u \in EntryMaps /\ Sound(u)
  BY <1>2 DEF UnionOf, Sound, GoodManifest
<1>4. Stamped(u, clock, off)
  BY <1>2 DEF UnionOf, Stamped, GoodManifest
<1>5. PICK es : es = EnforcePrimary(u)
  OBVIOUS
<1>6. /\ es \in EntryMaps /\ DOMAIN es = DOMAIN u
      /\ \A p \in DOMAIN u : Alike(es[p], u[p])
      /\ Sound(es) /\ Active(es) = Active(u)
      /\ Active(u) = {} \/ Cardinality(Primaries(es)) = 1
  BY <1>3, <1>5, Enforced
<1>7. Stamped(es, clock, off)
  BY <1>4, <1>6 DEF Stamped, Alike
<1>8. PICK m : m = [version |-> MaxVersion(ms) + 1, es |-> es]
  OBVIOUS
<1>9. m \in Manifests /\ m.es = es
  BY <1>6, <1>8, VersionType DEF Manifests
<1>10. Active(m.es) = {} \/ GoodManifest(m, clock, off)
  BY <1>6, <1>7, <1>9 DEF GoodManifest
<1>11. PICK now \in Int : now = clock + off[d]
  OBVIOUS
<1>12. PICK r : r = MergeManifests(ms, now, floor)
  OBVIOUS
<1>13. r.m = None \/ r.m = m
  BY <1>1, <1>5, <1>8, <1>12 DEF MergeManifests
<1>14. ASSUME Skew(off), NEW x \in EntryMaps, Stamped(x, clock, off) PROVE ~TooNew(x, now)
  <2> SUFFICES ASSUME NEW p \in DOMAIN x PROVE ~(x[p].updated > now + MaxSkew)
    BY DEF TooNew
  <2>1. PICK e \in MDevices : x[p].updated <= clock + off[e]
    BY <1>14 DEF Stamped
  <2>2. off[e] - off[d] <= MaxSkew /\ off[e] \in Int /\ off[d] \in Int /\ MaxSkew \in Int
    BY <1>14, ManifestAssumption DEF Skew
  <2>3. x[p].updated \in Int
    <3>1. x[p] \in MEntries
      BY EntryMapIs
    <3> QED BY <3>1 DEF MEntries
  <2> QED BY <1>11, <2>1, <2>2, <2>3
<1>15. ASSUME Skew(off) PROVE r.err # "entry"
  <2>1. ~TooNew(m.es, now)
    BY <1>6, <1>7, <1>9, <1>14, <1>15
  <2>2. \A k \in 1..Len(ms) : ~TooNew(ms[k].es, now)
    <3>1. \A k \in 1..Len(ms) : ms[k].es \in EntryMaps /\ Stamped(ms[k].es, clock, off)
      BY DEF GoodManifest, Manifests
    <3> QED BY <1>14, <1>15, <3>1
  <2>3. Valid(m, now)
    BY <1>6, <1>9, <2>1 DEF Valid, Sound
  <2>4. m = [version |-> MaxVersion(ms) + 1, es |-> EnforcePrimary(Union(ms))]
    BY <1>1, <1>5, <1>8
  <2>5. r.err = "rollback" \/ r.err = None
    BY <1>12, <2>2, <2>3, <2>4 DEF MergeManifests
  <2> QED BY <2>5, ManifestAssumption
<1>16. Recombined(es, {ms[k] : k \in 1..Len(ms)})
  BY <1>2, <1>6 DEF UnionOf, Recombined
<1> QED BY <1>9, <1>10, <1>11, <1>12, <1>13, <1>15, <1>16
-----------------------------------------------------------------------------
\* The inductive invariant: every manifest on a provider or in a device is a good one.
KeptManifests(st, lo, clock, off) ==
    /\ st \in [MProviders -> Manifests \cup {None}] /\ lo \in [MDevices -> Manifests \cup {None}]
    /\ clock \in Int /\ off \in [MDevices -> Int]
    /\ \A p \in MProviders : st[p] # None => GoodManifest(st[p], clock, off)
    /\ \A d \in MDevices : lo[d] # None => GoodManifest(lo[d], clock, off)

ManifestInd == KeptManifests(stored, local, mclock, offset) /\ NeverShutOut

LEMMA LocalSet ==
    ASSUME NEW st, NEW lo, NEW clock, NEW off, KeptManifests(st, lo, clock, off),
           NEW d \in MDevices, NEW m, m = None \/ GoodManifest(m, clock, off)
    PROVE  KeptManifests(st, [lo EXCEPT ![d] = m], clock, off)
<1>1. m \in Manifests \cup {None}
  BY DEF GoodManifest
<1>2. lo \in [MDevices -> Manifests \cup {None}]
  BY DEF KeptManifests
<1>3. PICK new : new = [lo EXCEPT ![d] = m]
  OBVIOUS
<1>4. new \in [MDevices -> Manifests \cup {None}] /\ new[d] = m /\ \A e \in MDevices \ {d} : new[e] = lo[e]
  BY <1>1, <1>2, <1>3
<1>5. \A e \in MDevices : new[e] # None => GoodManifest(new[e], clock, off)
  <2>1. \A e \in MDevices : lo[e] # None => GoodManifest(lo[e], clock, off)
    BY DEF KeptManifests
  <2> QED BY <1>4, <2>1
<1>6. KeptManifests(st, new, clock, off)
  BY <1>4, <1>5 DEF KeptManifests
<1> QED BY <1>3, <1>6

\* A manifest with one entry replaced; the primary stays what it was.
Replaced(m, p, e) ==
    [version |-> m.version, es |-> [q \in DOMAIN m.es |-> IF q = p THEN e ELSE m.es[q]]]

\* An edit of a manifest leaves its entries as they are, but for flags and what it stamps.
EditOf(r, m, now) ==
    \A q \in DOMAIN r.es : r.es[q].updated = now \/ (q \in DOMAIN m.es /\ Alike(r.es[q], m.es[q]))

LEMMA ReplacedFine ==
    ASSUME NEW clock \in Int, NEW off \in [MDevices -> Int], NEW d \in MDevices,
           NEW m, GoodManifest(m, clock, off), NEW p \in Active(m.es), NEW e \in MEntries,
           e.updated = clock + off[d], e.tomb => ~e.primary,
           e.primary <=> m.es[p].primary
    PROVE  /\ GoodManifest(Replaced(m, p, e), clock, off)
           /\ EditOf(Replaced(m, p, e), m, clock + off[d])
<1>1. PICK es \in EntryMaps : es = m.es
  BY DEF GoodManifest, Manifests
<1>2. PICK new : new = [q \in DOMAIN es |-> IF q = p THEN e ELSE es[q]]
  OBVIOUS
<1>3. p \in DOMAIN es /\ DOMAIN new = DOMAIN es /\ new[p] = e /\ \A q \in DOMAIN es : q # p => new[q] = es[q]
  BY <1>1, <1>2 DEF Active
<1>4. new \in EntryMaps
  <2>1. new \in [DOMAIN new -> MEntries] /\ DOMAIN new \in SUBSET MProviders
    BY <1>2, <1>3, EntryMapIs
  <2> QED BY <2>1, EntryMapIs
<1>5. Sound(new)
  <2>1. Sound(es)
    BY <1>1 DEF GoodManifest
  <2> QED BY <1>3, <2>1 DEF Sound
<1>6. Stamped(new, clock, off)
  <2>1. Stamped(es, clock, off)
    BY <1>1 DEF GoodManifest
  <2>2. e.updated <= clock + off[d]
    OBVIOUS
  <2> QED BY <1>3, <2>1, <2>2 DEF Stamped
<1>7. Primaries(new) = Primaries(es)
  <2>1. ~es[p].tomb
    BY <1>1 DEF Active
  <2>2. ASSUME NEW q \in DOMAIN es PROVE (~new[q].tomb /\ new[q].primary) <=> (~es[q].tomb /\ es[q].primary)
    <3>1. CASE q = p
      BY <1>1, <1>3, <2>1, <3>1, Zenon
    <3>2. CASE q # p
      BY <1>3, <3>2
    <3> QED BY <3>1, <3>2
  <2>3. Primaries(new) = {q \in DOMAIN new : ~new[q].tomb /\ new[q].primary}
    BY DEF Primaries, Active
  <2>4. Primaries(es) = {q \in DOMAIN es : ~es[q].tomb /\ es[q].primary}
    BY DEF Primaries, Active
  <2> QED BY <1>3, <2>2, <2>3, <2>4, Zenon
<1>8. PICK r : r = Replaced(m, p, e)
  OBVIOUS
<1>9. r = [version |-> m.version, es |-> new] /\ m.version \in Nat
  BY <1>1, <1>2, <1>8 DEF Replaced, GoodManifest, Manifests
<1>10. r \in Manifests /\ r.es = new
  BY <1>4, <1>9 DEF Manifests
<1>11. Cardinality(Primaries(es)) = 1
  BY <1>1 DEF GoodManifest
<1>12. GoodManifest(r, clock, off)
  BY <1>5, <1>6, <1>7, <1>10, <1>11 DEF GoodManifest
<1>13. EditOf(r, m, clock + off[d])
  BY <1>1, <1>3, <1>10 DEF EditOf, Alike
<1> QED BY <1>8, <1>12, <1>13

LEMMA RenamedFine ==
    ASSUME NEW clock \in Int, NEW off \in [MDevices -> Int], NEW d \in MDevices,
           NEW m, GoodManifest(m, clock, off), NEW p \in Active(m.es)
    PROVE  /\ GoodManifest(Renamed(m, p, d, clock + off[d]), clock, off)
           /\ EditOf(Renamed(m, p, d, clock + off[d]), m, clock + off[d])
<1>1. PICK now \in Int : now = clock + off[d]
  OBVIOUS
<1>2. m \in Manifests /\ m.es \in EntryMaps /\ p \in DOMAIN m.es
  BY DEF GoodManifest, Manifests, Active
<1>3. m.es[p] \in MEntries /\ d \in Nat
  BY <1>2, EntryMapIs, ManifestAssumption
<1>4. PICK e : e = [m.es[p] EXCEPT !.updated = now, !.name = d]
  OBVIOUS
<1>5. e \in MEntries /\ e.updated = now /\ e.tomb = m.es[p].tomb /\ e.primary = m.es[p].primary
  BY <1>3, <1>4 DEF MEntries
<1>6. Renamed(m, p, d, now) = Replaced(m, p, e)
  <2>1. PICK t \in MEntries : t = [m.es[p] EXCEPT !.updated = now]
    BY <1>3 DEF MEntries
  <2>2. Touch(m, p, now) = Replaced(m, p, t)
    BY <1>2, <2>1, EntryMapIs DEF Touch, Replaced, Manifests
  <2>3. PICK x : x = [q \in DOMAIN m.es |-> IF q = p THEN t ELSE m.es[q]]
    OBVIOUS
  <2>4. x \in EntryMaps /\ p \in DOMAIN x /\ x[p] = t /\ DOMAIN x = DOMAIN m.es
    BY <1>2, <2>3, EntryMapIs
  <2>5. PICK n \in Manifests : n = [version |-> m.version, es |-> x]
    BY <1>2, <2>4 DEF Manifests
  <2>6. Touch(m, p, now) = n /\ n.es = x /\ n.version = m.version
    BY <2>2, <2>3, <2>5 DEF Replaced
  <2>7. e = [t EXCEPT !.name = d]
    BY <1>3, <1>4, <2>1 DEF MEntries
  <2>8. [n EXCEPT !.es[p].name = d] = [version |-> m.version, es |-> [x EXCEPT ![p] = e]]
    BY <2>4, <2>5, <2>6, <2>7 DEF Manifests
  <2>9. [x EXCEPT ![p] = e] = [q \in DOMAIN m.es |-> IF q = p THEN e ELSE m.es[q]]
    BY <2>3, <2>4
  <2> QED BY <2>6, <2>8, <2>9 DEF Renamed, Replaced
<1>7. ~e.tomb
  BY <1>5 DEF Active
<1> QED BY <1>1, <1>5, <1>6, <1>7, ReplacedFine

LEMMA TombstonedFine ==
    ASSUME NEW clock \in Int, NEW off \in [MDevices -> Int], NEW d \in MDevices,
           NEW m, GoodManifest(m, clock, off), NEW p \in Active(m.es), MayTombstone(m, p)
    PROVE  /\ GoodManifest(Tombstoned(m, p, clock + off[d]), clock, off)
           /\ EditOf(Tombstoned(m, p, clock + off[d]), m, clock + off[d])
<1>1. PICK now \in Int : now = clock + off[d]
  OBVIOUS
<1>2. m \in Manifests /\ m.es \in EntryMaps /\ p \in DOMAIN m.es
  BY DEF GoodManifest, Manifests, Active
<1>3. m.es[p] \in MEntries
  BY <1>2, EntryMapIs
<1>4. PICK e : e = [m.es[p] EXCEPT !.tomb = TRUE, !.primary = FALSE, !.updated = now]
  OBVIOUS
<1>5. e \in MEntries /\ e.updated = now /\ e.tomb = TRUE /\ e.primary = FALSE
  BY <1>3, <1>4 DEF MEntries
<1>6. Tombstoned(m, p, now) = Replaced(m, p, e)
  BY <1>2, <1>4, EntryMapIs DEF Tombstoned, Replaced, Manifests
<1>7. ~m.es[p].primary
  BY DEF MayTombstone
<1>8. (e.primary <=> m.es[p].primary) /\ (e.tomb => ~e.primary)
  BY <1>5, <1>7, Zenon
<1> QED BY <1>1, <1>5, <1>6, <1>8, ReplacedFine

LEMMA SetPrimaryFine ==
    ASSUME NEW clock \in Int, NEW off \in [MDevices -> Int], NEW d \in MDevices,
           NEW m, GoodManifest(m, clock, off), NEW p \in Active(m.es)
    PROVE  /\ GoodManifest(SetPrimary(m, p, clock + off[d]), clock, off)
           /\ EditOf(SetPrimary(m, p, clock + off[d]), m, clock + off[d])
<1>1. PICK now \in Int : now = clock + off[d]
  OBVIOUS
<1>2. PICK es \in EntryMaps : es = m.es
  BY DEF GoodManifest, Manifests
<1>3. m \in Manifests /\ p \in DOMAIN es /\ ~es[p].tomb
  BY <1>2 DEF GoodManifest, Active
<1>4. PICK new : new = [q \in DOMAIN es |->
        IF q = p THEN [es[q] EXCEPT !.primary = TRUE, !.updated = now]
        ELSE [es[q] EXCEPT !.primary = FALSE]]
  OBVIOUS
<1>5. ASSUME NEW q \in DOMAIN es
      PROVE  /\ new[q] \in MEntries /\ new[q].tomb = es[q].tomb /\ new[q].primary = (q = p)
             /\ IF q = p THEN new[q].updated = now ELSE Alike(new[q], es[q])
  <2>1. PICK e \in MEntries : e = es[q]
    BY EntryMapIs
  <2>2. CASE q = p
    <3>1. new[q] = [e EXCEPT !.primary = TRUE, !.updated = now]
      BY <1>4, <2>1, <2>2
    <3>2. new[q] \in MEntries /\ new[q].tomb = e.tomb /\ new[q].primary = TRUE /\ new[q].updated = now
      BY <3>1 DEF MEntries
    <3> QED BY <2>1, <2>2, <3>2
  <2>3. CASE q # p
    <3>1. new[q] = [e EXCEPT !.primary = FALSE]
      BY <1>4, <2>1, <2>3
    <3>2. new[q] \in MEntries /\ new[q].tomb = e.tomb /\ new[q].primary = FALSE /\ Alike(new[q], e)
      BY <3>1 DEF MEntries, Alike
    <3> QED BY <2>1, <2>3, <3>2
  <2> QED BY <2>2, <2>3
<1>6. DOMAIN new = DOMAIN es
  BY <1>4
<1>7. new \in EntryMaps
  <2>1. new \in [DOMAIN new -> MEntries] /\ DOMAIN new \in SUBSET MProviders
    BY <1>4, <1>5, EntryMapIs
  <2> QED BY <2>1, EntryMapIs
<1>8. Sound(new)
  <2>1. ASSUME NEW q \in DOMAIN new, new[q].tomb PROVE ~new[q].primary
    <3>1. q # p
      BY <1>3, <1>5, <1>6, <2>1
    <3> QED BY <1>5, <1>6, <3>1
  <2> QED BY <2>1 DEF Sound
<1>9. Stamped(new, clock, off)
  <2>1. Stamped(es, clock, off)
    BY <1>2 DEF GoodManifest
  <2>2. now <= clock + off[d]
    BY <1>1
  <2> QED BY <1>5, <1>6, <2>1, <2>2 DEF Stamped, Alike
<1>10. Primaries(new) = {p}
  <2>1. p \in Primaries(new)
    BY <1>3, <1>5, <1>6 DEF Primaries, Active
  <2>2. ASSUME NEW q \in Primaries(new) PROVE q = p
    BY <1>5, <1>6 DEF Primaries, Active
  <2> QED BY <2>1, <2>2
<1>11. PICK r : r = SetPrimary(m, p, now)
  OBVIOUS
<1>12. r = [version |-> m.version, es |-> new]
  BY <1>2, <1>3, <1>4, <1>11 DEF SetPrimary, Manifests
<1>13. r \in Manifests /\ r.es = new
  BY <1>3, <1>7, <1>12 DEF Manifests
<1>14. GoodManifest(r, clock, off)
  BY <1>8, <1>9, <1>10, <1>13, FS_Singleton DEF GoodManifest
<1>15. EditOf(r, m, now)
  BY <1>2, <1>5, <1>6, <1>13 DEF EditOf
<1> QED BY <1>1, <1>11, <1>14, <1>15

LEMMA AddedFine ==
    ASSUME NEW clock \in Int, NEW off \in [MDevices -> Int], NEW d \in MDevices,
           NEW m, GoodManifest(m, clock, off), NEW p \in MProviders, p \notin DOMAIN m.es
    PROVE  /\ GoodManifest(Added(m, p, d, clock + off[d]), clock, off)
           /\ EditOf(Added(m, p, d, clock + off[d]), m, clock + off[d])
<1>1. PICK now \in Int : now = clock + off[d]
  OBVIOUS
<1>2. PICK es \in EntryMaps : es = m.es
  BY DEF GoodManifest, Manifests
<1>3. m \in Manifests /\ d \in Nat /\ p \notin DOMAIN es
  BY <1>2, ManifestAssumption DEF GoodManifest
<1>4. PICK e : e = Entry(d, FALSE, now)
  OBVIOUS
<1>5. e \in MEntries /\ e.updated = now /\ e.primary = FALSE /\ e.tomb = FALSE
  BY <1>3, <1>4 DEF Entry, MEntries
<1>6. PICK new : new = [x \in DOMAIN es \cup {p} |-> IF x = p THEN e ELSE es[x]]
  OBVIOUS
<1>7. DOMAIN new = DOMAIN es \cup {p} /\ new[p] = e /\ \A q \in DOMAIN es : new[q] = es[q]
  BY <1>3, <1>6
<1>8. new \in EntryMaps
  <2>1. new \in [DOMAIN new -> MEntries] /\ DOMAIN new \in SUBSET MProviders
    BY <1>5, <1>6, <1>7, EntryMapIs
  <2> QED BY <2>1, EntryMapIs
<1>9. Sound(new)
  <2>1. Sound(es)
    BY <1>2 DEF GoodManifest
  <2> QED BY <1>5, <1>7, <2>1 DEF Sound
<1>10. Stamped(new, clock, off)
  <2>1. Stamped(es, clock, off)
    BY <1>2 DEF GoodManifest
  <2>2. now <= clock + off[d]
    BY <1>1
  <2> QED BY <1>5, <1>7, <2>1, <2>2 DEF Stamped
<1>11. Primaries(new) = Primaries(es)
  <2>1. ASSUME NEW q \in Primaries(new) PROVE q \in Primaries(es)
    <3>1. q \in DOMAIN new /\ ~new[q].tomb /\ new[q].primary
      BY DEF Primaries, Active
    <3>2. q # p
      BY <1>5, <1>7, <3>1
    <3> QED BY <1>7, <3>1, <3>2 DEF Primaries, Active
  <2>2. ASSUME NEW q \in Primaries(es) PROVE q \in Primaries(new)
    BY <1>7 DEF Primaries, Active
  <2> QED BY <2>1, <2>2
<1>12. PICK r : r = Added(m, p, d, now)
  OBVIOUS
<1>13. r = [version |-> m.version, es |-> new]
  BY <1>2, <1>3, <1>4, <1>6, <1>12 DEF Added, Put, Manifests
<1>14. r \in Manifests /\ r.es = new
  BY <1>3, <1>8, <1>13 DEF Manifests
<1>15. Cardinality(Primaries(es)) = 1
  BY <1>2 DEF GoodManifest
<1>16. GoodManifest(r, clock, off)
  BY <1>9, <1>10, <1>11, <1>14, <1>15 DEF GoodManifest
<1>17. EditOf(r, m, now)
  BY <1>2, <1>5, <1>7, <1>14 DEF EditOf, Alike
<1> QED BY <1>1, <1>12, <1>16, <1>17
-----------------------------------------------------------------------------
LEMMA ManifestStartsWell ==
    ASSUME MInit
    PROVE  ManifestInd
<1>1. PICK f \in MFirst : f = Min(MFirst)
  <2>1. MFirst \in SUBSET Nat /\ MFirst # {}
    BY ManifestAssumption
  <2>2. PICK n \in MFirst : \A k \in MFirst : n <= k
    BY <2>1, LeastNumber
  <2>3. Min(MFirst) \in MFirst
    BY <2>2 DEF Min
  <2> QED BY <2>3
<1>2. mclock \in Int /\ mclock >= 0
  <2>1. IsFiniteSet(Offsets \cup {0}) /\ Offsets \cup {0} \in SUBSET Int
    BY ManifestAssumption, FS_AddElement
  <2>2. PICK x \in Int : x = Max(Offsets \cup {0}) /\ 0 <= x
    BY <2>1, FiniteMax
  <2> QED BY <2>2 DEF MInit
<1>3. offset \in [MDevices -> Int]
  BY ManifestAssumption DEF MInit
<1>4. PICK d \in MDevices : offset[d] = 0
  BY DEF MInit
<1>5. PICK es : es = [q \in MFirst |-> FirstEntry(q)]
  OBVIOUS
<1>6. ASSUME NEW q \in MFirst
      PROVE  /\ es[q] \in MEntries /\ es[q].updated = 0 /\ es[q].tomb = FALSE
             /\ es[q].primary = (q = f)
  <2>1. PICK b \in BOOLEAN : b = (q = f)
    OBVIOUS
  <2>2. PICK e : e = Entry(0, b, 0)
    OBVIOUS
  <2>3. e \in MEntries /\ e.updated = 0 /\ e.tomb = FALSE /\ e.primary = b
    BY <2>2 DEF Entry, MEntries
  <2>4. es[q] = [e EXCEPT !.created = 0]
    BY <1>1, <1>5, <2>1, <2>2 DEF FirstEntry
  <2>5. es[q] \in MEntries /\ es[q].updated = 0 /\ es[q].tomb = FALSE /\ es[q].primary = b
    BY <2>3, <2>4 DEF MEntries
  <2> QED BY <2>1, <2>5
<1>7. DOMAIN es = MFirst /\ MFirst \in SUBSET MProviders
  BY <1>5, ManifestAssumption
<1>8. es \in EntryMaps
  <2>1. es \in [DOMAIN es -> MEntries]
    BY <1>5, <1>6, <1>7
  <2> QED BY <1>7, <2>1, EntryMapIs
<1>9. Sound(es)
  BY <1>6, <1>7 DEF Sound
<1>10. Stamped(es, mclock, offset)
  <2>1. 0 <= mclock + offset[d]
    BY <1>2, <1>4
  <2> QED BY <1>6, <1>7, <2>1 DEF Stamped
<1>11. Primaries(es) = {f}
  <2>1. f \in Primaries(es)
    BY <1>6, <1>7 DEF Primaries, Active
  <2>2. ASSUME NEW q \in Primaries(es) PROVE q = f
    BY <1>6, <1>7 DEF Primaries, Active
  <2> QED BY <2>1, <2>2
<1>12. PICK m : m = [version |-> 1, es |-> es]
  OBVIOUS
<1>13. m \in Manifests /\ m.es = es
  BY <1>8, <1>12 DEF Manifests
<1>14. GoodManifest(m, mclock, offset)
  BY <1>9, <1>10, <1>11, <1>13, FS_Singleton DEF GoodManifest
<1>15. stored = [p \in MProviders |-> IF p \in MFirst THEN m ELSE None]
  BY <1>5, <1>12 DEF MInit
<1>16. local = [e \in MDevices |-> None] /\ refused = FALSE
  BY DEF MInit
<1>17. KeptManifests(stored, local, mclock, offset)
  BY <1>2, <1>3, <1>13, <1>14, <1>15, <1>16 DEF KeptManifests
<1> QED BY <1>16, <1>17 DEF ManifestInd, NeverShutOut

LEMMA EditedFine ==
    ASSUME ManifestInd, NEW d \in MDevices, NEW m, GoodManifest(m, mclock, offset), Edited(d, m)
    PROVE  ManifestInd'
<1>1. KeptManifests(stored, [local EXCEPT ![d] = m], mclock, offset)
  BY LocalSet DEF ManifestInd
<1> QED BY <1>1 DEF Edited, ManifestInd, NeverShutOut

LEMMA EditsAre ==
    ASSUME ManifestInd, NEW d \in MDevices, NEW p \in MProviders,
           MRename(d, p) \/ MSetPrimary(d, p) \/ MTombstone(d, p) \/ MAdd(d, p)
    PROVE  \E n : GoodManifest(n, mclock, offset) /\ EditOf(n, local[d], Now(d)) /\ Edited(d, n)
<1>1. PICK m : m = local[d]
  OBVIOUS
<1>2. PICK clock \in Int : clock = mclock
  BY DEF ManifestInd, KeptManifests
<1>3. PICK off \in [MDevices -> Int] : off = offset
  BY DEF ManifestInd, KeptManifests
<1>4. GoodManifest(m, clock, off)
  <2>1. local[d] # None
    BY DEF MRename, MSetPrimary, MTombstone, MAdd, CanEdit
  <2> QED BY <1>1, <1>2, <1>3, <2>1 DEF ManifestInd, KeptManifests
<1>5. Now(d) = clock + off[d]
  BY <1>2, <1>3 DEF Now
<1>6. CASE MRename(d, p)
  <2>1. p \in Active(m.es) /\ Edited(d, Renamed(m, p, d, clock + off[d]))
    BY <1>1, <1>5, <1>6 DEF MRename, CanEdit
  <2>2. PICK n : n = Renamed(m, p, d, clock + off[d])
    OBVIOUS
  <2>3. GoodManifest(n, mclock, offset) /\ EditOf(n, local[d], Now(d))
    BY <1>1, <1>2, <1>3, <1>4, <1>5, <2>1, <2>2, RenamedFine
  <2> QED BY <2>1, <2>2, <2>3
<1>7. CASE MSetPrimary(d, p)
  <2>1. p \in Active(m.es) /\ Edited(d, SetPrimary(m, p, clock + off[d]))
    BY <1>1, <1>5, <1>7 DEF MSetPrimary, CanEdit
  <2>2. PICK n : n = SetPrimary(m, p, clock + off[d])
    OBVIOUS
  <2>3. GoodManifest(n, mclock, offset) /\ EditOf(n, local[d], Now(d))
    BY <1>1, <1>2, <1>3, <1>4, <1>5, <2>1, <2>2, SetPrimaryFine
  <2> QED BY <2>1, <2>2, <2>3
<1>8. CASE MTombstone(d, p)
  <2>1. p \in Active(m.es) /\ MayTombstone(m, p) /\ Edited(d, Tombstoned(m, p, clock + off[d]))
    BY <1>1, <1>5, <1>8 DEF MTombstone, CanEdit
  <2>2. PICK n : n = Tombstoned(m, p, clock + off[d])
    OBVIOUS
  <2>3. GoodManifest(n, mclock, offset) /\ EditOf(n, local[d], Now(d))
    BY <1>1, <1>2, <1>3, <1>4, <1>5, <2>1, <2>2, TombstonedFine
  <2> QED BY <2>1, <2>2, <2>3
<1>9. CASE MAdd(d, p)
  <2>1. p \notin DOMAIN m.es /\ Edited(d, Added(m, p, d, clock + off[d]))
    BY <1>1, <1>5, <1>9 DEF MAdd, Locals
  <2>2. PICK n : n = Added(m, p, d, clock + off[d])
    OBVIOUS
  <2>3. GoodManifest(n, mclock, offset) /\ EditOf(n, local[d], Now(d))
    BY <1>1, <1>2, <1>3, <1>4, <1>5, <2>1, <2>2, AddedFine
  <2> QED BY <2>1, <2>2, <2>3
<1> QED BY <1>6, <1>7, <1>8, <1>9

LEMMA EditsFine ==
    ASSUME ManifestInd, NEW d \in MDevices, NEW p \in MProviders,
           MRename(d, p) \/ MSetPrimary(d, p) \/ MTombstone(d, p) \/ MAdd(d, p)
    PROVE  ManifestInd'
BY EditsAre, EditedFine

LEMMA MSaveFine ==
    ASSUME ManifestInd, NEW d \in MDevices, NEW targets \in SUBSET MProviders, MSave(d, targets)
    PROVE  ManifestInd'
<1>1. PICK old \in Manifests : old = local[d]
  BY DEF MSave, ManifestInd, KeptManifests
<1>2. PICK m : m = [old EXCEPT !.version = @ + 1]
  OBVIOUS
<1>3. m \in Manifests /\ m.es = old.es
  BY <1>2 DEF Manifests
<1>4. GoodManifest(m, mclock, offset)
  <2>1. GoodManifest(old, mclock, offset)
    BY <1>1 DEF MSave, ManifestInd, KeptManifests
  <2> QED BY <1>3, <2>1 DEF GoodManifest
<1>5. /\ stored' = [p \in MProviders |-> IF p \in targets THEN m ELSE stored[p]]
      /\ local' = [local EXCEPT ![d] = m] /\ mclock' = mclock /\ offset' = offset /\ refused' = refused
  BY <1>1, <1>2 DEF MSave
<1>6. KeptManifests(stored', local, mclock, offset)
  <2>1. stored' \in [MProviders -> Manifests \cup {None}]
    BY <1>3, <1>5 DEF ManifestInd, KeptManifests
  <2>2. \A p \in MProviders : stored'[p] # None => GoodManifest(stored'[p], mclock, offset)
    BY <1>4, <1>5 DEF ManifestInd, KeptManifests
  <2> QED BY <2>1, <2>2 DEF ManifestInd, KeptManifests
<1>7. KeptManifests(stored', [local EXCEPT ![d] = m], mclock, offset)
  <2>1. PICK st : st = stored'
    OBVIOUS
  <2>2. KeptManifests(st, [local EXCEPT ![d] = m], mclock, offset)
    BY <1>4, <1>6, <2>1, LocalSet
  <2> QED BY <2>1, <2>2
<1> QED BY <1>5, <1>7 DEF ManifestInd, NeverShutOut

LEMMA MTickFine ==
    ASSUME ManifestInd, MTick
    PROVE  ManifestInd'
<1>1. /\ mclock' = mclock + 1 /\ stored' = stored /\ local' = local /\ offset' = offset
      /\ refused' = refused /\ mclock \in Int /\ offset \in [MDevices -> Int]
  BY DEF MTick, ManifestInd, KeptManifests
<1>2. ASSUME NEW m, GoodManifest(m, mclock, offset) PROVE GoodManifest(m, mclock + 1, offset)
  <2>1. m.es \in EntryMaps /\ Stamped(m.es, mclock, offset)
    BY <1>2 DEF GoodManifest, Manifests
  <2>2. \A p \in DOMAIN m.es : m.es[p].updated \in Int
    <3>1. \A p \in DOMAIN m.es : m.es[p] \in MEntries
      BY <2>1, EntryMapIs
    <3> QED BY <3>1 DEF MEntries
  <2>3. Stamped(m.es, mclock + 1, offset)
    <3> SUFFICES ASSUME NEW p \in DOMAIN m.es
                 PROVE  \E e \in MDevices : m.es[p].updated <= mclock + 1 + offset[e]
      BY DEF Stamped
    <3>1. PICK e \in MDevices : m.es[p].updated <= mclock + offset[e]
      BY <2>1 DEF Stamped
    <3>2. offset[e] \in Int /\ m.es[p].updated \in Int
      BY <1>1, <2>2
    <3>3. m.es[p].updated <= mclock + 1 + offset[e]
      BY <1>1, <3>1, <3>2
    <3> QED BY <3>3
  <2> QED BY <1>2, <2>3 DEF GoodManifest
<1>3. KeptManifests(stored, local, mclock + 1, offset)
  BY <1>1, <1>2 DEF ManifestInd, KeptManifests
<1> QED BY <1>1, <1>3 DEF ManifestInd, NeverShutOut

\* The copies of some providers, in an order they may arrive in.
LEMMA ArrivalsAre ==
    ASSUME NEW S \in SUBSET MProviders, NEW a \in Arrivals(S)
    PROVE  /\ a \in Seq(S) /\ Len(a) \in Nat /\ \A x \in S : \E k \in 1..Len(a) : a[k] = x
<1>1. IsFiniteSet(S)
  BY ManifestAssumption, FS_Subset
<1>2. PICK n \in Nat : n = Cardinality(S)
  BY <1>1, FS_CardinalityType
<1>3. a \in [1..n -> S] /\ \A i, j \in 1..n : a[i] = a[j] => i = j
  BY <1>2 DEF Arrivals
<1>4. a \in Seq(S) /\ Len(a) = n
  BY <1>3
<1>5. a \in Injection(1..n, S)
  BY <1>3 DEF Injection, IsInjective
<1>6. Cardinality(1..n) = n
  <2>1. Cardinality(1..n) = IF 1 > n THEN 0 ELSE n - 1 + 1
    BY FS_Interval
  <2> QED BY <2>1
<1>7. a \in Surjection(1..n, S)
  BY <1>1, <1>2, <1>5, <1>6, FS_Injection
<1> QED BY <1>4, <1>7 DEF Surjection

LEMMA MUnlockFine ==
    ASSUME ManifestInd, NEW d \in MDevices, NEW p \in MProviders, stored[p] # None,
           NEW S \in SUBSET MProviders, NEW rest \in Arrivals(S), MUnlock(d, p, rest)
    PROVE  /\ ManifestInd'
           /\ \E m : /\ local' = [local EXCEPT ![d] = m] /\ stored' = stored /\ early' = early
                     /\ m # None => Recombined(m.es, Copies)
<1>1. PICK n \in Nat : n = Len(rest) /\ \A k \in 1..n : rest[k] \in MProviders
  BY ArrivalsAre
<1>2. PICK other : other = [k \in 1..n |-> stored[rest[k]]]
  OBVIOUS
<1>3. PICK ms : ms = <<stored[p]>> \o other
  OBVIOUS
<1>4. \A k \in 1..n : stored[rest[k]] # None
  BY <1>1 DEF MUnlock
<1>5. /\ stored[p] \in Manifests /\ GoodManifest(stored[p], mclock, offset)
      /\ \A k \in 1..n : other[k] \in Manifests /\ GoodManifest(other[k], mclock, offset)
  BY <1>1, <1>2, <1>4 DEF ManifestInd, KeptManifests
<1>6. other \in Seq(Manifests) /\ Len(other) = n
  BY <1>2, <1>5
<1>7. ms \in Seq(Manifests) /\ Len(ms) = n + 1 /\ ms[1] = stored[p]
      /\ \A k \in 2..n + 1 : ms[k] = other[k - 1]
  BY <1>3, <1>5, <1>6
<1>8. \A k \in 1..Len(ms) : GoodManifest(ms[k], mclock, offset)
  <2>1. \A k \in 1..n + 1 : k = 1 \/ (k \in 2..n + 1 /\ k - 1 \in 1..n)
    OBVIOUS
  <2> QED BY <1>5, <1>7, <2>1
<1>9. PICK clock \in Int : clock = mclock
  BY DEF ManifestInd, KeptManifests
<1>10. PICK off \in [MDevices -> Int] : off = offset
  BY DEF ManifestInd, KeptManifests
<1>11. PICK floor : floor = lastSeen[d]
  OBVIOUS
<1>12. PICK r : r = MergeManifests(ms, clock + off[d], floor)
  OBVIOUS
<1>13. /\ r.m = None \/ (r.m \in Manifests /\ (Active(r.m.es) = {} \/ GoodManifest(r.m, clock, off)))
       /\ Skew(off) => r.err # "entry"
       /\ r.m # None => Recombined(r.m.es, {ms[k] : k \in 1..Len(ms)})
  <2>1. Len(ms) > 0
    BY <1>7
  <2>2. \A k \in 1..Len(ms) : GoodManifest(ms[k], clock, off)
    BY <1>8, <1>9, <1>10
  <2> QED BY <1>7, <1>12, <2>1, <2>2, MergeFine
<1>14. PICK m : m = IF Len(ms) = 1 THEN stored[p] ELSE r.m
  OBVIOUS
<1>15. /\ mclock' = mclock /\ offset' = offset /\ stored' = stored /\ early' = early
       /\ IF m # None /\ Active(m.es) # {}
          THEN local' = [local EXCEPT ![d] = m] /\ refused' = refused
          ELSE /\ local' = [local EXCEPT ![d] = None]
               /\ refused' = (refused \/ (m = None /\ r.err = "entry"))
  BY <1>1, <1>2, <1>3, <1>9, <1>10, <1>11, <1>12, <1>14 DEF MUnlock, Now
<1>16. ASSUME m # None, Active(m.es) # {} PROVE ManifestInd'
  <2>1. GoodManifest(m, mclock, offset)
    BY <1>5, <1>9, <1>10, <1>13, <1>14, <1>16
  <2>2. KeptManifests(stored, [local EXCEPT ![d] = m], mclock, offset)
    BY <2>1, LocalSet DEF ManifestInd
  <2>3. /\ local' = [local EXCEPT ![d] = m] /\ refused' = refused
        /\ mclock' = mclock /\ offset' = offset /\ stored' = stored
    BY <1>15, <1>16
  <2> QED BY <2>2, <2>3 DEF ManifestInd, NeverShutOut
<1>17. ASSUME ~(m # None /\ Active(m.es) # {}) PROVE ManifestInd'
  <2>1. KeptManifests(stored, [local EXCEPT ![d] = None], mclock, offset)
    BY LocalSet DEF ManifestInd
  <2>2. Skew(offset) => r.err # "entry"
    BY <1>10, <1>13
  <2>3. NeverShutOut'
    BY <1>15, <1>17, <2>2 DEF ManifestInd, NeverShutOut, Skew
  <2> QED BY <1>15, <1>17, <2>1, <2>3 DEF ManifestInd
<1>18. {ms[k] : k \in 1..Len(ms)} \in SUBSET Copies /\ stored[p] \in Copies
  <2>1. \A k \in 1..n + 1 : k = 1 \/ (k \in 2..n + 1 /\ k - 1 \in 1..n)
    OBVIOUS
  <2>2. stored[p] \in Copies /\ \A k \in 1..n : other[k] \in Copies
    BY <1>1, <1>2, <1>4 DEF Copies
  <2> QED BY <1>7, <2>1, <2>2
<1>19. m # None => Recombined(m.es, Copies)
  BY <1>13, <1>14, <1>18 DEF Recombined, Alike
<1>20. \E x : local' = [local EXCEPT ![d] = x] /\ (x # None => Recombined(x.es, Copies))
  BY <1>15, <1>19
<1> QED BY <1>15, <1>16, <1>17, <1>20

LEMMA ManifestStepFine ==
    ASSUME ManifestInd, MNext
    PROVE  ManifestInd'
<1>1. ASSUME NEW d \in MDevices, NEW p \in {q \in MProviders : stored[q] # None},
             NEW S \in SUBSET {q \in MProviders \ {p} : stored[q] # None},
             NEW rest \in Arrivals(S), MUnlock(d, p, rest)
      PROVE  ManifestInd'
  <2>1. S \in SUBSET MProviders /\ p \in MProviders /\ stored[p] # None
    OBVIOUS
  <2> QED BY <1>1, <2>1, MUnlockFine
<1>2. ASSUME NEW d \in MDevices, NEW p \in MProviders,
             MRename(d, p) \/ MSetPrimary(d, p) \/ MTombstone(d, p) \/ MAdd(d, p)
      PROVE  ManifestInd'
  BY <1>2, EditsFine
<1>3. ASSUME NEW d \in MDevices, NEW T \in SUBSET MProviders, MSave(d, T) PROVE ManifestInd'
  BY <1>3, MSaveFine
<1>4. ASSUME MTick PROVE ManifestInd'
  BY <1>4, MTickFine
<1> QED BY <1>1, <1>2, <1>3, <1>4 DEF MNext

\* The union of all copies, whatever order they arrive in: entries of theirs, and none of
\* theirs is better.
LEMMA StoredUnion ==
    ASSUME ManifestInd, NEW s \in StoredSeqs
    PROVE  LET u == Union(s)
           IN  /\ u \in EntryMaps /\ Sound(u)
               /\ \A p \in DOMAIN u : \E m \in Copies : p \in DOMAIN m.es /\ u[p] = m.es[p]
               /\ \A m \in Copies : \A p \in DOMAIN m.es : p \in DOMAIN u /\ ~EntryIsBetter(m.es[p], u[p])
<1>1. PICK S \in SUBSET MProviders : S = {q \in MProviders : stored[q] # None}
  OBVIOUS
<1>2. PICK a \in Arrivals(S) : s = [k \in DOMAIN a |-> stored[a[k]]]
  BY <1>1 DEF StoredSeqs
<1>3. a \in Seq(S) /\ Len(a) \in Nat /\ \A x \in S : \E k \in 1..Len(a) : a[k] = x
  BY ArrivalsAre
<1>4. PICK n \in Nat : n = Len(a) /\ DOMAIN a = 1..n /\ \A k \in 1..n : a[k] \in S
  BY <1>3
<1>5. \A q \in S : stored[q] \in Manifests /\ Sound(stored[q].es) /\ stored[q] \in Copies
  BY <1>1 DEF ManifestInd, KeptManifests, GoodManifest, Copies
<1>6. /\ s \in Seq(Manifests) /\ Len(s) = n
      /\ \A k \in 1..n : s[k] = stored[a[k]] /\ s[k] \in Copies /\ Sound(s[k].es) /\ s[k] \in Manifests
  BY <1>2, <1>4, <1>5
<1>7. ASSUME NEW m \in Copies PROVE \E i \in 1..n : s[i] = m
  <2>1. PICK q \in S : stored[q] = m
    BY <1>1 DEF Copies
  <2>2. PICK k \in 1..n : a[k] = q
    BY <1>3, <1>4
  <2> QED BY <1>6, <2>1, <2>2
<1>8. PICK u : u = Union(s)
  OBVIOUS
<1>9. UnionOf(u, s, n)
  BY <1>6, <1>8, UnionFine
<1>10. u \in EntryMaps /\ Sound(u)
  BY <1>6, <1>9 DEF UnionOf, Sound
<1>11. \A p \in DOMAIN u : \E m \in Copies : p \in DOMAIN m.es /\ u[p] = m.es[p]
  BY <1>6, <1>9 DEF UnionOf
<1>12. \A m \in Copies : \A p \in DOMAIN m.es : p \in DOMAIN u /\ ~EntryIsBetter(m.es[p], u[p])
  BY <1>7, <1>9 DEF UnionOf
<1> QED BY <1>8, <1>10, <1>11, <1>12

LEMMA CopyTypes ==
    ASSUME ManifestInd, NEW m \in Copies \cup Locals
    PROVE  m \in Manifests /\ m.es \in EntryMaps /\ \A p \in DOMAIN m.es : m.es[p] \in MEntries
<1>1. m \in Manifests
  BY DEF ManifestInd, KeptManifests, Copies, Locals
<1>2. m.es \in EntryMaps
  BY <1>1 DEF Manifests
<1> QED BY <1>1, <1>2, EntryMapIs

\* The merge of all copies has removed what the latest entry for it says is removed.
LEMMA RemovalsStay ==
    ASSUME ManifestInd
    PROVE  RemovalWins
<1> SUFFICES ASSUME NEW s \in StoredSeqs, NEW m \in Copies, NEW p \in DOMAIN m.es, m.es[p].tomb,
                    \A n \in Copies : p \in DOMAIN n.es => n.es[p].updated <= m.es[p].updated
             PROVE  EnforcePrimary(Union(s))[p].tomb
  BY DEF RemovalWins
<1>1. PICK u : u = Union(s)
  OBVIOUS
<1>2. /\ u \in EntryMaps /\ Sound(u)
      /\ \A q \in DOMAIN u : \E n \in Copies : q \in DOMAIN n.es /\ u[q] = n.es[q]
      /\ p \in DOMAIN u /\ ~EntryIsBetter(m.es[p], u[p])
  BY <1>1, StoredUnion
<1>3. u[p].updated <= m.es[p].updated
  BY <1>2
<1>4. u[p].updated \in Int /\ m.es[p].updated \in Int
  <2>1. u[p] \in MEntries /\ m.es[p] \in MEntries
    BY <1>2, CopyTypes, EntryMapIs
  <2> QED BY <2>1 DEF MEntries
<1>5. u[p].tomb
  BY <1>2, <1>3, <1>4 DEF EntryIsBetter
<1>6. \A q \in DOMAIN u : EnforcePrimary(u)[q].tomb = u[q].tomb
  BY <1>2, Enforced DEF Alike
<1> QED BY <1>1, <1>2, <1>5, <1>6
-----------------------------------------------------------------------------
(***************************************************************************)
(* The order of the copies.  While every edit is stamped later than what   *)
(* is there, a stamp names an entry, but for its flag.                     *)
(***************************************************************************)
Agree(H) ==
    \A m, n \in H : \A p \in DOMAIN m.es \cap DOMAIN n.es :
        m.es[p].updated = n.es[p].updated => Alike(m.es[p], n.es[p])

StampNames == early \in BOOLEAN /\ (~early => Agree(Copies \cup Locals))

\* A manifest with entries of the others', or later than all of theirs, joins them.
Joins(m, H) ==
    \A p \in DOMAIN m.es :
        \/ \E n \in H : p \in DOMAIN n.es /\ Alike(m.es[p], n.es[p])
        \/ \A n \in H : p \in DOMAIN n.es => n.es[p].updated # m.es[p].updated

LEMMA AgreeGrows ==
    ASSUME NEW H, Agree(H), NEW m, Joins(m, H)
    PROVE  Agree(H \cup {m})
<1>1. ASSUME NEW n \in H, NEW p, p \in DOMAIN m.es, p \in DOMAIN n.es, m.es[p].updated = n.es[p].updated
      PROVE  Alike(m.es[p], n.es[p]) /\ Alike(n.es[p], m.es[p])
  <2>1. PICK x \in H : p \in DOMAIN x.es /\ Alike(m.es[p], x.es[p])
    BY <1>1 DEF Joins
  <2>2. Alike(x.es[p], n.es[p])
    <3>1. x.es[p].updated = n.es[p].updated
      BY <1>1, <2>1 DEF Alike
    <3> QED BY <1>1, <2>1, <3>1 DEF Agree
  <2> QED BY <2>1, <2>2 DEF Alike
<1>2. \A p \in DOMAIN m.es : Alike(m.es[p], m.es[p])
  BY DEF Alike
<1> QED BY <1>1, <1>2, Zenon DEF Agree

\* After a step that writes m into some places, nothing else is new.
LEMMA OneMore ==
    ASSUME NEW st \in [MProviders -> Manifests \cup {None}], NEW lo \in [MDevices -> Manifests \cup {None}],
           NEW targets, NEW d, NEW m
    PROVE  LET st2 == [p \in MProviders |-> IF p \in targets THEN m ELSE st[p]]
               lo2 == [lo EXCEPT ![d] = m]
               H   == ({st[p] : p \in MProviders} \ {None}) \cup ({lo[e] : e \in MDevices} \ {None})
               H2  == ({st2[p] : p \in MProviders} \ {None}) \cup ({lo2[e] : e \in MDevices} \ {None})
           IN  H2 \in SUBSET (H \cup ({m} \ {None}))
OBVIOUS

LEMMA StampsStart ==
    ASSUME MInit
    PROVE  StampNames
<1>1. Copies \cup Locals \in SUBSET {[version |-> 1, es |-> [q \in MFirst |-> FirstEntry(q)]]}
  BY DEF MInit, Copies, Locals
<1> QED BY <1>1 DEF StampNames, Agree, Alike, MInit

LEMMA StampsStep ==
    ASSUME ManifestInd, StampNames, MNext
    PROVE  StampNames'
<1>1. ASSUME NEW m, NEW targets, NEW d \in MDevices,
             stored' = [p \in MProviders |-> IF p \in targets THEN m ELSE stored[p]],
             local' = [local EXCEPT ![d] = m],
             m # None => Joins(m, Copies \cup Locals), early = FALSE
      PROVE  Agree((Copies \cup Locals)')
  <2>1. PICK H : H = Copies \cup Locals
    OBVIOUS
  <2>2. (Copies \cup Locals)' \in SUBSET (H \cup ({m} \ {None}))
    BY <1>1, <2>1, OneMore DEF Copies, Locals, ManifestInd, KeptManifests
  <2>3. Agree(H)
    BY <1>1, <2>1 DEF StampNames
  <2>4. Agree(H \cup ({m} \ {None}))
    <3>1. CASE m = None
      BY <2>3, <3>1 DEF Agree
    <3>2. CASE m # None
      <4>1. Agree(H \cup {m})
        BY <1>1, <2>1, <2>3, <3>2, AgreeGrows
      <4> QED BY <3>2, <4>1
    <3> QED BY <3>1, <3>2
  <2> QED BY <2>2, <2>4 DEF Agree
<1>2. PICK none : \A m : stored = [p \in MProviders |-> IF p \in none THEN m ELSE stored[p]]
  <2>1. PICK none : none = {}
    OBVIOUS
  <2>2. \A m : stored = [p \in MProviders |-> IF p \in none THEN m ELSE stored[p]]
    BY <2>1 DEF ManifestInd, KeptManifests
  <2> QED BY <2>2
<1>3. ASSUME NEW d \in MDevices, NEW p \in {q \in MProviders : stored[q] # None},
             NEW S \in SUBSET {q \in MProviders \ {p} : stored[q] # None},
             NEW rest \in Arrivals(S), MUnlock(d, p, rest)
      PROVE  StampNames'
  <2>1. S \in SUBSET MProviders /\ p \in MProviders /\ stored[p] # None
    OBVIOUS
  <2>2. PICK m : /\ local' = [local EXCEPT ![d] = m] /\ stored' = stored /\ early' = early
                 /\ m # None => Recombined(m.es, Copies)
    BY <1>3, <2>1, MUnlockFine
  <2>3. stored' = [q \in MProviders |-> IF q \in none THEN m ELSE stored[q]]
    BY <1>2, <2>2
  <2>4. m # None => Joins(m, Copies \cup Locals)
    BY <2>2 DEF Recombined, Joins
  <2>5. early = FALSE => Agree((Copies \cup Locals)')
    BY <1>1, <2>2, <2>3, <2>4
  <2> QED BY <2>2, <2>5 DEF StampNames
<1>4. ASSUME NEW d \in MDevices, NEW p \in MProviders,
             MRename(d, p) \/ MSetPrimary(d, p) \/ MTombstone(d, p) \/ MAdd(d, p)
      PROVE  StampNames'
  <2>1. PICK m : EditOf(m, local[d], Now(d)) /\ Edited(d, m)
    BY <1>4, EditsAre
  <2>2. local[d] # None /\ local[d] \in Locals
    BY <1>4 DEF MRename, MSetPrimary, MTombstone, MAdd, CanEdit, Locals
  <2>3. stored' = [q \in MProviders |-> IF q \in none THEN m ELSE stored[q]]
    BY <1>2, <2>1 DEF Edited
  <2>4. early' \in BOOLEAN /\ local' = [local EXCEPT ![d] = m]
    BY <2>1 DEF Edited, StampNames
  <2>5. ASSUME early' = FALSE PROVE Agree((Copies \cup Locals)')
    <3>1. early = FALSE
      BY <2>1, <2>5 DEF Edited, StampNames
    <3>2. \A n \in Copies \cup Locals : \A q \in DOMAIN n.es : ~(n.es[q].updated >= Now(d))
      BY <2>1, <2>5 DEF Edited
    <3>3. Now(d) \in Int
      BY DEF Now, ManifestInd, KeptManifests
    <3>4. \A n \in Copies \cup Locals : \A q \in DOMAIN n.es : n.es[q].updated # Now(d)
      <4>1. \A n \in Copies \cup Locals : \A q \in DOMAIN n.es : n.es[q].updated \in Int
        BY CopyTypes DEF MEntries
      <4> QED BY <3>2, <3>3, <4>1
    <3>5. Joins(m, Copies \cup Locals)
      BY <2>1, <2>2, <3>4 DEF EditOf, Joins
    <3> QED BY <1>1, <2>3, <2>4, <2>5, <3>1, <3>5
  <2> QED BY <2>4, <2>5 DEF StampNames
<1>5. ASSUME NEW d \in MDevices, NEW T \in SUBSET MProviders, MSave(d, T) PROVE StampNames'
  <2>1. PICK old \in Manifests : old = local[d] /\ old \in Locals
    BY <1>5 DEF MSave, ManifestInd, KeptManifests, Locals
  <2>2. PICK m : m = [old EXCEPT !.version = @ + 1]
    OBVIOUS
  <2>3. m.es = old.es
    BY <2>2 DEF Manifests
  <2>4. /\ stored' = [p \in MProviders |-> IF p \in T THEN m ELSE stored[p]]
        /\ local' = [local EXCEPT ![d] = m] /\ early' = early
    BY <1>5, <2>1, <2>2 DEF MSave
  <2>5. Joins(m, Copies \cup Locals)
    BY <2>1, <2>3 DEF Alike, Joins
  <2>6. early = FALSE => Agree((Copies \cup Locals)')
    BY <1>1, <2>4, <2>5
  <2> QED BY <2>4, <2>6 DEF StampNames
<1>6. ASSUME MTick PROVE StampNames'
  BY <1>6 DEF MTick, StampNames, Copies, Locals
<1> QED BY <1>3, <1>4, <1>5, <1>6 DEF MNext

\* Whatever the order of the copies, their unions have the same stamps and removals; so they
\* agree wherever a stamp names an entry.
LEMMA OrderDoesNotMatter ==
    ASSUME ManifestInd, StampNames
    PROVE  OrderIrrelevant
<1> SUFFICES ASSUME NEW s \in StoredSeqs, NEW t \in StoredSeqs
             PROVE  LET a == EnforcePrimary(Union(s))
                        b == EnforcePrimary(Union(t))
                    IN  /\ ~early => DOMAIN a = DOMAIN b /\ \A p \in DOMAIN a : SameButFlag(a[p], b[p])
                        /\ Undisputed => a = b
  BY DEF OrderIrrelevant
<1>1. PICK u \in EntryMaps : u = Union(s)
  BY StoredUnion
<1>2. PICK v \in EntryMaps : v = Union(t)
  BY StoredUnion
<1>3. /\ Sound(u)
      /\ \A p \in DOMAIN u : \E m \in Copies : p \in DOMAIN m.es /\ u[p] = m.es[p]
      /\ \A m \in Copies : \A p \in DOMAIN m.es : p \in DOMAIN u /\ ~EntryIsBetter(m.es[p], u[p])
  BY <1>1, StoredUnion
<1>4. /\ Sound(v)
      /\ \A p \in DOMAIN v : \E m \in Copies : p \in DOMAIN m.es /\ v[p] = m.es[p]
      /\ \A m \in Copies : \A p \in DOMAIN m.es : p \in DOMAIN v /\ ~EntryIsBetter(m.es[p], v[p])
  BY <1>2, StoredUnion
<1>5. DOMAIN u = DOMAIN v
  BY <1>3, <1>4
<1>6. ASSUME NEW p \in DOMAIN u
      PROVE  /\ u[p] \in MEntries /\ v[p] \in MEntries
             /\ ~early => Alike(u[p], v[p])
             /\ Undisputed => u[p] = v[p]
  <2>1. PICK m \in Copies : p \in DOMAIN m.es /\ u[p] = m.es[p]
    BY <1>3
  <2>2. PICK n \in Copies : p \in DOMAIN n.es /\ v[p] = n.es[p]
    BY <1>4, <1>5
  <2>3. ~EntryIsBetter(u[p], v[p]) /\ ~EntryIsBetter(v[p], u[p])
    BY <1>3, <1>4, <2>1, <2>2
  <2>4. u[p] \in MEntries /\ v[p] \in MEntries
    BY <1>5, EntryMapIs
  <2>5. m.es[p].updated = n.es[p].updated
    BY <2>1, <2>2, <2>3, <2>4 DEF EntryIsBetter, MEntries
  <2>6. ~early => Alike(u[p], v[p])
    BY <2>1, <2>2, <2>5 DEF StampNames, Agree
  <2>7. Undisputed => u[p] = v[p]
    BY <2>1, <2>2, <2>5 DEF Undisputed
  <2> QED BY <2>4, <2>6, <2>7
<1>7. PICK a : a = EnforcePrimary(u)
  OBVIOUS
<1>8. PICK b : b = EnforcePrimary(v)
  OBVIOUS
<1>9. a \in EntryMaps /\ DOMAIN a = DOMAIN u /\ \A p \in DOMAIN u : Alike(a[p], u[p])
  BY <1>3, <1>7, Enforced
<1>10. b \in EntryMaps /\ DOMAIN b = DOMAIN u /\ \A p \in DOMAIN u : Alike(b[p], v[p])
  BY <1>4, <1>5, <1>8, Enforced
<1>11. ASSUME ~early, NEW p \in DOMAIN a PROVE SameButFlag(a[p], b[p])
  <2>1. Alike(a[p], b[p])
    BY <1>6, <1>9, <1>10, <1>11 DEF Alike
  <2>2. a[p] \in MEntries /\ b[p] \in MEntries
    BY <1>9, <1>10, EntryMapIs
  <2> QED BY <2>1, <2>2, AlikeIs
<1>12. ASSUME Undisputed PROVE a = b
  <2>1. u \in [DOMAIN u -> MEntries] /\ v \in [DOMAIN u -> MEntries]
    BY <1>5, EntryMapIs
  <2>2. u = v
    BY <1>6, <1>12, <2>1
  <2> QED BY <1>7, <1>8, <2>2
<1> QED BY <1>1, <1>2, <1>7, <1>8, <1>9, <1>10, <1>11, <1>12
-----------------------------------------------------------------------------
(***************************************************************************)
(* The rows.                                                               *)
(***************************************************************************)
TableRows == [by : MDevices, created : Nat, updated : Nat \cup {None}]
RowMaps == UNION {[S -> TableRows] : S \in SUBSET RowIds}

RowsInd == rows \in [MDevices -> RowMaps] /\ rbody \in RowMaps /\ rclock \in Nat /\ rkv \in BOOLEAN

LEMMA RowMapIs ==
    \A t : t \in RowMaps <=> DOMAIN t \in SUBSET RowIds /\ t \in [DOMAIN t -> TableRows]
BY DEF RowMaps

\* row_newer() never holds both ways.
LEMMA NewerOneWay ==
    ASSUME NEW r \in TableRows, NEW l \in TableRows
    PROVE  ~RowNewer(r, r) /\ ~(RowNewer(r, l) /\ RowNewer(l, r))
BY RowAssumption DEF RowNewer, TableRows

LEMMA RowMergedFine ==
    ASSUME NEW l \in RowMaps, NEW r \in RowMaps, NEW kv \in BOOLEAN
    PROVE  RowMerged(l, r, kv) \in RowMaps
<1>1. PICK t : t = RowMerged(l, r, kv)
  OBVIOUS
<1>2. DOMAIN t = DOMAIN l \cup DOMAIN r
  BY <1>1 DEF RowMerged
<1>3. ASSUME NEW i \in DOMAIN l \cup DOMAIN r
      PROVE  t[i] = IF i \notin DOMAIN l THEN r[i]
                    ELSE IF i \in DOMAIN r /\ ~kv /\ RowNewer(r[i], l[i]) THEN r[i]
                    ELSE l[i]
  BY <1>1 DEF RowMerged
<1>4. /\ \A i \in DOMAIN l : l[i] \in TableRows
      /\ \A i \in DOMAIN r : r[i] \in TableRows
      /\ DOMAIN l \in SUBSET RowIds /\ DOMAIN r \in SUBSET RowIds
  BY RowMapIs
<1>5. t \in RowMaps
  <2>1. \A i \in DOMAIN t : t[i] \in TableRows
    BY <1>2, <1>3, <1>4
  <2>2. t = [i \in DOMAIN t |-> t[i]]
    BY <1>1 DEF RowMerged
  <2>3. t \in [DOMAIN t -> TableRows] /\ DOMAIN t \in SUBSET RowIds
    BY <1>2, <1>4, <2>1, <2>2
  <2> QED BY <2>3, RowMapIs
<1> QED BY <1>1, <1>5

LEMMA RowsStartWell ==
    ASSUME RInit
    PROVE  RowsInd
<1>1. EmptyMap \in RowMaps
  BY RowMapIs DEF EmptyMap
<1> QED BY <1>1 DEF RInit, RowsInd

LEMMA RowsStepFine ==
    ASSUME RowsInd, RNext
    PROVE  RowsInd'
<1>1. /\ rbody \in RowMaps /\ \A i \in DOMAIN rbody : rbody[i] \in TableRows
      /\ rows \in [MDevices -> RowMaps] /\ rclock \in Nat
  BY RowMapIs DEF RowsInd
<1>3. ASSUME NEW d \in MDevices, NEW stamped \in BOOLEAN, RInsert(d, stamped)
      PROVE  RowsInd'
  <2>1. PICK i : i = 1 + Max(DOMAIN rows[d] \cup {0})
    OBVIOUS
  <2>2. PICK x : x = [by |-> d, created |-> rclock, updated |-> IF stamped THEN rclock ELSE None]
    OBVIOUS
  <2>3. x \in TableRows
    BY <1>1, <2>2 DEF TableRows
  <2>4. i \in RowIds /\ rows' = [rows EXCEPT ![d] = Put(@, i, x)] /\ rbody' = rbody
        /\ rclock' = rclock /\ rkv' = rkv
    BY <1>3, <2>1, <2>2 DEF RInsert
  <2>5. PICK t \in RowMaps : t = rows[d]
    BY <1>1
  <2>6. PICK n : n = Put(t, i, x)
    OBVIOUS
  <2>7. n \in RowMaps
    <3>1. DOMAIN n \in SUBSET RowIds /\ n \in [DOMAIN n -> TableRows]
      BY <2>3, <2>4, <2>6, RowMapIs DEF Put
    <3> QED BY <3>1, RowMapIs
  <2>8. rows' \in [MDevices -> RowMaps]
    BY <1>1, <2>4, <2>5, <2>6, <2>7
  <2> QED BY <1>1, <2>4, <2>8 DEF RowsInd
<1>4. ASSUME NEW d \in MDevices, NEW i \in RowIds, RUpdate(d, i)
      PROVE  RowsInd'
  <2>1. PICK t \in RowMaps : t = rows[d]
    BY <1>1
  <2>2. i \in DOMAIN t
    BY <1>4, <2>1 DEF RUpdate
  <2>3. PICK x \in TableRows : x = [t[i] EXCEPT !.by = d, !.updated = rclock]
    <3>1. t[i] \in TableRows
      BY <2>2, RowMapIs
    <3> QED BY <1>1, <3>1 DEF TableRows
  <2>4. PICK n : n = [t EXCEPT ![i] = x]
    OBVIOUS
  <2>5. n \in RowMaps
    <3>1. DOMAIN n \in SUBSET RowIds /\ n \in [DOMAIN n -> TableRows]
      BY <2>2, <2>4, RowMapIs
    <3> QED BY <3>1, RowMapIs
  <2>6. rows' = [rows EXCEPT ![d] = n] /\ rbody' = rbody /\ rclock' = rclock /\ rkv' = rkv
    BY <1>1, <1>4, <2>1, <2>3, <2>4 DEF RUpdate
  <2> QED BY <1>1, <2>5, <2>6 DEF RowsInd
<1>5. ASSUME NEW d \in MDevices, RResolve(d)
      PROVE  RowsInd'
  <2>1. PICK t \in RowMaps : t = rows[d]
    BY <1>1
  <2>2. PICK kv \in BOOLEAN : kv = rkv
    BY DEF RowsInd
  <2>3. PICK b \in RowMaps : b = rbody
    BY <1>1
  <2>4. PICK n : n = RowMerged(t, b, kv)
    OBVIOUS
  <2>5. n \in RowMaps
    BY <2>4, RowMergedFine
  <2>6. rows' = [rows EXCEPT ![d] = n] /\ rbody' = rbody /\ rclock' = rclock /\ rkv' = rkv
    BY <1>1, <1>5, <2>1, <2>2, <2>3, <2>4 DEF RResolve
  <2> QED BY <1>1, <2>5, <2>6 DEF RowsInd
<1>6. ASSUME NEW d \in MDevices, RUpload(d) PROVE RowsInd'
  BY <1>1, <1>6 DEF RUpload, RowsInd
<1>7. ASSUME RTick PROVE RowsInd'
  BY <1>1, <1>7 DEF RTick, RowsInd
<1> QED BY <1>3, <1>4, <1>5, <1>6, <1>7 DEF RNext

\* Two tables merged either way agree, row by row, unless both keep their own.
LEMMA RowsAgree ==
    ASSUME RowsInd
    PROVE  RowsConverge
<1> SUFFICES ASSUME NEW d \in MDevices, NEW e \in MDevices, NEW i \in DOMAIN rows[d] \cup DOMAIN rows[e],
                    ~(/\ i \in DOMAIN rows[d] \cap DOMAIN rows[e]
                      /\ ~RowNewer(rows[d][i], rows[e][i]) /\ ~RowNewer(rows[e][i], rows[d][i]))
             PROVE  /\ i \in DOMAIN RowMerged(rows[d], rows[e], FALSE)
                    /\ i \in DOMAIN RowMerged(rows[e], rows[d], FALSE)
                    /\ RowMerged(rows[d], rows[e], FALSE)[i] = RowMerged(rows[e], rows[d], FALSE)[i]
  BY ZenonT(40) DEF RowsConverge
<1>1. PICK a \in RowMaps : a = rows[d]
  BY DEF RowsInd
<1>2. PICK b \in RowMaps : b = rows[e]
  BY DEF RowsInd
<1>3. i \in DOMAIN a \cup DOMAIN b
  BY <1>1, <1>2
<1>4. PICK ma : ma = RowMerged(a, b, FALSE)
  OBVIOUS
<1>5. PICK mb : mb = RowMerged(b, a, FALSE)
  OBVIOUS
<1>6. /\ i \in DOMAIN ma
      /\ ma[i] = IF i \notin DOMAIN a THEN b[i]
                 ELSE IF i \in DOMAIN b /\ RowNewer(b[i], a[i]) THEN b[i] ELSE a[i]
  BY <1>3, <1>4 DEF RowMerged
<1>7. /\ i \in DOMAIN mb
      /\ mb[i] = IF i \notin DOMAIN b THEN a[i]
                 ELSE IF i \in DOMAIN a /\ RowNewer(a[i], b[i]) THEN a[i] ELSE b[i]
  BY <1>3, <1>5 DEF RowMerged
<1>8. CASE i \in DOMAIN a /\ i \in DOMAIN b
  <2>1. a[i] \in TableRows /\ b[i] \in TableRows
    BY <1>8, RowMapIs
  <2>2. ~(RowNewer(a[i], b[i]) /\ RowNewer(b[i], a[i]))
    BY <2>1, NewerOneWay
  <2>3. RowNewer(a[i], b[i]) \/ RowNewer(b[i], a[i])
    BY <1>1, <1>2, <1>8
  <2>4. ma[i] = mb[i]
    BY <1>6, <1>7, <1>8, <2>2, <2>3
  <2> QED BY <1>1, <1>2, <1>4, <1>5, <1>6, <1>7, <2>4
<1>9. CASE ~(i \in DOMAIN a /\ i \in DOMAIN b)
  <2>1. ma[i] = mb[i]
    BY <1>3, <1>6, <1>7, <1>9
  <2> QED BY <1>1, <1>2, <1>4, <1>5, <1>6, <1>7, <2>1
<1> QED BY <1>8, <1>9
-----------------------------------------------------------------------------
LEMMA MergeStarts ==
    ASSUME MInit, RInit
    PROVE  ManifestInd /\ RowsInd
BY ManifestStartsWell, RowsStartWell

LEMMA MergeStep ==
    ASSUME ManifestInd, RowsInd,
           [(MNext /\ UNCHANGED rowVars) \/ (RNext /\ UNCHANGED maniVars)]_<<maniVars, rowVars>>
    PROVE  ManifestInd' /\ RowsInd'
<1>1. ASSUME UNCHANGED maniVars PROVE ManifestInd'
  BY <1>1 DEF maniVars, ManifestInd, NeverShutOut
<1>2. ASSUME UNCHANGED rowVars PROVE RowsInd'
  BY <1>2 DEF rowVars, RowsInd
<1>3. CASE MNext /\ UNCHANGED rowVars
  BY <1>2, <1>3, ManifestStepFine
<1>4. CASE RNext /\ UNCHANGED maniVars
  BY <1>1, <1>4, RowsStepFine
<1>5. CASE UNCHANGED <<maniVars, rowVars>>
  BY <1>1, <1>2, <1>5
<1> QED BY <1>3, <1>4, <1>5

\* What merges promise, for any number of devices, providers, edits and unlocks and clocks
\* that differ: every manifest has one primary and no tombstoned one, within the skew allowed
\* no entry shuts a device out, a removal stays a removal, and rows converge
\* (merge_manifests(), enforce_primary_uniqueness(), the edits, merge_rows()).
THEOREM MergesKeepPromise == MergeSpec => []ManifestInv
<1>1. MInit /\ RInit => ManifestInd /\ RowsInd
  BY MergeStarts
<1>2. ManifestInd /\ RowsInd
      /\ [(MNext /\ UNCHANGED rowVars) \/ (RNext /\ UNCHANGED maniVars)]_<<maniVars, rowVars>>
      => ManifestInd' /\ RowsInd'
  BY MergeStep
<1>3. ManifestInd /\ RowsInd => ManifestInv
  <2>1. ManifestInd => OnePrimary
    BY DEF ManifestInd, KeptManifests, GoodManifest, Sound, OnePrimary, Copies, Locals
  <2>2. ManifestInd => NeverShutOut
    BY DEF ManifestInd
  <2> QED BY <2>1, <2>2, RemovalsStay, RowsAgree DEF ManifestInv
<1> QED BY <1>1, <1>2, <1>3, PTL DEF MergeSpec

\* The order in which the copies arrive, for any number of devices, providers, edits and
\* unlocks: while every edit is stamped later than those before it, it decides nothing but the
\* primary flag, and not even that one unless two copies hold one stamp with different flags
\* (merge_manifests(), entry_is_better(), enforce_primary_uniqueness()).
THEOREM OrderOfCopies == MergeSpec => []OrderIrrelevant
<1>1. MInit /\ RInit => ManifestInd /\ RowsInd /\ StampNames
  BY MergeStarts, StampsStart
<1>2. ManifestInd /\ RowsInd /\ StampNames
      /\ [(MNext /\ UNCHANGED rowVars) \/ (RNext /\ UNCHANGED maniVars)]_<<maniVars, rowVars>>
      => ManifestInd' /\ RowsInd' /\ StampNames'
  <2>1. UNCHANGED maniVars => (StampNames => StampNames')
    BY DEF maniVars, StampNames, Copies, Locals
  <2> QED BY <2>1, MergeStep, StampsStep
<1>3. ManifestInd /\ StampNames => OrderIrrelevant
  BY OrderDoesNotMatter
<1> QED BY <1>1, <1>2, <1>3, PTL DEF MergeSpec

-----------------------------------------------------------------------------
(***************************************************************************)
(* The cloud journal.                                                      *)
(*                                                                         *)
(* Storage may cut, damage and repeat a file and put it in another's       *)
(* place, but every field in it remains one that some journal wrote (or    *)
(* damage); an HMAC then names the provider and the two fields before it.  *)
(***************************************************************************)
JEntries == [type : EntryTypes, table : JTables, row : Nat, data : Nat]
Triple(p, e) == <<HeadField(e), SealedField(p, e), HmacField(p, HeadField(e), SealedField(p, e))>>
JFields(noted) ==
    {Magic, DamagedField} \cup
    UNION {UNION {{Triple(p, e)[1], Triple(p, e)[2], Triple(p, e)[3]} : e \in Range(noted[p])} :
             p \in JProviders}

\* A journal's entries are serialized one by one, and are of the schema.
Serialized ==
    /\ jNoted \in [JProviders -> Seq(JEntries)]
    /\ \A p \in JProviders : \A k \in 1..Len(jNoted[p]) : jNoted[p][k].table \in JAllowed
    /\ jBuffer = [p \in JProviders |-> [k \in 1..Len(jNoted[p]) |-> Triple(p, jNoted[p][k])]]

\* What is in a file was written by some journal.
Written ==
    /\ jFile \in [JProviders -> {None} \cup Seq(JFields(jNoted))]
    /\ jFaults \in Seq(JProviders \X {"cut", "damage", "repeat", "swap"})

OnlyCut(p, faults) == \A x \in Range(faults) : x[1] = p => x[2] = "cut"

\* A file that was only cut is the beginning of what was flushed.
BeginningOf(file, entries) ==
    /\ Len(file) <= 1 + 3 * Len(entries)
    /\ \A k \in 1..Len(file) : file[k] = BuildJournalFile(entries)[k]
CutFiles ==
    \A p \in JProviders : jFile[p] # None /\ OnlyCut(p, jFaults) => BeginningOf(jFile[p], jBuffer[p])

JReads(p) == [got : {None} \cup Seq(JEntries), of : Seq(JFields(jNoted))]
ReadsTyped == \A p \in JProviders : jRead[p] # None => jRead[p] \in JReads(p)

JournalInd == /\ Serialized /\ Written /\ CutFiles /\ ReadsTyped
              /\ DOMAIN jRead = JProviders /\ JournalInv

LEMMA ThirdsOf ==
    ASSUME NEW m \in Nat
    PROVE  m \div 3 \in Nat /\ m % 3 \in 0..2 /\ m = 3 * (m \div 3) + (m % 3)
OBVIOUS

LEMMA NotedRange ==
    ASSUME NEW s \in Seq(JEntries)
    PROVE  /\ Range(s) \subseteq JEntries
           /\ \A e \in Range(s) : \E k \in 1..Len(s) : e = s[k]
           /\ \A k \in 1..Len(s) : s[k] \in Range(s)
           /\ \A e \in JEntries : Range(s) \subseteq Range(Append(s, e))
<1>1. DOMAIN s = 1..Len(s) /\ Len(s) \in Nat /\ \A k \in 1..Len(s) : s[k] \in JEntries
  OBVIOUS
<1>2. \A e \in JEntries : \A k \in 1..Len(s) : k \in DOMAIN Append(s, e) /\ Append(s, e)[k] = s[k]
  BY <1>1
<1> QED BY <1>1, <1>2 DEF Range

\* Every field stays one that a journal wrote as the journals grow.
LEMMA FieldsGrow ==
    ASSUME NEW noted, NEW more, \A p \in JProviders : Range(noted[p]) \subseteq Range(more[p])
    PROVE  JFields(noted) \subseteq JFields(more) /\ Seq(JFields(noted)) \subseteq Seq(JFields(more))
<1>1. JFields(noted) \subseteq JFields(more)
  BY DEF JFields
<1> QED BY <1>1

\* The fields of an entry, by what they are.
LEMMA TripleFields ==
    ASSUME NEW p, NEW e
    PROVE  /\ Triple(p, e)[1] = HeadField(e) /\ Triple(p, e)[2] = SealedField(p, e)
           /\ Triple(p, e)[3] = HmacField(p, HeadField(e), SealedField(p, e))
BY DEF Triple

\* An HMAC that holds was made for this provider, over this head and this sealed data.
LEMMA MacNames ==
    ASSUME NEW noted, NEW p \in JProviders, NEW head, NEW enc, NEW mac \in JFields(noted),
           HmacHolds(p, head, enc, mac)
    PROVE  \E e \in Range(noted[p]) : head = HeadField(e) /\ enc = SealedField(p, e)
<1>1. mac = HmacField(p, head, enc)
  BY DEF HmacHolds
<1>2. mac.f = "hmac" /\ mac.key = <<"journal", p>> /\ mac.over = <<head, enc>>
  BY <1>1 DEF HmacField, KeysFor
<1>3. mac # Magic /\ mac # DamagedField
  BY <1>2 DEF Magic, DamagedField
<1>4. PICK q \in JProviders : \E e \in Range(noted[q]) :
         mac = HeadField(e) \/ mac = SealedField(q, e) \/ mac = HmacField(q, HeadField(e), SealedField(q, e))
  BY <1>3, TripleFields DEF JFields
<1>5. \A e : mac # HeadField(e) /\ mac # SealedField(q, e)
  BY <1>2 DEF HeadField, SealedField
<1>e. PICK e \in Range(noted[q]) : mac = HmacField(q, HeadField(e), SealedField(q, e))
  BY <1>4, <1>5
<1>6. mac.key = <<"journal", q>> /\ mac.over = <<HeadField(e), SealedField(q, e)>>
  BY <1>e DEF HmacField, KeysFor
<1>7. p = q
  BY <1>2, <1>6
<1>8. head = HeadField(e) /\ enc = SealedField(q, e)
  BY <1>2, <1>6
<1> QED BY <1>7, <1>8

\* What an entry is read as was noted.
LEMMA EntryWasNoted ==
    ASSUME NEW noted \in [JProviders -> Seq(JEntries)], NEW p \in JProviders, NEW head, NEW enc,
           NEW mac \in JFields(noted), ParseEntry(p, head, enc, mac) # None
    PROVE  ParseEntry(p, head, enc, mac) \in Range(noted[p])
<1>1. HmacHolds(p, head, enc, mac)
  BY DEF ParseEntry
<1>2. PICK e \in Range(noted[p]) : head = HeadField(e) /\ enc = SealedField(p, e)
  BY <1>1, MacNames
<1>3. ParseEntry(p, head, enc, mac)
        = [type |-> head.type, table |-> head.table, row |-> head.row, data |-> enc.data]
  BY DEF ParseEntry
<1>4. e \in JEntries
  BY NotedRange
<1>5. head.type = e.type /\ head.table = e.table /\ head.row = e.row /\ enc.data = e.data
  BY <1>2 DEF HeadField, SealedField
<1>6. e = [type |-> e.type, table |-> e.table, row |-> e.row, data |-> e.data]
  BY <1>4 DEF JEntries
<1> QED BY <1>3, <1>5, <1>6

LEMMA ReadIsNoted ==
    ASSUME NEW noted \in [JProviders -> Seq(JEntries)], NEW p \in JProviders,
           NEW file \in Seq(JFields(noted)), ParseJournal(p, file) # None
    PROVE  /\ ParseJournal(p, file) \in Seq(JEntries)
           /\ Range(ParseJournal(p, file)) \subseteq Range(noted[p])
<1> DEFINE n == (Len(file) - 1) \div 3
           es == [k \in 1..n |-> ParsedAt(p, file, k)]
<1>1. file # <<>> /\ (Len(file) - 1) % 3 = 0 /\ ParseJournal(p, file) = es /\ None \notin Range(es)
  BY DEF ParseJournal
<1>2. Len(file) \in Nat \ {0}
  BY <1>1
<1>3. n \in Nat /\ Len(file) = 3 * n + 1
  <2>0. Len(file) - 1 \in Nat
    BY <1>2
  <2>1. PICK m \in Nat : m = Len(file) - 1
    BY <2>0
  <2>2. m \div 3 \in Nat /\ m % 3 = m - 3 * (m \div 3)
    BY ThirdsOf
  <2> QED BY <1>1, <2>1, <2>2
<1> HIDE DEF n
<1>4. ASSUME NEW k \in 1..n PROVE es[k] \in Range(noted[p])
  <2>1. 3 * k + 1 \in 1..Len(file)
    BY <1>3
  <2>2. file[3 * k + 1] \in JFields(noted)
    BY <2>1
  <2>3. es[k] # None
    BY <1>1 DEF Range
  <2>4. es[k] = ParseEntry(p, file[3 * k - 1], file[3 * k], file[3 * k + 1])
    BY DEF ParsedAt
  <2> QED BY <2>2, <2>3, <2>4, EntryWasNoted
<1>5. Range(noted[p]) \subseteq JEntries
  BY NotedRange
<1>6. es \in Seq(JEntries)
  BY <1>3, <1>4, <1>5
<1>7. Range(es) \subseteq Range(noted[p])
  BY <1>4 DEF Range
<1> QED BY <1>1, <1>6, <1>7

LEMMA ThirdsBack ==
    ASSUME NEW k \in Nat, NEW r \in 0..2
    PROVE  (3 * k + r) \div 3 = k /\ (3 * k + r) % 3 = r
OBVIOUS

\* Where the fields of the k-th entry are in a file.
LEMMA FieldsInPlace ==
    ASSUME NEW entries, Len(entries) \in Nat, NEW k \in 1..Len(entries)
    PROVE  /\ BuildJournalFile(entries)[1] = Magic
           /\ BuildJournalFile(entries)[3 * k - 1] = entries[k][1]
           /\ BuildJournalFile(entries)[3 * k] = entries[k][2]
           /\ BuildJournalFile(entries)[3 * k + 1] = entries[k][3]
<1> DEFINE At(j) == entries[((j - 2) \div 3) + 1][((j - 2) % 3) + 1]
<1>1. \A j \in 2..(1 + 3 * Len(entries)) : BuildJournalFile(entries)[j] = At(j)
  BY DEF BuildJournalFile
<1>2. BuildJournalFile(entries)[1] = Magic
  BY DEF BuildJournalFile
<1>3. \A r \in 0..2 : At(3 * (k - 1) + r + 2) = entries[k][r + 1]
  <2>1. k - 1 \in Nat
    OBVIOUS
  <2>2. \A r \in 0..2 : (3 * (k - 1) + r) \div 3 = k - 1 /\ (3 * (k - 1) + r) % 3 = r
    BY <2>1, ThirdsBack
  <2>3. \A r \in 0..2 : (3 * (k - 1) + r + 2) - 2 = 3 * (k - 1) + r /\ (k - 1) + 1 = k
    OBVIOUS
  <2> QED BY <2>2, <2>3
<1> HIDE DEF At
<1>4. /\ 3 * (k - 1) + 0 + 2 = 3 * k - 1 /\ 3 * (k - 1) + 1 + 2 = 3 * k /\ 3 * (k - 1) + 2 + 2 = 3 * k + 1
      /\ 3 * k - 1 \in 2..(1 + 3 * Len(entries)) /\ 3 * k \in 2..(1 + 3 * Len(entries))
      /\ 3 * k + 1 \in 2..(1 + 3 * Len(entries))
  OBVIOUS
<1>5. /\ At(3 * k - 1) = entries[k][1] /\ At(3 * k) = entries[k][2] /\ At(3 * k + 1) = entries[k][3]
  BY <1>3, <1>4
<1> QED BY <1>1, <1>2, <1>4, <1>5

\* An entry of the schema is read as it was noted.
LEMMA EntryReadBack ==
    ASSUME NEW p, NEW e \in JEntries, e.table \in JAllowed
    PROVE  ParseEntry(p, Triple(p, e)[1], Triple(p, e)[2], Triple(p, e)[3]) = e
<1>1. HmacHolds(p, HeadField(e), SealedField(p, e), HmacField(p, HeadField(e), SealedField(p, e)))
  BY DEF HmacHolds
<1>2. /\ HeadField(e).f = "head" /\ HeadField(e).type = e.type /\ HeadField(e).table = e.table
      /\ HeadField(e).row = e.row /\ SealedField(p, e).f = "sealed" /\ SealedField(p, e).data = e.data
  BY DEF HeadField, SealedField
<1>3. e.type \in EntryTypes /\ e = [type |-> e.type, table |-> e.table, row |-> e.row, data |-> e.data]
  BY DEF JEntries
<1> QED BY <1>1, <1>2, <1>3, TripleFields DEF ParseEntry

LEMMA CutReadBack ==
    ASSUME NEW p, NEW s \in Seq(JEntries), \A k \in 1..Len(s) : s[k].table \in JAllowed,
           NEW F, NEW file \in Seq(F), BeginningOf(file, [k \in 1..Len(s) |-> Triple(p, s[k])])
    PROVE  ParseJournal(p, file) = IF Len(file) % 3 # 1 THEN None ELSE SubSeq(s, 1, Len(file) \div 3)
<1> DEFINE entries == [k \in 1..Len(s) |-> Triple(p, s[k])]
           n == Len(file) \div 3
<1>0. PICK L \in Nat : L = Len(file)
  OBVIOUS
<1>1. n \in Nat /\ Len(file) % 3 \in 0..2 /\ Len(file) = 3 * n + (Len(file) % 3)
  BY <1>0, ThirdsOf
<1>2. Len(entries) = Len(s) /\ Len(s) \in Nat /\ \A k \in 1..Len(s) : entries[k] = Triple(p, s[k])
  OBVIOUS
<1>3. Len(file) <= 1 + 3 * Len(s) /\ \A k \in 1..Len(file) : file[k] = BuildJournalFile(entries)[k]
  BY <1>2 DEF BeginningOf
<1> HIDE DEF entries
<1>4. CASE Len(file) % 3 # 1
  <2>1. CASE Len(file) = 0
    BY <1>4, <2>1 DEF ParseJournal
  <2>2. CASE Len(file) # 0
    <3>1. PICK m \in Nat : m = L - 1
      BY <1>0, <2>2
    <3>2. m \div 3 \in Nat /\ m % 3 \in 0..2 /\ m = 3 * (m \div 3) + (m % 3)
      BY ThirdsOf
    <3>3. m % 3 # 0
      <4>1. SUFFICES ASSUME m % 3 = 0 PROVE FALSE
        OBVIOUS
      <4>2. L = 3 * (m \div 3) + 1
        BY <3>1, <3>2, <4>1
      <4>3. L % 3 = 1
        BY <3>2, <4>2, ThirdsBack
      <4> QED BY <4>3, <1>0, <1>4
    <3>4. (Len(file) - 1) % 3 # 0
      BY <1>0, <3>1, <3>3
    <3> QED BY <1>4, <3>4 DEF ParseJournal
  <2> QED BY <2>1, <2>2
<1>5. CASE Len(file) % 3 = 1
  <2>1. Len(file) = 3 * n + 1
    BY <1>1, <1>5
  <2> HIDE DEF n
  <2>2. (Len(file) - 1) \div 3 = n /\ (Len(file) - 1) % 3 = 0
    <3>1. Len(file) - 1 = 3 * n + 0
      BY <1>1, <2>1
    <3> QED BY SMTT(30), <1>1, <3>1, ThirdsBack
  <2>3. n <= Len(s)
    BY <1>1, <1>2, <1>3, <2>1
  <2>4. file # <<>> /\ Head(file) = file[1] /\ 1 \in 1..Len(file)
    BY <1>1, <2>1
  <2>5. BuildJournalFile(entries)[1] = Magic
    BY <1>2 DEF BuildJournalFile
  <2>6. ASSUME NEW k \in 1..n PROVE ParsedAt(p, file, k) = s[k]
    <3>1. k \in 1..Len(entries) /\ k \in 1..Len(s) /\ Len(entries) \in Nat
      BY <1>1, <1>2, <2>3
    <3>2. 3 * k - 1 \in 1..Len(file) /\ 3 * k \in 1..Len(file) /\ 3 * k + 1 \in 1..Len(file)
      BY <1>1, <2>1
    <3>3. /\ file[3 * k - 1] = entries[k][1] /\ file[3 * k] = entries[k][2]
          /\ file[3 * k + 1] = entries[k][3]
      BY <1>3, <3>1, <3>2, FieldsInPlace
    <3>4. s[k] \in JEntries /\ s[k].table \in JAllowed /\ entries[k] = Triple(p, s[k])
      BY <1>2, <3>1
    <3> QED BY <3>3, <3>4, EntryReadBack DEF ParsedAt
  <2> DEFINE es == [k \in 1..n |-> ParsedAt(p, file, k)]
  <2>7. None \notin Range(es)
    <3>1. \A k \in 1..n : es[k] \in JEntries
      BY <1>1, <1>2, <2>3, <2>6
    <3>2. None \notin JEntries
      BY JournalAssumption DEF JEntries
    <3> QED BY <3>1, <3>2 DEF Range
  <2>8. es = SubSeq(s, 1, n)
    <3>1. SubSeq(s, 1, n) = [k \in 1..n |-> s[k]]
      BY <1>1, <1>2, <2>3
    <3>2. es = [k \in 1..n |-> s[k]]
      BY <2>6
    <3> QED BY <3>1, <3>2
  <2>9. ParseJournal(p, file) = es
    BY <1>3, <2>2, <2>4, <2>5, <2>7 DEF ParseJournal
  <2> QED BY <1>5, <2>8, <2>9 DEF n
<1> QED BY <1>4, <1>5

LEMMA JournalStart == JcInit => JournalInd
<1> SUFFICES ASSUME JcInit PROVE JournalInd
  OBVIOUS
<1>1. /\ jBuffer = [p \in JProviders |-> <<>>] /\ jNoted = [p \in JProviders |-> <<>>]
      /\ jFile = [p \in JProviders |-> None] /\ jFaults = <<>> /\ jRead = [p \in JProviders |-> None]
  BY DEF JcInit
<1>2. Serialized
  <2>1. \A p \in JProviders : [k \in 1..Len(jNoted[p]) |-> Triple(p, jNoted[p][k])] = <<>>
    BY <1>1
  <2> QED BY <1>1, <2>1 DEF Serialized
<1>3. Written /\ CutFiles
  BY <1>1 DEF Written, CutFiles
<1>4. ReadsTyped /\ DOMAIN jRead = JProviders /\ JournalInv
  BY <1>1 DEF ReadsTyped, JournalInv, ReadWasNoted, WholeOrNothing
<1> QED BY <1>2, <1>3, <1>4 DEF JournalInd

LEMMA JournalStays ==
    ASSUME JournalInd, UNCHANGED jcVars
    PROVE  JournalInd'
<1> USE DEF jcVars
<1>1. Serialized'
  BY DEF JournalInd, Serialized
<1>2. Written'
  BY DEF JournalInd, Written
<1>3. CutFiles'
  BY DEF JournalInd, CutFiles
<1>4. ReadsTyped' /\ DOMAIN jRead' = JProviders
  BY DEF JournalInd, ReadsTyped, JReads
<1>5. ReadWasNoted' /\ WholeOrNothing'
  BY DEF JournalInd, JournalInv, ReadWasNoted, WholeOrNothing, ReadOf
<1> QED BY <1>1, <1>2, <1>3, <1>4, <1>5 DEF JournalInd, JournalInv

LEMMA AppendKeeps ==
    ASSUME JournalInd, NEW p \in JProviders, NEW type \in EntryTypes, NEW table \in JTables,
           JAppend(p, type, table)
    PROVE  JournalInd'
<1> DEFINE n == Len(jNoted[p]) + 1
           e == [type |-> type, table |-> table, row |-> n, data |-> n]
<1>1. /\ jFile[p] = None /\ jRead[p] = None /\ UNCHANGED <<jFile, jFaults, jRead>>
      /\ \/ UNCHANGED <<jBuffer, jNoted>>
         \/ /\ SerializeEntry(p, e) # None
            /\ jBuffer' = [jBuffer EXCEPT ![p] = Append(@, SerializeEntry(p, e))]
            /\ jNoted' = [jNoted EXCEPT ![p] = Append(@, e)]
  BY DEF JAppend
<1>2. CASE UNCHANGED <<jBuffer, jNoted>>
  BY <1>1, <1>2, JournalStays DEF jcVars
<1>3. CASE /\ SerializeEntry(p, e) # None
           /\ jBuffer' = [jBuffer EXCEPT ![p] = Append(@, SerializeEntry(p, e))]
           /\ jNoted' = [jNoted EXCEPT ![p] = Append(@, e)]
  <2>1. jNoted \in [JProviders -> Seq(JEntries)] /\ jNoted[p] \in Seq(JEntries) /\ n \in Nat
    BY DEF JournalInd, Serialized
  <2>2. e \in JEntries /\ e.table = table
    BY <2>1 DEF JEntries
  <2>3. table \in JAllowed /\ SerializeEntry(p, e) = Triple(p, e)
    BY <1>3, <2>2 DEF SerializeEntry, Triple
  <2> HIDE DEF e
  <2>4. /\ jNoted' \in [JProviders -> Seq(JEntries)] /\ jNoted'[p] = Append(jNoted[p], e)
        /\ \A q \in JProviders \ {p} : jNoted'[q] = jNoted[q]
    BY <1>3, <2>1, <2>2
  <2>5. Serialized'
    <3>1. /\ \A q \in JProviders : \A k \in 1..Len(jNoted[q]) : jNoted[q][k].table \in JAllowed
          /\ jBuffer = [q \in JProviders |-> [k \in 1..Len(jNoted[q]) |-> Triple(q, jNoted[q][k])]]
      BY DEF JournalInd, Serialized
    <3>2. /\ Len(jNoted'[p]) = n /\ jNoted'[p][n] = e
          /\ \A k \in 1..Len(jNoted[p]) : jNoted'[p][k] = jNoted[p][k]
      BY <2>1, <2>2, <2>4
    <3>3. \A q \in JProviders : \A k \in 1..Len(jNoted'[q]) : jNoted'[q][k].table \in JAllowed
      <4> SUFFICES ASSUME NEW q \in JProviders, NEW k \in 1..Len(jNoted'[q])
                   PROVE  jNoted'[q][k].table \in JAllowed
        OBVIOUS
      <4>1. CASE q # p
        BY <2>4, <3>1, <4>1
      <4>2. CASE q = p
        <5>1. k = n \/ k \in 1..Len(jNoted[p])
          BY <2>1, <3>2, <4>2
        <5> QED BY <5>1, <2>2, <2>3, <3>1, <3>2, <4>2
      <4> QED BY <4>1, <4>2
    <3>4. jBuffer[p] = [k \in 1..Len(jNoted[p]) |-> Triple(p, jNoted[p][k])]
      BY <3>1
    <3>5. jBuffer'[p] = Append(jBuffer[p], Triple(p, e)) /\ \A q \in JProviders \ {p} : jBuffer'[q] = jBuffer[q]
      BY <1>3, <2>3, <3>1
    <3>6. jBuffer'[p] = [k \in 1..n |-> Triple(p, jNoted'[p][k])]
      <4> DEFINE old == [k \in 1..Len(jNoted[p]) |-> Triple(p, jNoted[p][k])]
      <4>1. old \in Seq({Triple(p, x) : x \in JEntries}) /\ Len(old) = Len(jNoted[p])
        BY <2>1
      <4>2. Append(old, Triple(p, e)) = [k \in 1..n |-> IF k = n THEN Triple(p, e) ELSE old[k]]
        BY <2>1, <2>2, <4>1
      <4>3. \A k \in 1..n : (IF k = n THEN Triple(p, e) ELSE old[k]) = Triple(p, jNoted'[p][k])
        BY <2>1, <3>2
      <4>4. [k \in 1..n |-> IF k = n THEN Triple(p, e) ELSE old[k]] = [k \in 1..n |-> Triple(p, jNoted'[p][k])]
        BY <4>3
      <4>5. jBuffer'[p] = Append(old, Triple(p, e))
        BY <3>4, <3>5
      <4> HIDE DEF old
      <4> QED BY <4>2, <4>4, <4>5
    <3>7. \A q \in JProviders : jBuffer'[q] = [k \in 1..Len(jNoted'[q]) |-> Triple(q, jNoted'[q][k])]
      <4> SUFFICES ASSUME NEW q \in JProviders
                   PROVE  jBuffer'[q] = [k \in 1..Len(jNoted'[q]) |-> Triple(q, jNoted'[q][k])]
        OBVIOUS
      <4>1. CASE q = p
        BY <3>2, <3>6, <4>1
      <4>2. CASE q # p
        BY <2>4, <3>1, <3>5, <4>2
      <4> QED BY <4>1, <4>2
    <3>8. DOMAIN jBuffer' = JProviders /\ jBuffer' = [q \in JProviders |-> jBuffer'[q]]
      BY <1>3, <3>1
    <3> QED BY <2>4, <3>3, <3>7, <3>8 DEF Serialized
  <2>6. \A q \in JProviders : Range(jNoted[q]) \subseteq Range(jNoted'[q])
    <3>1. Range(jNoted[p]) \subseteq Range(jNoted'[p])
      BY <2>1, <2>2, <2>4, NotedRange
    <3> QED BY <2>4, <3>1
  <2>7. Seq(JFields(jNoted)) \subseteq Seq(JFields(jNoted'))
    BY <2>6, FieldsGrow
  <2>8. Written'
    BY <1>1, <2>7 DEF JournalInd, Written
  <2>9. CutFiles'
    <3>1. \A q \in JProviders \ {p} : jBuffer'[q] = jBuffer[q]
      BY <1>3 DEF JournalInd, Serialized
    <3> QED BY <1>1, <3>1 DEF JournalInd, CutFiles
  <2>10. ReadsTyped' /\ DOMAIN jRead' = JProviders
    BY <1>1, <2>7 DEF JournalInd, ReadsTyped, JReads
  <2>11. ReadWasNoted'
    BY <1>1, <2>6 DEF JournalInd, JournalInv, ReadWasNoted, ReadOf
  <2>12. WholeOrNothing'
    BY <1>1, <2>4 DEF JournalInd, JournalInv, WholeOrNothing, ReadOf
  <2> QED BY <2>5, <2>8, <2>9, <2>10, <2>11, <2>12 DEF JournalInd, JournalInv
<1> QED BY <1>1, <1>2, <1>3

LEMMA FlushKeeps ==
    ASSUME JournalInd, NEW p \in JProviders, JFlush(p)
    PROVE  JournalInd'
<1>1. /\ jFile' = [jFile EXCEPT ![p] = BuildJournalFile(jBuffer[p])] /\ jRead[p] = None
      /\ UNCHANGED <<jBuffer, jNoted, jFaults, jRead>>
  BY DEF JFlush
<1> DEFINE s == jNoted[p]
           entries == [k \in 1..Len(s) |-> Triple(p, s[k])]
           file == BuildJournalFile(entries)
<1>2. s \in Seq(JEntries) /\ jBuffer[p] = entries /\ Len(s) \in Nat /\ Len(entries) = Len(s)
  BY DEF JournalInd, Serialized
<1> HIDE DEF s
<1>3. \A k \in 1..Len(s) : \A i \in 1..3 : entries[k][i] \in JFields(jNoted)
  <2> SUFFICES ASSUME NEW k \in 1..Len(s) PROVE \A i \in 1..3 : entries[k][i] \in JFields(jNoted)
    OBVIOUS
  <2>1. s[k] \in Range(jNoted[p])
    BY <1>2, NotedRange DEF s
  <2>2. Triple(p, s[k])[1] \in JFields(jNoted) /\ Triple(p, s[k])[2] \in JFields(jNoted)
        /\ Triple(p, s[k])[3] \in JFields(jNoted)
    BY <2>1 DEF JFields
  <2> QED BY <2>2
<1>4. \A j \in 1..(1 + 3 * Len(s)) : file[j] \in JFields(jNoted)
  <2> SUFFICES ASSUME NEW j \in 1..(1 + 3 * Len(s)) PROVE file[j] \in JFields(jNoted)
    OBVIOUS
  <2>1. CASE j = 1
    <3>1. file[j] = Magic
      BY <1>2, <2>1 DEF BuildJournalFile
    <3> QED BY <3>1 DEF JFields
  <2>2. CASE j # 1
    <3>1. PICK m \in Nat : m = j - 2
      <4>1. j - 2 \in Nat
        BY <1>2, <2>2
      <4> QED BY <4>1
    <3>2. m \div 3 \in Nat /\ m % 3 \in 0..2 /\ m = 3 * (m \div 3) + (m % 3)
      BY ThirdsOf
    <3>3. (m \div 3) + 1 \in 1..Len(s) /\ (m % 3) + 1 \in 1..3
      BY <1>2, <3>1, <3>2
    <3>4. file[j] = entries[(m \div 3) + 1][(m % 3) + 1]
      BY <1>2, <2>2, <3>1 DEF BuildJournalFile
    <3> QED BY <1>3, <3>3, <3>4
  <2> QED BY <2>1, <2>2
<1>5. /\ file = [k \in 1..(1 + 3 * Len(s)) |-> file[k]] /\ Len(file) = 1 + 3 * Len(s)
      /\ 1 + 3 * Len(s) \in Nat
  BY <1>2 DEF BuildJournalFile
<1>6. file \in Seq(JFields(jNoted))
  <2> HIDE DEF file
  <2> QED BY <1>4, <1>5
<1>7. BeginningOf(file, jBuffer[p])
  BY <1>2, <1>5 DEF BeginningOf
<1>8. jFile' = [jFile EXCEPT ![p] = file]
  BY <1>1, <1>2
<1> HIDE DEF file, entries
<1>9. Serialized' /\ ReadsTyped' /\ DOMAIN jRead' = JProviders /\ ReadWasNoted' /\ WholeOrNothing'
  <2>1. Serialized'
    BY <1>1 DEF JournalInd, Serialized
  <2>2. ReadsTyped' /\ DOMAIN jRead' = JProviders
    BY <1>1 DEF JournalInd, ReadsTyped, JReads
  <2>3. ReadWasNoted' /\ WholeOrNothing'
    BY <1>1 DEF JournalInd, JournalInv, ReadWasNoted, WholeOrNothing, ReadOf
  <2> QED BY <2>1, <2>2, <2>3
<1>10. Written'
  BY <1>1, <1>6, <1>8 DEF JournalInd, Written
<1>11. CutFiles'
  BY <1>1, <1>7, <1>8 DEF JournalInd, CutFiles, Written
<1> QED BY <1>9, <1>10, <1>11 DEF JournalInd, JournalInv

\* Of the files only p's is changed, to one of known fields; a cut leaves a beginning.
LEMMA FaultKeeps ==
    ASSUME JournalInd, NEW p \in JProviders, NEW what \in {"cut", "damage", "repeat", "swap"},
           NEW file \in Seq(JFields(jNoted)), Fault(p, what, file),
           what = "cut" /\ OnlyCut(p, jFaults) => BeginningOf(file, jBuffer[p])
    PROVE  JournalInd'
<1>1. /\ jFile' = [jFile EXCEPT ![p] = file] /\ jFaults' = Append(jFaults, <<p, what>>)
      /\ UNCHANGED <<jBuffer, jNoted, jRead>>
  BY DEF Fault
<1>2. jFaults \in Seq(JProviders \X {"cut", "damage", "repeat", "swap"})
  BY DEF JournalInd, Written
<1>3. Range(jFaults') = Range(jFaults) \cup {<<p, what>>}
  <2>1. DOMAIN jFaults = 1..Len(jFaults) /\ DOMAIN jFaults' = 1..(Len(jFaults) + 1) /\ Len(jFaults) \in Nat
    BY <1>1, <1>2
  <2>2. \A k \in 1..Len(jFaults) : jFaults'[k] = jFaults[k]
    BY <1>1, <1>2
  <2>3. jFaults'[Len(jFaults) + 1] = <<p, what>>
    BY <1>1, <1>2
  <2>4. \A k \in 1..(Len(jFaults) + 1) : k \in 1..Len(jFaults) \/ k = Len(jFaults) + 1
    BY <2>1
  <2>5. \A k \in 1..Len(jFaults) : k \in 1..(Len(jFaults) + 1)
    BY <2>1
  <2>6. Len(jFaults) + 1 \in 1..(Len(jFaults) + 1)
    BY <2>1
  <2> QED BY <2>1, <2>2, <2>3, <2>4, <2>5, <2>6 DEF Range
<1>4. \A q \in JProviders : OnlyCut(q, jFaults') => OnlyCut(q, jFaults)
  BY <1>3 DEF OnlyCut
<1>5. OnlyCut(p, jFaults') => what = "cut"
  <2>1. PICK x : x = <<p, what>>
    OBVIOUS
  <2>2. x \in Range(jFaults') /\ x[1] = p /\ x[2] = what
    BY <1>3, <2>1
  <2> QED BY <2>2 DEF OnlyCut
<1>6. Serialized'
  BY <1>1 DEF JournalInd, Serialized
<1>7. Written'
  <2>1. jFaults' \in Seq(JProviders \X {"cut", "damage", "repeat", "swap"})
    BY <1>1, <1>2
  <2> QED BY <1>1, <2>1 DEF JournalInd, Written
<1>8. CutFiles'
  <2>1. jFile'[p] = file /\ \A q \in JProviders \ {p} : jFile'[q] = jFile[q]
    BY <1>1 DEF JournalInd, Written
  <2> QED BY <1>1, <1>4, <1>5, <2>1 DEF JournalInd, CutFiles
<1>9. ReadsTyped' /\ DOMAIN jRead' = JProviders
  BY <1>1 DEF JournalInd, ReadsTyped, JReads
<1>10. ReadWasNoted'
  BY <1>1 DEF JournalInd, JournalInv, ReadWasNoted, ReadOf
<1>11. WholeOrNothing'
  BY <1>1, <1>4 DEF JournalInd, JournalInv, WholeOrNothing, ReadOf, OnlyCut
<1> QED BY <1>6, <1>7, <1>8, <1>9, <1>10, <1>11 DEF JournalInd, JournalInv

LEMMA StorageKeeps ==
    ASSUME JournalInd, NEW p \in JProviders, jFile[p] # None,
           JCutShort(p) \/ JDamage(p) \/ JRepeat(p) \/ \E q \in JProviders : JSwap(p, q)
    PROVE  JournalInd'
<1>1. jFile[p] \in Seq(JFields(jNoted)) /\ \A q \in JProviders : jFile[q] # None => jFile[q] \in Seq(JFields(jNoted))
  BY DEF JournalInd, Written
<1>2. CASE JCutShort(p)
  <2>1. PICK k \in 0..Len(jFile[p]) - 1 : Fault(p, "cut", SubSeq(jFile[p], 1, k))
    BY <1>2 DEF JCutShort
  <2> DEFINE file == SubSeq(jFile[p], 1, k)
  <2>2. file \in Seq(JFields(jNoted)) /\ Len(file) = k /\ k <= Len(jFile[p])
        /\ \A i \in 1..k : file[i] = jFile[p][i] /\ i \in 1..Len(jFile[p])
    BY <1>1
  <2>3. OnlyCut(p, jFaults) => BeginningOf(file, jBuffer[p])
    <3> SUFFICES ASSUME OnlyCut(p, jFaults) PROVE BeginningOf(file, jBuffer[p])
      OBVIOUS
    <3>1. BeginningOf(jFile[p], jBuffer[p])
      BY DEF JournalInd, CutFiles
    <3>2. Len(jBuffer[p]) \in Nat
      BY DEF JournalInd, Serialized
    <3> HIDE DEF file
    <3>3. Len(file) <= 1 + 3 * Len(jBuffer[p])
      BY <1>1, <2>2, <3>1, <3>2 DEF BeginningOf
    <3>4. \A i \in 1..Len(file) : file[i] = BuildJournalFile(jBuffer[p])[i]
      BY <2>2, <3>1 DEF BeginningOf
    <3> QED BY <3>3, <3>4 DEF BeginningOf
  <2> HIDE DEF file
  <2>4. Fault(p, "cut", file)
    BY <2>1 DEF file
  <2> QED BY <2>2, <2>3, <2>4, FaultKeeps
<1>3. CASE JDamage(p)
  <2>1. PICK k \in 1..Len(jFile[p]) : Fault(p, "damage", [jFile[p] EXCEPT ![k] = DamagedField])
    BY <1>3 DEF JDamage
  <2>2. DamagedField \in JFields(jNoted)
    BY DEF JFields
  <2>3. [jFile[p] EXCEPT ![k] = DamagedField] \in Seq(JFields(jNoted))
    BY <1>1, <2>2
  <2> QED BY <2>1, <2>3, FaultKeeps
<1>4. CASE JRepeat(p)
  <2>1. Fault(p, "repeat", jFile[p] \o SubSeq(jFile[p], 2, 4)) /\ Len(jFile[p]) >= 4
    BY <1>4 DEF JRepeat
  <2>2. SubSeq(jFile[p], 2, 4) \in Seq(JFields(jNoted))
    BY <1>1, <2>1
  <2>3. jFile[p] \o SubSeq(jFile[p], 2, 4) \in Seq(JFields(jNoted))
    BY <1>1, <2>2
  <2> QED BY <2>1, <2>3, FaultKeeps
<1>5. CASE \E q \in JProviders : JSwap(p, q)
  <2>1. PICK q \in JProviders : JSwap(p, q)
    BY <1>5
  <2>2. Fault(p, "swap", jFile[q]) /\ jFile[q] \in Seq(JFields(jNoted))
    BY <1>1, <2>1 DEF JSwap
  <2> QED BY <2>2, FaultKeeps
<1> QED BY <1>2, <1>3, <1>4, <1>5

LEMMA ReplayKeeps ==
    ASSUME JournalInd, NEW p \in JProviders, JReplay(p)
    PROVE  JournalInd'
<1>1. /\ jFile[p] # None
      /\ jRead' = [jRead EXCEPT ![p] = [got |-> ParseJournal(p, jFile[p]), of |-> jFile[p]]]
      /\ jFile' \in {jFile, [jFile EXCEPT ![p] = None]}
      /\ UNCHANGED <<jBuffer, jNoted, jFaults>>
  BY DEF JReplay
<1>2. jFile[p] \in Seq(JFields(jNoted)) /\ jNoted \in [JProviders -> Seq(JEntries)]
  BY <1>1 DEF JournalInd, Written, Serialized
<1>3. /\ jRead'[p] = [got |-> ParseJournal(p, jFile[p]), of |-> jFile[p]]
      /\ \A q \in JProviders \ {p} : jRead'[q] = jRead[q]
      /\ DOMAIN jRead' = JProviders
  BY <1>1 DEF JournalInd
<1>4. jRead'[p].got = ParseJournal(p, jFile[p]) /\ jRead'[p].of = jFile[p]
  BY <1>3
<1>5. Serialized'
  BY <1>1 DEF JournalInd, Serialized
<1>6. Written'
  BY <1>1 DEF JournalInd, Written
<1>7. CutFiles'
  BY <1>1 DEF JournalInd, CutFiles, Written
<1>8. ReadsTyped'
  <2>1. ParseJournal(p, jFile[p]) \in {None} \cup Seq(JEntries)
    BY <1>2, ReadIsNoted
  <2>2. jRead'[p] \in [got : {None} \cup Seq(JEntries), of : Seq(JFields(jNoted))]
    BY <1>2, <1>3, <2>1
  <2> QED BY <1>1, <1>3, <2>2 DEF JournalInd, ReadsTyped, JReads
<1>9. ReadWasNoted'
  <2>1. ParseJournal(p, jFile[p]) = None \/ Range(ParseJournal(p, jFile[p])) \subseteq Range(jNoted[p])
    BY <1>2, ReadIsNoted
  <2> QED BY <1>1, <1>3, <1>4, <2>1 DEF JournalInd, JournalInv, ReadWasNoted, ReadOf
<1>10. WholeOrNothing'
  <2>1. ASSUME OnlyCut(p, jFaults)
        PROVE  ParseJournal(p, jFile[p]) = IF Len(jFile[p]) % 3 # 1 THEN None
                                           ELSE SubSeq(jNoted[p], 1, Len(jFile[p]) \div 3)
    <3>1. BeginningOf(jFile[p], jBuffer[p])
      BY <1>1, <2>1 DEF JournalInd, CutFiles
    <3>2. /\ jBuffer[p] = [k \in 1..Len(jNoted[p]) |-> Triple(p, jNoted[p][k])]
          /\ \A k \in 1..Len(jNoted[p]) : jNoted[p][k].table \in JAllowed
      BY DEF JournalInd, Serialized
    <3>3. BeginningOf(jFile[p], [k \in 1..Len(jNoted[p]) |-> Triple(p, jNoted[p][k])])
      BY <3>1, <3>2
    <3>4. PICK s \in Seq(JEntries), file \in Seq(JFields(jNoted)) : s = jNoted[p] /\ file = jFile[p]
      BY <1>2
    <3>5. ParseJournal(p, file) = IF Len(file) % 3 # 1 THEN None ELSE SubSeq(s, 1, Len(file) \div 3)
      BY <3>2, <3>3, <3>4, CutReadBack
    <3> QED BY <3>4, <3>5
  <2> QED BY <1>1, <1>3, <1>4, <2>1 DEF JournalInd, JournalInv, WholeOrNothing, ReadOf, OnlyCut
<1> QED BY <1>3, <1>5, <1>6, <1>7, <1>8, <1>9, <1>10 DEF JournalInd, JournalInv

LEMMA JournalStep == JournalInd /\ [JcNext]_jcVars => JournalInd'
<1> SUFFICES ASSUME JournalInd, [JcNext]_jcVars PROVE JournalInd'
  OBVIOUS
<1>1. CASE UNCHANGED jcVars
  BY <1>1, JournalStays
<1>2. CASE JcNext
  <2>1. PICK p \in JProviders :
           \/ \E type \in EntryTypes, table \in JTables : JAppend(p, type, table)
           \/ JFlush(p) \/ JReplay(p)
           \/ jFile[p] # None /\ (JCutShort(p) \/ JDamage(p) \/ JRepeat(p))
           \/ \E q \in JProviders : JSwap(p, q)
    BY <1>2 DEF JcNext
  <2>2. CASE \E type \in EntryTypes, table \in JTables : JAppend(p, type, table)
    BY <2>2, AppendKeeps
  <2>3. CASE JFlush(p) \/ JReplay(p)
    BY <2>3, FlushKeeps, ReplayKeeps
  <2>4. CASE jFile[p] # None /\ (JCutShort(p) \/ JDamage(p) \/ JRepeat(p))
    BY <2>4, StorageKeeps
  <2>5. CASE \E q \in JProviders : JSwap(p, q)
    <3>1. jFile[p] # None
      BY <2>5 DEF JSwap, Fault
    <3> QED BY <2>5, <3>1, StorageKeeps
  <2> QED BY <2>1, <2>2, <2>3, <2>4, <2>5
<1> QED BY <1>1, <1>2

\* Whatever storage does to the journal files, a replay takes from one only entries that were
\* appended to this provider's journal, and a file that was only cut is read up to the cut or
\* refused (serialize_entry, build_journal_file, parse_journal), for any journals and faults.
THEOREM JournalReadsWhatWasWritten == JcSpec => []JournalInv
<1>1. JournalInd => JournalInv
  BY DEF JournalInd
<1> QED BY <1>1, JournalStart, JournalStep, PTL DEF JcSpec
=============================================================================
