-------------------------- MODULE BlobStreamProofs --------------------------
(***************************************************************************)
(* Proofs about BlobStream for any sizes of files, chunks and fragments,   *)
(* and any blob that storage may deliver.                                  *)
(***************************************************************************)
EXTENDS BlobStream, Loops, SequenceTheorems, TLAPS

(***************************************************************************)
(* Where a file is cut.                                                    *)
(***************************************************************************)
Bytes == Nat
Cut1(n, c) == IF c * Chunk < n THEN c * Chunk ELSE n
Size(n, c) == Cut1(n, c) - Cut1(n, c - 1)
Piece(n, c) == [j \in 1..Size(n, c) |-> Cut1(n, c - 1) + j]
Pieces(n, m) == [c \in 1..m |-> Piece(n, c)]
PieceCount(n) == (n + Chunk - 1) \div Chunk

LEMMA CountFacts ==
    ASSUME NEW n \in Nat
    PROVE  /\ PieceCount(n) \in Nat
           /\ n <= PieceCount(n) * Chunk /\ PieceCount(n) * Chunk < n + Chunk
<1>1. Chunk \in Nat \ {0}
  BY BlobAssumption
<1> QED BY <1>1, Z3 DEF PieceCount

LEMMA Multiples ==
    ASSUME NEW c \in Nat, NEW d \in Nat
    PROVE  /\ c * Chunk \in Nat /\ (c + 1) * Chunk = c * Chunk + Chunk
           /\ c < d => c * Chunk + Chunk <= d * Chunk
           /\ c <= d => c * Chunk <= d * Chunk
<1>1. Chunk \in Nat \ {0}
  BY BlobAssumption
<1>2. c * Chunk \in Nat /\ (c + 1) * Chunk = c * Chunk + Chunk
  BY <1>1
<1>3. c < d => c * Chunk + Chunk <= d * Chunk
  <2> SUFFICES ASSUME c < d PROVE c * Chunk + Chunk <= d * Chunk
    OBVIOUS
  <2>1. PICK e \in Nat : d = c + 1 + e
    <3>1. d - c - 1 \in Nat /\ d = c + 1 + (d - c - 1)
      OBVIOUS
    <3> QED BY <3>1
  <2>2. d * Chunk = c * Chunk + Chunk + e * Chunk /\ e * Chunk \in Nat
    BY <1>1, <2>1
  <2> QED BY <1>1, <1>2, <2>2
<1>4. c <= d => c * Chunk <= d * Chunk
  BY <1>1, <1>2, <1>3
<1> QED BY <1>2, <1>3, <1>4

\* The cuts go from nothing to all of the file.
LEMMA CutFacts ==
    ASSUME NEW n \in Nat, NEW c \in Nat
    PROVE  /\ Cut1(n, c) \in 0..n /\ Cut1(n, 0) = 0
           /\ Cut1(n, c) <= Cut1(n, c + 1) /\ Cut1(n, c + 1) <= Cut1(n, c) + Chunk
           /\ n <= c * Chunk => Cut1(n, c) = n
           /\ c * Chunk <= n => Cut1(n, c) = c * Chunk
<1>1. Chunk \in Nat \ {0}
  BY BlobAssumption
<1>2. PICK t \in Nat : t = c * Chunk
  BY Multiples
<1>3. (c + 1) * Chunk = t + Chunk
  BY <1>2, Multiples
<1>4. 0 * Chunk = 0
  BY <1>1
<1> QED BY <1>1, <1>2, <1>3, <1>4 DEF Cut1

LEMMA SizeFacts ==
    ASSUME NEW n \in Nat, NEW c \in Nat \ {0}
    PROVE  /\ Size(n, c) \in Nat /\ Size(n, c) <= Chunk /\ Cut1(n, c) = Cut1(n, c - 1) + Size(n, c)
           /\ Len(Piece(n, c)) = Size(n, c) /\ Piece(n, c) \in Seq(Bytes)
           /\ Cut1(n, c - 1) \in Nat
<1>1. PICK d \in Nat : d = c - 1
  OBVIOUS
<1>2. /\ Cut1(n, d) \in 0..n /\ Cut1(n, d + 1) \in 0..n /\ Cut1(n, d) <= Cut1(n, d + 1)
      /\ Cut1(n, d + 1) <= Cut1(n, d) + Chunk
  BY CutFacts
<1>3. d + 1 = c /\ Chunk \in Nat
  BY <1>1, BlobAssumption
<1>4. Size(n, c) = Cut1(n, d + 1) - Cut1(n, d)
  BY <1>1, <1>3 DEF Size
<1>5. Size(n, c) \in Nat /\ Size(n, c) <= Chunk /\ Cut1(n, c) = Cut1(n, c - 1) + Size(n, c) /\ Cut1(n, c - 1) \in Nat
  BY <1>1, <1>2, <1>3, <1>4
<1>6. Len(Piece(n, c)) = Size(n, c) /\ Piece(n, c) \in Seq(Bytes)
  <2>1. PICK k \in Nat, x \in Nat : k = Size(n, c) /\ x = Cut1(n, c - 1)
    BY <1>5
  <2>2. [j \in 1..k |-> x + j] \in [1..k -> Bytes]
    BY DEF Bytes
  <2>3. [j \in 1..k |-> x + j] \in Seq(Bytes) /\ Len([j \in 1..k |-> x + j]) = k
    BY <2>2
  <2> QED BY <2>1, <2>3 DEF Piece
<1> QED BY <1>5, <1>6

\* ChunksOf() of a file cuts it so.
LEMMA ChunksAre ==
    ASSUME NEW n \in Nat
    PROVE  ChunksOf(PlainOf(n)) = Pieces(n, PieceCount(n))
<1>1. Len(PlainOf(n)) = n /\ PlainOf(n) \in Seq(Bytes) /\ \A j \in 1..n : PlainOf(n)[j] = j
  <2>1. PlainOf(n) \in [1..n -> Bytes]
    BY DEF PlainOf, Bytes
  <2>2. PlainOf(n) \in Seq(Bytes) /\ Len(PlainOf(n)) = n
    BY <2>1
  <2> QED BY <2>2 DEF PlainOf
<1>2. PICK m \in Nat : m = PieceCount(n) /\ n <= m * Chunk /\ m * Chunk < n + Chunk
  BY CountFacts
<1>3. Chunk \in Nat \ {0}
  BY BlobAssumption
<1>4. ASSUME NEW c \in 1..m
      PROVE  SubSeq(PlainOf(n), (c - 1) * Chunk + 1, IF c = m THEN n ELSE c * Chunk) = Piece(n, c)
  <2>1. PICK d \in Nat : d = c - 1 /\ c = d + 1 /\ d < m
    OBVIOUS
  <2>2. PICK t \in Nat : t = d * Chunk
    BY Multiples
  <2>3. t + Chunk <= m * Chunk /\ m * Chunk \in Nat
    BY <2>1, <2>2, Multiples
  <2>4. t < n
    BY <1>2, <1>3, <2>3
  <2>5. Cut1(n, d) = t
    BY <2>2, <2>4 DEF Cut1
  <2>6. PICK e \in Nat : e = IF c = m THEN n ELSE c * Chunk
    BY <1>2, Multiples
  <2>7. Cut1(n, c) = e /\ e <= n /\ t <= e
    <3>1. CASE c = m
      BY <1>2, <2>4, <2>6, <3>1, CutFacts
    <3>2. CASE c # m
      <4>1. c \in Nat /\ c < m
        BY <3>2
      <4>2. c * Chunk + Chunk <= m * Chunk
        BY <4>1, Multiples
      <4>3. c * Chunk < n /\ c * Chunk = t + Chunk
        BY <1>2, <1>3, <2>1, <2>2, <2>3, <2>6, <3>2, <4>2, Multiples
      <4> QED BY <1>3, <2>6, <3>2, <4>3 DEF Cut1
    <3> QED BY <3>1, <3>2
  <2>8. SubSeq(PlainOf(n), t + 1, e) = [j \in 1..(e - t) |-> t + j]
    BY <1>1, <2>7
  <2>9. Piece(n, c) = [j \in 1..(e - t) |-> t + j]
    BY <2>1, <2>5, <2>7 DEF Piece, Size
  <2> QED BY <2>1, <2>2, <2>6, <2>8, <2>9
<1>5. ChunksOf(PlainOf(n)) =
        [c \in 1..m |-> SubSeq(PlainOf(n), (c - 1) * Chunk + 1, IF c = m THEN n ELSE c * Chunk)]
  BY <1>1, <1>2 DEF ChunksOf, PieceCount
<1> QED BY <1>2, <1>4, <1>5 DEF Pieces
-----------------------------------------------------------------------------
(***************************************************************************)
(* What a frame is made of.                                                *)
(***************************************************************************)
Parts(key) == [f : {key}, k : {"hdr", "len", "nonce", "ct", "tag"}, i : Nat, j : Nat, n : Nat,
               v : Bytes \cup {None}]
CtUnit(key, i, p, j) == Unit(key, "ct", i, j, Len(p), p[j])
TagUnit(key, i, p) == Unit(key, "tag", i, Len(p) + 1, Len(p), None)
LenUnit(key, i, p) == Unit(key, "len", i, 1, Len(p) + 2, None)
NonceUnit(key, i) == Unit(key, "nonce", i, 1, 0, None)

LEMMA UnitsAreParts ==
    ASSUME NEW key, NEW i \in Nat, NEW p \in Seq(Bytes)
    PROVE  /\ LenUnit(key, i, p) \in Parts(key) /\ NonceUnit(key, i) \in Parts(key)
           /\ TagUnit(key, i, p) \in Parts(key)
           /\ \A j \in 1..Len(p) : CtUnit(key, i, p, j) \in Parts(key)
BY DEF Parts, Unit, LenUnit, NonceUnit, TagUnit, CtUnit

LEMMA SealedIs ==
    ASSUME NEW key, NEW i \in Nat, NEW p \in Seq(Bytes)
    PROVE  /\ Sealed(key, i, p) \in Seq(Parts(key)) /\ Len(Sealed(key, i, p)) = Len(p) + 1
           /\ \A j \in 1..Len(p) : Sealed(key, i, p)[j] = CtUnit(key, i, p, j)
           /\ Sealed(key, i, p)[Len(p) + 1] = TagUnit(key, i, p)
<1>1. PICK k \in Nat : k = Len(p)
  OBVIOUS
<1>2. PICK s : s = Sealed(key, i, p)
  OBVIOUS
<1>3. s = [j \in 1..(k + 1) |-> IF j <= k THEN CtUnit(key, i, p, j) ELSE Unit(key, "tag", i, j, k, None)]
  BY <1>1, <1>2 DEF Sealed, CtUnit
<1>4. \A j \in 1..k : s[j] = CtUnit(key, i, p, j)
  BY <1>3
<1>5. s[k + 1] = TagUnit(key, i, p)
  BY <1>1, <1>3 DEF TagUnit
<1>6. ASSUME NEW j \in 1..(k + 1) PROVE s[j] \in Parts(key)
  <2>1. CASE j = k + 1
    BY <1>5, <2>1, UnitsAreParts
  <2>2. CASE j # k + 1
    <3>1. j \in 1..k
      BY <2>2
    <3> QED BY <1>1, <1>4, <3>1, UnitsAreParts
  <2> QED BY <2>1, <2>2
<1>7. s \in [1..(k + 1) -> Parts(key)]
  BY <1>3, <1>6
<1>8. s \in Seq(Parts(key)) /\ Len(s) = k + 1
  BY <1>7
<1> QED BY <1>1, <1>2, <1>4, <1>5, <1>8

\* A sequence is a function on the places it has.
LEMMA SeqIsFunction ==
    ASSUME NEW T, NEW s \in Seq(T)
    PROVE  s = [j \in 1..Len(s) |-> s[j]] /\ Len(s) \in Nat
<1>1. s \in [1..Len(s) -> T]
  BY LenProperties
<1> QED BY <1>1

LEMMA FunctionIsSeq ==
    ASSUME NEW T, NEW k \in Nat, NEW f \in [1..k -> T]
    PROVE  f \in Seq(T) /\ Len(f) = k
OBVIOUS

\* The k places of a sequence that follow the first a.
LEMMA SubSeqIs ==
    ASSUME NEW T, NEW s \in Seq(T), NEW a \in Nat, NEW k \in Nat, a + k <= Len(s),
           NEW t, t = SubSeq(s, a + 1, a + k)
    PROVE  t \in Seq(T) /\ Len(t) = k /\ \A j \in 1..k : t[j] = s[a + j]
<1>1. \A i \in (a + 1)..(a + k) : s[i] \in T
  OBVIOUS
<1>2. PICK x \in Int, y \in Int : x = a + 1 /\ y = a + k
  OBVIOUS
<1>3. /\ SubSeq(s, x, y) \in Seq(T) /\ Len(SubSeq(s, x, y)) = IF x <= y THEN y - x + 1 ELSE 0
      /\ \A i \in 1..(y - x + 1) : SubSeq(s, x, y)[i] = s[x + i - 1]
  BY <1>1, <1>2, SubSeqProperties
<1>4. t = SubSeq(s, x, y)
  BY <1>2
<1>5. t \in Seq(T) /\ Len(t) = k
  BY <1>2, <1>3, <1>4
<1>6. ASSUME NEW j \in 1..k PROVE t[j] = s[a + j]
  <2>1. j \in 1..(y - x + 1) /\ x + j - 1 = a + j
    BY <1>2
  <2>2. t[j] = s[x + j - 1]
    BY <1>3, <1>4, <2>1
  <2> QED BY <2>1, <2>2
<1> QED BY <1>5, <1>6

\* Joining two sequences.
LEMMA JoinIs ==
    ASSUME NEW T, NEW s \in Seq(T), NEW t \in Seq(T), NEW u, u = s \o t
    PROVE  /\ u \in Seq(T) /\ Len(u) = Len(s) + Len(t)
           /\ \A j \in 1..Len(s) : u[j] = s[j]
           /\ \A j \in 1..Len(t) : u[Len(s) + j] = t[j]
OBVIOUS

LEMMA FrameIs ==
    ASSUME NEW key, NEW i \in Nat, NEW p \in Seq(Bytes)
    PROVE  /\ Frame(key, i, p) \in Seq(Parts(key)) /\ Len(Frame(key, i, p)) = Len(p) + 3
           /\ Frame(key, i, p)[1] = LenUnit(key, i, p) /\ Frame(key, i, p)[2] = NonceUnit(key, i)
           /\ \A j \in 1..(Len(p) + 1) : Frame(key, i, p)[2 + j] = Sealed(key, i, p)[j]
<1>1. PICK s \in Seq(Parts(key)) : s = Sealed(key, i, p) /\ Len(s) = Len(p) + 1
  BY SealedIs
<1>2. PICK h : h = <<LenUnit(key, i, p), NonceUnit(key, i)>>
  OBVIOUS
<1>3. h \in Seq(Parts(key)) /\ Len(h) = 2 /\ h[1] = LenUnit(key, i, p) /\ h[2] = NonceUnit(key, i)
  BY <1>2, UnitsAreParts
<1>4. PICK g : g = h \o s
  OBVIOUS
<1>5. g = Frame(key, i, p)
  BY <1>1, <1>2, <1>4 DEF Frame, LenUnit, NonceUnit
<1>6. g \in Seq(Parts(key)) /\ Len(g) = 2 + Len(s) /\ (\A j \in 1..2 : g[j] = h[j])
      /\ (\A j \in 1..Len(s) : g[2 + j] = s[j])
  <2>1. PICK x \in Seq(Parts(key)) : x = h
    BY <1>3
  <2>2. g \in Seq(Parts(key)) /\ Len(g) = Len(x) + Len(s) /\ (\A j \in 1..Len(x) : g[j] = x[j])
        /\ (\A j \in 1..Len(s) : g[Len(x) + j] = s[j])
    <3>1. g = x \o s
      BY <1>4, <2>1
    <3> HIDE <2>1
    <3> QED BY <3>1, JoinIs
  <2>3. Len(x) = 2
    BY <1>3, <2>1
  <2> QED BY <2>1, <2>2, <2>3
<1>7. g[1] = h[1] /\ g[2] = h[2]
  BY <1>6
<1>8. Len(g) = Len(p) + 3
  BY <1>1, <1>6
<1> QED BY <1>1, <1>3, <1>5, <1>6, <1>7, <1>8

\* The frames of the first chunks, chunk by chunk.
LEMMA FramedIs ==
    ASSUME NEW key, NEW cs \in Seq(Seq(Bytes))
    PROVE  /\ Framed(key, cs) \in [0..Len(cs) -> Seq(Parts(key))]
           /\ Framed(key, cs)[0] = <<>>
           /\ \A c \in 1..Len(cs) : Framed(key, cs)[c] = Framed(key, cs)[c - 1] \o Frame(key, c - 1, cs[c])
<1>1. PICK S : S = Seq(Parts(key))
  OBVIOUS
<1>2. PICK N \in Nat : N = Len(cs)
  OBVIOUS
<1>3. ASSUME NEW c \in 1..N PROVE Frame(key, c - 1, cs[c]) \in S
  <2>1. cs[c] \in Seq(Bytes) /\ c - 1 \in Nat
    BY <1>2
  <2> QED BY <1>1, <2>1, FrameIs
<1>4. PICK g : g = [c \in 1..N |-> [x \in S |-> x \o Frame(key, c - 1, cs[c])]]
  OBVIOUS
<1>5. g \in Rounds(S, N)
  <2>1. ASSUME NEW c \in 1..N, NEW x \in S PROVE x \o Frame(key, c - 1, cs[c]) \in S
    BY <1>1, <1>3
  <2> QED BY <1>4, <2>1 DEF Rounds
<1>6. <<>> \in S
  BY <1>1
<1>7. PICK h : IsRun(h, S, <<>>, N, g)
  BY <1>5, <1>6, Iterates
<1>8. h = [c \in 0..N |-> IF c = 0 THEN <<>> ELSE h[c - 1] \o Frame(key, c - 1, cs[c])]
  <2>1. h \in [0..N -> S] /\ h[0] = <<>> /\ \A c \in 1..N : h[c] = g[c][h[c - 1]]
    BY <1>7 DEF IsRun
  <2>2. \A c \in 1..N : h[c] = h[c - 1] \o Frame(key, c - 1, cs[c])
    <3> SUFFICES ASSUME NEW c \in 1..N PROVE h[c] = h[c - 1] \o Frame(key, c - 1, cs[c])
      OBVIOUS
    <3>1. c - 1 \in 0..N
      OBVIOUS
    <3>2. h[c - 1] \in S /\ h[c] = g[c][h[c - 1]]
      BY <2>1, <3>1
    <3>3. g[c] = [x \in S |-> x \o Frame(key, c - 1, cs[c])]
      BY <1>4
    <3> QED BY <3>2, <3>3
  <2>3. ASSUME NEW c \in 0..N
        PROVE  h[c] = IF c = 0 THEN <<>> ELSE h[c - 1] \o Frame(key, c - 1, cs[c])
    <3>1. c = 0 \/ c \in 1..N
      OBVIOUS
    <3> QED BY <2>1, <2>2, <3>1
  <2> QED BY <2>1, <2>3
<1> DEFINE Good(at) == at = [c \in 0..N |-> IF c = 0 THEN <<>> ELSE at[c - 1] \o Frame(key, c - 1, cs[c])]
<1>9. PICK F : F = Framed(key, cs)
  OBVIOUS
<1>10. F = CHOOSE at : Good(at)
  BY <1>2, <1>9 DEF Framed
<1>11. Good(F)
  BY <1>8, <1>10
<1>12. F[0] = <<>> /\ \A c \in 1..N : F[c] = F[c - 1] \o Frame(key, c - 1, cs[c])
  <2>1. \A c \in 0..N : F[c] = IF c = 0 THEN <<>> ELSE F[c - 1] \o Frame(key, c - 1, cs[c])
    BY <1>11
  <2>2. 0 \in 0..N /\ \A c \in 1..N : c \in 0..N /\ c # 0
    OBVIOUS
  <2> QED BY <2>1, <2>2
<1>13. F \in [0..N -> S]
  <2>1. PICK P : P = {c \in Nat : c <= N => F[c] \in S}
    OBVIOUS
  <2>2. P \in SUBSET Nat /\ 0 \in P
    BY <1>6, <1>12, <2>1
  <2>3. ASSUME NEW c \in P PROVE c + 1 \in P
    <3> SUFFICES ASSUME c + 1 <= N PROVE F[c + 1] \in S
      BY <2>1
    <3>1. F[c] \in S /\ c + 1 \in 1..N
      BY <2>1
    <3>2. F[c + 1] = F[c] \o Frame(key, c, cs[c + 1]) /\ Frame(key, c, cs[c + 1]) \in S
      <4>1. (c + 1) - 1 = c
        BY <2>1
      <4> QED BY <1>3, <1>12, <3>1, <4>1
    <3> QED BY <1>1, <3>1, <3>2
  <2>4. P = Nat
    BY <2>2, <2>3, SetInduction
  <2>5. \A c \in 0..N : F[c] \in S
    BY <2>1, <2>4
  <2> QED BY <1>11, <2>5
<1> QED BY <1>1, <1>2, <1>9, <1>12, <1>13

\* They depend on those chunks alone.
LEMMA FramedSame ==
    ASSUME NEW key, NEW cs \in Seq(Seq(Bytes)), NEW ds \in Seq(Seq(Bytes)), NEW k \in Nat,
           k <= Len(cs), k <= Len(ds), \A c \in 1..k : cs[c] = ds[c]
    PROVE  Framed(key, cs)[k] = Framed(key, ds)[k]
<1>1. PICK F, G : F = Framed(key, cs) /\ G = Framed(key, ds)
  OBVIOUS
<1>2. F[0] = <<>> /\ G[0] = <<>>
      /\ (\A c \in 1..Len(cs) : F[c] = F[c - 1] \o Frame(key, c - 1, cs[c]))
      /\ (\A c \in 1..Len(ds) : G[c] = G[c - 1] \o Frame(key, c - 1, ds[c]))
  BY <1>1, FramedIs
<1>3. PICK P : P = {c \in Nat : c <= k => F[c] = G[c]}
  OBVIOUS
<1>4. P \in SUBSET Nat /\ 0 \in P
  BY <1>2, <1>3
<1>5. ASSUME NEW c \in P PROVE c + 1 \in P
  <2> SUFFICES ASSUME c + 1 <= k PROVE F[c + 1] = G[c + 1]
    BY <1>3
  <2>1. c \in Nat /\ F[c] = G[c] /\ c + 1 \in 1..k /\ c + 1 \in 1..Len(cs) /\ c + 1 \in 1..Len(ds)
    BY <1>3
  <2>2. PICK d \in 1..k : d = c + 1 /\ d \in 1..Len(cs) /\ d \in 1..Len(ds) /\ d - 1 = c
    <3>1. c + 1 - 1 = c
      BY <2>1
    <3> QED BY <2>1, <3>1
  <2>3. F[d] = F[d - 1] \o Frame(key, d - 1, cs[d]) /\ G[d] = G[d - 1] \o Frame(key, d - 1, ds[d])
    BY <1>2, <2>2
  <2>4. cs[d] = ds[d]
    OBVIOUS
  <2> QED BY <2>1, <2>2, <2>3, <2>4
<1>6. P = Nat
  BY <1>4, <1>5, SetInduction
<1> QED BY <1>1, <1>3, <1>6
-----------------------------------------------------------------------------
(***************************************************************************)
(* The body of a file of n bytes, its first c pieces at a time.            *)
(***************************************************************************)
Wire(key, n, c) == Framed(key, Pieces(n, c))[c]
MacOf(key, n, c) == Mac(key, Pieces(n, c))
MacEntries(key) == Nat \X Seq(Parts(key))

LEMMA PiecesAre ==
    ASSUME NEW n \in Nat, NEW m \in Nat
    PROVE  /\ Pieces(n, m) \in Seq(Seq(Bytes)) /\ Len(Pieces(n, m)) = m
           /\ \A c \in 1..m : Pieces(n, m)[c] = Piece(n, c) /\ Piece(n, c) \in Seq(Bytes)
<1>1. \A c \in 1..m : Piece(n, c) \in Seq(Bytes)
  BY SizeFacts
<1>2. PICK S : S = Seq(Bytes)
  OBVIOUS
<1>3. Pieces(n, m) \in [1..m -> S]
  BY <1>1, <1>2 DEF Pieces
<1>4. Pieces(n, m) \in Seq(S) /\ Len(Pieces(n, m)) = m
  BY <1>3
<1> QED BY <1>1, <1>2, <1>4 DEF Pieces

LEMMA WireStep ==
    ASSUME NEW key, NEW n \in Nat, NEW c \in Nat
    PROVE  /\ Wire(key, n, 0) = <<>> /\ Wire(key, n, c) \in Seq(Parts(key))
           /\ Wire(key, n, c + 1) = Wire(key, n, c) \o Frame(key, c, Piece(n, c + 1))
<1>1. PICK cs \in Seq(Seq(Bytes)) : cs = Pieces(n, c) /\ Len(cs) = c /\ \A d \in 1..c : cs[d] = Piece(n, d)
  BY PiecesAre
<1>2. c + 1 \in Nat
  OBVIOUS
<1>3. PICK ds \in Seq(Seq(Bytes)) : /\ ds = Pieces(n, c + 1) /\ Len(ds) = c + 1
                                  /\ \A d \in 1..(c + 1) : ds[d] = Piece(n, d)
  BY <1>2, PiecesAre
<1>4. Framed(key, ds)[c] = Framed(key, cs)[c]
  <2>1. \A d \in 1..c : cs[d] = ds[d]
    BY <1>1, <1>3
  <2>2. c <= Len(cs) /\ c <= Len(ds)
    BY <1>1, <1>3
  <2> QED BY <2>1, <2>2, FramedSame
<1>5. PICK d \in 1..Len(ds) : d = c + 1 /\ d - 1 = c
  BY <1>3
<1>6. Framed(key, ds)[d] = Framed(key, ds)[d - 1] \o Frame(key, d - 1, ds[d])
  BY <1>5, FramedIs
<1>7. ds[d] = Piece(n, d)
  BY <1>3, <1>5
<1>8. Wire(key, n, c + 1) = Wire(key, n, c) \o Frame(key, c, Piece(n, c + 1))
  BY <1>1, <1>3, <1>4, <1>5, <1>6, <1>7 DEF Wire
<1>9. Wire(key, n, c) \in Seq(Parts(key))
  <2>1. Framed(key, cs) \in [0..Len(cs) -> Seq(Parts(key))]
    BY FramedIs
  <2>2. c \in 0..Len(cs)
    BY <1>1
  <2> QED BY <1>1, <2>1, <2>2 DEF Wire
<1>10. Wire(key, n, 0) = <<>>
  <2>1. Pieces(n, 0) \in Seq(Seq(Bytes))
    BY PiecesAre
  <2> QED BY <2>1, FramedIs DEF Wire
<1> QED BY <1>8, <1>9, <1>10

LEMMA WireSame ==
    ASSUME NEW key, NEW n, NEW n1, NEW c \in Nat, \A d \in 1..c : Piece(n, d) = Piece(n1, d)
    PROVE  Wire(key, n, c) = Wire(key, n1, c) /\ MacOf(key, n, c) = MacOf(key, n1, c)
<1>1. Pieces(n, c) = Pieces(n1, c)
  BY DEF Pieces
<1> QED BY <1>1 DEF Wire, MacOf

\* The length of the frames.
LEMMA WireLength ==
    ASSUME NEW key, NEW n \in Nat, NEW c \in Nat
    PROVE  Len(Wire(key, n, c)) = 3 * c + Cut1(n, c)
<1>1. PICK P : P = {d \in Nat : Len(Wire(key, n, d)) = 3 * d + Cut1(n, d)}
  OBVIOUS
<1>2. 0 \in P
  BY <1>1, WireStep, CutFacts
<1>3. ASSUME NEW d \in P PROVE d + 1 \in P
  <2>1. d \in Nat /\ Len(Wire(key, n, d)) = 3 * d + Cut1(n, d)
    BY <1>1
  <2>2. d + 1 \in Nat \ {0} /\ d + 1 - 1 = d
    BY <2>1
  <2>3. PICK p \in Seq(Bytes) : p = Piece(n, d + 1) /\ Len(p) = Size(n, d + 1)
    BY <2>2, SizeFacts
  <2>4. PICK w \in Seq(Parts(key)), g \in Seq(Parts(key)) : w = Wire(key, n, d) /\ g = Frame(key, d, p)
    BY <2>1, WireStep, FrameIs
  <2>5. Wire(key, n, d + 1) = w \o g
    BY <2>1, <2>3, <2>4, WireStep
  <2>6. Len(w \o g) = Len(w) + Len(g) /\ Len(g) = Len(p) + 3
    <3>1. Len(w \o g) = Len(w) + Len(g)
      OBVIOUS
    <3>2. Len(g) = Len(p) + 3
      BY <2>1, <2>4, FrameIs
    <3> QED BY <3>1, <3>2
  <2>7. Cut1(n, d + 1) = Cut1(n, d) + Size(n, d + 1) /\ Size(n, d + 1) \in Nat /\ Cut1(n, d) \in Nat
    <3>1. PICK e \in Nat \ {0} : e = d + 1
      BY <2>2
    <3>2. Cut1(n, e) = Cut1(n, e - 1) + Size(n, e) /\ Size(n, e) \in Nat /\ Cut1(n, e - 1) \in Nat
      BY SizeFacts
    <3>3. e - 1 = d
      BY <2>1, <3>1
    <3> QED BY <3>1, <3>2, <3>3
  <2>8. Len(Wire(key, n, d + 1)) = 3 * (d + 1) + Cut1(n, d + 1)
    BY SMTT(30), <2>1, <2>3, <2>4, <2>5, <2>6, <2>7
  <2> QED BY <1>1, <2>2, <2>8
<1>4. P = Nat
  BY <1>1, <1>2, <1>3, SetInduction
<1> QED BY <1>1, <1>4

LEMMA MacStep ==
    ASSUME NEW key, NEW n \in Nat, NEW c \in Nat
    PROVE  /\ MacOf(key, n, 0) = <<>>
           /\ MacOf(key, n, c) \in Seq(MacEntries(key)) /\ Len(MacOf(key, n, c)) = c
           /\ MacOf(key, n, c + 1) = Append(MacOf(key, n, c), <<c, Sealed(key, c, Piece(n, c + 1))>>)
<1> DEFINE Entry(d) == <<d - 1, Sealed(key, d - 1, Piece(n, d))>>
<1>1. ASSUME NEW m \in Nat PROVE MacOf(key, n, m) = [d \in 1..m |-> Entry(d)]
  BY PiecesAre DEF MacOf, Mac
<1>2. \A d \in Nat \ {0} : Entry(d) \in MacEntries(key)
  <2> SUFFICES ASSUME NEW d \in Nat \ {0} PROVE Entry(d) \in MacEntries(key)
    OBVIOUS
  <2>1. d - 1 \in Nat /\ Piece(n, d) \in Seq(Bytes)
    BY SizeFacts
  <2>2. Sealed(key, d - 1, Piece(n, d)) \in Seq(Parts(key))
    BY <2>1, SealedIs
  <2> QED BY <2>1, <2>2 DEF MacEntries
<1> HIDE DEF Entry
<1>3. ASSUME NEW m \in Nat PROVE MacOf(key, n, m) \in Seq(MacEntries(key)) /\ Len(MacOf(key, n, m)) = m
  <2>1. [d \in 1..m |-> Entry(d)] \in [1..m -> MacEntries(key)]
    BY <1>2
  <2>2. MacOf(key, n, m) \in [1..m -> MacEntries(key)]
    BY <1>1, <2>1
  <2> QED BY <2>2
<1>4. PICK s \in Seq(MacEntries(key)) : s = MacOf(key, n, c) /\ Len(s) = c /\ s = [d \in 1..c |-> Entry(d)]
  BY <1>1, <1>3
<1>5. c + 1 \in Nat /\ Entry(c + 1) \in MacEntries(key)
  BY <1>2
<1>6. Append(s, Entry(c + 1)) = [d \in 1..(c + 1) |-> Entry(d)]
  <2>1. PICK e \in MacEntries(key) : e = Entry(c + 1)
    BY <1>5
  <2>2. PICK a : a = Append(s, e) /\ a \in Seq(MacEntries(key))
    <3>1. Append(s, e) \in Seq(MacEntries(key))
      OBVIOUS
    <3> QED BY <3>1
  <2>3. Len(a) = c + 1 /\ a[c + 1] = e /\ \A d \in 1..c : a[d] = s[d]
    BY <1>4, <2>2
  <2>4. ASSUME NEW d \in 1..(c + 1) PROVE a[d] = Entry(d)
    <3>1. d = c + 1 \/ d \in 1..c
      OBVIOUS
    <3> QED BY <1>4, <2>1, <2>3, <3>1
  <2>5. a = [d \in 1..Len(a) |-> a[d]]
    BY <2>2, SeqIsFunction
  <2> QED BY <2>1, <2>2, <2>3, <2>4, <2>5
<1>7. Entry(c + 1) = <<c, Sealed(key, c, Piece(n, c + 1))>>
  <2>1. c + 1 - 1 = c
    OBVIOUS
  <2> QED BY <2>1 DEF Entry
<1>8. MacOf(key, n, c + 1) = [d \in 1..(c + 1) |-> Entry(d)]
  BY <1>1, <1>5
<1>9. MacOf(key, n, 0) = <<>>
  <2>1. PICK z : z = MacOf(key, n, 0)
    OBVIOUS
  <2>2. z \in Seq(MacEntries(key)) /\ Len(z) = 0
    BY <1>3, <2>1
  <2> QED BY <2>1, <2>2
<1> QED BY <1>3, <1>4, <1>6, <1>7, <1>8, <1>9
-----------------------------------------------------------------------------
(***************************************************************************)
(* Plaintext is a run of consecutive bytes.                                *)
(***************************************************************************)
Run(x, k) == [j \in 1..k |-> x + j]
Slice(n, a, b) == Run(Cut1(n, a), Cut1(n, b) - Cut1(n, a))

LEMMA RunIs ==
    ASSUME NEW x \in Nat, NEW k \in Nat
    PROVE  /\ Run(x, k) \in Seq(Bytes) /\ Len(Run(x, k)) = k /\ \A j \in 1..k : Run(x, k)[j] = x + j
<1>1. Run(x, k) \in [1..k -> Bytes]
  BY DEF Run, Bytes
<1>2. Run(x, k) \in Seq(Bytes) /\ Len(Run(x, k)) = k
  BY <1>1
<1> QED BY <1>2 DEF Run

LEMMA RunJoin ==
    ASSUME NEW x \in Nat, NEW k \in Nat, NEW l \in Nat
    PROVE  Run(x, k) \o Run(x + k, l) = Run(x, k + l)
<1>0. PICK y \in Nat : y = x + k
  OBVIOUS
<1>1. PICK s \in Seq(Bytes) : s = Run(x, k) /\ Len(s) = k /\ \A j \in 1..k : s[j] = x + j
  BY RunIs
<1>2. PICK t \in Seq(Bytes) : t = Run(y, l) /\ Len(t) = l /\ \A j \in 1..l : t[j] = y + j
  BY RunIs
<1>3. PICK u : u = s \o t /\ u \in Seq(Bytes)
  <2>1. s \o t \in Seq(Bytes)
    OBVIOUS
  <2> QED BY <2>1
<1>4. Len(u) = k + l /\ (\A j \in 1..k : u[j] = s[j]) /\ (\A j \in 1..l : u[k + j] = t[j])
  <2>1. Len(u) = Len(s) + Len(t) /\ (\A j \in 1..Len(s) : u[j] = s[j]) /\ (\A j \in 1..Len(t) : u[Len(s) + j] = t[j])
    BY <1>3, JoinIs
  <2> QED BY <1>1, <1>2, <2>1
<1>5. ASSUME NEW j \in 1..(k + l) PROVE u[j] = x + j
  <2>1. CASE j <= k
    BY <1>1, <1>4, <2>1
  <2>2. CASE j > k
    <3>1. PICK i \in 1..l : i = j - k /\ j = k + i
      BY <2>2
    <3>2. u[k + i] = x + k + i
      BY <1>0, <1>2, <1>4
    <3> QED BY <3>1, <3>2
  <2> QED BY <2>1, <2>2
<1>6. u = [j \in 1..Len(u) |-> u[j]]
  BY <1>3, SeqIsFunction
<1>7. u = Run(x, k + l)
  BY <1>4, <1>5, <1>6 DEF Run
<1> QED BY <1>0, <1>1, <1>2, <1>3, <1>7

LEMMA PieceIsRun ==
    ASSUME NEW n \in Nat, NEW c \in Nat
    PROVE  /\ Piece(n, c + 1) = Run(Cut1(n, c), Size(n, c + 1)) /\ Size(n, c + 1) \in Nat
           /\ Cut1(n, c) \in Nat /\ Cut1(n, c + 1) = Cut1(n, c) + Size(n, c + 1)
           /\ Len(Piece(n, c + 1)) = Size(n, c + 1) /\ Piece(n, c + 1) \in Seq(Bytes)
<1>1. c + 1 \in Nat \ {0} /\ c + 1 - 1 = c
  OBVIOUS
<1> QED BY <1>1, SizeFacts DEF Piece, Run

LEMMA PlainJoin ==
    ASSUME NEW n \in Nat, NEW a \in Nat, NEW c \in Nat, a <= c
    PROVE  /\ Slice(n, a, a) = <<>>
           /\ Cut1(n, a) <= Cut1(n, c)
           /\ Slice(n, a, c) \in Seq(Bytes)
           /\ Slice(n, a, c) \o Piece(n, c + 1) = Slice(n, a, c + 1)
           /\ PlainOf(Cut1(n, a)) \o Slice(n, a, c) = PlainOf(Cut1(n, c))
<1>1. Cut1(n, a) \in Nat /\ Cut1(n, c) \in Nat
  <2>1. Cut1(n, a) \in 0..n /\ Cut1(n, c) \in 0..n
    BY CutFacts
  <2> QED BY <2>1
<1>2. Cut1(n, a) <= Cut1(n, c)
  <2>1. a * Chunk \in Nat /\ c * Chunk \in Nat /\ a * Chunk <= c * Chunk
    BY Multiples
  <2> QED BY <2>1 DEF Cut1
<1>3. PICK k \in Nat : k = Cut1(n, c) - Cut1(n, a) /\ Cut1(n, c) = Cut1(n, a) + k
  BY <1>1, <1>2
<1>4. Slice(n, a, c) = Run(Cut1(n, a), k)
  BY <1>3 DEF Slice
<1>5. PICK l \in Nat : l = Size(n, c + 1) /\ Cut1(n, c + 1) = Cut1(n, c) + l
                       /\ Piece(n, c + 1) = Run(Cut1(n, c), l)
  BY PieceIsRun
<1>6. Slice(n, a, c + 1) = Run(Cut1(n, a), k + l)
  <2>1. Cut1(n, c + 1) - Cut1(n, a) = k + l
    BY <1>1, <1>3, <1>5
  <2> QED BY <2>1 DEF Slice
<1>7. Slice(n, a, c) \o Piece(n, c + 1) = Slice(n, a, c + 1)
  <2>1. PICK x \in Nat : x = Cut1(n, a) /\ Cut1(n, c) = x + k
    BY <1>1, <1>3
  <2>2. Run(x, k) \o Run(x + k, l) = Run(x, k + l)
    BY RunJoin
  <2> QED BY <1>4, <1>5, <1>6, <2>1, <2>2
<1>8. \A x \in Nat : PlainOf(x) = Run(0, x)
  BY DEF PlainOf, Run
<1>9. PlainOf(Cut1(n, a)) \o Slice(n, a, c) = PlainOf(Cut1(n, c))
  <2>1. 0 + Cut1(n, a) = Cut1(n, a)
    BY <1>1
  <2>2. Run(0, Cut1(n, a)) \o Run(0 + Cut1(n, a), k) = Run(0, Cut1(n, a) + k)
    BY ZenonT(40), <1>1, RunJoin
  <2> QED BY <1>1, <1>3, <1>4, <1>8, <2>1, <2>2
<1>10. Slice(n, a, a) = <<>>
  <2>1. Cut1(n, a) - Cut1(n, a) = 0
    BY <1>1
  <2>2. Run(Cut1(n, a), 0) \in Seq(Bytes) /\ Len(Run(Cut1(n, a), 0)) = 0
    BY <1>1, RunIs
  <2>3. Run(Cut1(n, a), 0) = <<>>
    BY <2>2
  <2> QED BY <2>1, <2>3 DEF Slice
<1>11. Slice(n, a, c) \in Seq(Bytes)
  BY <1>1, <1>4, RunIs
<1> QED BY <1>2, <1>7, <1>9, <1>10, <1>11
-----------------------------------------------------------------------------
(***************************************************************************)
(* What storage can deliver: of the units under the key of file "a", only  *)
(* those that were made when the m pieces of its n bytes were sealed.      *)
(***************************************************************************)
IsFile(n, m) == m = PieceCount(n) \/ (n = 0 /\ m = 1)
MacUnit(key, j, mac) == Unit(key, "mac", 0, j, 0, mac)
IsCt(u, n, m) == \E c \in 0..(m - 1) : \E j \in 1..Len(Piece(n, c + 1)) : u = CtUnit("a", c, Piece(n, c + 1), j)
IsTag(u, n, m) == \E c \in 0..(m - 1) : u = TagUnit("a", c, Piece(n, c + 1))
IsMac(u, n, m) == \E j \in 1..FooterLen : u = MacUnit("a", j, MacOf("a", n, m))
Made(u, n, m) ==
    \/ u.k \in {"hdr", "len", "nonce"} \/ IsCt(u, n, m) \/ IsTag(u, n, m) \/ IsMac(u, n, m)
Known(u, n, m) == (u.f = "a" => Made(u, n, m)) /\ (u.k = "len" => u.n \in Nat)
IsStock(T, n, m) == \A u \in T : Known(u, n, m)

LEMMA FieldsOf ==
    ASSUME NEW f, NEW k, NEW i, NEW j, NEW n, NEW v, NEW u, u = Unit(f, k, i, j, n, v)
    PROVE  u.f = f /\ u.k = k /\ u.i = i /\ u.j = j /\ u.n = n /\ u.v = v
BY DEF Unit

\* A unit of the key whose kind is ct, tag or mac is the one that was made.
LEMMA KindTells ==
    ASSUME NEW n, NEW m, NEW u, Known(u, n, m), u.f = "a"
    PROVE  /\ u.k = "ct" => IsCt(u, n, m)
           /\ u.k = "tag" => IsTag(u, n, m)
           /\ u.k = "mac" => IsMac(u, n, m)
<1>1. IsCt(u, n, m) => u.k = "ct"
  BY DEF IsCt, CtUnit, Unit
<1>2. IsTag(u, n, m) => u.k = "tag"
  BY DEF IsTag, TagUnit, Unit
<1>3. IsMac(u, n, m) => u.k = "mac"
  BY DEF IsMac, MacUnit, Unit
<1>4. u.k \in {"hdr", "len", "nonce"} \/ IsCt(u, n, m) \/ IsTag(u, n, m) \/ IsMac(u, n, m)
  BY DEF Known, Made
<1> QED BY <1>1, <1>2, <1>3, <1>4

\* What AES-GCM opens is the piece of that index, as it was sealed.
LEMMA AeadIs ==
    ASSUME NEW n \in Nat, NEW m \in Nat, NEW T, IsStock(T, n, m), NEW ct \in Seq(T), NEW i \in Nat,
           AeadOpens("a", i, ct)
    PROVE  /\ i < m /\ ct = Sealed("a", i, Piece(n, i + 1)) /\ Opened(ct) = Piece(n, i + 1)
           /\ Len(ct) = Len(Piece(n, i + 1)) + 1
<1>1. PICK p \in Seq(Bytes) : p = Piece(n, i + 1)
  BY PieceIsRun
<1>2. PICK L \in Nat \ {0} : L = Len(ct)
  <2>1. ct # <<>>
    BY DEF AeadOpens
  <2> QED BY <2>1
<1>3. ASSUME NEW j \in 1..L
      PROVE  /\ ct[j] \in T /\ ct[j].f = "a" /\ ct[j].i = i /\ ct[j].j = j /\ ct[j].n = L - 1
             /\ ct[j].k = IF j = L THEN "tag" ELSE "ct"
  BY <1>2 DEF AeadOpens
<1>4. \A j \in 1..L : Known(ct[j], n, m)
  BY <1>3 DEF IsStock
<1>5. i < m /\ ct[L] = TagUnit("a", i, p) /\ Len(p) = L - 1
  <2>1. L \in 1..L
    OBVIOUS
  <2>2. IsTag(ct[L], n, m)
    BY <1>3, <1>4, <2>1, KindTells
  <2>3. PICK c \in 0..(m - 1) : ct[L] = TagUnit("a", c, Piece(n, c + 1))
    BY <2>2 DEF IsTag
  <2>4. ct[L].i = c /\ ct[L].n = Len(Piece(n, c + 1))
    BY <2>3, FieldsOf DEF TagUnit
  <2>5. c = i /\ Len(Piece(n, c + 1)) = L - 1
    BY <1>3, <2>1, <2>4
  <2> QED BY <1>1, <2>3, <2>5
<1>6. ASSUME NEW j \in 1..(L - 1) PROVE ct[j] = CtUnit("a", i, p, j)
  <2>1. j \in 1..L /\ j # L
    OBVIOUS
  <2>2. IsCt(ct[j], n, m)
    BY <1>3, <1>4, <2>1, KindTells
  <2>3. PICK c \in 0..(m - 1) : \E k \in 1..Len(Piece(n, c + 1)) : ct[j] = CtUnit("a", c, Piece(n, c + 1), k)
    BY <2>2 DEF IsCt
  <2>4. PICK k \in 1..Len(Piece(n, c + 1)) : ct[j] = CtUnit("a", c, Piece(n, c + 1), k)
    BY <2>3
  <2>5. ct[j].i = c /\ ct[j].j = k
    BY <2>4, FieldsOf DEF CtUnit
  <2>6. c = i /\ k = j
    BY <1>3, <2>1, <2>5
  <2> QED BY <1>1, <2>4, <2>6
<1>7. PICK s \in Seq(Parts("a")) : /\ s = Sealed("a", i, p) /\ Len(s) = Len(p) + 1
                                   /\ s[Len(p) + 1] = TagUnit("a", i, p)
                                   /\ \A j \in 1..Len(p) : s[j] = CtUnit("a", i, p, j)
  BY SealedIs
<1>8. Len(p) + 1 = L /\ Len(s) = L
  BY <1>5, <1>7
<1>9. ASSUME NEW j \in 1..L PROVE ct[j] = s[j]
  <2>1. j = L \/ j \in 1..(L - 1)
    OBVIOUS
  <2> QED BY <1>5, <1>6, <1>7, <1>8, <2>1
<1>10. ct = s
  <2>1. ct = [j \in 1..L |-> ct[j]] /\ s = [j \in 1..L |-> s[j]]
    BY <1>2, <1>8, SeqIsFunction
  <2> QED BY <1>9, <2>1
<1>11. Opened(ct) = p
  <2>1. Opened(ct) = [j \in 1..(L - 1) |-> ct[j].v]
    BY <1>2 DEF Opened
  <2>2. ASSUME NEW j \in 1..(L - 1) PROVE ct[j].v = p[j]
    BY <1>6, FieldsOf DEF CtUnit
  <2>3. p = [j \in 1..(L - 1) |-> p[j]]
    BY <1>5, SeqIsFunction
  <2> QED BY <2>1, <2>2, <2>3
<1> QED BY <1>1, <1>2, <1>5, <1>7, <1>8, <1>10, <1>11
-----------------------------------------------------------------------------
(***************************************************************************)
(* The loop of push().                                                     *)
(***************************************************************************)
LengthOf(g, b, p) == IF b[p].k = "len" /\ b[p].f # "x" THEN b[p].n ELSE g

\* The first frame of the buffer opens under index i, or fails for good.
Opens(g, b, i) ==
    /\ Len(b) >= 1 /\ LengthOf(g, b, 1) >= 1 /\ Len(b) >= 1 + LengthOf(g, b, 1)
    /\ AeadOpens("a", i, SubSeq(b, 3, 1 + LengthOf(g, b, 1)))
Fails(g, b, i) ==
    /\ Len(b) >= 1
    /\ LengthOf(g, b, 1) >= 1 =>
         /\ Len(b) >= 1 + LengthOf(g, b, 1)
         /\ ~AeadOpens("a", i, SubSeq(b, 3, 1 + LengthOf(g, b, 1))) \/ NextIndex(i) = None

\* What was delivered is the first c frames but for what is not sealed.
Matches(s, n, c) ==
    \A j \in 1..Len(Wire("a", n, c)) :
        Wire("a", n, c)[j].k \notin {"nonce", "len"} => s[3 + j] = Wire("a", n, c)[j]

\* b is what s has after its first off units.
Follows(b, s, off) == \A j \in 1..Len(b) : b[j] = s[off + j]

LoopStates(T, b) ==
    [key : {"a"}, idx : Nat, mac : Seq(Nat \X Seq(T \cup Parts("a"))), buf : {b}, pos : Nat,
     out : Seq(Bytes), err : BOOLEAN]
\* The call began at index i0.
Ahead(r, s, n, m, b, off, i0) ==
    /\ r.idx \in i0..m /\ r.idx < IndexLimit /\ r.pos <= Len(b)
    /\ off + r.pos = 3 + Len(Wire("a", n, r.idx))
    /\ r.mac = MacOf("a", n, r.idx) /\ r.out = Slice(n, i0, r.idx)
    /\ Matches(s, n, r.idx)
    /\ (r.pos = 0 /\ r.idx = i0) \/ (i0 < r.idx /\ Opens(junk, b, i0))
Down(r, b) == r.idx < IndexLimit /\ Fails(junk, b, r.idx)
Looping(T, s, n, m, b, off, i0) ==
    {r \in LoopStates(T, b) : /\ ~r.err => Ahead(r, s, n, m, b, off, i0)
                              /\ r.err => Down(r, b)}

LEMMA OpensOnce ==
    ASSUME NEW g, NEW T, NEW b \in Seq(T), NEW i, NEW k, i # k, Opens(g, b, i),
           LengthOf(g, b, 1) \in Nat
    PROVE  Fails(g, b, k)
<1>1. PICK l \in Nat : l = LengthOf(g, b, 1)
  OBVIOUS
<1>2. PICK ct \in Seq(T) : ct = SubSeq(b, 3, 1 + l)
  <2>1. l >= 1 /\ Len(b) >= 1 + l
    BY <1>1 DEF Opens
  <2>2. SubSeq(b, 3, 1 + l) \in Seq(T)
    BY <2>1
  <2> QED BY <2>2
<1>3. ct # <<>> /\ \A j \in 1..Len(ct) : ct[j].i = i
  BY <1>1, <1>2 DEF Opens, AeadOpens
<1>4. 1 \in 1..Len(ct)
  BY <1>2, <1>3
<1>5. ct[1].i # k
  BY <1>3, <1>4
<1>6. ~AeadOpens("a", k, ct)
  BY <1>4, <1>5 DEF AeadOpens
<1> QED BY <1>1, <1>2, <1>6 DEF Opens, Fails

\* One more frame.
LEMMA MatchesStep ==
    ASSUME NEW n \in Nat, NEW c \in Nat, NEW s, Matches(s, n, c),
           \A j \in 1..(Len(Piece(n, c + 1)) + 1) :
              s[3 + Len(Wire("a", n, c)) + 2 + j] = Sealed("a", c, Piece(n, c + 1))[j]
    PROVE  Matches(s, n, c + 1)
<1>1. PICK p \in Seq(Bytes) : p = Piece(n, c + 1)
  BY PieceIsRun
<1>2. PICK w \in Seq(Parts("a")) : w = Wire("a", n, c)
  BY WireStep
<1>3. PICK h \in Seq(Parts("a")) :
         /\ h = Frame("a", c, p) /\ Len(h) = Len(p) + 3
         /\ h[1] = LenUnit("a", c, p) /\ h[2] = NonceUnit("a", c)
         /\ \A j \in 1..(Len(p) + 1) : h[2 + j] = Sealed("a", c, p)[j]
  BY FrameIs
<1>4. PICK x : x = Wire("a", n, c + 1)
  OBVIOUS
<1>5. x = w \o h
  BY <1>1, <1>2, <1>3, <1>4, WireStep
<1>6. Len(x) = Len(w) + Len(h) /\ (\A j \in 1..Len(w) : x[j] = w[j]) /\ (\A j \in 1..Len(h) : x[Len(w) + j] = h[j])
  BY <1>5, JoinIs
<1>7. h[1].k = "len" /\ h[2].k = "nonce"
  BY <1>3, FieldsOf DEF LenUnit, NonceUnit
<1>8. PICK a \in Nat, l \in Nat : a = Len(w) /\ l = Len(p)
  OBVIOUS
<1>9. ASSUME NEW j \in 1..Len(x), x[j].k \notin {"nonce", "len"} PROVE s[3 + j] = x[j]
  <2>1. CASE j <= a
    <3>1. j \in 1..Len(w) /\ x[j] = w[j]
      BY <1>6, <1>8, <2>1
    <3> QED BY <1>2, <1>9, <3>1 DEF Matches
  <2>2. CASE j > a
    <3>1. PICK i \in 1..(l + 3) : j = a + i
      <4>1. Len(x) = a + l + 3
        BY <1>3, <1>6, <1>8
      <4>2. j - a \in 1..(l + 3) /\ j = a + (j - a)
        BY <2>2, <4>1
      <4> QED BY <4>2
    <3>2. x[j] = h[i]
      BY <1>3, <1>6, <1>8, <3>1
    <3>3. i # 1 /\ i # 2
      BY <1>7, <1>9, <3>2
    <3>4. PICK k \in 1..(l + 1) : i = 2 + k
      <4>1. i - 2 \in 1..(l + 1) /\ i = 2 + (i - 2)
        BY <3>3
      <4> QED BY <4>1
    <3>5. h[i] = Sealed("a", c, p)[k]
      BY <1>3, <1>8, <3>4
    <3>6. s[3 + a + 2 + k] = Sealed("a", c, p)[k]
      BY <1>1, <1>2, <1>8
    <3>7. 3 + a + 2 + k = 3 + j
      BY SMTT(30), <3>1, <3>4
    <3> QED BY <3>2, <3>5, <3>6, <3>7
  <2> QED BY <1>8, <2>1, <2>2
<1> QED BY <1>4, <1>9 DEF Matches

LEMMA SliceStep ==
    ASSUME NEW n \in Nat, NEW a \in Nat, NEW c \in Nat, a <= c
    PROVE  Slice(n, a, c) \o Piece(n, c + 1) = Slice(n, a, c + 1)
BY PlainJoin

LEMMA SliceEmpty ==
    ASSUME NEW n \in Nat, NEW a \in Nat
    PROVE  Slice(n, a, a) = <<>>
<1>1. a <= a
  OBVIOUS
<1> QED BY <1>1, PlainJoin

LEMMA LengthIsNat ==
    ASSUME NEW n, NEW m, NEW T, IsStock(T, n, m), NEW b \in Seq(T), NEW p \in 1..Len(b), NEW g \in Nat
    PROVE  LengthOf(g, b, p) \in Nat
<1>1. b[p] \in T
  OBVIOUS
<1> QED BY <1>1 DEF LengthOf, IsStock, Known

HasFrame(r, l, ct) ==
    /\ l = LengthAt(r.buf, r.pos + 1) /\ ct = SubSeq(r.buf, r.pos + 3, r.pos + 1 + l)
    /\ ~r.err /\ ~(Len(r.buf) - r.pos < 1) /\ ~(l < 1) /\ ~(Len(r.buf) - r.pos < 1 + l)
Refuses(r, ct) == ~AeadOpens(r.key, r.idx, ct) \/ NextIndex(r.idx) = None
Hashed(r, ct) == [r EXCEPT !.mac = Append(@, <<r.idx, ct>>)]
FrameBad(r, ct) == [Hashed(r, ct) EXCEPT !.err = TRUE]
FrameGood(r, l, ct) ==
    [Hashed(r, ct) EXCEPT !.pos = @ + 1 + l, !.idx = NextIndex(@), !.out = @ \o Opened(ct)]
LEMMA OpenFrameBad ==
    ASSUME NEW r, NEW l, NEW ct, HasFrame(r, l, ct), Refuses(r, ct)
    PROVE  OpenFrame(r) = FrameBad(r, ct)
BY DEF OpenFrame, HasFrame, Refuses, FrameBad, Hashed
LEMMA OpenFrameGood ==
    ASSUME NEW r, NEW l, NEW ct, HasFrame(r, l, ct), ~Refuses(r, ct)
    PROVE  OpenFrame(r) = FrameGood(r, l, ct)
BY DEF OpenFrame, HasFrame, Refuses, FrameGood, Hashed

\* A turn of the loop of push() keeps what it has found.
LEMMA OpenFrameKeeps ==
    ASSUME NEW n \in Nat, NEW m \in Nat, NEW T, IsStock(T, n, m), NEW s \in Seq(T), junk \in Nat,
           NEW off \in Nat, NEW b \in Seq(T), Follows(b, s, off),
           NEW i0 \in Nat, NEW r \in Looping(T, s, n, m, b, off, i0)
    PROVE  OpenFrame(r) \in Looping(T, s, n, m, b, off, i0)
<1>0. /\ r \in LoopStates(T, b) /\ r.key = "a" /\ r.buf = b /\ r.pos \in Nat /\ r.idx \in Nat
      /\ r.err \in BOOLEAN /\ r.out \in Seq(Bytes) /\ r.mac \in Seq(Nat \X Seq(T \cup Parts("a")))
  BY DEF Looping, LoopStates
<1>3. PICK q \in Nat, B \in Nat : q = r.pos /\ B = Len(b)
  BY <1>0
<1>1. CASE r.err \/ Len(b) - r.pos < 1
  <2>1. OpenFrame(r) = r
    BY <1>0, <1>1 DEF OpenFrame
  <2> QED BY <2>1
<1>2. CASE ~r.err /\ Len(b) - r.pos >= 1
  <2>1. Ahead(r, s, n, m, b, off, i0)
    BY <1>2 DEF Looping
  <2>2. r.pos + 1 \in 1..Len(b)
    BY <1>0, <1>2
  <2>3. PICK l \in Nat : l = LengthOf(junk, b, r.pos + 1) /\ l = LengthAt(b, r.pos + 1)
    <3>1. LengthOf(junk, b, r.pos + 1) = LengthAt(b, r.pos + 1)
      BY DEF LengthOf, LengthAt
    <3>2. LengthOf(junk, b, r.pos + 1) \in Nat
      BY <2>2, LengthIsNat
    <3> QED BY <3>1, <3>2
  <2>4. PICK ct : ct = SubSeq(b, r.pos + 3, r.pos + 1 + l)
    OBVIOUS
  \* A failure at this frame is one that the next call meets again.
  <2>5. ASSUME l >= 1 => /\ Len(b) - r.pos >= 1 + l
                         /\ ~AeadOpens("a", r.idx, ct) \/ NextIndex(r.idx) = None
        PROVE  Down(r, b)
    <3>1. r.idx < IndexLimit
      BY <2>1 DEF Ahead
    <3>2. CASE r.pos = 0 /\ r.idx = i0
      <4>1. l = LengthOf(junk, b, 1) /\ ct = SubSeq(b, 3, 1 + l)
        BY SMTT(30), <2>3, <2>4, <3>2
      <4>2. Len(b) >= 1
        BY <2>2
      <4>3. Fails(junk, b, r.idx)
        BY <2>5, <3>2, <4>1, <4>2 DEF Fails
      <4> QED BY <3>1, <4>3 DEF Down
    <3>3. CASE i0 < r.idx /\ Opens(junk, b, i0)
      <4>1. i0 # r.idx /\ 1 \in 1..Len(b)
        BY <1>0, <2>2, <3>3
      <4>2. LengthOf(junk, b, 1) \in Nat
        BY <4>1, LengthIsNat
      <4>3. Fails(junk, b, r.idx)
        BY <3>3, <4>1, <4>2, OpensOnce
      <4> QED BY <3>1, <4>3 DEF Down
    <3> QED BY <2>1, <3>2, <3>3 DEF Ahead
  <2>6. CASE l < 1
    <3>1. OpenFrame(r) = [r EXCEPT !.err = TRUE]
      BY <1>0, <1>2, <2>3, <2>6 DEF OpenFrame
    <3>2. PICK x : x = [r EXCEPT !.err = TRUE]
      OBVIOUS
    <3>3. x \in LoopStates(T, b) /\ x.err /\ x.idx = r.idx
      BY <1>0, <3>2 DEF LoopStates
    <3>4. Down(r, b)
      BY <2>5, <2>6
    <3> QED BY <3>1, <3>2, <3>3, <3>4 DEF Looping, Down
  <2>7. CASE l >= 1 /\ Len(b) - r.pos < 1 + l
    <3>1. OpenFrame(r) = r
      BY <1>0, <1>2, <2>3, <2>7 DEF OpenFrame
    <3> QED BY <3>1
  <2>8. CASE l >= 1 /\ Len(b) - r.pos >= 1 + l
    <3>0. l >= 1 /\ q + 1 + l <= B
      BY SMTT(30), <1>3, <2>8
    <3>1. ct \in Seq(T) /\ Len(ct) = l - 1 /\ \A j \in 1..(l - 1) : ct[j] = b[q + 2 + j]
      <4>1. PICK k \in Nat, a \in Nat : k = l - 1 /\ a = q + 2
        BY <3>0
      <4>2. a + 1 = q + 3 /\ a + k = q + 1 + l /\ a + k <= Len(b)
        <5>1. a + 1 = q + 3 /\ a + k = q + 1 + l
          BY <4>1
        <5> QED BY <1>3, <3>0, <5>1
      <4>3. ct = SubSeq(b, a + 1, a + k)
        BY <1>3, <2>4, <4>2
      <4> QED BY <4>1, <4>2, <4>3, SubSeqIs
    <3>2. PICK M : M = Nat \X Seq(T \cup Parts("a"))
      OBVIOUS
    <3>3. PICK e : e = <<r.idx, ct>>
      OBVIOUS
    <3>4. e \in M
      <4>1. ct \in Seq(T \cup Parts("a"))
        BY <3>1
      <4> QED BY <1>0, <3>2, <3>3, <4>1
    <3>5. PICK mac : mac = Append(r.mac, e) /\ mac \in Seq(M)
      <4>1. PICK qs \in Seq(M) : qs = r.mac
        BY <1>0, <3>2
      <4>2. Append(qs, e) \in Seq(M)
        BY <3>4
      <4> QED BY <4>1, <4>2
    <3>8. HasFrame(r, l, ct)
      <4>1. ~r.err /\ ~(Len(r.buf) - r.pos < 1) /\ ~(l < 1) /\ ~(Len(r.buf) - r.pos < 1 + l)
        BY <1>0, <1>2, <1>3, <2>8
      <4>2. l = LengthAt(r.buf, r.pos + 1) /\ ct = SubSeq(r.buf, r.pos + 3, r.pos + 1 + l)
        BY <1>0, <2>3, <2>4
      <4> QED BY <4>1, <4>2 DEF HasFrame
    <3>6. CASE ~AeadOpens("a", r.idx, ct) \/ NextIndex(r.idx) = None
      <4>1. OpenFrame(r) = FrameBad(r, ct)
        <5>1. Refuses(r, ct)
          BY <1>0, <3>6 DEF Refuses
        <5> QED BY <3>8, <5>1, OpenFrameBad
      <4>2. PICK x : x = FrameBad(r, ct)
        OBVIOUS
      <4>3. x \in LoopStates(T, b) /\ x.err /\ x.idx = r.idx
        <5>1. x = [[r EXCEPT !.mac = mac] EXCEPT !.err = TRUE]
          BY <1>0, <3>3, <3>5, <4>2 DEF FrameBad, Hashed, LoopStates
        <5> QED BY <1>0, <3>2, <3>5, <5>1 DEF LoopStates
      <4>4. Down(r, b)
        BY <2>5, <2>8, <3>6
      <4> QED BY <4>1, <4>2, <4>3, <4>4 DEF Looping, Down
    <3>7. CASE AeadOpens("a", r.idx, ct) /\ NextIndex(r.idx) # None
      <4>1. PICK i \in Nat : i = r.idx
        BY <1>0
      <4>2. PICK p \in Seq(Bytes) : p = Piece(n, i + 1)
        BY PieceIsRun
      <4>3. i < m /\ ct = Sealed("a", i, p) /\ Opened(ct) = p /\ Len(ct) = Len(p) + 1
        <5>1. AeadOpens("a", i, ct) /\ ct \in Seq(T)
          BY <3>1, <3>7, <4>1
        <5>2. /\ i < m /\ ct = Sealed("a", i, Piece(n, i + 1)) /\ Opened(ct) = Piece(n, i + 1)
              /\ Len(ct) = Len(Piece(n, i + 1)) + 1
          BY <5>1, AeadIs
        <5> QED BY <4>2, <5>2
      <4>4. l = Len(p) + 2
        BY <3>1, <4>3
      <4>5. NextIndex(r.idx) = i + 1 /\ i + 1 < IndexLimit
        BY <3>7, <4>1 DEF NextIndex
      <4>6. OpenFrame(r) = FrameGood(r, l, ct)
        <5>1. ~Refuses(r, ct)
          BY <1>0, <3>7 DEF Refuses
        <5> QED BY <3>8, <5>1, OpenFrameGood
      <4>7. PICK x : x = OpenFrame(r)
        OBVIOUS
      <4>8. /\ x \in LoopStates(T, b) /\ x.err = FALSE /\ x.idx = i + 1 /\ x.mac = mac
            /\ x.pos = r.pos + 1 + l /\ x.out = r.out \o p
        <5>1. r.out \o p \in Seq(Bytes)
          BY <1>0
        <5>2. PICK y : y = Hashed(r, ct) /\ y = [r EXCEPT !.mac = mac]
          BY <1>0, <3>3, <3>5 DEF Hashed, LoopStates
        <5>3. y \in LoopStates(T, b) /\ y.err = FALSE /\ y.mac = mac /\ y.pos = r.pos /\ y.idx = i /\ y.out = r.out
          BY <1>0, <1>2, <3>2, <3>5, <4>1, <5>2 DEF LoopStates
        <5>4. x = [y EXCEPT !.pos = r.pos + 1 + l, !.idx = i + 1, !.out = r.out \o p]
          <6>1. x = [y EXCEPT !.pos = @ + 1 + l, !.idx = NextIndex(@), !.out = @ \o Opened(ct)]
            BY <4>6, <4>7, <5>2 DEF FrameGood
          <6> QED BY <4>1, <4>3, <4>5, <5>3, <6>1 DEF LoopStates
        <5>5. r.pos + 1 + l \in Nat /\ i + 1 \in Nat
          BY <1>0
        <5> QED BY <5>1, <5>3, <5>4, <5>5 DEF LoopStates
      <4>9. x.mac = MacOf("a", n, i + 1)
        <5>1. MacOf("a", n, i + 1) = Append(MacOf("a", n, i), <<i, Sealed("a", i, p)>>)
          BY <4>2, MacStep
        <5>2. r.mac = MacOf("a", n, i) /\ e = <<i, Sealed("a", i, p)>>
          BY <2>1, <3>3, <4>1, <4>3 DEF Ahead
        <5> QED BY <3>5, <4>8, <5>1, <5>2
      <4>10. i0 <= i /\ x.out = Slice(n, i0, i + 1)
        <5>1. i0 <= i /\ r.out = Slice(n, i0, i)
          BY <2>1, <4>1 DEF Ahead
        <5>2. Slice(n, i0, i) \o Piece(n, i + 1) = Slice(n, i0, i + 1)
          <6>1. i0 <= i
            BY <5>1
          <6> QED BY <6>1, SliceStep
        <5> QED BY <4>2, <4>8, <5>1, <5>2
      <4>11. PICK w \in Nat : w = Len(Wire("a", n, i)) /\ off + r.pos = 3 + w
        <5>1. Wire("a", n, i) \in Seq(Parts("a"))
          BY WireStep
        <5>2. Len(Wire("a", n, i)) \in Nat
          BY <5>1
        <5> QED BY <2>1, <4>1, <5>2 DEF Ahead
      <4>12. off + x.pos = 3 + Len(Wire("a", n, i + 1))
        <5>1. PICK u \in Seq(Parts("a")), h \in Seq(Parts("a")) : u = Wire("a", n, i) /\ h = Frame("a", i, p)
          BY WireStep, FrameIs
        <5>2. Wire("a", n, i + 1) = u \o h /\ Len(h) = Len(p) + 3
          BY <4>2, <5>1, WireStep, FrameIs
        <5>3. Len(u \o h) = Len(u) + Len(h)
          OBVIOUS
        <5>4. Len(Wire("a", n, i + 1)) = w + Len(p) + 3
          BY <4>11, <5>1, <5>2, <5>3
        <5>5. x.pos = q + 1 + l /\ off + q = 3 + w
          BY <1>3, <4>8, <4>11
        <5>6. PICK z \in Nat : z = Len(p)
          OBVIOUS
        <5>7. l = z + 2
          BY <4>4, <5>6
        <5>8. off + (q + 1 + l) = 3 + (w + z + 3)
          BY <5>5, <5>7
        <5> QED BY <5>4, <5>5, <5>6, <5>8
      <4>13. Matches(s, n, i + 1)
        <5>1. ASSUME NEW j \in 1..(Len(p) + 1) PROVE s[3 + w + 2 + j] = Sealed("a", i, p)[j]
          <6>1. j \in 1..(l - 1) /\ q + 2 + j \in 1..Len(b)
            <7>1. PICK z \in Nat : z = Len(p)
              OBVIOUS
            <7>2. l = z + 2 /\ j \in 1..(z + 1)
              BY <4>4, <7>1
            <7>3. j \in 1..(l - 1) /\ q + 2 + j \in 1..B
              BY <3>0, <7>2
            <7> QED BY <1>3, <7>3
          <6>2. ct[j] = s[off + (q + 2 + j)]
            BY <3>1, <6>1 DEF Follows
          <6>3. off + (q + 2 + j) = 3 + w + 2 + j
            <7>1. off + q = 3 + w /\ j \in Nat
              BY <1>3, <4>11
            <7> QED BY <7>1
          <6> QED BY <4>3, <6>2, <6>3
        <5>2. Matches(s, n, i)
          BY <2>1, <4>1 DEF Ahead
        <5> QED BY <4>2, <4>11, <5>1, <5>2, MatchesStep
      <4>14. i0 < i + 1 /\ Opens(junk, b, i0)
        <5>1. i0 < i + 1
          BY <4>10
        <5>2. CASE r.pos = 0 /\ r.idx = i0
          <6>1. l = LengthOf(junk, b, 1) /\ ct = SubSeq(b, 3, 1 + l)
            BY SMTT(30), <2>3, <2>4, <5>2
          <6>2. Len(b) >= 1 /\ Len(b) >= 1 + l
            BY <2>2, <2>8, <5>2
          <6> QED BY <2>8, <3>7, <5>1, <5>2, <6>1, <6>2 DEF Opens
        <5> QED BY <2>1, <5>1, <5>2 DEF Ahead
      <4>15. x.pos <= Len(b)
        BY SMTT(30), <1>0, <2>8, <4>8
      <4>16. x.idx \in i0..m /\ x.idx < IndexLimit
        BY <4>3, <4>5, <4>8, <4>10
      <4>17. Ahead(x, s, n, m, b, off, i0)
        BY <4>8, <4>9, <4>10, <4>12, <4>13, <4>14, <4>15, <4>16 DEF Ahead
      <4> QED BY <4>7, <4>8, <4>17 DEF Looping
    <3> QED BY <3>6, <3>7
  <2>9. l < 1 \/ (l >= 1 /\ Len(b) - r.pos < 1 + l) \/ (l >= 1 /\ Len(b) - r.pos >= 1 + l)
    BY <1>3
  <2> QED BY <2>6, <2>7, <2>8, <2>9
<1> QED BY <1>0, <1>1, <1>2

\* The decryptor: the first i frames are behind it, and b is the rest of what it was given.
DecIs(d, i, mac, b) == d = [key |-> "a", idx |-> i, buf |-> b, mac |-> mac]
\* push() is its loop: a state that the loop keeps is where it ends.
Start(d, b) == [key |-> d.key, idx |-> d.idx, mac |-> d.mac, buf |-> b, pos |-> 0, out |-> <<>>,
                err |-> FALSE]
Pushed(d, b, r) == [err |-> r.err, out |-> IF r.err THEN <<>> ELSE r.out,
                    dec |-> [key |-> d.key, idx |-> r.idx, mac |-> r.mac,
                             buf |-> IF r.err THEN b ELSE SubSeq(b, r.pos + 1, Len(b))]]
Rest(b, p) == SubSeq(b, p + 1, Len(b))
Kept(S) == \A x \in S : OpenFrame(x) \in S
IsPush(T, d, bytes, b, S) == b \in Seq(T) /\ b = d.buf \o bytes /\ Start(d, b) \in S /\ Kept(S)
EndsIn(d, bytes, b, S) == \E x \in S : DecryptorPush(d, bytes) = Pushed(d, b, OpenFrame(x))
LEMMA PushedIs ==
    ASSUME NEW d, NEW b, NEW y, d.key = "a", NEW r, r = Pushed(d, b, y)
    PROVE  /\ r.err = y.err
           /\ y.err => r.out = <<>> /\ DecIs(r.dec, y.idx, y.mac, b)
           /\ ~y.err => r.out = y.out /\ DecIs(r.dec, y.idx, y.mac, Rest(b, y.pos))
BY DEF Pushed, DecIs, Rest
LEMMA PushRuns ==
    ASSUME NEW T, NEW d, NEW bytes, NEW b, NEW S, IsPush(T, d, bytes, b, S)
    PROVE  EndsIn(d, bytes, b, S)
<1>0. b \in Seq(T) /\ b = d.buf \o bytes /\ Start(d, b) \in S /\ Kept(S)
  BY DEF IsPush
<1>1. PICK N \in Nat \ {0} : N = Len(b) \div 2 + 1
  <2>1. PICK L \in Nat : L = Len(b)
    BY <1>0
  <2>2. L \div 2 + 1 \in Nat \ {0}
    BY Z3
  <2> QED BY <2>1, <2>2
<1>2. PICK t : t = Start(d, b)
  OBVIOUS
<1>3. PICK g : g = [k \in 1..N |-> [x \in S |-> OpenFrame(x)]]
  OBVIOUS
<1>4. g \in Rounds(S, N)
  BY <1>0, <1>3 DEF Rounds, Kept
<1>5. PICK h : IsRun(h, S, t, N, g)
  BY <1>0, <1>2, <1>4, Iterates
<1> DEFINE Good(at) == at = [k \in 0..N |-> IF k = 0 THEN t ELSE OpenFrame(at[k - 1])]
<1>6. Good(h)
  <2>1. h \in [0..N -> S] /\ h[0] = t /\ \A k \in 1..N : h[k] = g[k][h[k - 1]]
    BY <1>5 DEF IsRun
  <2>2. ASSUME NEW k \in 0..N PROVE h[k] = IF k = 0 THEN t ELSE OpenFrame(h[k - 1])
    <3>1. CASE k = 0
      BY <2>1, <3>1
    <3>2. CASE k # 0
      <4>1. k \in 1..N /\ k - 1 \in 0..N
        BY <3>2
      <4>2. h[k - 1] \in S /\ h[k] = g[k][h[k - 1]]
        BY <2>1, <4>1
      <4>3. g[k] = [x \in S |-> OpenFrame(x)]
        BY <1>3, <4>1
      <4> QED BY <3>2, <4>2, <4>3
    <3> QED BY <3>1, <3>2
  <2> QED BY <2>1, <2>2
<1>7. PICK F : F = CHOOSE at : Good(at)
  OBVIOUS
<1>8. Good(F)
  BY <1>6, <1>7
<1>9. DecryptorPush(d, bytes) = Pushed(d, b, F[N])
  <2>1. F = CHOOSE at : at = [k \in 0..(Len(b) \div 2 + 1) |-> IF k = 0 THEN Start(d, b) ELSE OpenFrame(at[k - 1])]
    BY <1>1, <1>2, <1>7
  <2> HIDE DEF Good
  <2> HIDE <1>7
  <2>2. DecryptorPush(d, bytes) =
          Pushed(d, b, (CHOOSE at : at = [k \in 0..(Len(b) \div 2 + 1) |->
                           IF k = 0 THEN Start(d, b) ELSE OpenFrame(at[k - 1])])[Len(b) \div 2 + 1])
    BY <1>0 DEF DecryptorPush, Pushed, Start
  <2> QED BY <1>1, <2>1, <2>2
<1>10. F[0] = t /\ \A k \in 1..N : F[k] = OpenFrame(F[k - 1])
  <2>1. \A k \in 0..N : F[k] = IF k = 0 THEN t ELSE OpenFrame(F[k - 1])
    BY <1>8
  <2>2. 0 \in 0..N /\ \A k \in 1..N : k \in 0..N /\ k # 0
    OBVIOUS
  <2> QED BY <2>1, <2>2
<1>11. PICK P : P = {k \in Nat : k <= N => F[k] \in S}
  OBVIOUS
<1>12. 0 \in P
  BY <1>0, <1>2, <1>10, <1>11
<1>13. ASSUME NEW k \in P PROVE k + 1 \in P
  <2> SUFFICES ASSUME k + 1 <= N PROVE F[k + 1] \in S
    BY <1>11
  <2>1. k \in Nat /\ F[k] \in S
    BY <1>11
  <2>2. PICK e \in 1..N : e = k + 1 /\ e - 1 = k
    BY <2>1
  <2>3. F[e] = OpenFrame(F[e - 1])
    BY <1>10
  <2> QED BY <1>0, <2>1, <2>2, <2>3 DEF Kept
<1>14. P = Nat
  BY <1>11, <1>12, <1>13, SetInduction
<1>15. N - 1 \in P /\ N - 1 <= N /\ N \in 1..N
  <2>1. N - 1 \in Nat /\ N - 1 <= N /\ N \in 1..N
    OBVIOUS
  <2> QED BY <1>14, <2>1
<1>16. F[N - 1] \in S /\ F[N] = OpenFrame(F[N - 1])
  BY <1>10, <1>11, <1>15
<1> QED BY <1>9, <1>16 DEF EndsIn

\* The decryptor in step with the delivered s: it has opened frames 0..i-1.
InStep(s, n, m, i) == i \in 0..m /\ i < IndexLimit /\ Matches(s, n, i)

\* push() of a decryptor in step: it goes on to index i, or it is stuck at a frame for good.
\* A call of push() on a decryptor that has opened i0 frames.
PushesOn(n, m, T, s, i0, off, b0, d, bytes, b, r) ==
    /\ n \in Nat /\ m \in Nat /\ IsStock(T, n, m) /\ s \in Seq(T) /\ junk \in Nat
    /\ i0 \in Nat /\ InStep(s, n, m, i0) /\ off \in Nat /\ off = 3 + Len(Wire("a", n, i0))
    /\ DecIs(d, i0, MacOf("a", n, i0), b0) /\ b \in Seq(T) /\ b = b0 \o bytes
    /\ Follows(b, s, off) /\ r = DecryptorPush(d, bytes)

PushAnswers(n, m, T, s, i0, off, b, r) ==
    \/ /\ r.err
       /\ r.out = <<>>
       /\ \E i \in Nat, mac \in Seq(Nat \X Seq(T \cup Parts("a"))) :
             i < IndexLimit /\ Fails(junk, b, i) /\ DecIs(r.dec, i, mac, b)
    \/ /\ ~r.err
       /\ \E i \in i0..m, p \in 0..Len(b) :
             /\ InStep(s, n, m, i) /\ r.out = Slice(n, i0, i)
             /\ off + p = 3 + Len(Wire("a", n, i))
             /\ DecIs(r.dec, i, MacOf("a", n, i), Rest(b, p))

LEMMA PushInStep ==
    ASSUME NEW n, NEW m, NEW T, NEW s, NEW i0, NEW off, NEW b0, NEW d, NEW bytes, NEW b, NEW r,
           PushesOn(n, m, T, s, i0, off, b0, d, bytes, b, r)
    PROVE  PushAnswers(n, m, T, s, i0, off, b, r)
<1> SUFFICES \/ /\ r.err
                /\ r.out = <<>>
                /\ \E i \in Nat, mac \in Seq(Nat \X Seq(T \cup Parts("a"))) :
                      i < IndexLimit /\ Fails(junk, b, i) /\ DecIs(r.dec, i, mac, b)
             \/ /\ ~r.err
                /\ \E i \in i0..m, p \in 0..Len(b) :
                      /\ InStep(s, n, m, i) /\ r.out = Slice(n, i0, i)
                      /\ off + p = 3 + Len(Wire("a", n, i))
                      /\ DecIs(r.dec, i, MacOf("a", n, i), Rest(b, p))
  BY Zenon DEF PushAnswers
<1> /\ n \in Nat /\ m \in Nat /\ IsStock(T, n, m) /\ s \in Seq(T) /\ junk \in Nat
    /\ i0 \in Nat /\ InStep(s, n, m, i0) /\ off \in Nat /\ off = 3 + Len(Wire("a", n, i0))
    /\ DecIs(d, i0, MacOf("a", n, i0), b0) /\ b \in Seq(T) /\ b = b0 \o bytes
    /\ Follows(b, s, off) /\ r = DecryptorPush(d, bytes)
  BY DEF PushesOn
<1>1. PICK S : S = Looping(T, s, n, m, b, off, i0)
  OBVIOUS
<1>2. d.key = "a" /\ d.idx = i0 /\ d.buf = b0 /\ d.mac = MacOf("a", n, i0)
  BY DEF DecIs
<1>3. PICK t : t = Start(d, b)
  OBVIOUS
<1>4. t \in S
  <2>1. MacOf("a", n, i0) \in Seq(Nat \X Seq(T \cup Parts("a")))
    <3>1. PICK mac \in Seq(MacEntries("a")) : mac = MacOf("a", n, i0)
      BY MacStep
    <3>2. MacEntries("a") \subseteq Nat \X Seq(T \cup Parts("a"))
      <4>1. Seq(Parts("a")) \subseteq Seq(T \cup Parts("a"))
        OBVIOUS
      <4> QED BY <4>1 DEF MacEntries
    <3>3. PICK M : M = Nat \X Seq(T \cup Parts("a"))
      OBVIOUS
    <3>4. mac \in Seq(M)
      BY <3>2, <3>3
    <3> QED BY <3>1, <3>3, <3>4
  <2>2. <<>> \in Seq(Bytes)
    OBVIOUS
  <2>3. t \in LoopStates(T, b) /\ t.err = FALSE /\ t.idx = i0 /\ t.pos = 0 /\ t.out = <<>> /\ t.mac = MacOf("a", n, i0)
    BY <1>2, <1>3, <2>1, <2>2 DEF LoopStates, Start
  <2>4. Slice(n, i0, i0) = <<>>
    BY SliceEmpty
  <2>5. i0 \in i0..m /\ i0 < IndexLimit /\ Matches(s, n, i0)
    BY DEF InStep
  <2>6. off + 0 = 3 + Len(Wire("a", n, i0)) /\ 0 <= Len(b)
    OBVIOUS
  <2>7. Ahead(t, s, n, m, b, off, i0)
    BY <2>3, <2>4, <2>5, <2>6 DEF Ahead
  <2> QED BY <1>1, <2>3, <2>7 DEF Looping
<1>5. \A x \in S : OpenFrame(x) \in S
  BY <1>1, OpenFrameKeeps
<1>6. PICK x \in S : r = Pushed(d, b, OpenFrame(x))
  <2>1. b = d.buf \o bytes
    BY <1>2
  <2>2. IsPush(T, d, bytes, b, S)
    BY <1>3, <1>4, <1>5, <2>1 DEF IsPush, Kept
  <2>3. EndsIn(d, bytes, b, S)
    BY <2>2, PushRuns
  <2> QED BY <2>3 DEF EndsIn
<1>7. PICK y \in S : r = Pushed(d, b, y)
  BY <1>5, <1>6
<1>8. /\ y \in LoopStates(T, b)
      /\ ~y.err => Ahead(y, s, n, m, b, off, i0)
      /\ y.err => Down(y, b)
  BY <1>1, <1>7 DEF Looping
<1>9. y.err \in BOOLEAN /\ y.idx \in Nat /\ y.pos \in Nat /\ y.mac \in Seq(Nat \X Seq(T \cup Parts("a")))
  BY <1>8 DEF LoopStates
<1>10. CASE y.err
  <2>1. r.err /\ r.out = <<>> /\ DecIs(r.dec, y.idx, y.mac, b)
    BY <1>2, <1>7, <1>10, PushedIs
  <2>2. y.idx < IndexLimit /\ Fails(junk, b, y.idx)
    BY <1>8, <1>10 DEF Down
  <2> QED BY <1>9, <2>1, <2>2
<1>11. CASE ~y.err
  <2>1. ~r.err /\ r.out = y.out /\ DecIs(r.dec, y.idx, y.mac, Rest(b, y.pos))
    <3>1. r.err = y.err /\ d.key = "a"
      BY <1>2, <1>7, PushedIs
    <3>2. r.out = y.out /\ DecIs(r.dec, y.idx, y.mac, Rest(b, y.pos))
      BY <1>7, <1>11, <3>1, PushedIs
    <3> QED BY <1>11, <3>1, <3>2
  <2>2. /\ y.idx \in i0..m /\ y.idx < IndexLimit /\ y.pos <= Len(b)
        /\ off + y.pos = 3 + Len(Wire("a", n, y.idx))
        /\ y.mac = MacOf("a", n, y.idx) /\ y.out = Slice(n, i0, y.idx) /\ Matches(s, n, y.idx)
    BY <1>8, <1>11 DEF Ahead
  <2>3. InStep(s, n, m, y.idx)
    <3>1. y.idx \in 0..m
      BY <2>2
    <3> QED BY <2>2, <3>1 DEF InStep
  <2>4. y.pos \in 0..Len(b)
    BY <1>9, <2>2
  <2> QED BY <2>1, <2>2, <2>3, <2>4
<1> QED BY <1>9, <1>10, <1>11

\* push() of a decryptor that is stuck: it stays so, and hands on nothing.
\* A call of push() on a decryptor that has failed.
PushesAgain(n, m, T, i, b0, mac0, d, bytes, b, r) ==
    /\ n \in Nat /\ m \in Nat /\ IsStock(T, n, m) /\ junk \in Nat /\ i \in Nat
    /\ b0 \in Seq(T) /\ Fails(junk, b0, i) /\ mac0 \in Seq(Nat \X Seq(T \cup Parts("a")))
    /\ DecIs(d, i, mac0, b0) /\ bytes \in Seq(T) /\ b = b0 \o bytes /\ r = DecryptorPush(d, bytes)

LEMMA PushStuck ==
    ASSUME NEW n, NEW m, NEW T, NEW i, NEW b0, NEW mac0, NEW d, NEW bytes, NEW b, NEW r,
           PushesAgain(n, m, T, i, b0, mac0, d, bytes, b, r)
    PROVE  /\ r.err /\ r.out = <<>> /\ Fails(junk, b, i) /\ b \in Seq(T)
           /\ \E mac \in Seq(Nat \X Seq(T \cup Parts("a"))) : DecIs(r.dec, i, mac, b)
<1> /\ n \in Nat /\ m \in Nat /\ IsStock(T, n, m) /\ junk \in Nat /\ i \in Nat
    /\ b0 \in Seq(T) /\ Fails(junk, b0, i) /\ mac0 \in Seq(Nat \X Seq(T \cup Parts("a")))
    /\ DecIs(d, i, mac0, b0) /\ bytes \in Seq(T) /\ b = b0 \o bytes /\ r = DecryptorPush(d, bytes)
  BY DEF PushesAgain
<1>1. b \in Seq(T) /\ Len(b) = Len(b0) + Len(bytes) /\ \A j \in 1..Len(b0) : b[j] = b0[j]
  BY JoinIs
<1>2. PICK l \in Nat : l = LengthOf(junk, b0, 1) /\ l = LengthOf(junk, b, 1) /\ Len(b0) >= 1
  <2>1. Len(b0) >= 1
    BY DEF Fails
  <2>2. 1 \in 1..Len(b0)
    BY <2>1
  <2>3. LengthOf(junk, b0, 1) \in Nat
    BY <2>2, LengthIsNat
  <2>4. LengthOf(junk, b, 1) = LengthOf(junk, b0, 1)
    BY <1>1, <2>2 DEF LengthOf
  <2> QED BY <2>1, <2>3, <2>4
<1>3. ASSUME l >= 1, Len(b0) >= 1 + l PROVE SubSeq(b, 3, 1 + l) = SubSeq(b0, 3, 1 + l) /\ SubSeq(b, 3, 1 + l) \in Seq(T)
  <2>1. PICK k \in Nat : k = l - 1
    BY <1>3
  <2>2. 2 + 1 = 3 /\ 2 + k = 1 + l /\ 2 + k <= Len(b0) /\ 2 + k <= Len(b)
    BY <1>1, <1>3, <2>1
  <2>3. PICK x, y : x = SubSeq(b0, 2 + 1, 2 + k) /\ y = SubSeq(b, 2 + 1, 2 + k)
    OBVIOUS
  <2>4. x \in Seq(T) /\ Len(x) = k /\ \A j \in 1..k : x[j] = b0[2 + j]
    BY <2>2, <2>3, SubSeqIs
  <2>5. y \in Seq(T) /\ Len(y) = k /\ \A j \in 1..k : y[j] = b[2 + j]
    BY <1>1, <2>2, <2>3, SubSeqIs
  <2>6. \A j \in 1..k : x[j] = y[j]
    <3> SUFFICES ASSUME NEW j \in 1..k PROVE x[j] = y[j]
      OBVIOUS
    <3>1. 2 + j \in 1..Len(b0)
      BY <2>2
    <3> QED BY <1>1, <2>4, <2>5, <3>1
  <2>7. x = [j \in 1..k |-> x[j]] /\ y = [j \in 1..k |-> y[j]]
    BY <2>4, <2>5, SeqIsFunction
  <2>8. x = y
    BY <2>6, <2>7
  <2> QED BY <2>2, <2>3, <2>5, <2>8
<1>4. Fails(junk, b, i)
  <2>1. Len(b) >= Len(b0) /\ Len(b) >= 1
    BY <1>1, <1>2
  <2>2. CASE l < 1
    BY <1>2, <2>1, <2>2 DEF Fails
  <2>3. CASE l >= 1
    <3>1. Len(b0) >= 1 + l /\ (~AeadOpens("a", i, SubSeq(b0, 3, 1 + l)) \/ NextIndex(i) = None)
      BY <1>2, <2>3 DEF Fails
    <3>2. SubSeq(b, 3, 1 + l) = SubSeq(b0, 3, 1 + l)
      BY <1>3, <2>3, <3>1
    <3>3. Len(b) >= 1 + l
      BY <1>1, <3>1
    <3> QED BY <1>2, <2>1, <3>1, <3>2, <3>3 DEF Fails
  <2> QED BY <2>2, <2>3
<1>5. PICK S : S = {x \in LoopStates(T, b) : x.pos = 0 /\ x.idx = i}
  OBVIOUS
<1>6. ASSUME NEW x \in S PROVE OpenFrame(x) \in S /\ OpenFrame(x).err
  <2>1. /\ x \in LoopStates(T, b) /\ x.pos = 0 /\ x.idx = i /\ x.key = "a" /\ x.buf = b
        /\ x.err \in BOOLEAN /\ x.mac \in Seq(Nat \X Seq(T \cup Parts("a")))
    BY <1>5 DEF LoopStates
  <2>2. PICK ct : ct = SubSeq(b, 3, 1 + l)
    OBVIOUS
  <2>3. l = LengthAt(x.buf, x.pos + 1) /\ ~(Len(x.buf) - x.pos < 1)
    BY <1>1, <1>2, <2>1 DEF LengthOf, LengthAt
  <2>4. CASE x.err
    <3>1. OpenFrame(x) = x
      BY <2>4 DEF OpenFrame
    <3> QED BY <2>4, <3>1
  <2>5. CASE ~x.err /\ l < 1
    <3>1. OpenFrame(x) = [x EXCEPT !.err = TRUE]
      BY <2>3, <2>5 DEF OpenFrame
    <3>2. PICK y : y = [x EXCEPT !.err = TRUE]
      OBVIOUS
    <3>3. y \in LoopStates(T, b) /\ y.err /\ y.pos = 0 /\ y.idx = i
      BY <2>1, <3>2 DEF LoopStates
    <3> QED BY <1>5, <3>1, <3>2, <3>3
  <2>6. CASE ~x.err /\ l >= 1
    <3>1. Len(b) >= 1 + l /\ (~AeadOpens("a", i, ct) \/ NextIndex(i) = None)
      BY <1>2, <1>4, <2>2, <2>6 DEF Fails
    <3>2. HasFrame(x, l, ct)
      <4>1. 0 + 3 = 3 /\ 0 + 1 + l = 1 + l
        OBVIOUS
      <4>2. ct = SubSeq(x.buf, x.pos + 3, x.pos + 1 + l)
        BY <2>1, <2>2, <4>1
      <4>3. ~(l < 1) /\ ~(Len(x.buf) - x.pos < 1 + l)
        BY <1>1, <2>1, <2>6, <3>1
      <4> QED BY <2>3, <2>6, <4>2, <4>3 DEF HasFrame
    <3>3. Refuses(x, ct)
      BY <2>1, <3>1 DEF Refuses
    <3>4. OpenFrame(x) = FrameBad(x, ct)
      BY <3>2, <3>3, OpenFrameBad
    <3>5. ct \in Seq(T)
      <4>1. PICK k \in Nat : k = l - 1
        BY <2>6
      <4>2. 2 + 1 = 3 /\ 2 + k = 1 + l /\ 2 + k <= Len(b)
        BY <3>1, <4>1
      <4>3. ct = SubSeq(b, 2 + 1, 2 + k) /\ b \in Seq(T)
        BY <1>1, <2>2, <4>2
      <4> QED BY <4>2, <4>3, SubSeqIs
    <3>6. PICK mac \in Seq(Nat \X Seq(T \cup Parts("a"))) : mac = Append(x.mac, <<x.idx, ct>>)
      <4>1. PICK M : M = Nat \X Seq(T \cup Parts("a"))
        OBVIOUS
      <4>2. PICK e : e = <<x.idx, ct>>
        OBVIOUS
      <4>3. e \in M
        <5>1. ct \in Seq(T \cup Parts("a"))
          BY <3>5
        <5> QED BY <2>1, <4>1, <4>2, <5>1
      <4>4. PICK q \in Seq(M) : q = x.mac
        BY <2>1, <4>1
      <4>5. Append(q, e) \in Seq(M)
        BY <4>3
      <4> QED BY <4>1, <4>2, <4>4, <4>5
    <3>7. PICK y : y = FrameBad(x, ct)
      OBVIOUS
    <3>8. y = [[x EXCEPT !.mac = mac] EXCEPT !.err = TRUE]
      BY <2>1, <3>6, <3>7 DEF FrameBad, Hashed, LoopStates
    <3>9. y \in LoopStates(T, b) /\ y.err /\ y.pos = 0 /\ y.idx = i
      BY <2>1, <3>8 DEF LoopStates
    <3> QED BY <1>5, <3>4, <3>7, <3>9
  <2>7. l < 1 \/ l >= 1
    BY <1>2
  <2> QED BY <2>1, <2>4, <2>5, <2>6, <2>7
<1>7. Start(d, b) \in S
  <2>1. d.key = "a" /\ d.idx = i /\ d.mac = mac0
    BY DEF DecIs
  <2>2. <<>> \in Seq(Bytes)
    OBVIOUS
  <2> QED BY <1>5, <2>1, <2>2 DEF Start, LoopStates
<1>8. PICK x \in S : r = Pushed(d, b, OpenFrame(x))
  <2>1. b = d.buf \o bytes
    BY DEF DecIs
  <2>2. IsPush(T, d, bytes, b, S)
    BY <1>1, <1>6, <1>7, <2>1 DEF IsPush, Kept
  <2>3. EndsIn(d, bytes, b, S)
    BY <2>2, PushRuns
  <2> QED BY <2>3 DEF EndsIn
<1>9. PICK y \in S : r = Pushed(d, b, y) /\ y.err
  BY <1>6, <1>8
<1>10. y.idx = i /\ y.mac \in Seq(Nat \X Seq(T \cup Parts("a")))
  BY <1>5, <1>9 DEF LoopStates
<1>11. r.err /\ r.out = <<>> /\ DecIs(r.dec, i, y.mac, b)
  <2>1. d.key = "a"
    BY DEF DecIs
  <2> QED BY <1>9, <1>10, <2>1, PushedIs
<1> QED BY <1>1, <1>4, <1>10, <1>11
-----------------------------------------------------------------------------
(***************************************************************************)
(* The blob of a file, and what is known of every blob that may arrive.    *)
(***************************************************************************)
Macs(key) == [f : {key}, k : {"mac"}, i : {0}, j : Nat, n : {0}, v : Seq(MacEntries(key))]
Units(key) == Parts(key) \cup Macs(key)
Body(key, n, m) == EncryptFile(key, Pieces(n, m))

LEMMA HeaderIs ==
    ASSUME NEW key
    PROVE  /\ Header(key) \in Seq(Parts(key)) /\ Len(Header(key)) = 3
           /\ \A j \in 1..3 : Header(key)[j] = Unit(key, "hdr", 0, j, 0, None)
<1>1. \A j \in 1..3 : Unit(key, "hdr", 0, j, 0, None) \in Parts(key)
  BY DEF Unit, Parts
<1>2. Header(key) \in [1..3 -> Parts(key)]
  BY <1>1 DEF Header, HeaderLen
<1>3. Header(key) \in Seq(Parts(key)) /\ Len(Header(key)) = 3
  BY <1>2, FunctionIsSeq
<1> QED BY <1>3 DEF Header, HeaderLen

LEMMA FooterIs ==
    ASSUME NEW key, NEW mac \in Seq(MacEntries(key))
    PROVE  /\ Footer(key, mac) \in Seq(Macs(key)) /\ Len(Footer(key, mac)) = 2
           /\ \A j \in 1..2 : Footer(key, mac)[j] = MacUnit(key, j, mac)
<1>1. \A j \in 1..2 : MacUnit(key, j, mac) \in Macs(key)
  BY DEF Unit, Macs, MacUnit
<1>2. Footer(key, mac) = [j \in 1..2 |-> MacUnit(key, j, mac)]
  BY DEF Footer, FooterLen, MacUnit
<1>3. Footer(key, mac) \in [1..2 -> Macs(key)]
  BY <1>1, <1>2
<1>4. Footer(key, mac) \in Seq(Macs(key)) /\ Len(Footer(key, mac)) = 2
  BY <1>3, FunctionIsSeq
<1> QED BY <1>2, <1>4

LEMMA BodyIs ==
    ASSUME NEW key, NEW n \in Nat, NEW m \in Nat
    PROVE  Body(key, n, m) = Header(key) \o Wire(key, n, m) \o Footer(key, MacOf(key, n, m))
<1>1. Len(Pieces(n, m)) = m
  BY PiecesAre
<1> QED BY <1>1 DEF Body, EncryptFile, Wire, MacOf

LEMMA BodyInUnits ==
    ASSUME NEW key, NEW n \in Nat, NEW m \in Nat
    PROVE  Body(key, n, m) \in Seq(Units(key))
<1>1. PICK h \in Seq(Parts(key)), w \in Seq(Parts(key)), t \in Seq(Macs(key)) :
        h = Header(key) /\ w = Wire(key, n, m) /\ t = Footer(key, MacOf(key, n, m))
  BY HeaderIs, WireStep, MacStep, FooterIs
<1>2. h \in Seq(Units(key)) /\ w \in Seq(Units(key)) /\ t \in Seq(Units(key))
  BY DEF Units
<1>3. h \o w \o t \in Seq(Units(key))
  BY <1>2
<1> QED BY <1>1, <1>3, BodyIs

\* The units that the m pieces of file "a" were sealed into.
OfFile(n, m) == {u \in Units("a") : Known(u, n, m)}

LEMMA FrameKnown ==
    ASSUME NEW n \in Nat, NEW m \in Nat, NEW c \in 0..(m - 1)
    PROVE  Frame("a", c, Piece(n, c + 1)) \in Seq(OfFile(n, m))
<1>0. c \in Nat
  OBVIOUS
<1>1. PICK p \in Seq(Bytes) : p = Piece(n, c + 1)
  BY <1>0, PieceIsRun
<1>2. PICK h \in Seq(Parts("a")) :
         /\ h = Frame("a", c, p) /\ Len(h) = Len(p) + 3
         /\ h[1] = LenUnit("a", c, p) /\ h[2] = NonceUnit("a", c)
         /\ \A j \in 1..(Len(p) + 1) : h[2 + j] = Sealed("a", c, p)[j]
  BY <1>0, FrameIs
<1>3. PICK l \in Nat : l = Len(p)
  OBVIOUS
<1>4. ASSUME NEW j \in 1..(l + 3) PROVE h[j] \in OfFile(n, m)
  <2>1. h[j] \in Parts("a")
    BY <1>2, <1>3
  <2>2. Made(h[j], n, m)
    <3>1. CASE j = 1
      <4>1. h[j].k = "len"
        BY <1>2, <3>1, FieldsOf DEF LenUnit
      <4> QED BY <4>1 DEF Made
    <3>2. CASE j = 2
      <4>1. h[j].k = "nonce"
        BY <1>2, <3>2, FieldsOf DEF NonceUnit
      <4> QED BY <4>1 DEF Made
    <3>3. CASE j > 2
      <4>1. PICK i \in 1..(l + 1) : j = 2 + i
        <5>1. j - 2 \in 1..(l + 1) /\ j = 2 + (j - 2)
          BY <3>3
        <5> QED BY <5>1
      <4>2. h[j] = Sealed("a", c, p)[i]
        BY <1>2, <1>3, <4>1
      <4>3. CASE i = l + 1
        <5>1. h[j] = TagUnit("a", c, p)
          BY <1>3, <4>2, <4>3, SealedIs
        <5>2. IsTag(h[j], n, m)
          BY <1>1, <5>1 DEF IsTag
        <5> QED BY <5>2 DEF Made
      <4>4. CASE i # l + 1
        <5>1. i \in 1..Len(p)
          BY <1>3, <4>4
        <5>2. h[j] = CtUnit("a", c, p, i)
          BY <4>2, <5>1, SealedIs
        <5>3. IsCt(h[j], n, m)
          BY <1>1, <5>1, <5>2 DEF IsCt
        <5> QED BY <5>3 DEF Made
      <4> QED BY <4>3, <4>4
    <3> QED BY <3>1, <3>2, <3>3
  <2>3. h[j].n \in Nat
    BY <2>1 DEF Parts
  <2> QED BY <2>1, <2>2, <2>3 DEF OfFile, Known, Units
<1>5. Len(h) = l + 3
  BY <1>2, <1>3
<1>6. PICK O : O = OfFile(n, m)
  OBVIOUS
<1>7. h \in Seq(O)
  <2>1. h = [j \in 1..(l + 3) |-> h[j]]
    BY <1>5, SeqIsFunction
  <2>2. h \in [1..(l + 3) -> O]
    BY <1>4, <1>6, <2>1
  <2> QED BY <2>2
<1> QED BY <1>1, <1>2, <1>6, <1>7

LEMMA WireKnown ==
    ASSUME NEW n \in Nat, NEW m \in Nat
    PROVE  Wire("a", n, m) \in Seq(OfFile(n, m))
<1>1. PICK P : P = {c \in Nat : c <= m => Wire("a", n, c) \in Seq(OfFile(n, m))}
  OBVIOUS
<1>2. 0 \in P
  <2>1. Wire("a", n, 0) = <<>>
    BY WireStep
  <2>2. <<>> \in Seq(OfFile(n, m))
    OBVIOUS
  <2> QED BY <1>1, <2>1, <2>2
<1>3. ASSUME NEW c \in P PROVE c + 1 \in P
  <2> SUFFICES ASSUME c + 1 <= m PROVE Wire("a", n, c + 1) \in Seq(OfFile(n, m))
    BY <1>1
  <2>1. c \in 0..(m - 1) /\ c \in Nat /\ Wire("a", n, c) \in Seq(OfFile(n, m))
    BY <1>1
  <2>2. PICK w \in Seq(OfFile(n, m)), h \in Seq(OfFile(n, m)) : w = Wire("a", n, c) /\ h = Frame("a", c, Piece(n, c + 1))
    BY <2>1, FrameKnown
  <2>3. w \o h \in Seq(OfFile(n, m))
    OBVIOUS
  <2> QED BY <2>1, <2>2, <2>3, WireStep
<1>4. P = Nat
  BY <1>1, <1>2, <1>3, SetInduction
<1> QED BY <1>1, <1>4

LEMMA EndsKnown ==
    ASSUME NEW n \in Nat, NEW m \in Nat
    PROVE  Header("a") \in Seq(OfFile(n, m)) /\ Footer("a", MacOf("a", n, m)) \in Seq(OfFile(n, m))
<1>1. Header("a") \in Seq(OfFile(n, m))
  <2>1. PICK h \in Seq(Parts("a")) : h = Header("a") /\ Len(h) = 3 /\ \A j \in 1..3 : h[j] = Unit("a", "hdr", 0, j, 0, None)
    BY HeaderIs
  <2>2. ASSUME NEW j \in 1..3 PROVE h[j] \in OfFile(n, m)
    <3>1. h[j].k = "hdr" /\ h[j] \in Parts("a")
      BY <2>1, FieldsOf
    <3> QED BY <3>1 DEF OfFile, Known, Made, Units
  <2>3. PICK O : O = OfFile(n, m)
    OBVIOUS
  <2>4. h = [j \in 1..3 |-> h[j]]
    BY <2>1, SeqIsFunction
  <2>5. h \in [1..3 -> O]
    BY <2>2, <2>3, <2>4
  <2>6. h \in Seq(O)
    BY <2>5, FunctionIsSeq
  <2> QED BY <2>1, <2>3, <2>6
<1>2. Footer("a", MacOf("a", n, m)) \in Seq(OfFile(n, m))
  <2>0. MacOf("a", n, m) \in Seq(MacEntries("a"))
    BY MacStep
  <2>1. PICK h \in Seq(Macs("a")) : /\ h = Footer("a", MacOf("a", n, m)) /\ Len(h) = 2
                                    /\ \A j \in 1..2 : h[j] = MacUnit("a", j, MacOf("a", n, m))
    BY <2>0, FooterIs
  <2>2. ASSUME NEW j \in 1..2 PROVE h[j] \in OfFile(n, m)
    <3>1. h[j].k = "mac" /\ h[j] \in Macs("a") /\ IsMac(h[j], n, m)
      BY <2>1, FieldsOf DEF MacUnit, IsMac, FooterLen
    <3> QED BY <3>1 DEF OfFile, Known, Made, Units
  <2>3. PICK O : O = OfFile(n, m)
    OBVIOUS
  <2>4. h = [j \in 1..2 |-> h[j]]
    BY <2>1, SeqIsFunction
  <2>5. h \in [1..2 -> O]
    BY <2>2, <2>3, <2>4
  <2>6. h \in Seq(O)
    BY <2>5, FunctionIsSeq
  <2> QED BY <2>1, <2>3, <2>6
<1> QED BY <1>1, <1>2
-----------------------------------------------------------------------------
(***************************************************************************)
(* What is delivered: units of the file, of the other file, and damaged    *)
(* ones.  The first two are never both of another key.                     *)
(***************************************************************************)
Broken == Parts("x")
          \cup [f : {"x"}, k : {"mac"}, i : {0}, j : Nat, n : {0}, v : Seq(MacEntries("a"))]
Stock(n, m) == OfFile(n, m) \cup Units("b") \cup Broken
Marked(s) == Len(s) >= 3 => s[1].f = "a" \/ s[2].f = "a"
Delivered(s, n, m) == s \in Seq(Stock(n, m)) /\ Marked(s)

LEMMA StockIs ==
    ASSUME NEW n, NEW m
    PROVE  IsStock(Stock(n, m), n, m)
<1> SUFFICES ASSUME NEW u \in Stock(n, m) PROVE Known(u, n, m)
  BY DEF IsStock
<1>1. CASE u \in OfFile(n, m)
  BY <1>1 DEF OfFile
<1>2. ASSUME u \in Units("b") \/ u \in Broken PROVE Known(u, n, m)
  <2>1. u.f # "a"
    BY <1>2 DEF Units, Parts, Macs, Broken
  <2>2. u.n \in Nat
    BY <1>2 DEF Units, Parts, Macs, Broken
  <2> QED BY <2>1, <2>2 DEF Known
<1> QED BY <1>1, <1>2 DEF Stock

\* A blob of the file, the other file, and the file's units with one of them damaged.
LEMMA StockHolds ==
    ASSUME NEW n \in Nat, NEW m \in Nat
    PROVE  /\ Seq(OfFile(n, m)) \subseteq Seq(Stock(n, m)) /\ Seq(Units("b")) \subseteq Seq(Stock(n, m))
           /\ \A u \in OfFile(n, m) : [u EXCEPT !.f = "x"] \in Stock(n, m) /\ u.f = "a"
<1>1. OfFile(n, m) \subseteq Stock(n, m) /\ Units("b") \subseteq Stock(n, m)
  BY DEF Stock
<1>2. ASSUME NEW u \in OfFile(n, m) PROVE [u EXCEPT !.f = "x"] \in Stock(n, m) /\ u.f = "a"
  <2>1. CASE u \in Parts("a")
    <3>1. [u EXCEPT !.f = "x"] \in Parts("x") /\ u.f = "a"
      BY <2>1 DEF Parts
    <3> QED BY <3>1 DEF Stock, Broken
  <2>2. CASE u \in Macs("a")
    <3>1. [u EXCEPT !.f = "x"] \in Broken /\ u.f = "a"
      BY <2>2 DEF Macs, Broken
    <3> QED BY <3>1 DEF Stock
  <2> QED BY <2>1, <2>2 DEF OfFile, Units
<1> QED BY <1>1, <1>2

LEMMA BodyKnown ==
    ASSUME NEW n \in Nat, NEW m \in Nat
    PROVE  /\ Body("a", n, m) \in Seq(OfFile(n, m)) /\ Len(Body("a", n, m)) >= 3
           /\ \A s \in Seq(OfFile(n, m)) : Delivered(s, n, m)
<1>1. PICK O : O = OfFile(n, m)
  OBVIOUS
<1>2. PICK h \in Seq(O), w \in Seq(O), t \in Seq(O) :
        h = Header("a") /\ w = Wire("a", n, m) /\ t = Footer("a", MacOf("a", n, m)) /\ Len(h) = 3
  BY <1>1, EndsKnown, WireKnown, HeaderIs
<1>3. Body("a", n, m) = h \o w \o t
  BY <1>2, BodyIs
<1>4. h \o w \o t \in Seq(O) /\ Len(h \o w \o t) >= 3
  <2>1. PICK y : y = h \o w
    OBVIOUS
  <2>2. y \in Seq(O) /\ Len(y) = Len(h) + Len(w)
    BY <2>1, JoinIs
  <2>3. PICK z : z = y \o t
    OBVIOUS
  <2>4. z \in Seq(O) /\ Len(z) = Len(y) + Len(t)
    <3>1. y \in Seq(O)
      BY <2>2
    <3> QED BY <2>3, <3>1
  <2>5. Len(w) \in Nat /\ Len(t) \in Nat
    OBVIOUS
  <2>6. Len(z) >= 3
    BY <1>2, <2>2, <2>4, <2>5
  <2> QED BY <2>1, <2>3, <2>4, <2>6
<1>5. ASSUME NEW s \in Seq(O) PROVE Delivered(s, n, m)
  <2>1. Len(s) >= 3 => s[1] \in O
    OBVIOUS
  <2> QED BY <1>1, <2>1, StockHolds DEF Delivered, Marked
<1> QED BY <1>1, <1>3, <1>4, <1>5

LEMMA FileIs ==
    ASSUME NEW n \in Nat
    PROVE  /\ BlobOf("a", n) = Body("a", n, PieceCount(n)) /\ PieceCount(n) \in Nat
           /\ EncryptManifest("a", PlainOf(n)) = Body("a", n, IF n = 0 THEN 1 ELSE PieceCount(n))
<1>1. BlobOf("a", n) = Body("a", n, PieceCount(n))
  BY ChunksAre DEF BlobOf, Body
<1>2. PieceCount(n) \in Nat
  BY CountFacts
<1>3. CASE n = 0
  <2>1. PlainOf(0) = <<>>
    BY DEF PlainOf
  <2>2. Cut1(0, 0) = 0 /\ Cut1(0, 1) = 0
    BY CutFacts
  <2>3. Size(0, 1) = 0
    BY <2>2 DEF Size
  <2>4. Piece(0, 1) = <<>>
    BY <2>3 DEF Piece
  <2>5. Pieces(0, 1) = <<Piece(0, 1)>>
    BY DEF Pieces
  <2> QED BY <1>1, <1>2, <1>3, <2>1, <2>4, <2>5 DEF EncryptManifest, Body
<1>4. CASE n # 0
  <2>1. PlainOf(n) # <<>>
    <3>1. Len(PlainOf(n)) = n
      BY DEF PlainOf
    <3> QED BY <1>4, <3>1
  <2> QED BY <1>1, <1>2, <1>4, <2>1, ChunksAre DEF EncryptManifest, Body
<1> QED BY <1>3, <1>4

LEMMA CutKnown ==
    ASSUME NEW n \in Nat, NEW m \in Nat, NEW b \in Seq(OfFile(n, m)), NEW s \in Cut(b)
    PROVE  Delivered(s, n, m)
<1>1. PICK k \in Nat : k <= Len(b) /\ s = SubSeq(b, 1, k)
  BY DEF Cut
<1>2. s = SubSeq(b, 0 + 1, 0 + k) /\ 0 + k <= Len(b)
  BY <1>1
<1>3. s \in Seq(OfFile(n, m))
  BY <1>2, SubSeqIs
<1> QED BY <1>3, BodyKnown

LEMMA DamagedKnown ==
    ASSUME NEW n \in Nat, NEW m \in Nat, NEW b \in Seq(OfFile(n, m)), NEW s \in Damaged(b)
    PROVE  Delivered(s, n, m)
<1>1. PICK k \in 1..Len(b) : s = [b EXCEPT ![k].f = "x"]
  BY DEF Damaged
<1>2. PICK N \in Nat : N = Len(b)
  OBVIOUS
<1>3. b = [j \in 1..N |-> b[j]] /\ \A j \in 1..N : b[j] \in OfFile(n, m)
  BY <1>2, SeqIsFunction
<1>4. PICK x : x = [b[k] EXCEPT !.f = "x"] /\ x \in Stock(n, m)
  BY <1>2, <1>3, StockHolds
<1>5. s = [b EXCEPT ![k] = x]
  BY <1>1, <1>4
<1>6. s = [j \in 1..N |-> IF j = k THEN x ELSE b[j]]
  BY <1>2, <1>3, <1>5
<1>7. \A j \in 1..N : b[j] \in Stock(n, m) /\ b[j].f = "a"
  <2>1. OfFile(n, m) \subseteq Stock(n, m)
    BY DEF Stock
  <2> QED BY <1>3, <2>1, StockHolds
<1>8. s \in [1..N -> Stock(n, m)]
  BY <1>4, <1>6, <1>7
<1>9. s \in Seq(Stock(n, m)) /\ Len(s) = N
  BY <1>8, FunctionIsSeq
<1>10. ASSUME N >= 3 PROVE s[1].f = "a" \/ s[2].f = "a"
  <2>1. 1 \in 1..N /\ 2 \in 1..N
    BY <1>10
  <2>2. s[1] = b[1] \/ s[2] = b[2]
    BY <1>6, <2>1
  <2> QED BY <1>7, <2>1, <2>2
<1> QED BY <1>9, <1>10 DEF Delivered, Marked

LEMMA TornKnown ==
    ASSUME NEW n \in Nat, NEW m \in Nat, NEW b \in Seq(OfFile(n, m)), NEW t \in Seq(Units("b")),
           NEW s \in Torn(b, t)
    PROVE  Delivered(s, n, m)
<1>1. PICK k \in Nat : /\ 1 <= k /\ k <= Len(b) /\ k <= Len(t)
                       /\ s = SubSeq(b, 1, k) \o SubSeq(t, k + 1, Len(t))
  <2>1. PICK k \in {j \in 1..Len(b) : j <= Len(t)} : s = SubSeq(b, 1, k) \o SubSeq(t, k + 1, Len(t))
    BY DEF Torn
  <2>2. k \in Nat /\ 1 <= k /\ k <= Len(b) /\ k <= Len(t)
    BY <2>1
  <2> QED BY <2>1, <2>2
<1>2. PICK x, y : x = SubSeq(b, 1, k) /\ y = SubSeq(t, k + 1, Len(t))
  OBVIOUS
<1>3. x \in Seq(OfFile(n, m)) /\ Len(x) = k /\ x[1] = b[1]
  <2>1. x = SubSeq(b, 0 + 1, 0 + k) /\ 0 + k <= Len(b)
    BY <1>1, <1>2
  <2>2. x \in Seq(OfFile(n, m)) /\ Len(x) = k /\ \A j \in 1..k : x[j] = b[0 + j]
    BY <2>1, SubSeqIs
  <2>3. 1 \in 1..k /\ 0 + 1 = 1
    BY <1>1
  <2> QED BY <2>2, <2>3
<1>4. y \in Seq(Units("b"))
  <2>1. PICK l \in Nat : k + l = Len(t)
    <3>1. Len(t) - k \in Nat /\ k + (Len(t) - k) = Len(t)
      BY <1>1
    <3> QED BY <3>1
  <2>2. y = SubSeq(t, k + 1, k + l)
    BY <1>2, <2>1
  <2>3. k + l <= Len(t)
    BY <2>1
  <2> QED BY <2>2, <2>3, SubSeqIs
<1>5. x \in Seq(Stock(n, m)) /\ y \in Seq(Stock(n, m))
  BY <1>3, <1>4, StockHolds
<1>6. s \in Seq(Stock(n, m)) /\ \A j \in 1..Len(x) : s[j] = x[j]
  <2>1. s = x \o y
    BY <1>1, <1>2
  <2> QED BY <1>5, <2>1, JoinIs
<1>7. b[1].f = "a"
  <2>1. b[1] \in OfFile(n, m)
    BY <1>1
  <2> QED BY <2>1, StockHolds
<1>8. s[1] = b[1]
  <2>1. 1 \in 1..Len(x)
    BY <1>1, <1>3
  <2> QED BY <1>3, <1>6, <2>1
<1> QED BY <1>6, <1>7, <1>8 DEF Delivered, Marked

LEMMA MovedKnown ==
    ASSUME NEW n \in Nat, NEW m \in Nat, NEW s \in Moved("a", Pieces(n, m))
    PROVE  Delivered(s, n, m)
<1>1. Len(Pieces(n, m)) = m /\ \A c \in 1..m : Pieces(n, m)[c] = Piece(n, c)
  BY PiecesAre
<1>2. m >= 2
  BY <1>1 DEF Moved
<1>3. 1 \in 1..m /\ 2 \in 1..m /\ 0 \in 0..(m - 1) /\ 1 \in 0..(m - 1)
  BY <1>2
<1>4. PICK O : O = OfFile(n, m)
  OBVIOUS
<1>5. PICK x \in Seq(O), y \in Seq(O) : /\ x = Frame("a", 1 - 1, Pieces(n, m)[1])
                                        /\ y = Frame("a", 2 - 1, Pieces(n, m)[2])
  <2>1. Frame("a", 0, Piece(n, 0 + 1)) \in Seq(OfFile(n, m))
    BY <1>3, FrameKnown
  <2>2. Frame("a", 1, Piece(n, 1 + 1)) \in Seq(OfFile(n, m))
    BY <1>3, FrameKnown
  <2>3. 1 - 1 = 0 /\ 2 - 1 = 1 /\ 0 + 1 = 1 /\ 1 + 1 = 2
    OBVIOUS
  <2> QED BY <1>1, <1>3, <1>4, <2>1, <2>2, <2>3
<1>6. PICK w \in Seq(O) : s = Header("a") \o w \o Footer("a", Mac("a", Pieces(n, m)))
  <2>1. PICK w : /\ s = Header("a") \o w \o Footer("a", Mac("a", Pieces(n, m)))
                 /\ w \in {y \o x, x \o x, y, x, x \o y \o y}
    BY <1>1, <1>2, <1>5 DEF Moved
  <2>2. y \o x \in Seq(O) /\ x \o x \in Seq(O) /\ x \o y \o y \in Seq(O)
    OBVIOUS
  <2> QED BY <2>1, <2>2
<1>7. PICK h \in Seq(O), t \in Seq(O) : h = Header("a") /\ t = Footer("a", Mac("a", Pieces(n, m)))
  BY <1>4, EndsKnown DEF MacOf
<1>8. h \o w \o t \in Seq(O)
  OBVIOUS
<1> QED BY <1>4, <1>6, <1>7, <1>8, BodyKnown

\* Every blob that a reader is opened on is made of known units.
LEMMA SourceKnown ==
    ASSUME NEW n \in FileSizes, NEW s \in Aligned(n) \cup Misread(n)
    PROVE  \E m \in {PieceCount(n), 1} : m \in Nat /\ IsFile(n, m) /\ Delivered(s, n, m)
<1>1. n \in Nat /\ Chunk \in Nat
  BY BlobAssumption
<1>2. PICK m \in Nat : m = PieceCount(n) /\ BlobOf("a", n) = Body("a", n, m) /\ IsFile(n, m)
  BY <1>1, FileIs DEF IsFile
<1>3. PICK b \in Seq(OfFile(n, m)) : b = BlobOf("a", n)
  BY <1>1, <1>2, BodyKnown
<1>4. CASE s \in Cut(b)
  BY <1>1, <1>2, <1>4, CutKnown
<1>5. CASE s \in Damaged(b)
  BY <1>1, <1>2, <1>5, DamagedKnown
<1>6. CASE s \in Torn(b, BlobOf("b", OtherSize))
  <2>1. OtherSize \in Nat
    BY <1>1 DEF OtherSize
  <2>2. BlobOf("b", OtherSize) = Body("b", OtherSize, PieceCount(OtherSize)) /\ PieceCount(OtherSize) \in Nat
    BY <2>1, ChunksAre, CountFacts DEF BlobOf, Body
  <2>3. BlobOf("b", OtherSize) \in Seq(Units("b"))
    BY <2>1, <2>2, BodyInUnits
  <2> QED BY <1>1, <1>2, <1>6, <2>3, TornKnown
<1>7. CASE s \in Moved("a", ChunksOf(PlainOf(n)))
  <2>1. ChunksOf(PlainOf(n)) = Pieces(n, m)
    BY <1>1, <1>2, ChunksAre
  <2> QED BY <1>1, <1>2, <1>7, <2>1, MovedKnown
<1>8. CASE s = EncryptManifest("a", PlainOf(n))
  <2>1. PICK k \in Nat : k = IF n = 0 THEN 1 ELSE m
    BY <1>2
  <2>2. s = Body("a", n, k)
    BY <1>1, <1>2, <1>8, <2>1, FileIs
  <2>3. Delivered(s, n, k)
    BY <1>1, <2>2, BodyKnown
  <2> QED BY <1>2, <2>1, <2>3 DEF IsFile
<1> QED BY <1>3, <1>4, <1>5, <1>6, <1>7, <1>8 DEF Aligned, Misread
-----------------------------------------------------------------------------
(***************************************************************************)
(* The inductive invariant.  What arrives is known unit by unit; a reader  *)
(* in step has opened a number of frames of it, and nothing else; a page   *)
(* that met an error will meet it again at every push; an upload is the    *)
(* frames of what was pushed.                                              *)
(***************************************************************************)
HeaderSeen(s) == \A j \in 1..3 : s[j] = Unit("a", "hdr", 0, j, 0, None)
WireEnd(n, i) == 3 + Len(Wire("a", n, i))

IsFlow(d) == d = [st |-> d.st, buf |-> d.buf, tail |-> d.tail, dec |-> d.dec, out |-> d.out]

Opening(d, s, p, n, m) ==
    /\ d.dec = None /\ d.out = <<>> /\ d.tail = <<>>
    /\ d.buf \in Seq(Stock(n, m)) /\ Follows(d.buf, s, 0) /\ Len(d.buf) = p /\ p < 3
Reads(dec, tail, out, s, p, n, m, i, b) ==
    /\ InStep(s, n, m, i) /\ DecIs(dec, i, MacOf("a", n, i), b)
    /\ b \in Seq(Stock(n, m)) /\ Follows(b, s, WireEnd(n, i))
    /\ tail \in Seq(Stock(n, m)) /\ Follows(tail, s, WireEnd(n, i) + Len(b))
    /\ WireEnd(n, i) + Len(b) + Len(tail) = p
    /\ out = PlainOf(Cut1(n, i))
Reading(dec, tail, out, s, p, n, m) ==
    \E i \in {dec.idx}, b \in {dec.buf} : Reads(dec, tail, out, s, p, n, m, i, b)
Prefix(out, n, m) == \E c \in 0..m : out = PlainOf(Cut1(n, c))
StallsAt(g, dec, tail, p, n, m, i, b, mac) ==
    /\ i \in Nat /\ i < IndexLimit /\ DecIs(dec, i, mac, b) /\ Fails(g, b, i)
    /\ b \in Seq(Stock(n, m)) /\ mac \in Seq(Nat \X Seq(Stock(n, m) \cup Parts("a")))
    /\ tail \in Seq(Stock(n, m)) /\ Len(tail) <= p
Stalled(g, dec, tail, p, n, m) ==
    \E i \in {dec.idx}, b \in {dec.buf}, mac \in {dec.mac} :
        StallsAt(g, dec, tail, p, n, m, i, b, mac)
Ended(d, s, n, m) ==
    \/ d.dec = None
    \/ /\ d.dec.key = "a" /\ d.dec.idx \in 0..(IndexLimit - 1)
       /\ Prefix(d.out, n, m) /\ Len(d.tail) <= Len(s)

DlIs(g, d, s, p, n, m) ==
    /\ d.st \in {"header", "page"} => Opening(d, s, p, n, m)
    /\ d.st = "body" => HeaderSeen(s) /\ Reading(d.dec, d.tail, d.out, s, p, n, m)
    /\ d.st = "pageBody" => \/ Reading(d.dec, d.tail, d.out, s, p, n, m)
                            \/ Stalled(g, d.dec, d.tail, p, n, m) /\ Prefix(d.out, n, m)
    /\ d.st \in {"failed", "saved", "accepted"} => Ended(d, s, n, m)
    /\ d.st = "accepted" => /\ d.dec.key = "a" /\ d.out \in PlainOptions("a")
                            /\ IsBlobOf(s, "a", d.out)
Underway == \E n \in FileSizes : \E m \in {PieceCount(n), 1} :
               IsFile(n, m) /\ Delivered(src, n, m) /\ DlIs(junk, dl, src, pos, n, m)
DlInd ==
    /\ IsFlow(dl) /\ junk \in 0..3 /\ pos \in 0..Len(src)
    /\ dl.st \in {"idle", "header", "body", "page", "pageBody", "accepted", "saved", "failed"}
    /\ dl.st = "idle" => dl = Idle
    /\ dl.st # "idle" => Underway

UpOf(st, declared, idx, last, mac, blob, plain, sealed, pushes) ==
    [st |-> st, declared |-> declared, idx |-> idx, last |-> last, mac |-> mac,
     blob |-> blob, plain |-> plain, sealed |-> sealed, pushes |-> pushes]
IsUp(u) == u = UpOf(u.st, u.declared, u.idx, u.last, u.mac, u.blob, u.plain, u.sealed, u.pushes)
Numbers(k) == [c \in 1..k |-> c - 1]
\* n bytes were pushed, in i chunks.
Framing(u, n, i) ==
    /\ n \in Nat /\ i \in Nat /\ n <= i * Chunk /\ u.plain = PlainOf(n) /\ u.mac = MacOf("u", n, i)
IsOpen(u, n, i) ==
    /\ Framing(u, n, i) /\ u.sealed = Numbers(i) /\ u.blob = Header("u") \o Wire("u", n, i)
    /\ ~u.last => n = i * Chunk
UpIs(u) ==
    /\ IsUp(u) /\ u.st \in {"idle", "open", "done", "failed"} /\ u.idx \in 0..(IndexLimit - 1)
    /\ u.last \in BOOLEAN
    /\ u.st = "idle" => u = UpIdle
    /\ \E k \in {u.idx, u.idx + 1} : u.sealed = Numbers(k)
    /\ u.st = "open" => IsOpen(u, Len(u.plain), u.idx)
    /\ u.st = "done" => /\ Framing(u, Len(u.plain), u.idx)
                        /\ u.blob = Body("u", Len(u.plain), u.idx)
UpInd == UpIs(up)
BlobInd == DlInd /\ UpInd
-----------------------------------------------------------------------------
(***************************************************************************)
(* The readers.                                                            *)
(***************************************************************************)
Arrive(T, s, o, x, y, z) ==
    /\ x \in Seq(T) /\ y \in Seq(T) /\ o \in Nat
    /\ Follows(x, s, o) /\ Follows(y, s, o + Len(x)) /\ z = x \o y

LEMMA FollowsJoin ==
    ASSUME NEW T, NEW s, NEW x, NEW y, NEW o, NEW z, Arrive(T, s, o, x, y, z)
    PROVE  z \in Seq(T) /\ Len(z) = Len(x) + Len(y) /\ Follows(z, s, o)
<1> /\ x \in Seq(T) /\ y \in Seq(T) /\ o \in Nat
    /\ Follows(x, s, o) /\ Follows(y, s, o + Len(x)) /\ z = x \o y
  BY DEF Arrive
<1>1. /\ z \in Seq(T) /\ Len(z) = Len(x) + Len(y)
      /\ \A j \in 1..Len(x) : z[j] = x[j]
      /\ \A j \in 1..Len(y) : z[Len(x) + j] = y[j]
  BY JoinIs
<1>2. PICK k \in Nat, l \in Nat : k = Len(x) /\ l = Len(y)
  OBVIOUS
<1>3. ASSUME NEW j \in 1..(k + l) PROVE z[j] = s[o + j]
  <2>1. CASE j <= k
    <3>1. j \in 1..Len(x)
      BY <1>2, <2>1
    <3> QED BY <1>1, <3>1 DEF Follows
  <2>2. CASE j > k
    <3>1. PICK i \in 1..l : j = k + i
      <4>1. j - k \in 1..l /\ j = k + (j - k)
        BY <2>2
      <4> QED BY <4>1
    <3>2. i \in 1..Len(y) /\ z[j] = y[i]
      BY <1>1, <1>2, <3>1
    <3>3. y[i] = s[o + k + i]
      BY <1>2, <3>2 DEF Follows
    <3>4. o + k + i = o + j
      BY <3>1
    <3> QED BY <3>2, <3>3, <3>4
  <2>3. j <= k \/ j > k
    OBVIOUS
  <2> QED BY <2>1, <2>2, <2>3
<1>4. Len(z) = k + l
  BY <1>1, <1>2
<1> QED BY <1>1, <1>3, <1>4 DEF Follows

Split(T, s, o, z, k, x, y) ==
    /\ z \in Seq(T) /\ o \in Nat /\ Follows(z, s, o) /\ k \in Nat /\ k <= Len(z)
    /\ x = SubSeq(z, 1, k) /\ y = SubSeq(z, k + 1, Len(z))

LEMMA FollowsSplit ==
    ASSUME NEW T, NEW s, NEW o, NEW z, NEW k, NEW x, NEW y, Split(T, s, o, z, k, x, y)
    PROVE  /\ x \in Seq(T) /\ Len(x) = k /\ Follows(x, s, o)
           /\ y \in Seq(T) /\ k + Len(y) = Len(z) /\ Follows(y, s, o + k)
<1> /\ z \in Seq(T) /\ o \in Nat /\ Follows(z, s, o) /\ k \in Nat /\ k <= Len(z)
    /\ x = SubSeq(z, 1, k) /\ y = SubSeq(z, k + 1, Len(z))
  BY DEF Split
<1>1. PICK L \in Nat, l \in Nat : L = Len(z) /\ k + l = L
  <2>1. PICK L \in Nat : L = Len(z)
    OBVIOUS
  <2>2. L - k \in Nat /\ k + (L - k) = L
    BY <2>1
  <2> QED BY <2>1, <2>2
<1>2. x \in Seq(T) /\ Len(x) = k /\ \A j \in 1..k : x[j] = z[0 + j]
  <2>1. x = SubSeq(z, 0 + 1, 0 + k) /\ 0 + k <= Len(z)
    OBVIOUS
  <2> QED BY <2>1, SubSeqIs
<1>3. y \in Seq(T) /\ Len(y) = l /\ \A j \in 1..l : y[j] = z[k + j]
  <2>1. y = SubSeq(z, k + 1, k + l)
    BY <1>1
  <2>2. k + l <= Len(z)
    BY <1>1
  <2> QED BY <2>1, <2>2, SubSeqIs
<1>4. ASSUME NEW j \in 1..k PROVE x[j] = s[o + j]
  <2>1. j \in 1..Len(z) /\ 0 + j = j
    BY <1>1
  <2> QED BY <1>2, <2>1 DEF Follows
<1>5. ASSUME NEW j \in 1..l PROVE y[j] = s[o + k + j]
  <2>1. k + j \in 1..L
    BY <1>1
  <2>2. k + j \in 1..Len(z)
    BY <1>1, <2>1
  <2>3. z[k + j] = s[o + (k + j)]
    BY <2>2 DEF Follows
  <2>4. o + (k + j) = o + k + j
    OBVIOUS
  <2> QED BY <1>3, <2>3, <2>4
<1>6. Follows(x, s, o)
  BY <1>2, <1>4 DEF Follows
<1>7. Follows(y, s, o + k)
  BY <1>3, <1>5 DEF Follows
<1> QED BY <1>1, <1>2, <1>3, <1>6, <1>7

Trimmed(T, s, tail, bytes, o, t) ==
    /\ t.out \in Seq(T) /\ Follows(t.out, s, o)
    /\ t.tail \in Seq(T) /\ Follows(t.tail, s, o + Len(t.out))
    /\ Len(t.out) + Len(t.tail) = Len(tail) + Len(bytes)

LEMMA TrimIs ==
    ASSUME NEW T, NEW s, NEW tail, NEW bytes, NEW o, Arrive(T, s, o, tail, bytes, tail \o bytes),
           NEW t, t = Trim(tail, bytes)
    PROVE  Trimmed(T, s, tail, bytes, o, t)
<1>1. PICK z : z = tail \o bytes
  OBVIOUS
<1>2. z \in Seq(T) /\ Len(z) = Len(tail) + Len(bytes) /\ Follows(z, s, o) /\ o \in Nat
  <2>1. Arrive(T, s, o, tail, bytes, z)
    BY <1>1
  <2>2. o \in Nat
    BY DEF Arrive
  <2> QED BY <2>1, <2>2, FollowsJoin
<1>3. PICK k \in Nat : k = SatSub(Len(z), FooterLen) /\ k <= Len(z)
  <2>1. PICK L \in Nat : L = Len(z)
    BY <1>2
  <2>2. SatSub(L, 2) \in Nat /\ SatSub(L, 2) <= L
    BY DEF SatSub
  <2> QED BY <2>1, <2>2 DEF FooterLen
<1>4. t = [out |-> SubSeq(z, 1, k), tail |-> SubSeq(z, k + 1, Len(z))]
  BY <1>1, <1>3 DEF Trim
<1>5. t.out = SubSeq(z, 1, k) /\ t.tail = SubSeq(z, k + 1, Len(z))
  BY <1>4
<1>6. PICK x, y : x = t.out /\ y = t.tail
  OBVIOUS
<1>7. /\ x \in Seq(T) /\ Len(x) = k /\ Follows(x, s, o)
      /\ y \in Seq(T) /\ k + Len(y) = Len(z) /\ Follows(y, s, o + k)
  <2>1. Split(T, s, o, z, k, x, y)
    BY <1>2, <1>3, <1>5, <1>6 DEF Split
  <2> QED BY <2>1, FollowsSplit
<1> QED BY <1>2, <1>6, <1>7 DEF Trimmed

LEMMA ReadingIs ==
    ASSUME NEW dec, NEW tail, NEW out, NEW s, NEW p, NEW n, NEW m, NEW i, NEW b,
           Reads(dec, tail, out, s, p, n, m, i, b)
    PROVE  Reading(dec, tail, out, s, p, n, m) /\ dec.key = "a" /\ dec.idx = i /\ dec.buf = b
<1>1. dec.key = "a" /\ dec.idx = i /\ dec.buf = b
  BY DEF Reads, DecIs
<1> QED BY <1>1 DEF Reading

LEMMA StalledIs ==
    ASSUME NEW dec, NEW tail, NEW p, NEW n, NEW m, NEW i, NEW b, NEW mac,
           StallsAt(junk, dec, tail, p, n, m, i, b, mac)
    PROVE  Stalled(junk, dec, tail, p, n, m)
<1>1. dec.idx = i /\ dec.buf = b /\ dec.mac = mac
  BY DEF StallsAt, DecIs
<1> QED BY <1>1 DEF Stalled

LEMMA WireEndIs ==
    ASSUME NEW n \in Nat, NEW i \in Nat
    PROVE  WireEnd(n, i) \in Nat /\ WireEnd(n, i) = 3 + (3 * i + Cut1(n, i)) /\ WireEnd(n, 0) = 3
<1>1. PICK c \in Nat : c = Cut1(n, i)
  <2>1. Cut1(n, i) \in 0..n
    BY CutFacts
  <2> QED BY <2>1
<1>2. Len(Wire("a", n, i)) = 3 * i + c
  BY <1>1, WireLength
<1>3. WireEnd(n, i) = 3 + (3 * i + c) /\ 3 + (3 * i + c) \in Nat
  BY <1>2 DEF WireEnd
<1>4. Wire("a", n, 0) = <<>> /\ Len(<<>>) = 0
  BY WireStep
<1>5. WireEnd(n, 0) = 3
  BY <1>4 DEF WireEnd
<1> QED BY <1>1, <1>3, <1>5

\* Where a reader begins.
LEMMA ReadStart ==
    ASSUME NEW n \in Nat, NEW m \in Nat, NEW s, NEW tail \in Seq(Stock(n, m)), NEW p,
           Follows(tail, s, 3), p = 3 + Len(tail)
    PROVE  Reading(Decryptor("a"), tail, <<>>, s, p, n, m)
<1>1. PICK dec : dec = Decryptor("a")
  OBVIOUS
<1>0. PICK T, b : T = Stock(n, m) /\ b = <<>>
  OBVIOUS
<1>2. b = <<>> /\ b \in Seq(T) /\ Len(b) = 0
  BY <1>0
<1>3. DecIs(dec, 0, MacOf("a", n, 0), b)
  BY <1>1, <1>2, MacStep DEF DecIs, Decryptor
<1>4. InStep(s, n, m, 0)
  <2>1. Wire("a", n, 0) = <<>>
    BY WireStep
  <2>2. Matches(s, n, 0)
    BY <2>1 DEF Matches
  <2>3. 0 \in 0..m /\ 0 < IndexLimit
    BY BlobAssumption
  <2> QED BY <2>2, <2>3 DEF InStep
<1>5. WireEnd(n, 0) = 3
  BY WireEndIs
<1>6. Follows(b, s, WireEnd(n, 0))
  BY <1>2 DEF Follows
<1>7. WireEnd(n, 0) + Len(b) = 3
  BY <1>2, <1>5
<1>8. PlainOf(Cut1(n, 0)) = <<>>
  <2>1. Cut1(n, 0) = 0
    BY CutFacts
  <2> QED BY <2>1 DEF PlainOf
<1>9. Follows(tail, s, WireEnd(n, 0) + Len(b)) /\ WireEnd(n, 0) + Len(b) + Len(tail) = p
  BY <1>7
<1>10. Reads(dec, tail, <<>>, s, p, n, m, 0, b)
  BY <1>0, <1>2, <1>3, <1>4, <1>6, <1>8, <1>9 DEF Reads
<1> QED BY <1>1, <1>10, ReadingIs

\* A push to a reader in step: it stays in step, or meets an error for good.
LEMMA ReadOn ==
    ASSUME NEW n \in Nat, NEW m \in Nat, NEW s \in Seq(Stock(n, m)), junk \in Nat, NEW p \in Nat,
           NEW dec, NEW tail, NEW out, Reading(dec, tail, out, s, p, n, m),
           NEW bytes \in Seq(Stock(n, m)), Follows(bytes, s, p),
           NEW t, t = Trim(tail, bytes), NEW r, r = DecryptorPush(dec, t.out)
    PROVE  \/ r.err /\ r.out = <<>> /\ Stalled(junk, r.dec, t.tail, p + Len(bytes), n, m)
           \/ ~r.err /\ Reading(r.dec, t.tail, out \o r.out, s, p + Len(bytes), n, m)
<1>1. PICK T : T = Stock(n, m) /\ IsStock(T, n, m)
  BY StockIs
<1>2. PICK i, b : Reads(dec, tail, out, s, p, n, m, i, b)
  BY DEF Reading
<1>3. i \in Nat /\ i \in 0..m /\ i <= m
  BY <1>2 DEF Reads, InStep
<1>4. PICK off \in Nat : off = WireEnd(n, i) /\ off = 3 + Len(Wire("a", n, i))
  BY <1>3, WireEndIs DEF WireEnd
<1>5. /\ b \in Seq(T) /\ Follows(b, s, off) /\ tail \in Seq(T) /\ Follows(tail, s, off + Len(b))
      /\ off + Len(b) + Len(tail) = p
  BY <1>1, <1>2, <1>4 DEF Reads
<1>6. PICK B \in Nat, o \in Nat : B = Len(b) /\ o = off + B
  <2>1. PICK B \in Nat : B = Len(b)
    BY <1>5
  <2>2. off + B \in Nat
    OBVIOUS
  <2> QED BY <2>1, <2>2
<1>7. /\ t.out \in Seq(T) /\ Follows(t.out, s, o)
      /\ t.tail \in Seq(T) /\ Follows(t.tail, s, o + Len(t.out))
      /\ Len(t.out) + Len(t.tail) = Len(tail) + Len(bytes)
  <2>1. Follows(tail, s, o) /\ Follows(bytes, s, o + Len(tail))
    BY <1>5, <1>6
  <2>2. tail \in Seq(T) /\ bytes \in Seq(T)
    BY <1>1, <1>5
  <2>3. Arrive(T, s, o, tail, bytes, tail \o bytes)
    BY <2>1, <2>2 DEF Arrive
  <2>4. Trimmed(T, s, tail, bytes, o, t)
    BY <2>3, TrimIs
  <2> QED BY <2>4 DEF Trimmed
<1>8. PICK x \in Seq(T), y \in Seq(T) : x = t.out /\ y = t.tail
  BY <1>7
<1>9. PICK z : z = b \o x
  OBVIOUS
<1>10. z \in Seq(T) /\ Len(z) = Len(b) + Len(x) /\ Follows(z, s, off)
  <2>1. Follows(x, s, off + Len(b))
    BY <1>6, <1>7, <1>8
  <2>2. Arrive(T, s, off, b, x, z)
    BY <1>5, <1>8, <1>9, <2>1 DEF Arrive
  <2> QED BY <2>2, FollowsJoin
<1>11. PICK L \in Nat, Y \in Nat, q \in Nat : L = Len(z) /\ Y = Len(y) /\ q = p + Len(bytes)
  BY <1>10
<1>12. off + L + Y = q
  <2>1. PICK X \in Nat, t1 \in Nat, n1 \in Nat : X = Len(x) /\ t1 = Len(tail) /\ n1 = Len(bytes)
    BY <1>1, <1>5
  <2>2. L = B + X /\ X + Y = t1 + n1 /\ off + B + t1 = p /\ q = p + n1
    BY <1>5, <1>6, <1>7, <1>8, <1>10, <1>11, <2>1
  <2> QED BY <2>2
<1>13. /\ InStep(s, n, m, i) /\ DecIs(dec, i, MacOf("a", n, i), b) /\ out = PlainOf(Cut1(n, i))
  BY <1>2 DEF Reads
<1>14. s \in Seq(T)
  BY <1>1
<1>15. \/ /\ r.err
          /\ r.out = <<>>
          /\ \E k \in Nat, mac \in Seq(Nat \X Seq(T \cup Parts("a"))) :
                k < IndexLimit /\ Fails(junk, z, k) /\ DecIs(r.dec, k, mac, z)
       \/ /\ ~r.err
          /\ \E k \in i..m, e \in 0..Len(z) :
                /\ InStep(s, n, m, k) /\ r.out = Slice(n, i, k)
                /\ off + e = 3 + Len(Wire("a", n, k))
                /\ DecIs(r.dec, k, MacOf("a", n, k), Rest(z, e))
  <2>1. PushesOn(n, m, T, s, i, off, b, dec, x, z, r)
    BY <1>1, <1>3, <1>4, <1>8, <1>9, <1>10, <1>13, <1>14 DEF PushesOn
  <2>2. PushAnswers(n, m, T, s, i, off, z, r)
    BY <2>1, PushInStep
  <2> QED BY <2>2, Zenon DEF PushAnswers
<1>16. CASE r.err
  <2>1. PICK k \in Nat, mac \in Seq(Nat \X Seq(T \cup Parts("a"))) :
          k < IndexLimit /\ Fails(junk, z, k) /\ DecIs(r.dec, k, mac, z)
    BY <1>15, <1>16
  <2>2. Y <= q
    BY <1>12
  <2>3. StallsAt(junk, r.dec, t.tail, q, n, m, k, z, mac)
    BY <1>1, <1>8, <1>10, <1>11, <2>1, <2>2 DEF StallsAt
  <2> QED BY <1>11, <1>15, <1>16, <2>3, StalledIs
<1>17. CASE ~r.err
  <2>1. PICK k \in i..m, e \in 0..Len(z) :
                /\ InStep(s, n, m, k) /\ r.out = Slice(n, i, k)
                /\ off + e = 3 + Len(Wire("a", n, k))
                /\ DecIs(r.dec, k, MacOf("a", n, k), Rest(z, e))
    BY <1>15, <1>17
  <2>2. k \in Nat /\ e \in Nat /\ e <= Len(z) /\ i <= k
    BY <1>3, <1>11, <2>1
  <2>3. WireEnd(n, k) = off + e
    BY <2>1 DEF WireEnd
  <2>4. PICK c : c = Rest(z, e)
    OBVIOUS
  <2>5. c \in Seq(T) /\ e + Len(c) = Len(z) /\ Follows(c, s, off + e)
    <3>1. Split(T, s, off, z, e, SubSeq(z, 1, e), c)
      BY <1>10, <2>2, <2>4 DEF Rest, Split
    <3> QED BY <3>1, FollowsSplit
  <2>6. PICK C \in Nat : C = Len(c)
    BY <2>5
  <2>7. off + e + C = off + L /\ off + L + Y = q
    <3>1. e + C = L
      BY <1>11, <2>5, <2>6
    <3> QED BY <1>12, <2>2, <3>1
  <2>8. Follows(t.tail, s, off + L)
    <3>1. PICK X \in Nat : X = Len(x)
      OBVIOUS
    <3>2. o + X = off + L
      BY <1>6, <1>10, <1>11, <3>1
    <3> QED BY <1>7, <1>8, <3>1, <3>2
  <2>9. out \o r.out = PlainOf(Cut1(n, k))
    <3>1. PlainOf(Cut1(n, i)) \o Slice(n, i, k) = PlainOf(Cut1(n, k))
      BY <1>3, <2>2, PlainJoin
    <3> QED BY <1>13, <2>1, <3>1
  <2>10. WireEnd(n, k) + Len(c) = off + L
    BY <2>3, <2>6, <2>7
  <2>11. Reads(r.dec, t.tail, out \o r.out, s, q, n, m, k, c)
    BY <1>1, <1>8, <1>11, <2>1, <2>3, <2>4, <2>5, <2>7, <2>8, <2>9, <2>10 DEF Reads
  <2> QED BY <1>11, <1>17, <2>11, ReadingIs
<1> QED BY <1>16, <1>17

LEMMA StallOn ==
    ASSUME NEW n \in Nat, NEW m \in Nat, junk \in Nat, NEW p \in Nat, NEW dec, NEW tail,
           Stalled(junk, dec, tail, p, n, m), NEW bytes \in Seq(Stock(n, m)),
           NEW t, t = Trim(tail, bytes), NEW r, r = DecryptorPush(dec, t.out)
    PROVE  r.out = <<>> /\ Stalled(junk, r.dec, t.tail, p + Len(bytes), n, m)
<1>1. PICK T : T = Stock(n, m) /\ IsStock(T, n, m)
  BY StockIs
<1>2. PICK i, b, mac : StallsAt(junk, dec, tail, p, n, m, i, b, mac)
  BY DEF Stalled
<1>3. /\ i \in Nat /\ i < IndexLimit /\ DecIs(dec, i, mac, b) /\ Fails(junk, b, i)
      /\ b \in Seq(T) /\ mac \in Seq(Nat \X Seq(T \cup Parts("a")))
      /\ tail \in Seq(T) /\ Len(tail) <= p
  BY <1>1, <1>2 DEF StallsAt
<1>4. PICK z : z = tail \o bytes
  OBVIOUS
<1>5. z \in Seq(T) /\ Len(z) = Len(tail) + Len(bytes)
  BY <1>1, <1>3, <1>4, JoinIs
<1>6. t.out \in Seq(T) /\ t.tail \in Seq(T) /\ Len(t.tail) <= Len(z)
  <2>1. Follows(z, z, 0)
    BY <1>5 DEF Follows
  <2>2. PICK k \in Nat : k = SatSub(Len(z), FooterLen) /\ k <= Len(z)
    <3>1. PICK L \in Nat : L = Len(z)
      BY <1>5
    <3>2. SatSub(L, 2) \in Nat /\ SatSub(L, 2) <= L
      BY DEF SatSub
    <3> QED BY <3>1, <3>2 DEF FooterLen
  <2>3. t = [out |-> SubSeq(z, 1, k), tail |-> SubSeq(z, k + 1, Len(z))]
    BY <1>4, <2>2 DEF Trim
  <2>4. PICK x, y : x = t.out /\ y = t.tail
    OBVIOUS
  <2>5. x = SubSeq(z, 1, k) /\ y = SubSeq(z, k + 1, Len(z))
    BY <2>3, <2>4
  <2>6. x \in Seq(T) /\ y \in Seq(T) /\ k + Len(y) = Len(z)
    <3>1. Split(T, z, 0, z, k, x, y)
      BY <1>5, <2>1, <2>2, <2>5 DEF Split
    <3> QED BY <3>1, FollowsSplit
  <2>7. PICK Y \in Nat, L \in Nat : Y = Len(y) /\ L = Len(z)
    BY <1>5, <2>6
  <2>8. Y <= L
    BY <2>2, <2>6, <2>7
  <2> QED BY <2>4, <2>6, <2>7, <2>8
<1>7. PICK c : c = b \o t.out
  OBVIOUS
<1>8. /\ r.out = <<>> /\ Fails(junk, c, i) /\ c \in Seq(T)
      /\ \E mc \in Seq(Nat \X Seq(T \cup Parts("a"))) : DecIs(r.dec, i, mc, c)
  <2>1. PushesAgain(n, m, T, i, b, mac, dec, t.out, c, r)
    BY <1>1, <1>3, <1>6, <1>7 DEF PushesAgain
  <2> QED BY <2>1, PushStuck
<1>9. PICK mc \in Seq(Nat \X Seq(T \cup Parts("a"))) : DecIs(r.dec, i, mc, c)
  BY <1>8
<1>10. Len(t.tail) <= p + Len(bytes)
  <2>1. PICK a \in Nat, e \in Nat, y \in Nat : a = Len(tail) /\ e = Len(bytes) /\ y = Len(t.tail)
    BY <1>1, <1>3, <1>6
  <2>2. y <= a + e /\ a <= p
    BY <1>3, <1>5, <1>6, <2>1
  <2>3. y <= p + e
    BY <2>2
  <2> QED BY <2>1, <2>3
<1>11. StallsAt(junk, r.dec, t.tail, p + Len(bytes), n, m, i, c, mc)
  BY <1>1, <1>3, <1>6, <1>8, <1>9, <1>10 DEF StallsAt
<1> QED BY <1>8, <1>11, StalledIs

\* Records of the reader.
FlowOf(st, buf, tail, dec, out) ==
    [st |-> st, buf |-> buf, tail |-> tail, dec |-> dec, out |-> out]

IsFlowOf(d, st, buf, tail, dec, out) == d = FlowOf(st, buf, tail, dec, out)

LEMMA FlowFields ==
    ASSUME NEW st, NEW buf, NEW tail, NEW dec, NEW out, NEW d, IsFlowOf(d, st, buf, tail, dec, out)
    PROVE  IsFlow(d) /\ d.st = st /\ d.buf = buf /\ d.tail = tail /\ d.dec = dec /\ d.out = out
BY DEF FlowOf, IsFlowOf, IsFlow

LEMMA FlowState ==
    ASSUME NEW st, NEW buf, NEW tail, NEW dec, NEW out, NEW d, IsFlowOf(d, st, buf, tail, dec, out),
           NEW x
    PROVE  IsFlowOf([d EXCEPT !.st = x], x, buf, tail, dec, out)
BY DEF FlowOf, IsFlowOf

LEMMA FlowBuffer ==
    ASSUME NEW st, NEW buf, NEW tail, NEW dec, NEW out, NEW d, IsFlowOf(d, st, buf, tail, dec, out),
           NEW x
    PROVE  IsFlowOf([d EXCEPT !.buf = x], st, x, tail, dec, out)
BY DEF FlowOf, IsFlowOf

StepsTo(e, d, z, w, v) == e = [d EXCEPT !.tail = z, !.dec = w, !.out = v]

LEMMA FlowOn ==
    ASSUME NEW st, NEW buf, NEW tail, NEW dec, NEW out, NEW d, IsFlowOf(d, st, buf, tail, dec, out),
           NEW z, NEW w, NEW v, NEW e, StepsTo(e, d, z, w, v)
    PROVE  IsFlowOf(e, st, buf, z, w, v)
<1>1. PICK d1 : d1 = [d EXCEPT !.tail = z]
  OBVIOUS
<1>2. d1 = FlowOf(st, buf, z, dec, out)
  BY <1>1 DEF FlowOf, IsFlowOf
<1>3. PICK d2 : d2 = [d1 EXCEPT !.dec = w]
  OBVIOUS
<1>4. d2 = FlowOf(st, buf, z, w, out)
  BY <1>2, <1>3 DEF FlowOf
<1>5. [d EXCEPT !.tail = z, !.dec = w, !.out = v] = [d2 EXCEPT !.out = v]
  BY <1>1, <1>3
<1>6. [d2 EXCEPT !.out = v] = FlowOf(st, buf, z, w, v)
  BY <1>4 DEF FlowOf
<1> QED BY <1>5, <1>6 DEF IsFlowOf, StepsTo

LEMMA FlowKeyed ==
    ASSUME NEW st, NEW buf, NEW tail, NEW dec, NEW out, NEW d, IsFlowOf(d, st, buf, tail, dec, out),
           NEW x, NEW y, NEW w, NEW z
    PROVE  /\ IsFlowOf([d EXCEPT !.st = x, !.buf = y, !.dec = w], x, y, tail, w, out)
           /\ IsFlowOf([d EXCEPT !.st = x, !.buf = y, !.dec = w, !.tail = z], x, y, z, w, out)
<1>1. PICK d1 : d1 = [d EXCEPT !.st = x]
  OBVIOUS
<1>2. d1 = FlowOf(x, buf, tail, dec, out)
  BY <1>1 DEF FlowOf, IsFlowOf
<1>3. PICK d2 : d2 = [d1 EXCEPT !.buf = y]
  OBVIOUS
<1>4. d2 = FlowOf(x, y, tail, dec, out)
  BY <1>2, <1>3 DEF FlowOf
<1>5. PICK d3 : d3 = [d2 EXCEPT !.dec = w]
  OBVIOUS
<1>6. d3 = FlowOf(x, y, tail, w, out)
  BY <1>4, <1>5 DEF FlowOf
<1>7. [d EXCEPT !.st = x, !.buf = y, !.dec = w] = d3
  BY <1>1, <1>3, <1>5
<1>8. [d EXCEPT !.st = x, !.buf = y, !.dec = w, !.tail = z] = [d3 EXCEPT !.tail = z]
  BY <1>1, <1>3, <1>5
<1>9. [d3 EXCEPT !.tail = z] = FlowOf(x, y, z, w, out)
  BY <1>6 DEF FlowOf
<1> QED BY <1>6, <1>7, <1>8, <1>9 DEF IsFlowOf

\* What a reader in step leaves behind when it ends.
LEMMA ReadEnds ==
    ASSUME NEW n \in Nat, NEW m \in Nat, NEW dec, NEW tail, NEW out, NEW s, NEW p \in Nat,
           Reading(dec, tail, out, s, p, n, m)
    PROVE  /\ dec.key = "a" /\ dec.idx \in 0..(IndexLimit - 1) /\ Prefix(out, n, m)
           /\ tail \in Seq(Stock(n, m)) /\ Len(tail) <= p
<1>1. PICK i, b : Reads(dec, tail, out, s, p, n, m, i, b)
  BY DEF Reading
<1>2. i \in 0..m /\ i < IndexLimit /\ out = PlainOf(Cut1(n, i)) /\ tail \in Seq(Stock(n, m))
  BY <1>1 DEF Reads, InStep
<1>3. dec.key = "a" /\ dec.idx = i
  BY <1>1, ReadingIs
<1>4. IndexLimit \in Nat /\ i \in Nat
  BY <1>2, BlobAssumption
<1>5. i \in 0..(IndexLimit - 1)
  BY <1>2, <1>4
<1>6. PICK a \in Nat : a = WireEnd(n, i)
  BY <1>4, WireEndIs
<1>7. PICK B \in Nat : B = Len(b)
  <2>1. b \in Seq(Stock(n, m))
    BY <1>1 DEF Reads
  <2> QED BY <2>1
<1>8. PICK t \in Nat : t = Len(tail)
  BY <1>2
<1>9. a + B + t = p
  BY <1>1, <1>6, <1>7, <1>8 DEF Reads
<1>10. t <= p
  BY <1>9
<1> QED BY <1>2, <1>3, <1>5, <1>8, <1>10 DEF Prefix

LEMMA StallEnds ==
    ASSUME NEW n, NEW m, NEW dec, NEW tail, NEW p, Stalled(junk, dec, tail, p, n, m)
    PROVE  /\ dec.key = "a" /\ dec.idx \in 0..(IndexLimit - 1)
           /\ tail \in Seq(Stock(n, m)) /\ Len(tail) <= p
<1>1. PICK i, b, mac : StallsAt(junk, dec, tail, p, n, m, i, b, mac)
  BY DEF Stalled
<1>2. i \in Nat /\ i < IndexLimit /\ dec.key = "a" /\ dec.idx = i
  BY <1>1 DEF StallsAt, DecIs
<1>3. i \in 0..(IndexLimit - 1)
  BY <1>2, BlobAssumption
<1> QED BY <1>1, <1>2, <1>3 DEF StallsAt

\* What BodyPush() makes of a flow in step.
BodyGoes(n, m, s, p, buf, tail, dec, out, d, bytes, e) ==
    /\ n \in Nat /\ m \in Nat /\ s \in Seq(Stock(n, m)) /\ p \in Nat
    /\ IsFlowOf(d, "body", buf, tail, dec, out) /\ HeaderSeen(s)
    /\ Reading(dec, tail, out, s, p, n, m) /\ bytes \in Seq(Stock(n, m))
    /\ Follows(bytes, s, p) /\ p + Len(bytes) <= Len(s) /\ e = BodyPush(d, bytes)

LEMMA BodyOn ==
    ASSUME NEW n, NEW m, NEW s, NEW p, NEW buf, NEW tail, NEW dec, NEW out, NEW d, NEW bytes, NEW e,
           BodyGoes(n, m, s, p, buf, tail, dec, out, d, bytes, e), junk \in Nat
    PROVE  IsFlow(e) /\ e.st \in {"body", "failed"} /\ DlIs(junk, e, s, p + Len(bytes), n, m)
<1> /\ n \in Nat /\ m \in Nat /\ s \in Seq(Stock(n, m)) /\ p \in Nat
    /\ IsFlowOf(d, "body", buf, tail, dec, out) /\ HeaderSeen(s)
    /\ Reading(dec, tail, out, s, p, n, m) /\ bytes \in Seq(Stock(n, m))
    /\ Follows(bytes, s, p) /\ p + Len(bytes) <= Len(s) /\ e = BodyPush(d, bytes)
  BY DEF BodyGoes
<1>1. PICK t : t = Trim(tail, bytes)
  OBVIOUS
<1>2. PICK r : r = DecryptorPush(dec, t.out)
  OBVIOUS
<1>3. \/ r.err /\ r.out = <<>> /\ Stalled(junk, r.dec, t.tail, p + Len(bytes), n, m)
      \/ ~r.err /\ Reading(r.dec, t.tail, out \o r.out, s, p + Len(bytes), n, m)
  BY <1>1, <1>2, ReadOn
<1>4. d.tail = tail /\ d.dec = dec /\ d.out = out
  BY FlowFields
<1>5. e = IF r.err THEN [d EXCEPT !.st = "failed"]
          ELSE [d EXCEPT !.tail = t.tail, !.dec = r.dec, !.out = d.out \o r.out]
  BY <1>1, <1>2, <1>4 DEF BodyPush
<1>6. CASE r.err
  <2>0. e = [d EXCEPT !.st = "failed"]
    BY <1>5, <1>6
  <2>1. IsFlowOf(e, "failed", buf, tail, dec, out)
    BY <2>0, FlowState
  <2>2. IsFlow(e) /\ e.st = "failed" /\ e.tail = tail /\ e.dec = dec /\ e.out = out
    BY <2>1, FlowFields
  <2>3. /\ dec.key = "a" /\ dec.idx \in 0..(IndexLimit - 1) /\ Prefix(out, n, m) /\ Len(tail) <= p
        /\ tail \in Seq(Stock(n, m))
    BY ReadEnds
  <2>4. Len(tail) <= Len(s)
    <3>1. PICK a \in Nat, b \in Nat, c \in Nat : a = Len(tail) /\ b = Len(bytes) /\ c = Len(s)
      BY <2>3
    <3>2. a <= c
      BY <2>3, <3>1
    <3> QED BY <3>1, <3>2
  <2>5. Ended(e, s, n, m)
    BY <2>2, <2>3, <2>4 DEF Ended
  <2> QED BY <2>2, <2>5 DEF DlIs
<1>7. CASE ~r.err
  <2>9. PICK v, z, w : v = out \o r.out /\ z = t.tail /\ w = r.dec
    OBVIOUS
  <2>0. e = [d EXCEPT !.tail = z, !.dec = w, !.out = v]
    BY <1>4, <1>5, <1>7, <2>9
  <2>1. IsFlowOf(e, "body", buf, z, w, v)
    <3>1. StepsTo(e, d, z, w, v)
      BY <2>0 DEF StepsTo
    <3> QED BY <3>1, FlowOn
  <2>2. IsFlow(e) /\ e.st = "body" /\ e.tail = z /\ e.dec = w /\ e.out = v
    BY <2>1, FlowFields
  <2>3. Reading(e.dec, e.tail, e.out, s, p + Len(bytes), n, m)
    BY <1>3, <1>7, <2>2, <2>9
  <2> QED BY <2>2, <2>3 DEF DlIs
<1> QED BY <1>6, <1>7

LEMMA HeaderGives ==
    ASSUME NEW s, NEW b, Follows(b, s, 0), Len(b) \in Nat, Len(b) >= 3, Marked(s), Len(s) >= 3,
           HeaderKey(b) # None
    PROVE  HeaderKey(b) = "a" /\ HeaderSeen(s)
<1>1. \A j \in 1..3 : b[j] = Unit(b[1].f, "hdr", 0, j, 0, None)
  BY DEF HeaderKey, HeaderLen
<1>2. HeaderKey(b) = b[1].f
  BY <1>1 DEF HeaderKey, HeaderLen
<1>3. \A j \in 1..3 : b[j] = s[j]
  <2> SUFFICES ASSUME NEW j \in 1..3 PROVE b[j] = s[j]
    OBVIOUS
  <2>1. j \in 1..Len(b) /\ 0 + j = j
    OBVIOUS
  <2> QED BY <2>1 DEF Follows
<1>4. PICK key : key = b[1].f
  OBVIOUS
<1>5. s[1].f = key /\ s[2].f = key
  <2>1. s[1] = Unit(key, "hdr", 0, 1, 0, None) /\ s[2] = Unit(key, "hdr", 0, 2, 0, None)
    BY <1>1, <1>3, <1>4
  <2> QED BY <2>1, FieldsOf
<1>6. key = "a"
  BY <1>5 DEF Marked
<1> QED BY <1>1, <1>2, <1>3, <1>4, <1>6 DEF HeaderSeen

\* The source, and what arrives of it.
Source(n, m) ==
    /\ n \in FileSizes /\ m \in {PieceCount(n), 1} /\ IsFile(n, m) /\ Delivered(src, n, m)
    /\ DlIs(junk, dl, src, pos, n, m)

LEMMA SourceIs ==
    ASSUME NEW n, NEW m, Source(n, m)
    PROVE  /\ n \in Nat /\ m \in Nat /\ src \in Seq(Stock(n, m)) /\ Marked(src)
           /\ DlIs(junk, dl, src, pos, n, m)
<1>1. n \in Nat
  BY BlobAssumption DEF Source
<1>2. m \in Nat
  BY <1>1, CountFacts DEF Source
<1> QED BY <1>1, <1>2 DEF Source, Delivered

LEMMA ArrivedIs ==
    ASSUME NEW n, NEW m, Source(n, m), pos \in 0..Len(src), NEW k \in 1..(Len(src) - pos)
    PROVE  /\ Arrived(k) \in Seq(Stock(n, m)) /\ Len(Arrived(k)) = k /\ Follows(Arrived(k), src, pos)
           /\ pos \in Nat /\ k \in Nat /\ pos + k \in 0..Len(src)
<1>1. PICK T, s : T = Stock(n, m) /\ s = src /\ s \in Seq(T)
  BY SourceIs
<1>2. PICK L \in Nat, p \in Nat : L = Len(s) /\ p = pos
  BY <1>1
<1>3. k \in Nat /\ p + k <= L /\ p + k \in 0..L
  BY <1>1, <1>2
<1>4. PICK t : t = SubSeq(s, p + 1, p + k)
  OBVIOUS
<1>5. t \in Seq(T) /\ Len(t) = k /\ \A j \in 1..k : t[j] = s[p + j]
  BY <1>1, <1>2, <1>3, <1>4, SubSeqIs
<1>6. Arrived(k) = t
  BY <1>1, <1>2, <1>4 DEF Arrived
<1> QED BY <1>1, <1>2, <1>3, <1>5, <1>6 DEF Follows

\* An action that leaves the reader where its source allows.
GoesTo(e, p, n, m) ==
    /\ IsFlow(e) /\ e.st \in {"header", "body", "page", "pageBody", "accepted", "saved", "failed"}
    /\ DlIs(junk, e, src, p, n, m)

LEMMA GoesOn ==
    ASSUME NEW n, NEW m, Source(n, m), junk \in 0..3, junk' = junk, src' = src,
           pos' \in 0..Len(src), GoesTo(dl', pos', n, m)
    PROVE  DlInd'
<1>1. DlIs(junk, dl, src, pos, n, m)' <=> DlIs(junk', dl', src', pos', n, m)
  OBVIOUS
<1>2. Underway'
  BY <1>1 DEF Underway, Source, GoesTo
<1> QED BY <1>2 DEF DlInd, GoesTo

LEMMA FlowIs ==
    ASSUME NEW d, IsFlow(d)
    PROVE  IsFlowOf(d, d.st, d.buf, d.tail, d.dec, d.out)
BY DEF IsFlow, IsFlowOf, FlowOf

\* A reader without a key that fails.
LEMMA FailsEarly ==
    ASSUME IsFlow(dl), dl.dec = None, NEW n, NEW m, NEW p
    PROVE  GoesTo([dl EXCEPT !.st = "failed"], p, n, m)
<1>1. PICK e : e = [dl EXCEPT !.st = "failed"]
  OBVIOUS
<1>2. IsFlowOf(e, "failed", dl.buf, dl.tail, dl.dec, dl.out)
  BY <1>1, FlowIs, FlowState
<1>3. IsFlow(e) /\ e.st = "failed" /\ e.dec = None
  BY <1>2, FlowFields
<1>4. DlIs(junk, e, src, p, n, m)
  BY <1>3 DEF DlIs, Ended
<1> QED BY <1>1, <1>3, <1>4 DEF GoesTo

\* What has arrived before the header is whole.
Gathers(b, k) == b = dl.buf \o Arrived(k)
LEMMA OpeningOn ==
    ASSUME NEW n, NEW m, Source(n, m), IsFlow(dl), dl.st \in {"header", "page"}, pos \in 0..Len(src),
           NEW k \in 1..(Len(src) - pos), NEW b, Gathers(b, k)
    PROVE  /\ b \in Seq(Stock(n, m)) /\ Len(b) = pos + k /\ Follows(b, src, 0)
           /\ dl.dec = None /\ dl.tail = <<>> /\ dl.out = <<>>
           /\ Len(b) < 3 => GoesTo([dl EXCEPT !.buf = b], pos + k, n, m)
<1>1. Opening(dl, src, pos, n, m)
  BY SourceIs DEF DlIs
<1>2. /\ dl.dec = None /\ dl.out = <<>> /\ dl.tail = <<>> /\ dl.buf \in Seq(Stock(n, m))
      /\ Follows(dl.buf, src, 0) /\ Len(dl.buf) = pos
  BY <1>1 DEF Opening
<1>3. PICK a, c : a = dl.buf /\ c = Arrived(k)
  OBVIOUS
<1>4. /\ c \in Seq(Stock(n, m)) /\ Len(c) = k /\ Follows(c, src, pos) /\ pos \in Nat /\ k \in Nat
  BY <1>3, ArrivedIs
<1>5. 0 + pos = pos
  BY <1>4
<1>6. Arrive(Stock(n, m), src, 0, a, c, b)
  BY <1>2, <1>3, <1>4, <1>5 DEF Arrive, Gathers
<1>7. b \in Seq(Stock(n, m)) /\ Len(b) = pos + k /\ Follows(b, src, 0)
  <2>0. PICK T, s, o : T = Stock(n, m) /\ s = src /\ o = 0
    OBVIOUS
  <2>2. Arrive(T, s, o, a, c, b)
    BY <1>6, <2>0
  <2>4. a \in Seq(T) /\ c \in Seq(T)
    BY <2>2 DEF Arrive
  <2>3. b \in Seq(T) /\ Len(b) = Len(a) + Len(c) /\ Follows(b, s, o)
    BY <2>2, <2>4, FollowsJoin
  <2>1. b \in Seq(Stock(n, m)) /\ Len(b) = Len(a) + Len(c) /\ Follows(b, src, 0)
    BY <2>0, <2>3
  <2> QED BY <1>2, <1>3, <1>4, <2>1
<1>8. ASSUME Len(b) < 3 PROVE GoesTo([dl EXCEPT !.buf = b], pos + k, n, m)
  <2>1. PICK e : e = [dl EXCEPT !.buf = b]
    OBVIOUS
  <2>2. IsFlowOf(e, dl.st, b, dl.tail, dl.dec, dl.out)
    BY <2>1, FlowIs, FlowBuffer
  <2>3. /\ IsFlow(e) /\ e.st = dl.st /\ e.dec = None /\ e.buf = b /\ e.tail = <<>> /\ e.out = <<>>
    <3>1. PICK st, z, w, v : st = dl.st /\ z = dl.tail /\ w = dl.dec /\ v = dl.out
      OBVIOUS
    <3>2. IsFlowOf(e, st, b, z, w, v)
      BY <2>2, <3>1
    <3>3. IsFlow(e) /\ e.st = st /\ e.dec = w /\ e.buf = b /\ e.tail = z /\ e.out = v
      BY <3>2, FlowFields
    <3> QED BY <1>2, <3>1, <3>3
  <2>4. Opening(e, src, pos + k, n, m)
    BY <1>7, <1>8, <2>3 DEF Opening
  <2>5. DlIs(junk, e, src, pos + k, n, m)
    BY <2>3, <2>4 DEF DlIs
  <2> QED BY <2>1, <2>3, <2>5 DEF GoesTo
<1> QED BY <1>2, <1>7, <1>8

\* What came after the header.
LEMMA AfterHeader ==
    ASSUME NEW T, NEW s, NEW b \in Seq(T), Follows(b, s, 0), Len(b) >= 3
    PROVE  /\ SubSeq(b, 4, Len(b)) \in Seq(T) /\ Follows(SubSeq(b, 4, Len(b)), s, 3)
           /\ 3 + Len(SubSeq(b, 4, Len(b))) = Len(b)
<1>1. PICK x, y : x = SubSeq(b, 1, 3) /\ y = SubSeq(b, 4, Len(b))
  OBVIOUS
<1>2. 3 + 1 = 4 /\ 0 + 3 = 3
  OBVIOUS
<1>3. Split(T, s, 0, b, 3, x, y)
  BY <1>1, <1>2 DEF Split
<1>4. y \in Seq(T) /\ 3 + Len(y) = Len(b) /\ Follows(y, s, 0 + 3)
  BY <1>3, FollowsSplit
<1> QED BY <1>1, <1>2, <1>4

\* ByoDownloadFlow::push().
LEMMA DlPushKeeps ==
    ASSUME DlInd, NEW k \in 1..(Len(src) - pos), DlPush(k)
    PROVE  DlInd'
<1>1. /\ dl.st \in {"header", "body"} /\ IsFlow(dl) /\ pos \in 0..Len(src) /\ junk \in 0..3
      /\ src' = src /\ junk' = junk /\ pos' = pos + k
  BY DEF DlInd, DlPush
<1>2. PICK n, m : Source(n, m)
  BY <1>1 DEF DlInd, Underway, Source
<1>3. /\ n \in Nat /\ m \in Nat /\ src \in Seq(Stock(n, m)) /\ Marked(src)
      /\ DlIs(junk, dl, src, pos, n, m)
  BY <1>2, SourceIs
<1>4. /\ Arrived(k) \in Seq(Stock(n, m)) /\ Len(Arrived(k)) = k /\ Follows(Arrived(k), src, pos)
      /\ pos \in Nat /\ k \in Nat /\ pos + k \in 0..Len(src)
  BY <1>1, <1>2, ArrivedIs
<1>5. junk \in Nat
  BY <1>1
<1>6. GoesTo(dl', pos + k, n, m)
  <2>1. CASE dl.st = "body"
    <3>1. HeaderSeen(src) /\ Reading(dl.dec, dl.tail, dl.out, src, pos, n, m)
      BY <1>3, <2>1 DEF DlIs
    <3>2. dl' = BodyPush(dl, Arrived(k))
      BY <2>1 DEF DlPush
    <3>3. IsFlowOf(dl, "body", dl.buf, dl.tail, dl.dec, dl.out)
      BY <1>1, <2>1, FlowIs
    <3>4. PICK buf, tail, dec, out, s, p, bytes, e :
            /\ buf = dl.buf /\ tail = dl.tail /\ dec = dl.dec /\ out = dl.out /\ s = src /\ p = pos
            /\ bytes = Arrived(k) /\ e = dl'
      OBVIOUS
    <3>5. BodyGoes(n, m, s, p, buf, tail, dec, out, dl, bytes, e)
      BY <1>3, <1>4, <3>1, <3>2, <3>3, <3>4 DEF BodyGoes
    <3>6. IsFlow(e) /\ e.st \in {"body", "failed"} /\ DlIs(junk, e, s, p + Len(bytes), n, m)
      BY <1>5, <3>5, BodyOn
    <3> QED BY <1>4, <3>4, <3>6 DEF GoesTo
  <2>2. CASE dl.st = "header"
    <3>1. PICK b : b = dl.buf \o Arrived(k)
      OBVIOUS
    <3>2. /\ b \in Seq(Stock(n, m)) /\ Len(b) = pos + k /\ Follows(b, src, 0)
          /\ dl.dec = None /\ dl.tail = <<>> /\ dl.out = <<>>
          /\ Len(b) < 3 => GoesTo([dl EXCEPT !.buf = b], pos + k, n, m)
      <4>1. Gathers(b, k)
        BY <3>1 DEF Gathers
      <4> QED BY <1>1, <1>2, <2>2, <4>1, OpeningOn
    <3>3. dl' = IF Len(b) < 3 THEN [dl EXCEPT !.buf = b]
                ELSE IF HeaderKey(b) = None THEN [dl EXCEPT !.st = "failed"]
                ELSE BodyPush([dl EXCEPT !.st = "body", !.buf = <<>>, !.dec = Decryptor(HeaderKey(b))],
                              SubSeq(b, 4, Len(b)))
      <4>1. HeaderLen + 1 = 4 /\ HeaderLen = 3
        BY DEF HeaderLen
      <4> QED BY <2>2, <3>1, <4>1 DEF DlPush
    <3>4. CASE Len(b) < 3
      BY <3>2, <3>3, <3>4
    <3>5. CASE ~(Len(b) < 3) /\ HeaderKey(b) = None
      BY <1>1, <3>2, <3>3, <3>5, FailsEarly
    <3>6. CASE ~(Len(b) < 3) /\ HeaderKey(b) # None
      <4>1. Len(b) \in Nat /\ Len(b) >= 3 /\ Len(src) >= 3
        BY <1>3, <1>4, <3>2, <3>6
      <4>2. HeaderKey(b) = "a" /\ HeaderSeen(src)
        BY <1>3, <3>2, <3>6, <4>1, HeaderGives
      <4>3. PICK d, rest, e : /\ d = [dl EXCEPT !.st = "body", !.buf = <<>>, !.dec = Decryptor("a")]
                              /\ rest = SubSeq(b, 4, Len(b)) /\ e = dl'
        OBVIOUS
      <4>4. e = BodyPush(d, rest)
        BY <3>3, <3>6, <4>2, <4>3
      <4>5. IsFlowOf(d, "body", <<>>, <<>>, Decryptor("a"), <<>>)
        <5>1. IsFlowOf(dl, dl.st, dl.buf, <<>>, dl.dec, <<>>)
          BY <1>1, <3>2, FlowIs
        <5> QED BY <4>3, <5>1, FlowKeyed
      <4>6. PICK T, s : T = Stock(n, m) /\ s = src
        OBVIOUS
      <4>7. rest \in Seq(T) /\ Follows(rest, s, 3) /\ 3 + Len(rest) = Len(b)
        BY <3>2, <4>1, <4>3, <4>6, AfterHeader
      <4>8. Reading(Decryptor("a"), <<>>, <<>>, s, 3, n, m)
        <5>3. PICK z : z = <<>>
          OBVIOUS
        <5>1. z = <<>> /\ z \in Seq(T) /\ Len(z) = 0
          BY <5>3
        <5>2. Follows(z, s, 3) /\ 3 = 3 + Len(z)
          BY <5>1 DEF Follows
        <5> QED BY <1>3, <4>6, <5>1, <5>2, ReadStart
      <4>9. PICK w, o : w = Decryptor("a") /\ o = <<>>
        OBVIOUS
      <4>10. BodyGoes(n, m, s, 3, o, o, w, o, d, rest, e)
        BY <1>3, <1>4, <3>2, <4>2, <4>4, <4>5, <4>6, <4>7, <4>8, <4>9 DEF BodyGoes
      <4>11. IsFlow(e) /\ e.st \in {"body", "failed"} /\ DlIs(junk, e, s, 3 + Len(rest), n, m)
        BY <1>5, <4>10, BodyOn
      <4> QED BY <3>2, <4>3, <4>6, <4>7, <4>11 DEF GoesTo
    <3> QED BY <3>4, <3>5, <3>6
  <2> QED BY <1>1, <2>1, <2>2
<1> QED BY <1>1, <1>2, <1>4, <1>6, GoesOn

\* The file as a whole: the blob that was made of it, and what a reader that has opened
\* every frame hands on.
LEMMA WholeIs ==
    ASSUME NEW n \in Nat, NEW m \in Nat, IsFile(n, m)
    PROVE  /\ Cut1(n, m) = n
           /\ Body("a", n, m) \in {EncryptFile("a", ChunksOf(PlainOf(n))), EncryptManifest("a", PlainOf(n))}
<1>1. CASE m = PieceCount(n)
  <2>1. Body("a", n, m) = EncryptFile("a", ChunksOf(PlainOf(n)))
    BY <1>1, FileIs DEF BlobOf
  <2>2. n <= m * Chunk
    BY <1>1, CountFacts
  <2> QED BY <2>1, <2>2, CutFacts
<1>2. CASE n = 0 /\ m = 1
  <2>1. Body("a", n, m) = EncryptManifest("a", PlainOf(n))
    BY <1>2, FileIs
  <2>2. Cut1(n, m) \in 0..n
    BY CutFacts
  <2>3. Cut1(n, m) = n
    BY <1>2, <2>2
  <2> QED BY <2>1, <2>3
<1> QED BY <1>1, <1>2 DEF IsFile

\* finalize(): the footer is genuine, so it is that of every frame.
LEMMA FooterTells ==
    ASSUME NEW n \in Nat, NEW m \in Nat, NEW i \in Nat, NEW dec, NEW tail \in Seq(Stock(n, m)), NEW b,
           DecIs(dec, i, MacOf("a", n, i), b), FooterMatches(dec, tail)
    PROVE  /\ b = <<>> /\ Len(tail) = 2 /\ i = m
           /\ \A j \in 1..2 : tail[j] = MacUnit("a", j, MacOf("a", n, m))
<1>1. dec.buf = b /\ dec.key = "a" /\ dec.mac = MacOf("a", n, i)
  BY DEF DecIs
<1>2. /\ b = <<>> /\ Len(tail) = 2
      /\ \A j \in 1..2 : /\ tail[j].f = "a" /\ tail[j].k = "mac" /\ tail[j].j = j
                         /\ tail[j].v = MacOf("a", n, i)
  BY <1>1 DEF FooterMatches, FooterLen
<1>3. ASSUME NEW j \in 1..2 PROVE tail[j] = MacUnit("a", j, MacOf("a", n, m)) /\ MacOf("a", n, i) = MacOf("a", n, m)
  <2>1. tail[j] \in Stock(n, m)
    BY <1>2
  <2>2. Known(tail[j], n, m)
    BY <2>1, StockIs DEF IsStock
  <2>3. IsMac(tail[j], n, m)
    BY <1>2, <2>2, KindTells
  <2>4. PICK e \in 1..2 : tail[j] = MacUnit("a", e, MacOf("a", n, m))
    BY <2>3 DEF IsMac, FooterLen
  <2>5. tail[j].j = e /\ tail[j].v = MacOf("a", n, m)
    BY <2>4, FieldsOf DEF MacUnit
  <2> QED BY <1>2, <2>4, <2>5
<1>4. MacOf("a", n, i) = MacOf("a", n, m)
  BY <1>3
<1>5. Len(MacOf("a", n, i)) = i /\ Len(MacOf("a", n, m)) = m
  BY MacStep
<1>6. i = m
  BY <1>4, <1>5
<1> QED BY <1>2, <1>3, <1>6

\* Where the units of a blob lie: header, frames of W units, footer.
Layout(t, key, n, m, W) ==
    /\ W = Len(Wire(key, n, m)) /\ Len(t) = 3 + W + 2 /\ t \in Seq(Units(key))
    /\ \A j \in 1..3 : t[j] = Unit(key, "hdr", 0, j, 0, None)
    /\ \A j \in 1..W : t[3 + j] = Wire(key, n, m)[j]
    /\ \A j \in 1..2 : t[3 + W + j] = MacUnit(key, j, MacOf(key, n, m))

LEMMA BodyUnits ==
    ASSUME NEW key, NEW n \in Nat, NEW m \in Nat
    PROVE  \E W \in Nat : Layout(Body(key, n, m), key, n, m, W)
<1>0. PICK W \in Nat : W = Len(Wire(key, n, m))
  <2>1. Wire(key, n, m) \in Seq(Parts(key))
    BY WireStep
  <2> QED BY <2>1
<1>1. PICK mac \in Seq(MacEntries(key)) : mac = MacOf(key, n, m)
  BY MacStep
<1>2. PICK f : f = Footer(key, mac)
  OBVIOUS
<1>3. f \in Seq(Macs(key)) /\ Len(f) = 2 /\ \A j \in 1..2 : f[j] = MacUnit(key, j, mac)
  BY <1>2, FooterIs
<1>4. PICK h : h = Header(key)
  OBVIOUS
<1>5. h \in Seq(Parts(key)) /\ Len(h) = 3 /\ \A j \in 1..3 : h[j] = Unit(key, "hdr", 0, j, 0, None)
  BY <1>4, HeaderIs
<1>6. PICK w \in Seq(Parts(key)) : w = Wire(key, n, m) /\ Len(w) = W
  BY <1>0, WireStep
<1>7. PICK x : x = h \o w
  OBVIOUS
<1>8. /\ x \in Seq(Parts(key)) /\ Len(x) = 3 + W /\ \A j \in 1..3 : x[j] = h[j]
      /\ \A j \in 1..W : x[3 + j] = w[j]
  <2>1. h \in Seq(Parts(key))
    BY <1>5
  <2>2. /\ x \in Seq(Parts(key)) /\ Len(x) = Len(h) + Len(w) /\ \A j \in 1..Len(h) : x[j] = h[j]
        /\ \A j \in 1..Len(w) : x[Len(h) + j] = w[j]
    BY <1>7, <2>1, JoinIs
  <2> QED BY <1>5, <1>6, <2>2
<1>9. PICK t : t = x \o f
  OBVIOUS
<1>10. /\ t \in Seq(Units(key)) /\ Len(t) = 3 + W + 2 /\ \A j \in 1..(3 + W) : t[j] = x[j]
       /\ \A j \in 1..2 : t[3 + W + j] = f[j]
  <2>1. x \in Seq(Units(key)) /\ f \in Seq(Units(key))
    BY <1>3, <1>8 DEF Units
  <2>2. /\ t \in Seq(Units(key)) /\ Len(t) = Len(x) + Len(f) /\ \A j \in 1..Len(x) : t[j] = x[j]
        /\ \A j \in 1..Len(f) : t[Len(x) + j] = f[j]
    BY <1>9, <2>1, JoinIs
  <2> QED BY <1>3, <1>8, <2>2
<1>11. t = Body(key, n, m)
  BY <1>1, <1>2, <1>4, <1>6, <1>7, <1>9, BodyIs
<1>12. ASSUME NEW j \in 1..3 PROVE t[j] = h[j]
  <2>1. j \in 1..(3 + W)
    OBVIOUS
  <2> QED BY <1>8, <1>10, <2>1
<1>13. ASSUME NEW j \in 1..W PROVE t[3 + j] = w[j]
  <2>1. 3 + j \in 1..(3 + W)
    OBVIOUS
  <2> QED BY <1>8, <1>10, <2>1
<1>14. Layout(t, key, n, m, W)
  BY <1>0, <1>1, <1>3, <1>5, <1>6, <1>10, <1>12, <1>13 DEF Layout
<1> QED BY <1>11, <1>14

LEMMA Accepts ==
    ASSUME NEW n \in Nat, NEW m \in Nat, IsFile(n, m), NEW s \in Seq(Stock(n, m)), HeaderSeen(s),
           NEW dec, NEW tail, NEW out, Reading(dec, tail, out, s, Len(s), n, m),
           FooterMatches(dec, tail)
    PROVE  out = PlainOf(n) /\ IsBlobOf(s, "a", out)
<1>1. PICK i, b : Reads(dec, tail, out, s, Len(s), n, m, i, b)
  BY DEF Reading
<1>2. /\ InStep(s, n, m, i) /\ i \in Nat /\ DecIs(dec, i, MacOf("a", n, i), b)
      /\ tail \in Seq(Stock(n, m)) /\ Follows(tail, s, WireEnd(n, i) + Len(b))
      /\ WireEnd(n, i) + Len(b) + Len(tail) = Len(s) /\ out = PlainOf(Cut1(n, i))
  BY <1>1 DEF Reads, InStep
<1>3. /\ b = <<>> /\ Len(tail) = 2 /\ i = m
      /\ \A j \in 1..2 : tail[j] = MacUnit("a", j, MacOf("a", n, m))
  BY <1>2, FooterTells
<1>0. PICK t : t = Body("a", n, m)
  OBVIOUS
<1>4. PICK W \in Nat : Layout(t, "a", n, m, W)
  BY <1>0, BodyUnits
<1>5. WireEnd(n, i) + Len(b) = 3 + W /\ Len(s) = 3 + W + 2
  <2>1. Len(b) = 0
    BY <1>3
  <2>2. W = Len(Wire("a", n, m))
    BY <1>4 DEF Layout
  <2> QED BY <1>2, <1>3, <2>1, <2>2 DEF WireEnd
<1>6. \A j \in 1..2 : s[3 + W + j] = MacUnit("a", j, MacOf("a", n, m))
  <2> SUFFICES ASSUME NEW j \in 1..2 PROVE s[3 + W + j] = MacUnit("a", j, MacOf("a", n, m))
    OBVIOUS
  <2>1. Follows(tail, s, 3 + W)
    BY <1>2, <1>5
  <2> QED BY <1>3, <2>1 DEF Follows
<1>7. Matches(s, n, m)
  BY <1>2, <1>3 DEF InStep
<1>9. /\ Len(t) = 3 + W + 2 /\ W = Len(Wire("a", n, m)) /\ \A j \in 1..3 : t[j] = Unit("a", "hdr", 0, j, 0, None)
      /\ \A j \in 1..W : t[3 + j] = Wire("a", n, m)[j]
      /\ \A j \in 1..2 : t[3 + W + j] = MacUnit("a", j, MacOf("a", n, m))
  BY <1>4 DEF Layout
<1>14. ASSUME NEW j \in 1..(3 + W + 2), t[j].k \notin {"nonce", "len"} PROVE s[j] = t[j]
  <2>1. CASE j <= 3
    <3>1. j \in 1..3
      BY <2>1
    <3> QED BY <1>9, <3>1 DEF HeaderSeen
  <2>2. CASE j > 3 /\ j <= 3 + W
    <3>1. PICK c \in 1..W : j = 3 + c
      <4>1. j - 3 \in 1..W /\ j = 3 + (j - 3)
        BY <2>2
      <4> QED BY <4>1
    <3>2. t[j] = Wire("a", n, m)[c]
      BY <1>9, <3>1
    <3>3. s[3 + c] = Wire("a", n, m)[c]
      BY <1>7, <1>9, <1>14, <3>1, <3>2 DEF Matches
    <3> QED BY <3>1, <3>2, <3>3
  <2>3. CASE j > 3 + W
    <3>1. PICK c \in 1..2 : j = 3 + W + c
      <4>1. j - (3 + W) \in 1..2 /\ j = 3 + W + (j - (3 + W))
        BY <2>3
      <4> QED BY <4>1
    <3> QED BY <1>6, <1>9, <3>1
  <2> QED BY <2>1, <2>2, <2>3
<1>15. out = PlainOf(n)
  BY <1>2, <1>3, WholeIs
<1>16. t \in {EncryptFile("a", ChunksOf(out)), EncryptManifest("a", out)}
  BY <1>0, <1>15, WholeIs
<1>17. Len(s) = Len(t) /\ \A j \in 1..Len(t) : t[j].k \notin {"nonce", "len"} => s[j] = t[j]
  BY <1>5, <1>9, <1>14
<1> QED BY <1>15, <1>16, <1>17 DEF IsBlobOf

LEMMA DlFinalizeKeeps ==
    ASSUME DlInd, DlFinalize
    PROVE  DlInd'
<1>1. /\ dl.st \in {"header", "body"} /\ IsFlow(dl) /\ pos \in 0..Len(src) /\ junk \in 0..3
      /\ src' = src /\ junk' = junk /\ pos' = pos /\ pos = Len(src)
  BY DEF DlInd, DlFinalize
<1>2. PICK n, m : Source(n, m)
  BY <1>1 DEF DlInd, Underway, Source
<1>3. /\ n \in Nat /\ m \in Nat /\ src \in Seq(Stock(n, m))
      /\ DlIs(junk, dl, src, pos, n, m) /\ n \in FileSizes /\ IsFile(n, m)
  BY <1>2, SourceIs DEF Source
<1>4. PICK x : /\ x \in {"accepted", "failed"} /\ dl' = [dl EXCEPT !.st = x]
               /\ x = "accepted" => dl.st = "body" /\ FooterMatches(dl.dec, dl.tail)
  <2>1. dl' = [dl EXCEPT !.st = IF dl.st = "body" /\ Len(dl.tail) >= FooterLen /\ FooterMatches(dl.dec, dl.tail)
                                THEN "accepted" ELSE "failed"]
    BY DEF DlFinalize
  <2>2. PICK x : x = IF dl.st = "body" /\ Len(dl.tail) >= FooterLen /\ FooterMatches(dl.dec, dl.tail)
                     THEN "accepted" ELSE "failed"
    OBVIOUS
  <2>3. dl' = [dl EXCEPT !.st = x]
    BY <2>1, <2>2
  <2>4. x \in {"accepted", "failed"} /\ (x = "accepted" => dl.st = "body" /\ FooterMatches(dl.dec, dl.tail))
    BY <2>2
  <2> QED BY <2>3, <2>4
<1>5. GoesTo(dl', pos, n, m)
  <2>1. CASE dl.st = "header"
    <3>1. dl.dec = None
      BY <1>3, <2>1 DEF DlIs, Opening
    <3>2. dl' = [dl EXCEPT !.st = "failed"]
      BY <1>4, <2>1
    <3> QED BY <1>1, <3>1, <3>2, FailsEarly
  <2>2. CASE dl.st = "body"
    <3>1. PICK buf, tail, dec, out, s, e :
            buf = dl.buf /\ tail = dl.tail /\ dec = dl.dec /\ out = dl.out /\ s = src /\ e = dl'
      OBVIOUS
    <3>2. s \in Seq(Stock(n, m)) /\ HeaderSeen(s) /\ Reading(dec, tail, out, s, Len(s), n, m)
      BY <1>1, <1>3, <2>2, <3>1 DEF DlIs
    <3>3. IsFlowOf(dl, dl.st, buf, tail, dec, out)
      BY <1>1, <3>1, FlowIs
    <3>4. IsFlowOf(e, x, buf, tail, dec, out)
      BY <1>4, <3>1, <3>3, FlowState
    <3>5. IsFlow(e) /\ e.st = x /\ e.tail = tail /\ e.dec = dec /\ e.out = out
      BY <3>4, FlowFields
    <3>6. /\ dec.key = "a" /\ dec.idx \in 0..(IndexLimit - 1) /\ Prefix(out, n, m) /\ Len(tail) <= Len(s)
      <4>1. Len(s) \in Nat
        BY <3>2
      <4> QED BY <1>3, <3>2, <4>1, ReadEnds
    <3>7. Ended(e, s, n, m)
      BY <3>5, <3>6 DEF Ended
    <3>8. ASSUME x = "accepted" PROVE out \in PlainOptions("a") /\ IsBlobOf(s, "a", out)
      <4>1. FooterMatches(dec, tail)
        BY <1>4, <3>1, <3>8
      <4>2. out = PlainOf(n) /\ IsBlobOf(s, "a", out)
        BY <1>3, <3>2, <4>1, Accepts
      <4> QED BY <1>3, <4>2 DEF PlainOptions
    <3>9. DlIs(junk, e, s, pos, n, m)
      BY <1>4, <3>5, <3>6, <3>7, <3>8 DEF DlIs
    <3> QED BY <1>4, <3>1, <3>5, <3>9 DEF GoesTo
  <2> QED BY <1>1, <2>1, <2>2
<1> QED BY <1>1, <1>2, <1>5, GoesOn

LEMMA DlOpenKeeps ==
    ASSUME DlInd, NEW n \in FileSizes, NEW s \in Aligned(n) \cup Misread(n), NEW g \in 0..3,
           NEW page \in BOOLEAN, DlOpen(s, g, page)
    PROVE  DlInd'
<1>1. PICK m \in Nat : m \in {PieceCount(n), 1} /\ IsFile(n, m) /\ Delivered(s, n, m)
  BY SourceKnown
<1>2. /\ src' = s /\ junk' = g /\ pos' = 0
      /\ dl' = [Idle EXCEPT !.st = IF page THEN "page" ELSE "header"]
  BY DEF DlOpen
<1>3. PICK x, e : x = (IF page THEN "page" ELSE "header") /\ e = dl'
  OBVIOUS
<1>4. x \in {"page", "header"}
  BY <1>3
<1>5. IsFlowOf(Idle, "idle", <<>>, <<>>, None, <<>>)
  BY DEF Idle, IsFlowOf, FlowOf
<1>6. IsFlowOf(e, x, <<>>, <<>>, None, <<>>)
  BY <1>2, <1>3, <1>5, FlowState
<1>7. IsFlow(e) /\ e.st = x /\ e.buf = <<>> /\ e.tail = <<>> /\ e.dec = None /\ e.out = <<>>
  BY <1>6, FlowFields
<1>8. PICK T, z : T = Stock(n, m) /\ z = <<>>
  OBVIOUS
<1>9. z \in Seq(T) /\ Len(z) = 0
  BY <1>8
<1>10. Follows(z, s, 0)
  BY <1>9 DEF Follows
<1>11. Opening(e, s, 0, n, m)
  BY <1>7, <1>8, <1>9, <1>10 DEF Opening
<1>12. DlIs(g, e, s, 0, n, m)
  BY <1>4, <1>7, <1>11 DEF DlIs
<1>13. Underway'
  <2>1. DlIs(junk', dl', src', pos', n, m) /\ Delivered(src', n, m)
    BY <1>1, <1>2, <1>3, <1>12
  <2> QED BY <1>1, <2>1 DEF Underway
<1>14. pos' \in 0..Len(src')
  <2>1. s \in Seq(T)
    BY <1>1, <1>8 DEF Delivered
  <2>2. Len(s) \in Nat
    BY <2>1
  <2> QED BY <1>2, <2>2
<1> QED BY <1>2, <1>3, <1>4, <1>7, <1>13, <1>14 DEF DlInd

LEMMA PageHeaderKeeps ==
    ASSUME DlInd, NEW k \in 1..(Len(src) - pos), PageHeader(k)
    PROVE  DlInd'
<1>1. /\ dl.st = "page" /\ IsFlow(dl) /\ pos \in 0..Len(src) /\ junk \in 0..3
      /\ src' = src /\ junk' = junk /\ pos' = pos + k
  BY DEF DlInd, PageHeader
<1>2. PICK n, m : Source(n, m)
  BY <1>1 DEF DlInd, Underway, Source
<1>3. n \in Nat /\ m \in Nat /\ src \in Seq(Stock(n, m))
  BY <1>2, SourceIs
<1>4. pos \in Nat /\ k \in Nat /\ pos + k \in 0..Len(src)
  BY <1>1, <1>2, ArrivedIs
<1>5. PICK b : b = dl.buf \o Arrived(k)
  OBVIOUS
<1>6. /\ b \in Seq(Stock(n, m)) /\ Len(b) = pos + k /\ Follows(b, src, 0)
      /\ dl.dec = None /\ dl.tail = <<>> /\ dl.out = <<>>
      /\ Len(b) < 3 => GoesTo([dl EXCEPT !.buf = b], pos + k, n, m)
  <2>1. Gathers(b, k)
    BY <1>5 DEF Gathers
  <2> QED BY <1>1, <1>2, <2>1, OpeningOn
<1>7. PICK key : key = ShareHeaderKey(b, "a")
  OBVIOUS
<1>8. key = None \/ key = "a"
  BY <1>7 DEF ShareHeaderKey
<1>9. dl' = IF Len(b) < 3 THEN [dl EXCEPT !.buf = b]
            ELSE IF key = None THEN [dl EXCEPT !.st = "failed"]
            ELSE [dl EXCEPT !.st = "pageBody", !.buf = <<>>, !.dec = Decryptor(key),
                            !.tail = SubSeq(b, 4, Len(b))]
  <2>1. HeaderLen + 1 = 4 /\ HeaderLen = 3
    BY DEF HeaderLen
  <2> QED BY <1>5, <1>7, <2>1 DEF PageHeader
<1>10. GoesTo(dl', pos + k, n, m)
  <2>1. CASE Len(b) < 3
    BY <1>6, <1>9, <2>1
  <2>2. CASE ~(Len(b) < 3) /\ key = None
    BY <1>1, <1>6, <1>9, <2>2, FailsEarly
  <2>3. CASE ~(Len(b) < 3) /\ key # None
    <3>1. PICK rest, e, w, o : rest = SubSeq(b, 4, Len(b)) /\ e = dl' /\ w = Decryptor("a") /\ o = <<>>
      OBVIOUS
    <3>2. e = [dl EXCEPT !.st = "pageBody", !.buf = o, !.dec = w, !.tail = rest]
      BY <1>8, <1>9, <2>3, <3>1
    <3>3. IsFlowOf(dl, dl.st, dl.buf, o, dl.dec, o)
      BY <1>1, <1>6, <3>1, FlowIs
    <3>4. IsFlowOf(e, "pageBody", o, rest, w, o)
      BY <3>2, <3>3, FlowKeyed
    <3>5. IsFlow(e) /\ e.st = "pageBody" /\ e.tail = rest /\ e.dec = w /\ e.out = o
      BY <3>4, FlowFields
    <3>6. PICK T, s : T = Stock(n, m) /\ s = src
      OBVIOUS
    <3>7. Len(b) >= 3
      BY <1>4, <1>6, <2>3
    <3>8. rest \in Seq(T) /\ Follows(rest, s, 3) /\ 3 + Len(rest) = Len(b)
      BY <1>6, <3>1, <3>6, <3>7, AfterHeader
    <3>9. PICK p : p = 3 + Len(rest) /\ p = pos + k
      BY <1>6, <3>8
    <3>10. Reading(w, rest, o, s, p, n, m)
      BY <1>3, <3>1, <3>6, <3>8, <3>9, ReadStart
    <3>11. DlIs(junk, e, s, p, n, m)
      BY <3>5, <3>10 DEF DlIs
    <3> QED BY <3>1, <3>5, <3>6, <3>9, <3>11 DEF GoesTo
  <2> QED BY <2>1, <2>2, <2>3
<1> QED BY <1>1, <1>2, <1>4, <1>10, GoesOn

LEMMA PagePushKeeps ==
    ASSUME DlInd, NEW k \in 1..(Len(src) - pos), PagePush(k)
    PROVE  DlInd'
<1>1. /\ dl.st = "pageBody" /\ IsFlow(dl) /\ pos \in 0..Len(src) /\ junk \in 0..3
      /\ src' = src /\ junk' = junk /\ pos' = pos + k
  BY DEF DlInd, PagePush
<1>2. PICK n, m : Source(n, m)
  BY <1>1 DEF DlInd, Underway, Source
<1>3. /\ n \in Nat /\ m \in Nat /\ src \in Seq(Stock(n, m)) /\ DlIs(junk, dl, src, pos, n, m)
      /\ junk \in Nat
  BY <1>1, <1>2, SourceIs
<1>4. /\ Arrived(k) \in Seq(Stock(n, m)) /\ Len(Arrived(k)) = k /\ Follows(Arrived(k), src, pos)
      /\ pos \in Nat /\ k \in Nat /\ pos + k \in 0..Len(src)
  BY <1>1, <1>2, ArrivedIs
<1>5. PICK buf, tail, dec, out, s, p, bytes, e :
        /\ buf = dl.buf /\ tail = dl.tail /\ dec = dl.dec /\ out = dl.out /\ s = src /\ p = pos
        /\ bytes = Arrived(k) /\ e = dl'
  OBVIOUS
<1>6. PICK t : t = Trim(tail, bytes)
  OBVIOUS
<1>7. PICK r : r = DecryptorPush(dec, t.out)
  OBVIOUS
<1>8. PICK z, w, v : z = t.tail /\ w = r.dec /\ v = out \o r.out
  OBVIOUS
<1>9. StepsTo(e, dl, z, w, v)
  BY <1>5, <1>6, <1>7, <1>8 DEF PagePush, StepsTo
<1>10. IsFlowOf(dl, "pageBody", buf, tail, dec, out)
  BY <1>1, <1>5, FlowIs
<1>11. IsFlowOf(e, "pageBody", buf, z, w, v)
  BY <1>9, <1>10, FlowOn
<1>12. IsFlow(e) /\ e.st = "pageBody" /\ e.tail = z /\ e.dec = w /\ e.out = v
  BY <1>11, FlowFields
<1>13. /\ s \in Seq(Stock(n, m)) /\ p \in Nat /\ bytes \in Seq(Stock(n, m)) /\ Follows(bytes, s, p)
       /\ p + Len(bytes) = pos + k
  BY <1>3, <1>4, <1>5
<1>14. Prefix(out, n, m) /\ out \o <<>> = out
  <2>1. Prefix(out, n, m)
    BY <1>1, <1>3, <1>4, <1>5, ReadEnds DEF DlIs
  <2>2. PICK c \in 0..m : out = PlainOf(Cut1(n, c))
    BY <2>1 DEF Prefix
  <2>3. PICK N \in Nat : out = PlainOf(N)
    <3>0. c \in Nat
      BY <1>3
    <3>1. Cut1(n, c) \in 0..n
      BY <1>3, <3>0, CutFacts
    <3>2. Cut1(n, c) \in Nat
      BY <1>3, <3>1
    <3> QED BY <2>2, <3>2
  <2>4. out \in Seq(Nat)
    BY <2>3 DEF PlainOf
  <2> QED BY <2>1, <2>4
<1>15. \/ Reading(w, z, v, s, p + Len(bytes), n, m)
       \/ Stalled(junk, w, z, p + Len(bytes), n, m) /\ Prefix(v, n, m)
  <2>1. CASE Reading(dec, tail, out, s, p, n, m)
    <3>1. \/ r.err /\ r.out = <<>> /\ Stalled(junk, r.dec, t.tail, p + Len(bytes), n, m)
          \/ ~r.err /\ Reading(r.dec, t.tail, out \o r.out, s, p + Len(bytes), n, m)
      BY <1>3, <1>6, <1>7, <1>13, <2>1, ReadOn
    <3> QED BY <1>8, <1>14, <3>1
  <2>2. CASE Stalled(junk, dec, tail, p, n, m)
    <3>1. r.out = <<>> /\ Stalled(junk, r.dec, t.tail, p + Len(bytes), n, m)
      BY <1>3, <1>6, <1>7, <1>13, <2>2, StallOn
    <3> QED BY <1>8, <1>14, <3>1
  <2> QED BY <1>1, <1>3, <1>5, <2>1, <2>2 DEF DlIs
<1>16. DlIs(junk, e, s, p + Len(bytes), n, m)
  BY <1>12, <1>15 DEF DlIs
<1>17. GoesTo(dl', pos + k, n, m)
  BY <1>5, <1>12, <1>13, <1>16 DEF GoesTo
<1> QED BY <1>1, <1>2, <1>4, <1>17, GoesOn

LEMMA PageEndKeeps ==
    ASSUME DlInd, PageEnd
    PROVE  DlInd'
<1>1. /\ dl.st \in {"page", "pageBody"} /\ IsFlow(dl) /\ pos \in 0..Len(src) /\ junk \in 0..3
      /\ src' = src /\ junk' = junk /\ pos' = pos /\ pos = Len(src)
  BY DEF DlInd, PageEnd
<1>2. PICK n, m : Source(n, m)
  BY <1>1 DEF DlInd, Underway, Source
<1>3. n \in Nat /\ m \in Nat /\ src \in Seq(Stock(n, m)) /\ DlIs(junk, dl, src, pos, n, m)
  BY <1>2, SourceIs
<1>4. PICK x : x = IF dl.st = "pageBody" /\ Len(dl.tail) >= FooterLen THEN "saved" ELSE "failed"
  OBVIOUS
<1>5. dl' = [dl EXCEPT !.st = x]
  BY <1>4 DEF PageEnd
<1>6. GoesTo(dl', pos, n, m)
  <2>1. CASE dl.st = "page"
    <3>1. dl.dec = None
      BY <1>3, <2>1 DEF DlIs, Opening
    <3>2. dl' = [dl EXCEPT !.st = "failed"]
      BY <1>4, <1>5, <2>1
    <3> QED BY <1>1, <3>1, <3>2, FailsEarly
  <2>2. CASE dl.st = "pageBody"
    <3>1. PICK buf, tail, dec, out, s, e :
            buf = dl.buf /\ tail = dl.tail /\ dec = dl.dec /\ out = dl.out /\ s = src /\ e = dl'
      OBVIOUS
    <3>2. IsFlowOf(dl, dl.st, buf, tail, dec, out)
      BY <1>1, <3>1, FlowIs
    <3>3. IsFlowOf(e, x, buf, tail, dec, out)
      BY <1>5, <3>1, <3>2, FlowState
    <3>4. IsFlow(e) /\ e.st = x /\ e.tail = tail /\ e.dec = dec /\ e.out = out
      BY <3>3, FlowFields
    <3>5. \/ Reading(dec, tail, out, s, pos, n, m)
          \/ Stalled(junk, dec, tail, pos, n, m) /\ Prefix(out, n, m)
      BY <1>3, <2>2, <3>1 DEF DlIs
    <3>6. pos \in Nat
      BY <1>1, <1>3
    <3>7. dec.key = "a" /\ dec.idx \in 0..(IndexLimit - 1) /\ Prefix(out, n, m) /\ Len(tail) <= pos
      BY <1>3, <3>5, <3>6, ReadEnds, StallEnds
    <3>8. Ended(e, s, n, m)
      BY <1>1, <3>1, <3>4, <3>7 DEF Ended
    <3>9. x \in {"saved", "failed"}
      BY <1>4
    <3>10. DlIs(junk, e, s, pos, n, m)
      BY <3>4, <3>8, <3>9 DEF DlIs
    <3> QED BY <3>1, <3>4, <3>9, <3>10 DEF GoesTo
  <2> QED BY <1>1, <2>1, <2>2
<1> QED BY <1>1, <1>2, <1>6, GoesOn
-----------------------------------------------------------------------------
(***************************************************************************)
(* The upload.                                                             *)
(***************************************************************************)
LEMMA PlainIs ==
    ASSUME NEW n \in Nat
    PROVE  PlainOf(n) = Run(0, n) /\ PlainOf(n) \in Seq(Bytes) /\ Len(PlainOf(n)) = n
<1>1. PlainOf(n) = Run(0, n)
  <2>1. \A j \in 1..n : 0 + j = j
    OBVIOUS
  <2> QED BY <2>1 DEF PlainOf, Run
<1> QED BY <1>1, RunIs

\* The next chunk of an upload of full chunks is the next piece of the file so far.
FullTo(n, i) == n = i * Chunk
Grows(n, i, l, n1) ==
    /\ n1 <= (i + 1) * Chunk /\ [j \in 1..l |-> n + j] = Piece(n1, i + 1)
    /\ PlainOf(n) \o Piece(n1, i + 1) = PlainOf(n1)
    /\ \A key : Wire(key, n, i) = Wire(key, n1, i) /\ MacOf(key, n, i) = MacOf(key, n1, i)

LEMMA NextPiece ==
    ASSUME NEW i \in Nat, NEW n \in Nat, FullTo(n, i), NEW l \in Nat, l <= Chunk
    PROVE  Grows(n, i, l, n + l)
<1> n = i * Chunk
  BY DEF FullTo
<1>0. Chunk \in Nat
  BY BlobAssumption
<1>1. PICK n1 \in Nat : n1 = n + l
  OBVIOUS
<1>2. n1 <= (i + 1) * Chunk /\ i * Chunk <= n1 /\ (i + 1) * Chunk \in Nat
  <2>1. i * Chunk \in Nat /\ (i + 1) * Chunk = i * Chunk + Chunk
    BY Multiples
  <2> QED BY <1>0, <1>1, <2>1
<1>3. Cut1(n1, i) = n /\ Cut1(n1, i + 1) = n1
  <2>1. Cut1(n1, i) = n
    BY <1>2, CutFacts
  <2>2. i + 1 \in Nat
    OBVIOUS
  <2>3. Cut1(n1, i + 1) = n1
    BY <1>2, <2>2, CutFacts
  <2> QED BY <2>1, <2>3
<1>4. Size(n1, i + 1) = l
  <2>1. i + 1 - 1 = i
    OBVIOUS
  <2> QED BY <1>1, <1>3, <2>1 DEF Size
<1>5. Piece(n1, i + 1) = Run(n, l)
  BY <1>3, <1>4, PieceIsRun
<1>6. [j \in 1..l |-> n + j] = Run(n, l)
  BY DEF Run
<1>7. PlainOf(n) \o Run(n, l) = PlainOf(n + l)
  <2>1. 0 + n = n
    OBVIOUS
  <2>2. Run(0, n) \o Run(0 + n, l) = Run(0, n + l)
    BY RunJoin
  <2> QED BY <1>1, <2>1, <2>2, PlainIs
<1>8. ASSUME NEW d \in 1..i PROVE Piece(n, d) = Piece(n1, d)
  <2>1. d \in Nat /\ d - 1 \in Nat /\ d <= i /\ d - 1 <= i
    OBVIOUS
  <2>2. d * Chunk <= i * Chunk /\ (d - 1) * Chunk <= i * Chunk /\ i * Chunk \in Nat
        /\ d * Chunk \in Nat /\ (d - 1) * Chunk \in Nat
    BY <2>1, Multiples
  <2>3. PICK a \in Nat, b \in Nat : a = d * Chunk /\ b = (d - 1) * Chunk
    BY <2>2
  <2>4. a <= n /\ b <= n /\ a <= n1 /\ b <= n1
    BY <1>1, <2>2, <2>3
  <2>5. Cut1(n, d) = a /\ Cut1(n1, d) = a /\ Cut1(n, d - 1) = b /\ Cut1(n1, d - 1) = b
    BY <2>1, <2>3, <2>4, CutFacts
  <2> QED BY <2>5 DEF Piece, Size
<1>9. ASSUME NEW key PROVE Wire(key, n, i) = Wire(key, n1, i) /\ MacOf(key, n, i) = MacOf(key, n1, i)
  BY <1>8, WireSame
<1>10. Grows(n, i, l, n1)
  BY <1>1, <1>2, <1>5, <1>6, <1>7, <1>9 DEF Grows
<1> QED BY <1>1, <1>10

LEMMA NumbersStep ==
    ASSUME NEW k \in Nat
    PROVE  Append(Numbers(k), k) = Numbers(k + 1) /\ Numbers(k) \in Seq(Nat) /\ Len(Numbers(k)) = k
<1>1. Numbers(k) \in [1..k -> Nat]
  BY DEF Numbers
<1>2. Numbers(k) \in Seq(Nat) /\ Len(Numbers(k)) = k
  BY <1>1, FunctionIsSeq
<1>3. PICK q \in Seq(Nat) : q = Numbers(k) /\ Len(q) = k /\ \A c \in 1..k : q[c] = c - 1
  BY <1>2 DEF Numbers
<1>4. PICK x : x = Append(q, k)
  OBVIOUS
<1>5. x \in Seq(Nat) /\ Len(x) = k + 1 /\ (\A c \in 1..k : x[c] = q[c]) /\ x[k + 1] = k
  BY <1>3, <1>4
<1>6. x = [c \in 1..(k + 1) |-> x[c]]
  BY <1>5, SeqIsFunction
<1>7. \A c \in 1..(k + 1) : x[c] = c - 1
  BY <1>3, <1>5
<1>8. x = Numbers(k + 1)
  BY <1>6, <1>7 DEF Numbers
<1> QED BY <1>2, <1>3, <1>4, <1>8

\* Records of the upload.
IsUpOf(u, st, declared, idx, last, mac, blob, plain, sealed, pushes) ==
    u = UpOf(st, declared, idx, last, mac, blob, plain, sealed, pushes)

LEMMA UpFields ==
    ASSUME NEW st, NEW declared, NEW idx, NEW last, NEW mac, NEW blob, NEW plain, NEW sealed,
           NEW pushes, NEW u, IsUpOf(u, st, declared, idx, last, mac, blob, plain, sealed, pushes)
    PROVE  /\ IsUp(u) /\ u.st = st /\ u.declared = declared /\ u.idx = idx /\ u.last = last
           /\ u.mac = mac /\ u.blob = blob /\ u.plain = plain /\ u.sealed = sealed
           /\ u.pushes = pushes
BY DEF IsUpOf, UpOf, IsUp

LEMMA UpIsOf ==
    ASSUME NEW u, IsUp(u)
    PROVE  IsUpOf(u, u.st, u.declared, u.idx, u.last, u.mac, u.blob, u.plain, u.sealed, u.pushes)
BY DEF IsUpOf, IsUp

LEMMA UpUpdates ==
    ASSUME NEW st, NEW declared, NEW idx, NEW last, NEW mac, NEW blob, NEW plain, NEW sealed,
           NEW pushes, NEW u, IsUpOf(u, st, declared, idx, last, mac, blob, plain, sealed, pushes),
           NEW x
    PROVE  /\ IsUpOf([u EXCEPT !.st = x], x, declared, idx, last, mac, blob, plain, sealed, pushes)
           /\ IsUpOf([u EXCEPT !.declared = x], st, x, idx, last, mac, blob, plain, sealed, pushes)
           /\ IsUpOf([u EXCEPT !.idx = x], st, declared, x, last, mac, blob, plain, sealed, pushes)
           /\ IsUpOf([u EXCEPT !.last = x], st, declared, idx, x, mac, blob, plain, sealed, pushes)
           /\ IsUpOf([u EXCEPT !.mac = x], st, declared, idx, last, x, blob, plain, sealed, pushes)
           /\ IsUpOf([u EXCEPT !.blob = x], st, declared, idx, last, mac, x, plain, sealed, pushes)
           /\ IsUpOf([u EXCEPT !.plain = x], st, declared, idx, last, mac, blob, x, sealed, pushes)
           /\ IsUpOf([u EXCEPT !.sealed = x], st, declared, idx, last, mac, blob, plain, x, pushes)
           /\ IsUpOf([u EXCEPT !.pushes = x], st, declared, idx, last, mac, blob, plain, sealed, x)
<1> USE DEF IsUpOf, UpOf
<1>1. IsUpOf([u EXCEPT !.st = x], x, declared, idx, last, mac, blob, plain, sealed, pushes)
  OBVIOUS
<1>2. IsUpOf([u EXCEPT !.declared = x], st, x, idx, last, mac, blob, plain, sealed, pushes)
  OBVIOUS
<1>3. IsUpOf([u EXCEPT !.idx = x], st, declared, x, last, mac, blob, plain, sealed, pushes)
  OBVIOUS
<1>4. IsUpOf([u EXCEPT !.last = x], st, declared, idx, x, mac, blob, plain, sealed, pushes)
  OBVIOUS
<1>5. IsUpOf([u EXCEPT !.mac = x], st, declared, idx, last, x, blob, plain, sealed, pushes)
  OBVIOUS
<1>6. IsUpOf([u EXCEPT !.blob = x], st, declared, idx, last, mac, x, plain, sealed, pushes)
  OBVIOUS
<1>7. IsUpOf([u EXCEPT !.plain = x], st, declared, idx, last, mac, blob, x, sealed, pushes)
  OBVIOUS
<1>8. IsUpOf([u EXCEPT !.sealed = x], st, declared, idx, last, mac, blob, plain, x, pushes)
  OBVIOUS
<1>9. IsUpOf([u EXCEPT !.pushes = x], st, declared, idx, last, mac, blob, plain, sealed, x)
  OBVIOUS
<1> HIDE DEF IsUpOf
<1> QED BY <1>1, <1>2, <1>3, <1>4, <1>5, <1>6, <1>7, <1>8, <1>9

\* What a push that is allowed makes of the upload.
LEMMA SealsChunk ==
    ASSUME NEW st, NEW declared, NEW i, NEW last, NEW mac, NEW blob, NEW plain, NEW sealed,
           NEW pushes, NEW u, IsUpOf(u, st, declared, i, last, mac, blob, plain, sealed, pushes),
           NEW p, NEW m, m = Append(mac, <<i, Sealed("u", i, p)>>), NEW q, q = Append(sealed, i),
           NEW b, b = blob \o Frame("u", i, p), NEW x, x = plain \o p, NEW e, e = EncryptorPush(u, p)
    PROVE  /\ NextIndex(i) = None => IsUpOf(e, "failed", declared, i, last, m, blob, plain, q, pushes)
           /\ NextIndex(i) # None => IsUpOf(e, st, declared, NextIndex(i), last, m, b, x, q, pushes)
<1>1. u.idx = i /\ u.mac = mac /\ u.sealed = sealed /\ u.blob = blob /\ u.plain = plain
  BY UpFields
<1>2. PICK u1 : u1 = [u EXCEPT !.mac = m]
  OBVIOUS
<1>3. IsUpOf(u1, st, declared, i, last, m, blob, plain, sealed, pushes)
  BY <1>2, UpUpdates
<1>4. PICK done : done = [u1 EXCEPT !.sealed = q]
  OBVIOUS
<1>5. IsUpOf(done, st, declared, i, last, m, blob, plain, q, pushes)
  BY <1>3, <1>4, UpUpdates
<1>6. done = [u EXCEPT !.mac = m, !.sealed = q]
  BY <1>2, <1>4
<1>7. done.idx = i /\ done.blob = blob /\ done.plain = plain
  BY <1>5, UpFields
<1>8. PICK ni : ni = NextIndex(i)
  OBVIOUS
<1>9. e = IF ni = None THEN [done EXCEPT !.st = "failed"]
          ELSE [done EXCEPT !.idx = ni, !.blob = b, !.plain = x]
  <2>1. [u EXCEPT !.mac = Append(u.mac, <<u.idx, Sealed("u", u.idx, p)>>), !.sealed = Append(u.sealed, u.idx)] = done
    BY <1>1, <1>6
  <2>2. EncryptorPush(u, p) =
          IF NextIndex(u.idx) = None THEN [done EXCEPT !.st = "failed"]
          ELSE [done EXCEPT !.idx = NextIndex(done.idx), !.blob = done.blob \o Frame("u", u.idx, p),
                            !.plain = done.plain \o p]
    BY <2>1 DEF EncryptorPush
  <2> QED BY <1>1, <1>7, <1>8, <2>2
<1>10. CASE ni = None
  <2>1. e = [done EXCEPT !.st = "failed"]
    BY <1>9, <1>10
  <2>2. IsUpOf([done EXCEPT !.st = "failed"], "failed", declared, i, last, m, blob, plain, q, pushes)
    BY <1>5, UpUpdates
  <2> QED BY <1>8, <1>10, <2>1, <2>2
<1>11. CASE ni # None
  <2>1. PICK d1 : d1 = [done EXCEPT !.idx = ni]
    OBVIOUS
  <2>2. IsUpOf(d1, st, declared, ni, last, m, blob, plain, q, pushes)
    BY <1>5, <2>1, UpUpdates
  <2>3. PICK d2 : d2 = [d1 EXCEPT !.blob = b]
    OBVIOUS
  <2>4. IsUpOf(d2, st, declared, ni, last, m, b, plain, q, pushes)
    BY <2>2, <2>3, UpUpdates
  <2>5. IsUpOf([d2 EXCEPT !.plain = x], st, declared, ni, last, m, b, x, q, pushes)
    BY <2>4, UpUpdates
  <2>6. e = [d2 EXCEPT !.plain = x]
    BY <1>9, <1>11, <2>1, <2>3
  <2> QED BY <1>8, <1>11, <2>5, <2>6
<1> QED BY <1>10, <1>11

LEMMA UpOpenKeeps ==
    ASSUME UpInd, NEW n \in FileSizes, UpOpen(n)
    PROVE  UpInd'
<1>1. PICK z, h, e, c : z = <<>> /\ h = Header("u") /\ e = up' /\ c = (n = 0)
  OBVIOUS
<1>2. e = [UpIdle EXCEPT !.st = "open", !.declared = n, !.last = c, !.blob = h]
  BY <1>1 DEF UpOpen
<1>3. IsUpOf(UpIdle, "idle", 0, 0, FALSE, z, z, z, z, 0)
  BY <1>1 DEF UpIdle, IsUpOf, UpOf
<1>4. PICK u1 : u1 = [UpIdle EXCEPT !.st = "open"]
  OBVIOUS
<1>5. IsUpOf(u1, "open", 0, 0, FALSE, z, z, z, z, 0)
  BY <1>3, <1>4, UpUpdates
<1>6. PICK u2 : u2 = [u1 EXCEPT !.declared = n]
  OBVIOUS
<1>7. IsUpOf(u2, "open", n, 0, FALSE, z, z, z, z, 0)
  BY <1>5, <1>6, UpUpdates
<1>8. PICK u3 : u3 = [u2 EXCEPT !.last = c]
  OBVIOUS
<1>9. IsUpOf(u3, "open", n, 0, c, z, z, z, z, 0)
  BY <1>7, <1>8, UpUpdates
<1>10. e = [u3 EXCEPT !.blob = h]
  BY <1>2, <1>4, <1>6, <1>8
<1>11. IsUpOf(e, "open", n, 0, c, z, h, z, z, 0)
  BY <1>9, <1>10, UpUpdates
<1>12. /\ IsUp(e) /\ e.st = "open" /\ e.idx = 0 /\ e.last = c /\ e.mac = z /\ e.blob = h /\ e.plain = z
       /\ e.sealed = z
  BY <1>11, UpFields
<1>13. Len(z) = 0 /\ PlainOf(0) = z /\ Numbers(0) = z
  BY <1>1 DEF PlainOf, Numbers
<1>14. MacOf("u", 0, 0) = z /\ Wire("u", 0, 0) = z
  BY <1>1, MacStep, WireStep
<1>15. h \o z = h
  <2>1. h \in Seq(Parts("u"))
    BY <1>1, HeaderIs
  <2> QED BY <1>1, <2>1
<1>16. 0 * Chunk = 0 /\ 0 \in 0..(IndexLimit - 1)
  BY BlobAssumption
<1>17. IsOpen(e, 0, 0)
  <2>1. 0 \in Nat /\ 0 <= 0 * Chunk
    BY <1>16
  <2>2. Framing(e, 0, 0)
    BY <1>12, <1>13, <1>14, <2>1 DEF Framing
  <2>3. e.sealed = Numbers(0)
    BY <1>12, <1>13
  <2>4. e.blob = Header("u") \o Wire("u", 0, 0)
    BY <1>1, <1>12, <1>14, <1>15
  <2> QED BY <1>16, <2>2, <2>3, <2>4 DEF IsOpen
<1>18. c \in BOOLEAN
  BY <1>1
<1>19. UpIs(e)
  BY <1>12, <1>13, <1>16, <1>17, <1>18 DEF UpIs
<1> QED BY <1>1, <1>19 DEF UpInd

LEMMA UpFails ==
    ASSUME NEW u, UpIs(u)
    PROVE  UpIs([u EXCEPT !.st = "failed"])
<1>0. PICK e : e = [u EXCEPT !.st = "failed"]
  OBVIOUS
<1>1. IsUp(u)
  BY DEF UpIs
<1>2. PICK declared, idx, last, mac, blob, plain, sealed, pushes :
        /\ IsUpOf(u, u.st, declared, idx, last, mac, blob, plain, sealed, pushes)
        /\ idx = u.idx /\ last = u.last /\ sealed = u.sealed
  BY <1>1, UpIsOf
<1>3. IsUpOf(e, "failed", declared, idx, last, mac, blob, plain, sealed, pushes)
  BY <1>0, <1>2, UpUpdates
<1>4. IsUp(e) /\ e.st = "failed" /\ e.idx = idx /\ e.last = last /\ e.sealed = sealed
  BY <1>3, UpFields
<1>5. UpIs(e)
  BY <1>2, <1>4 DEF UpIs
<1> QED BY <1>0, <1>5

LEMMA UpPushKeeps ==
    ASSUME UpInd, NEW l \in 0..Chunk, NEW last \in BOOLEAN, UpPush(l, last)
    PROVE  UpInd'
<1>0. Chunk \in Nat /\ IndexLimit \in Nat \ {0}
  BY BlobAssumption
<1>1. up.st = "open" /\ UpIs(up)
  BY DEF UpPush, UpInd
<1>2. PICK declared, i, mac, blob, plain, sealed, pushes :
        /\ IsUpOf(up, "open", declared, i, up.last, mac, blob, plain, sealed, pushes)
        /\ i = up.idx /\ mac = up.mac /\ blob = up.blob /\ plain = up.plain /\ sealed = up.sealed
        /\ pushes = up.pushes
  <2>1. IsUp(up)
    BY <1>1 DEF UpIs
  <2> QED BY <1>1, <2>1, UpIsOf
<1>3. CASE ~ChunkAllowed(up, l, last)
  <2>1. up' = [up EXCEPT !.st = "failed"]
    BY <1>3 DEF UpPush
  <2>2. PICK e : e = up'
    OBVIOUS
  <2>3. UpIs(e)
    BY <1>1, <2>1, <2>2, UpFails
  <2> QED BY <2>2, <2>3 DEF UpInd
<1>4. CASE ChunkAllowed(up, l, last)
  <2>1. (last \/ l = Chunk) /\ ~up.last
    BY <1>4 DEF ChunkAllowed
  <2>2. i \in 0..(IndexLimit - 1) /\ i \in Nat /\ i < IndexLimit
    BY <1>0, <1>1, <1>2 DEF UpIs
  <2>3. PICK n \in Nat : n = Len(plain) /\ IsOpen(up, n, i)
    <3>1. IsOpen(up, Len(up.plain), up.idx)
      BY <1>1 DEF UpIs
    <3>2. Len(up.plain) \in Nat
      BY <3>1 DEF IsOpen, Framing
    <3> QED BY <1>2, <3>1, <3>2
  <2>4. /\ n = i * Chunk /\ plain = PlainOf(n) /\ mac = MacOf("u", n, i) /\ sealed = Numbers(i)
        /\ blob = Header("u") \o Wire("u", n, i)
    BY <1>2, <2>1, <2>3 DEF IsOpen, Framing
  <2>5. l \in Nat /\ l <= Chunk
    BY <1>0
  <2>6. PICK n1 \in Nat : n1 = n + l
    BY <2>5
  <2>7. /\ n1 <= (i + 1) * Chunk /\ [j \in 1..l |-> n + j] = Piece(n1, i + 1)
        /\ PlainOf(n) \o Piece(n1, i + 1) = PlainOf(n1)
        /\ Wire("u", n, i) = Wire("u", n1, i) /\ MacOf("u", n, i) = MacOf("u", n1, i)
    <3>1. FullTo(n, i)
      BY <2>4 DEF FullTo
    <3>2. Grows(n, i, l, n1)
      BY <2>2, <2>5, <2>6, <3>1, NextPiece
    <3> QED BY <3>2 DEF Grows
  <2>8. PICK p : p = Piece(n1, i + 1)
    OBVIOUS
  <2>9. PICK u : u = [up EXCEPT !.last = last, !.pushes = up.pushes + 1]
    OBVIOUS
  <2>10. PICK e : e = up'
    OBVIOUS
  <2>11. e = EncryptorPush(u, p)
    <3>1. Len(up.plain) = n
      BY <1>2, <2>3
    <3>2. up' = EncryptorPush([up EXCEPT !.last = last, !.pushes = up.pushes + 1],
                              [j \in 1..l |-> Len(up.plain) + j])
      BY <1>4 DEF UpPush
    <3> QED BY <2>7, <2>8, <2>9, <2>10, <3>1, <3>2
  <2>12. PICK pp : pp = up.pushes + 1
    OBVIOUS
  <2>13. IsUpOf(u, "open", declared, i, last, mac, blob, plain, sealed, pp)
    <3>1. PICK u1 : u1 = [up EXCEPT !.last = last]
      OBVIOUS
    <3>2. IsUpOf(u1, "open", declared, i, last, mac, blob, plain, sealed, pushes)
      BY <1>2, <3>1, UpUpdates
    <3>3. u = [u1 EXCEPT !.pushes = pp]
      BY <2>9, <2>12, <3>1
    <3> QED BY <3>2, <3>3, UpUpdates
  <2>14. PICK m, q, b, x : /\ m = Append(mac, <<i, Sealed("u", i, p)>>) /\ q = Append(sealed, i)
                           /\ b = blob \o Frame("u", i, p) /\ x = plain \o p
    OBVIOUS
  <2>15. /\ NextIndex(i) = None => IsUpOf(e, "failed", declared, i, last, m, blob, plain, q, pp)
         /\ NextIndex(i) # None => IsUpOf(e, "open", declared, NextIndex(i), last, m, b, x, q, pp)
    BY <2>11, <2>13, <2>14, SealsChunk
  <2>16. q = Numbers(i + 1)
    BY <2>2, <2>4, <2>14, NumbersStep
  <2>17. CASE NextIndex(i) = None
    <3>1. IsUpOf(e, "failed", declared, i, last, m, blob, plain, q, pp)
      BY <2>15, <2>17
    <3>2. IsUp(e) /\ e.st = "failed" /\ e.idx = i /\ e.last = last /\ e.sealed = q
      BY <3>1, UpFields
    <3>3. UpIs(e)
      BY <2>2, <2>16, <3>2 DEF UpIs
    <3> QED BY <2>10, <3>3 DEF UpInd
  <2>18. CASE NextIndex(i) # None
    <3>1. PICK k \in Nat : k = i + 1
      BY <2>2
    <3>2. NextIndex(i) = k /\ k \in 0..(IndexLimit - 1)
      <4>1. NextIndex(i) = i + 1 /\ i + 1 < IndexLimit
        BY <2>18 DEF NextIndex
      <4>2. k \in 0..(IndexLimit - 1)
        BY <1>0, <3>1, <4>1
      <4> QED BY <3>1, <4>1, <4>2
    <3>3. IsUpOf(e, "open", declared, k, last, m, b, x, q, pp)
      BY <2>15, <2>18, <3>2
    <3>4. /\ IsUp(e) /\ e.st = "open" /\ e.idx = k /\ e.last = last /\ e.sealed = q
          /\ e.mac = m /\ e.blob = b /\ e.plain = x
      BY <3>3, UpFields
    <3>5. x = PlainOf(n1) /\ Len(x) = n1
      BY <2>4, <2>7, <2>8, <2>14, PlainIs
    <3>6. m = MacOf("u", n1, k)
      <4>1. MacOf("u", n1, i + 1) = Append(MacOf("u", n1, i), <<i, Sealed("u", i, Piece(n1, i + 1))>>)
        BY <2>2, MacStep
      <4>2. mac = MacOf("u", n1, i)
        BY <2>4, <2>7
      <4> QED BY <2>8, <2>14, <3>1, <4>1, <4>2
    <3>7. b = Header("u") \o Wire("u", n1, k)
      <4>1. PICK h \in Seq(Parts("u")), w \in Seq(Parts("u")), f \in Seq(Parts("u")) :
              h = Header("u") /\ w = Wire("u", n1, i) /\ f = Frame("u", i, p)
        <5>1. p \in Seq(Bytes)
          BY <2>2, <2>8, PieceIsRun
        <5> QED BY <2>2, <5>1, HeaderIs, WireStep, FrameIs
      <4>2. (h \o w) \o f = h \o (w \o f)
        BY ConcatAssociative
      <4>3. w \o f = Wire("u", n1, k)
        BY <2>2, <2>8, <3>1, <4>1, WireStep
      <4>4. b = (h \o w) \o f
        BY <2>4, <2>7, <2>14, <4>1
      <4> QED BY <4>1, <4>2, <4>3, <4>4
    <3>8. ~last => n1 = k * Chunk
      <4>1. (i + 1) * Chunk = i * Chunk + Chunk
        BY <2>2, Multiples
      <4> QED BY <2>1, <2>4, <2>6, <3>1, <4>1
    <3>9. n1 <= k * Chunk
      BY <2>7, <3>1
    <3>10. IsOpen(e, n1, k)
      BY <2>16, <3>1, <3>4, <3>5, <3>6, <3>7, <3>8, <3>9 DEF IsOpen, Framing
    <3>11. UpIs(e)
      BY <2>16, <3>1, <3>2, <3>4, <3>5, <3>10 DEF UpIs
    <3> QED BY <2>10, <3>11 DEF UpInd
  <2> QED BY <2>17, <2>18
<1> QED BY <1>3, <1>4

LEMMA UpFinalizeKeeps ==
    ASSUME UpInd, UpFinalize
    PROVE  UpInd'
<1>1. up.st = "open" /\ UpIs(up)
  BY DEF UpFinalize, UpInd
<1>2. CASE ~up.last
  <2>1. PICK e : e = up'
    OBVIOUS
  <2>2. e = [up EXCEPT !.st = "failed"]
    BY <1>2, <2>1 DEF UpFinalize
  <2>3. UpIs(e)
    BY <1>1, <2>2, UpFails
  <2> QED BY <2>1, <2>3 DEF UpInd
<1>3. CASE up.last
  <2>1. PICK declared, i, last, mac, blob, plain, sealed, pushes :
          /\ IsUpOf(up, "open", declared, i, last, mac, blob, plain, sealed, pushes)
          /\ i = up.idx /\ last = up.last /\ mac = up.mac /\ blob = up.blob /\ plain = up.plain
          /\ sealed = up.sealed
    <3>1. IsUp(up)
      BY <1>1 DEF UpIs
    <3> QED BY <1>1, <3>1, UpIsOf
  <2>2. PICK n \in Nat : n = Len(plain) /\ IsOpen(up, n, i)
    <3>1. IsOpen(up, Len(up.plain), up.idx)
      BY <1>1 DEF UpIs
    <3>2. Len(up.plain) \in Nat
      BY <3>1 DEF IsOpen, Framing
    <3> QED BY <2>1, <3>1, <3>2
  <2>3. /\ i \in Nat /\ n <= i * Chunk /\ plain = PlainOf(n) /\ mac = MacOf("u", n, i)
        /\ sealed = Numbers(i) /\ blob = Header("u") \o Wire("u", n, i)
    BY <2>1, <2>2 DEF IsOpen, Framing
  <2>4. PICK b, e : b = up.blob \o Footer("u", up.mac) /\ e = up'
    OBVIOUS
  <2>5. PICK u1 : u1 = [up EXCEPT !.st = "done"]
    OBVIOUS
  <2>6. IsUpOf(u1, "done", declared, i, last, mac, blob, plain, sealed, pushes)
    BY <2>1, <2>5, UpUpdates
  <2>7. e = [u1 EXCEPT !.blob = b]
    <3>1. up' = [up EXCEPT !.st = "done", !.blob = up.blob \o Footer("u", up.mac)]
      BY <1>3 DEF UpFinalize
    <3> QED BY <2>4, <2>5, <3>1
  <2>8. IsUpOf(e, "done", declared, i, last, mac, b, plain, sealed, pushes)
    BY <2>6, <2>7, UpUpdates
  <2>9. /\ IsUp(e) /\ e.st = "done" /\ e.idx = i /\ e.last = last /\ e.mac = mac /\ e.blob = b
        /\ e.plain = plain /\ e.sealed = sealed
    BY <2>8, UpFields
  <2>10. b = Body("u", n, i)
    <3>1. Body("u", n, i) = Header("u") \o Wire("u", n, i) \o Footer("u", MacOf("u", n, i))
      BY <2>3, BodyIs
    <3>2. b = blob \o Footer("u", mac)
      BY <2>1, <2>4
    <3> QED BY <2>3, <3>1, <3>2
  <2>11. Framing(e, n, i)
    BY <2>3, <2>9 DEF Framing
  <2>12. i \in 0..(IndexLimit - 1) /\ last \in BOOLEAN
    BY <1>1, <2>1 DEF UpIs
  <2>13. UpIs(e)
    BY <2>2, <2>3, <2>9, <2>10, <2>11, <2>12 DEF UpIs
  <2> QED BY <2>4, <2>13 DEF UpInd
<1> QED BY <1>2, <1>3

\* The first k frames are the beginning of the first i.
WireBegins(key, n, k, i) ==
    /\ Len(Wire(key, n, k)) \in Nat /\ Len(Wire(key, n, i)) \in Nat
    /\ Len(Wire(key, n, k)) <= Len(Wire(key, n, i))
    /\ \A j \in 1..Len(Wire(key, n, k)) : Wire(key, n, i)[j] = Wire(key, n, k)[j]
LEMMA WirePrefix ==
    ASSUME NEW key, NEW n \in Nat, NEW k \in Nat, NEW i \in Nat, k <= i
    PROVE  WireBegins(key, n, k, i)
<1>1. PICK w \in Seq(Parts(key)) : w = Wire(key, n, k)
  BY WireStep
<1>2. PICK W \in Nat : W = Len(w)
  OBVIOUS
<1> DEFINE Begins(x) == W <= Len(x) /\ \A j \in 1..W : x[j] = w[j]
<1>3. PICK P : P = {c \in Nat : k <= c => Begins(Wire(key, n, c))}
  OBVIOUS
<1>4. 0 \in P
  <2>1. k <= 0 => k = 0
    OBVIOUS
  <2> QED BY <1>1, <1>2, <1>3, <2>1
<1>5. ASSUME NEW c \in P PROVE c + 1 \in P
  <2>0. c \in Nat
    BY <1>3
  <2> SUFFICES ASSUME k <= c + 1 PROVE Begins(Wire(key, n, c + 1))
    BY <1>3, <2>0
  <2>1. CASE k = c + 1
    BY <1>1, <1>2, <2>1
  <2>2. CASE k <= c
    <3>1. PICK x \in Seq(Parts(key)), f \in Seq(Parts(key)) :
            x = Wire(key, n, c) /\ f = Frame(key, c, Piece(n, c + 1))
      <4>1. Piece(n, c + 1) \in Seq(Bytes)
        BY <2>0, PieceIsRun
      <4> QED BY <2>0, <4>1, WireStep, FrameIs
    <3>2. PICK y : y = x \o f
      OBVIOUS
    <3>3. /\ y \in Seq(Parts(key)) /\ Len(y) = Len(x) + Len(f)
          /\ \A j \in 1..Len(x) : y[j] = x[j]
      BY <3>2, JoinIs
    <3>4. y = Wire(key, n, c + 1)
      BY <2>0, <3>1, <3>2, WireStep
    <3>5. W <= Len(x) /\ \A j \in 1..W : x[j] = w[j]
      BY <1>3, <2>2, <3>1
    <3>6. PICK X \in Nat, F \in Nat : X = Len(x) /\ F = Len(f)
      OBVIOUS
    <3>7. W <= X + F /\ W <= X
      BY <3>5, <3>6
    <3>8. ASSUME NEW j \in 1..W PROVE y[j] = w[j]
      <4>1. j \in 1..X
        BY <3>7
      <4> QED BY <3>3, <3>5, <3>6, <4>1
    <3> QED BY <3>3, <3>4, <3>6, <3>7, <3>8
  <2>3. k = c + 1 \/ k <= c
    BY <2>0
  <2> QED BY <2>1, <2>2, <2>3
<1>6. P = Nat
  <2> HIDE DEF Begins
  <2>1. P \in SUBSET Nat
    BY <1>3
  <2> QED BY <1>4, <1>5, <2>1, SetInduction
<1>7. Begins(Wire(key, n, i))
  BY <1>3, <1>6
<1>8. Wire(key, n, i) \in Seq(Parts(key))
  BY WireStep
<1> QED BY <1>1, <1>2, <1>7, <1>8 DEF WireBegins

\* AES-GCM opens what was sealed.
LEMMA SealedOpens ==
    ASSUME NEW key, NEW i \in Nat, NEW p \in Seq(Bytes)
    PROVE  AeadOpens(key, i, Sealed(key, i, p)) /\ Opened(Sealed(key, i, p)) = p
<1>1. PICK ct \in Seq(Parts(key)) :
        /\ ct = Sealed(key, i, p) /\ Len(ct) = Len(p) + 1
        /\ \A j \in 1..Len(p) : ct[j] = CtUnit(key, i, p, j)
        /\ ct[Len(p) + 1] = TagUnit(key, i, p)
  BY SealedIs
<1>2. PICK L \in Nat : L = Len(p)
  OBVIOUS
<1>3. ct # <<>>
  <2>1. Len(ct) = L + 1
    BY <1>1, <1>2
  <2> QED BY <2>1
<1>4. ASSUME NEW j \in 1..(L + 1)
      PROVE  /\ ct[j].f = key /\ ct[j].i = i /\ ct[j].j = j /\ ct[j].n = L
             /\ ct[j].k = IF j = L + 1 THEN "tag" ELSE "ct"
  <2>1. CASE j = L + 1
    <3>1. ct[j] = Unit(key, "tag", i, L + 1, L, None)
      BY <1>1, <1>2, <2>1 DEF TagUnit
    <3> QED BY <2>1, <3>1, FieldsOf
  <2>2. CASE j # L + 1
    <3>1. j \in 1..L
      BY <2>2
    <3>2. ct[j] = Unit(key, "ct", i, j, L, p[j])
      BY <1>1, <1>2, <3>1 DEF CtUnit
    <3> QED BY <2>2, <3>2, FieldsOf
  <2> QED BY <2>1, <2>2
<1>5. Len(ct) = L + 1 /\ Len(ct) - 1 = L
  BY <1>1, <1>2
<1>6. AeadOpens(key, i, ct)
  BY <1>3, <1>4, <1>5 DEF AeadOpens
<1>7. ASSUME NEW j \in 1..L PROVE ct[j].v = p[j]
  <2>1. ct[j] = Unit(key, "ct", i, j, L, p[j])
    BY <1>1, <1>2 DEF CtUnit
  <2> QED BY <2>1, FieldsOf
<1>8. Opened(ct) = [j \in 1..L |-> p[j]]
  BY <1>5, <1>7 DEF Opened
<1>9. p = [j \in 1..L |-> p[j]]
  BY <1>2, SeqIsFunction
<1> QED BY <1>1, <1>6, <1>8, <1>9

-----------------------------------------------------------------------------
(***************************************************************************)
(* decrypt_file_v7() on what an upload emitted.                            *)
(***************************************************************************)
\* Frame k of the blob s lies behind its first a units, and seals L bytes.
FrameSits(s, key, n, k, a, L) ==
    /\ a \in Nat /\ L \in Nat /\ a = 3 + Len(Wire(key, n, k)) /\ L = Len(Piece(n, k + 1))
    /\ a + L + 3 = 3 + Len(Wire(key, n, k + 1)) /\ a + L + 3 + 2 <= Len(s)
    /\ s[a + 1] = LenUnit(key, k, Piece(n, k + 1)) /\ s[a + 2] = NonceUnit(key, k)
    /\ \A j \in 1..(L + 1) : s[a + 2 + j] = Sealed(key, k, Piece(n, k + 1))[j]

LEMMA FrameAt ==
    ASSUME NEW key, NEW n \in Nat, NEW i \in Nat, NEW k \in Nat, k < i, NEW W \in Nat, NEW s,
           Layout(s, key, n, i, W)
    PROVE  \E a, L \in Nat : FrameSits(s, key, n, k, a, L)
<1>1. /\ W = Len(Wire(key, n, i)) /\ Len(s) = 3 + W + 2
      /\ \A j \in 1..W : s[3 + j] = Wire(key, n, i)[j]
  BY DEF Layout
<1>2. PICK p \in Seq(Bytes) : p = Piece(n, k + 1)
  BY PieceIsRun
<1>3. PICK L \in Nat : L = Len(p)
  OBVIOUS
<1>4. PICK f \in Seq(Parts(key)) :
        /\ f = Frame(key, k, p) /\ Len(f) = L + 3
        /\ f[1] = LenUnit(key, k, p) /\ f[2] = NonceUnit(key, k)
        /\ \A j \in 1..(L + 1) : f[2 + j] = Sealed(key, k, p)[j]
  BY <1>3, FrameIs
<1>5. PICK x \in Seq(Parts(key)) : x = Wire(key, n, k)
  BY WireStep
<1>6. PICK o \in Nat : o = Len(x)
  OBVIOUS
<1>7. PICK y : y = x \o f
  OBVIOUS
<1>8. Len(y) = o + L + 3 /\ \A j \in 1..(L + 3) : y[o + j] = f[j]
  <2>1. Len(y) = Len(x) + Len(f) /\ \A j \in 1..Len(f) : y[Len(x) + j] = f[j]
    BY <1>7, JoinIs
  <2> QED BY <1>4, <1>6, <2>1
<1>9. y = Wire(key, n, k + 1)
  BY <1>2, <1>4, <1>5, <1>7, WireStep
<1>10. PICK c \in Nat : c = k + 1 /\ c <= i
  OBVIOUS
<1>11. /\ Len(Wire(key, n, c)) <= Len(Wire(key, n, i))
       /\ \A j \in 1..Len(Wire(key, n, c)) : Wire(key, n, i)[j] = Wire(key, n, c)[j]
  <2>1. c <= i
    BY <1>10
  <2>2. WireBegins(key, n, c, i)
    BY <2>1, WirePrefix
  <2> QED BY <2>2 DEF WireBegins
<1>12. o + L + 3 <= W /\ \A j \in 1..(o + L + 3) : Wire(key, n, i)[j] = y[j]
  BY <1>1, <1>8, <1>9, <1>10, <1>11
<1>13. PICK a \in Nat : a = 3 + o
  OBVIOUS
<1>14. ASSUME NEW j \in 1..(L + 3) PROVE s[a + j] = f[j]
  <2>1. PICK e \in 1..(o + L + 3) : e = o + j /\ a + j = 3 + e
    BY <1>13
  <2>2. e \in 1..W
    BY <1>12, <2>1
  <2> QED BY <1>1, <1>8, <1>12, <2>1, <2>2
<1>15. s[a + 1] = f[1] /\ s[a + 2] = f[2]
  <2>1. 1 \in 1..(L + 3) /\ 2 \in 1..(L + 3)
    OBVIOUS
  <2> QED BY <1>14, <2>1
<1>16. ASSUME NEW j \in 1..(L + 1) PROVE s[a + 2 + j] = f[2 + j]
  <2>1. PICK e \in 1..(L + 3) : e = 2 + j
    OBVIOUS
  <2>2. s[a + e] = f[e] /\ a + e = a + 2 + j
    BY <1>14, <2>1
  <2> QED BY <2>1, <2>2
<1>17. a + L + 3 = 3 + Len(y) /\ a + L + 3 + 2 <= Len(s)
  BY <1>1, <1>8, <1>12, <1>13
<1>18. FrameSits(s, key, n, k, a, L)
  BY <1>2, <1>3, <1>4, <1>5, <1>6, <1>9, <1>13, <1>15, <1>16, <1>17 DEF FrameSits
<1> QED BY <1>18

\* Where the one-shot loop stands after k frames.
RoundAt(n, k) == [pos |-> 3 + Len(Wire("u", n, k)), err |-> FALSE, out |-> PlainOf(Cut1(n, k)),
                  mac |-> MacOf("u", n, k)]

LEMMA RoundGoes ==
    ASSUME NEW n \in Nat, NEW i \in Nat, NEW k \in Nat, k < i, NEW W \in Nat, NEW s,
           Layout(s, "u", n, i, W)
    PROVE  DecryptStep(s, "u", RoundAt(n, k)) = RoundAt(n, k + 1)
<1>1. PICK a, L \in Nat : FrameSits(s, "u", n, k, a, L)
  BY FrameAt
<1>2. PICK p \in Seq(Bytes) : p = Piece(n, k + 1)
  BY PieceIsRun
<1>3. /\ a = 3 + Len(Wire("u", n, k)) /\ L = Len(p)
      /\ a + L + 3 = 3 + Len(Wire("u", n, k + 1)) /\ a + L + 3 + 2 <= Len(s)
      /\ s[a + 1] = Unit("u", "len", k, 1, L + 2, None) /\ s[a + 2] = Unit("u", "nonce", k, 1, 0, None)
      /\ \A j \in 1..(L + 1) : s[a + 2 + j] = Sealed("u", k, p)[j]
  BY <1>1, <1>2 DEF FrameSits, LenUnit, NonceUnit
<1>4. s[a + 1].k = "len" /\ s[a + 1].f = "u" /\ s[a + 1].n = L + 2
  BY <1>3, FieldsOf
<1>5. s[a + 2].k = "nonce" /\ s[a + 2].f = "u" /\ s[a + 2].i = k
  BY <1>3, FieldsOf
<1>6. LengthAt(s, a + 1) = L + 2
  BY <1>4 DEF LengthAt
<1>7. PICK sealed \in Seq(Parts("u")) : sealed = Sealed("u", k, p) /\ Len(sealed) = L + 1
  BY <1>3, SealedIs
<1>8. PICK ct : ct = SubSeq(s, a + 3, a + 1 + (L + 2))
  OBVIOUS
<1>9. ct = sealed
  <2>1. PICK q \in Nat, e \in Nat : q = a + 2 /\ e = L + 1
    OBVIOUS
  <2>2. q + 1 = a + 3 /\ q + e = a + 1 + (L + 2) /\ q + e <= Len(s)
    BY <1>3, <2>1
  <2>3. s \in Seq(Units("u"))
    BY DEF Layout
  <2>4. ct = SubSeq(s, q + 1, q + e)
    BY <1>8, <2>2
  <2>5. ct \in Seq(Units("u")) /\ Len(ct) = e /\ \A j \in 1..e : ct[j] = s[q + j]
    BY <2>2, <2>3, <2>4, SubSeqIs
  <2>6. \A j \in 1..e : ct[j] = sealed[j]
    BY <1>3, <1>7, <2>1, <2>5
  <2>7. ct = [j \in 1..e |-> ct[j]] /\ sealed = [j \in 1..e |-> sealed[j]]
    BY <1>7, <2>1, <2>5, SeqIsFunction
  <2> QED BY <2>6, <2>7
<1>10. AeadOpens("u", k, ct) /\ Opened(ct) = p
  BY <1>7, <1>9, SealedOpens
<1>11. PICK out, mac : out = PlainOf(Cut1(n, k)) /\ mac = MacOf("u", n, k)
  OBVIOUS
<1>12. PICK r : r = RoundAt(n, k)
  OBVIOUS
<1>13. r.pos = a /\ r.err = FALSE /\ r.out = out /\ r.mac = mac
  BY <1>3, <1>11, <1>12 DEF RoundAt
<1>14. Len(mac) = k /\ Append(mac, <<k, ct>>) = MacOf("u", n, k + 1)
  <2>1. Len(MacOf("u", n, k)) = k
    BY MacStep
  <2>2. MacOf("u", n, k + 1) = Append(MacOf("u", n, k), <<k, Sealed("u", k, Piece(n, k + 1))>>)
    BY MacStep
  <2> QED BY <1>2, <1>7, <1>9, <1>11, <2>1, <2>2
<1>15. out \o p = PlainOf(Cut1(n, k + 1))
  <2>0. k <= k
    OBVIOUS
  <2>1. Slice(n, k, k) = <<>> /\ Slice(n, k, k) \o Piece(n, k + 1) = Slice(n, k, k + 1)
    BY ZenonT(40), <2>0, PlainJoin
  <2>2. PlainOf(Cut1(n, k)) \o Slice(n, k, k + 1) = PlainOf(Cut1(n, k + 1))
    <3>1. PICK c \in Nat : c = k + 1 /\ k <= c
      OBVIOUS
    <3>2. k <= c
      BY <3>1
    <3>3. PlainOf(Cut1(n, k)) \o Slice(n, k, c) = PlainOf(Cut1(n, c))
      BY <3>2, PlainJoin
    <3> QED BY <3>1, <3>3
  <2>3. Slice(n, k, k + 1) = p
    <3>1. <<>> \o p = p
      OBVIOUS
    <3> QED BY <1>2, <2>1, <3>1
  <2> QED BY <1>11, <2>2, <2>3
<1>16. DecryptStep(s, "u", r) =
         [pos |-> a + 1 + (L + 2), err |-> FALSE, out |-> out \o Opened(ct), mac |-> Append(mac, <<Len(mac), ct>>)]
  <2>1. ~(a + 2 >= Len(s)) /\ ~(a + 1 + (L + 2) > Len(s) \/ L + 2 < 1)
    <3>1. PICK l \in Nat : l = Len(s)
      BY DEF Layout
    <3>2. a + L + 3 + 2 <= l
      BY <1>3, <3>1
    <3>3. ~(a + 2 >= l) /\ ~(a + 1 + (L + 2) > l \/ L + 2 < 1)
      BY <3>2
    <3> QED BY <3>1, <3>3
  <2>2. SubSeq(s, r.pos + 3, r.pos + 1 + LengthAt(s, r.pos + 1)) = ct
    BY <1>6, <1>8, <1>13
  <2>3. LengthAt(s, r.pos + 1) = L + 2
    BY <1>6, <1>13
  <2> QED BY <1>5, <1>10, <1>13, <2>1, <2>2, <2>3 DEF DecryptStep, FooterLen
<1>17. a + 1 + (L + 2) = 3 + Len(Wire("u", n, k + 1))
  BY <1>3
<1> QED BY <1>10, <1>12, <1>14, <1>15, <1>16, <1>17 DEF RoundAt

LEMMA RoundStops ==
    ASSUME NEW n \in Nat, NEW i \in Nat, NEW W \in Nat, NEW s, Layout(s, "u", n, i, W)
    PROVE  DecryptStep(s, "u", RoundAt(n, i)) = RoundAt(n, i)
<1>1. Len(s) = 3 + W + 2 /\ W = Len(Wire("u", n, i))
  BY DEF Layout
<1>2. PICK r : r = RoundAt(n, i)
  OBVIOUS
<1>3. r.pos = 3 + W
  BY <1>1, <1>2 DEF RoundAt
<1>4. r.pos + 2 >= Len(s)
  <2>1. 3 + W + 2 >= 3 + W + 2
    OBVIOUS
  <2> QED BY <1>1, <1>3, <2>1
<1>5. DecryptStep(s, "u", r) = r
  BY <1>4 DEF DecryptStep, FooterLen
<1> QED BY <1>2, <1>5

\* The answer of decrypt_file_v7() in terms of where its loop ends.
Answers(s, key, r) ==
    IF key = None \/ r.err \/ ~FooterMatches([key |-> key, buf |-> <<>>, mac |-> r.mac], SubSeq(s, r.pos + 1, Len(s)))
    THEN None ELSE r.out
OneShotStart == [pos |-> HeaderLen, err |-> FALSE, out |-> <<>>, mac |-> <<>>]
KeyIn(s) == IF Len(s) < HeaderLen THEN None ELSE HeaderKey(s)
\* h is what the loop goes through on s.
LoopIs(h, s, key, K) ==
    h = [k \in 0..K |-> IF k = 0 THEN OneShotStart ELSE DecryptStep(s, key, h[k - 1])]

LEMMA LoopEnds ==
    ASSUME NEW s, NEW K \in Nat, K = Len(s) \div 2 + 1, NEW key, key = KeyIn(s), NEW h, LoopIs(h, s, key, K)
    PROVE  DecryptFile(s) = Answers(s, key, h[K])
<1>1. PICK F : F = CHOOSE at : LoopIs(at, s, key, K)
  OBVIOUS
<1>2. LoopIs(F, s, key, K)
  BY <1>1
<1>3. DecryptFile(s) = Answers(s, key, F[K])
  <2>1. F = CHOOSE at : at = [k \in 0..(Len(s) \div 2 + 1) |->
                                IF k = 0 THEN OneShotStart ELSE DecryptStep(s, KeyIn(s), at[k - 1])]
    BY <1>1 DEF LoopIs
  <2> HIDE <1>1
  <2>2. DecryptFile(s) =
          Answers(s, KeyIn(s), (CHOOSE at : at = [k \in 0..(Len(s) \div 2 + 1) |->
                    IF k = 0 THEN OneShotStart ELSE DecryptStep(s, KeyIn(s), at[k - 1])])[Len(s) \div 2 + 1])
    BY DEF DecryptFile, Answers, KeyIn, OneShotStart
  <2> QED BY <2>1, <2>2
<1>4. ASSUME NEW f, LoopIs(f, s, key, K)
      PROVE  f[0] = OneShotStart /\ \A k \in 1..K : f[k] = DecryptStep(s, key, f[k - 1])
  <2>1. \A k \in 0..K : f[k] = IF k = 0 THEN OneShotStart ELSE DecryptStep(s, key, f[k - 1])
    BY <1>4 DEF LoopIs
  <2>2. 0 \in 0..K /\ \A k \in 1..K : k \in 0..K /\ k # 0
    OBVIOUS
  <2> QED BY <2>1, <2>2
<1>5. PICK P : P = {k \in Nat : k <= K => F[k] = h[k]}
  OBVIOUS
<1>6. 0 \in P
  <2>1. F[0] = OneShotStart /\ h[0] = OneShotStart
    BY <1>2, <1>4
  <2> QED BY <1>5, <2>1
<1>7. ASSUME NEW k \in P PROVE k + 1 \in P
  <2>0. k \in Nat
    BY <1>5
  <2> SUFFICES ASSUME k + 1 <= K PROVE F[k + 1] = h[k + 1]
    BY <1>5, <2>0
  <2>1. F[k] = h[k]
    BY <1>5, <2>0
  <2>2. PICK e \in 1..K : e = k + 1 /\ e - 1 = k
    BY <2>0
  <2>3. F[e] = DecryptStep(s, key, F[e - 1]) /\ h[e] = DecryptStep(s, key, h[e - 1])
    BY <1>2, <1>4
  <2> QED BY <2>1, <2>2, <2>3
<1>8. P = Nat
  BY <1>5, <1>6, <1>7, SetInduction
<1>9. F[K] = h[K]
  BY <1>5, <1>8
<1> QED BY <1>3, <1>9

LEMMA UploadDecrypts ==
    ASSUME NEW n \in Nat, NEW i \in Nat, n <= i * Chunk
    PROVE  DecryptFile(Body("u", n, i)) = PlainOf(n)
<1>1. PICK s : s = Body("u", n, i)
  OBVIOUS
<1>2. PICK W \in Nat : Layout(s, "u", n, i, W)
  BY <1>1, BodyUnits
<1>3. /\ W = Len(Wire("u", n, i)) /\ Len(s) = 3 + W + 2 /\ s \in Seq(Units("u"))
      /\ \A j \in 1..3 : s[j] = Unit("u", "hdr", 0, j, 0, None)
      /\ \A j \in 1..2 : s[3 + W + j] = MacUnit("u", j, MacOf("u", n, i))
  BY <1>2 DEF Layout
<1>4. KeyIn(s) = "u"
  <2>1. 1 \in 1..3
    OBVIOUS
  <2>2. s[1].f = "u"
    BY <1>3, <2>1, FieldsOf
  <2>3. ~(Len(s) < 3)
    BY <1>3
  <2> QED BY <1>3, <2>2, <2>3 DEF KeyIn, HeaderKey, HeaderLen
<1>5. PICK K \in Nat : K = Len(s) \div 2 + 1 /\ i <= K
  <2>1. W = 3 * i + Cut1(n, i)
    BY <1>3, WireLength
  <2>2. PICK c \in Nat : c = Cut1(n, i)
    BY CutFacts
  <2>3. PICK l \in Nat : l = Len(s) /\ l >= 2 * i
    <3>1. Len(s) \in Nat
      BY <1>3
    <3>2. 3 + (3 * i + c) + 2 >= 2 * i
      OBVIOUS
    <3> QED BY <1>3, <2>1, <2>2, <3>1, <3>2
  <2>4. l \div 2 + 1 \in Nat /\ i <= l \div 2 + 1
    BY <2>3, Z3
  <2> QED BY <2>3, <2>4
<1>6. PICK h : h = [k \in 0..K |-> RoundAt(n, IF k <= i THEN k ELSE i)]
  OBVIOUS
<1>7. LoopIs(h, s, "u", K)
  <2>1. ASSUME NEW k \in 0..K PROVE h[k] = IF k = 0 THEN OneShotStart ELSE DecryptStep(s, "u", h[k - 1])
    <3>1. CASE k = 0
      <4>1. h[k] = RoundAt(n, 0)
        BY <1>6, <3>1
      <4>2. MacOf("u", n, 0) = <<>> /\ Wire("u", n, 0) = <<>>
        BY MacStep, WireStep
      <4>3. Cut1(n, 0) = 0 /\ PlainOf(0) = <<>>
        BY CutFacts DEF PlainOf
      <4>4. Len(<<>>) = 0
        OBVIOUS
      <4>5. RoundAt(n, 0) = [pos |-> 3 + 0, err |-> FALSE, out |-> <<>>, mac |-> <<>>]
        BY <4>2, <4>3, <4>4 DEF RoundAt
      <4>6. RoundAt(n, 0) = OneShotStart
        BY <4>5 DEF OneShotStart, HeaderLen
      <4> QED BY <3>1, <4>1, <4>6
    <3>2. CASE k # 0
      <4>1. PICK e \in Nat : e \in 0..K /\ e = k - 1 /\ k = e + 1
        BY <3>2
      <4>2. CASE k <= i
        <5>1. e < i /\ e <= i
          BY <4>1, <4>2
        <5>2. h[k] = RoundAt(n, k) /\ h[e] = RoundAt(n, e)
          BY <1>6, <4>1, <4>2, <5>1
        <5>3. DecryptStep(s, "u", RoundAt(n, e)) = RoundAt(n, e + 1)
          BY <1>2, <5>1, RoundGoes
        <5> QED BY <3>2, <4>1, <5>2, <5>3
      <4>3. CASE ~(k <= i)
        <5>1. e >= i /\ (e <= i => e = i)
          BY <4>1, <4>3
        <5>2. h[k] = RoundAt(n, i) /\ h[e] = RoundAt(n, i)
          BY <1>6, <4>1, <4>3, <5>1
        <5>3. DecryptStep(s, "u", RoundAt(n, i)) = RoundAt(n, i)
          BY <1>2, RoundStops
        <5> QED BY <3>2, <4>1, <5>2, <5>3
      <4> QED BY <4>2, <4>3
    <3> QED BY <3>1, <3>2
  <2>2. h = [k \in 0..K |-> h[k]]
    BY <1>6
  <2> QED BY <2>1, <2>2 DEF LoopIs
<1>8. PICK r, mac : r = RoundAt(n, i) /\ mac = MacOf("u", n, i)
  OBVIOUS
<1>9. h[K] = r
  <2>1. K \in 0..K /\ (K <= i => K = i)
    BY <1>5
  <2> QED BY <1>6, <1>8, <2>1
<1>10. DecryptFile(s) = Answers(s, "u", r)
  BY <1>4, <1>5, <1>7, <1>9, LoopEnds
<1>11. r.pos = 3 + W /\ r.err = FALSE /\ r.out = PlainOf(n) /\ r.mac = mac
  <2>1. Cut1(n, i) = n
    BY CutFacts
  <2> QED BY <1>3, <1>8, <2>1 DEF RoundAt
<1>12. PICK f : f = SubSeq(s, r.pos + 1, Len(s))
  OBVIOUS
<1>13. Len(f) = 2 /\ \A j \in 1..2 : f[j] = MacUnit("u", j, mac)
  <2>1. PICK a \in Nat : a = 3 + W
    OBVIOUS
  <2>2. a + 2 <= Len(s) /\ a + 2 = Len(s)
    BY <1>3, <2>1
  <2>3. f = SubSeq(s, a + 1, a + 2)
    BY <1>11, <1>12, <2>1, <2>2
  <2>4. Len(f) = 2 /\ \A j \in 1..2 : f[j] = s[a + j]
    BY <1>3, <2>2, <2>3, SubSeqIs
  <2> QED BY <1>3, <1>8, <2>1, <2>4
<1>14. PICK d : d = [key |-> "u", buf |-> <<>>, mac |-> mac]
  OBVIOUS
<1>15. FooterMatches(d, f)
  <2>1. d.key = "u" /\ d.buf = <<>> /\ d.mac = mac
    BY <1>14
  <2>2. ASSUME NEW j \in 1..2 PROVE f[j].f = "u" /\ f[j].k = "mac" /\ f[j].j = j /\ f[j].v = mac
    <3>1. f[j] = Unit("u", "mac", 0, j, 0, mac)
      BY <1>13 DEF MacUnit
    <3> QED BY <3>1, FieldsOf
  <2> QED BY <1>13, <2>1, <2>2 DEF FooterMatches, FooterLen
<1>16. Answers(s, "u", r) = PlainOf(n)
  <2>1. [key |-> "u", buf |-> <<>>, mac |-> r.mac] = d
    BY <1>11, <1>14
  <2>2. None # "u"
    BY BlobAssumption
  <2> QED BY <1>11, <1>12, <1>15, <2>1, <2>2 DEF Answers
<1> QED BY <1>1, <1>10, <1>16

\* i chunks of which only the last may be short, and is not empty, are as many as v7_cipher_size() counts.
LEMMA CountIs ==
    ASSUME NEW n \in Nat, NEW k \in Nat, NEW i \in Nat, i = k + 1, k * Chunk < n, n <= i * Chunk
    PROVE  PieceCount(n) = i
<1>1. PICK c \in Nat : c = PieceCount(n)
  BY CountFacts
<1>2. n <= c * Chunk /\ c * Chunk < n + Chunk
  BY <1>1, CountFacts
<1>3. Chunk \in Nat
  BY BlobAssumption
<1>4. PICK x \in Nat, y \in Nat, z \in Nat : x = k * Chunk /\ y = i * Chunk /\ z = c * Chunk
  BY Multiples
<1>5. c <= k => z <= x
  BY <1>4, Multiples
<1>6. i < c => y + Chunk <= z
  BY <1>4, Multiples
<1>7. x < n /\ n <= y /\ n <= z /\ z < n + Chunk
  BY <1>2, <1>4
<1>8. ~(c <= k) /\ ~(i < c)
  BY <1>3, <1>5, <1>6, <1>7
<1>9. c = i
  BY <1>8
<1> QED BY <1>1, <1>9

LEMMA UploadSized ==
    ASSUME NEW n \in Nat, NEW i \in Nat, n <= i * Chunk, NEW s, s = Body("u", n, i),
           s[Len(s) - 2].j # 1
    PROVE  Len(s) = CipherSize(n)
<1>1. PICK W \in Nat : Layout(s, "u", n, i, W)
  BY BodyUnits
<1>2. W = Len(Wire("u", n, i)) /\ Len(s) = 3 + W + 2
  BY <1>1 DEF Layout
<1>3. Len(s) = 3 + (3 * i + n) + 2
  <2>1. Cut1(n, i) = n
    BY CutFacts
  <2>2. Len(Wire("u", n, i)) = 3 * i + Cut1(n, i)
    BY WireLength
  <2> QED BY <1>2, <2>1, <2>2
<1>4. CASE i = 0
  <2>1. n <= 0 * Chunk /\ 0 * Chunk = 0
    BY <1>4, BlobAssumption
  <2>2. n = 0
    BY <2>1
  <2>3. Len(s) = 5
    BY <1>3, <1>4, <2>2
  <2> QED BY <2>2, <2>3 DEF CipherSize, HeaderLen, FooterLen
<1>5. CASE i # 0
  <2>1. PICK k \in Nat : i = k + 1 /\ k < i
    <3>1. i - 1 \in Nat /\ i = (i - 1) + 1 /\ i - 1 < i
      BY <1>5
    <3> QED BY <3>1
  <2>2. k < i
    BY <2>1
  <2>3. PICK a, L \in Nat : FrameSits(s, "u", n, k, a, L)
    BY <1>1, <2>2, FrameAt
  <2>4. PICK p \in Seq(Bytes) : p = Piece(n, k + 1) /\ Len(p) = Size(n, k + 1)
    BY PieceIsRun
  <2>5. /\ L = Len(p) /\ a + L + 3 = 3 + Len(Wire("u", n, k + 1))
        /\ \A j \in 1..(L + 1) : s[a + 2 + j] = Sealed("u", k, p)[j]
    BY <2>3, <2>4 DEF FrameSits
  <2>6. Len(s) - 2 = a + 2 + (L + 1)
    <3>1. a + L + 3 = 3 + W
      BY <1>2, <2>1, <2>5
    <3>2. (3 + W + 2) - 2 = a + 2 + (L + 1)
      BY <3>1
    <3> QED BY <1>2, <3>2
  <2>7. s[Len(s) - 2] = Unit("u", "tag", k, L + 1, L, None)
    <3>1. Sealed("u", k, p)[Len(p) + 1] = TagUnit("u", k, p)
      BY SealedIs
    <3>2. L + 1 \in 1..(L + 1)
      OBVIOUS
    <3>3. s[a + 2 + (L + 1)] = Sealed("u", k, p)[L + 1]
      BY <2>5, <3>2
    <3> QED BY <2>5, <2>6, <3>1, <3>3 DEF TagUnit
  <2>8. L # 0
    <3>1. s[Len(s) - 2].j = L + 1
      BY <2>7, FieldsOf
    <3> QED BY <3>1
  <2>9. k * Chunk < n
    <3>0. Cut1(n, k) \in Nat /\ Cut1(n, k + 1) = Cut1(n, k) + Size(n, k + 1)
      BY PieceIsRun
    <3>1. Cut1(n, k) \in Nat /\ Cut1(n, k + 1) = Cut1(n, k) + L
      BY <2>4, <2>5, <3>0
    <3>2. Cut1(n, k + 1) = n
      <4>1. Cut1(n, i) = n
        BY CutFacts
      <4> QED BY <2>1, <4>1
    <3>3. Cut1(n, k) < n
      BY <2>8, <3>1, <3>2
    <3>4. k * Chunk \in Nat
      BY Multiples
    <3> QED BY <3>3, <3>4 DEF Cut1
  <2>10. PieceCount(n) = i
    BY <2>1, <2>9, CountIs
  <2>11. n # 0
    <3>1. k * Chunk \in Nat
      BY Multiples
    <3> QED BY <2>9, <3>1
  <2>12. CipherSize(n) = 3 + i * 3 + n + 2
    BY <2>10, <2>11 DEF CipherSize, PieceCount, HeaderLen, FrameOverhead, FooterLen
  <2>13. 3 + (3 * i + n) + 2 = 3 + i * 3 + n + 2
    OBVIOUS
  <2> QED BY <1>3, <2>12, <2>13
<1> QED BY <1>4, <1>5

\* What the invariant says of the upload.
LEMMA UploadFine ==
    ASSUME UpInd
    PROVE  /\ up.st \in {"idle", "open", "done", "failed"} /\ up.idx \in 0..(IndexLimit - 1)
           /\ UploadOpens /\ NonceOnce
<1>1. up.st \in {"idle", "open", "done", "failed"} /\ up.idx \in 0..(IndexLimit - 1)
  BY DEF UpInd, UpIs
<1>2. UploadOpens
  <2> SUFFICES ASSUME up.st = "done"
               PROVE  /\ DecryptFile(up.blob) = up.plain
                      /\ Len(up.plain) = up.declared /\ up.blob[Len(up.blob) - FooterLen].j # 1
                            => Len(up.blob) = CipherSize(up.declared)
    BY DEF UploadOpens
  <2>1. PICK n, i, s, plain : n = Len(up.plain) /\ i = up.idx /\ s = up.blob /\ plain = up.plain
    OBVIOUS
  <2>2. /\ n \in Nat /\ i \in Nat /\ n <= i * Chunk /\ plain = PlainOf(n)
        /\ s = Body("u", n, i)
    BY <2>1 DEF UpInd, UpIs, Framing
  <2>3. DecryptFile(s) = plain
    BY <2>2, UploadDecrypts
  <2>4. s[Len(s) - 2].j # 1 => Len(s) = CipherSize(n)
    BY <2>2, UploadSized
  <2> QED BY <2>1, <2>3, <2>4 DEF FooterLen
<1>3. NonceOnce
  <2>1. PICK k \in Nat : up.sealed = Numbers(k)
    <3>1. up.idx \in Nat /\ up.idx + 1 \in Nat
      BY <1>1
    <3> QED BY <3>1 DEF UpInd, UpIs
  <2>2. Len(up.sealed) = k
    <3>1. Numbers(k) \in Seq(Int) /\ Len(Numbers(k)) = k
      BY DEF Numbers
    <3> QED BY <2>1, <3>1
  <2>3. \A a \in 1..k : up.sealed[a] = a - 1
    BY <2>1 DEF Numbers
  <2>4. \A a, b \in 1..k : a - 1 = b - 1 => a = b
    OBVIOUS
  <2> QED BY <2>2, <2>3, <2>4 DEF NonceOnce
<1> QED BY <1>1, <1>2, <1>3
-----------------------------------------------------------------------------
(***************************************************************************)
(* The streams keep their promises.                                        *)
(***************************************************************************)
LEMMA PrefixIs ==
    ASSUME NEW n \in Nat, NEW m \in Nat, NEW out, Prefix(out, n, m)
    PROVE  IsPrefix(out, PlainOf(n))
<1>1. PICK c \in 0..m : out = PlainOf(Cut1(n, c))
  BY DEF Prefix
<1>2. PICK x \in 0..n : x = Cut1(n, c)
  <2>1. c \in Nat
    OBVIOUS
  <2> QED BY <2>1, CutFacts
<1>3. PICK p : p = PlainOf(n)
  OBVIOUS
<1>4. x \in Nat /\ x <= n
  OBVIOUS
<1>5. out = [j \in 1..x |-> j] /\ p = [j \in 1..n |-> j]
  BY <1>1, <1>2, <1>3 DEF PlainOf
<1>6. out \in Seq(Nat) /\ Len(out) = x /\ p \in Seq(Nat) /\ Len(p) = n
  BY <1>4, <1>5
<1>7. SubSeq(out, 1, x) = [j \in 1..x |-> j] /\ SubSeq(p, 1, x) = [j \in 1..x |-> j]
  <2>1. PICK z \in Nat : z = 0
    OBVIOUS
  <2>2. z + x <= Len(out) /\ z + x <= Len(p) /\ z + 1 = 1 /\ z + x = x
    BY <1>4, <1>6, <2>1
  <2>3. PICK t, u : t = SubSeq(out, z + 1, z + x) /\ u = SubSeq(p, z + 1, z + x)
    OBVIOUS
  <2>4. t \in Seq(Nat) /\ Len(t) = x /\ \A j \in 1..x : t[j] = out[z + j]
    BY <1>4, <1>6, <2>2, <2>3, SubSeqIs
  <2>5. u \in Seq(Nat) /\ Len(u) = x /\ \A j \in 1..x : u[j] = p[z + j]
    BY <1>4, <1>6, <2>2, <2>3, SubSeqIs
  <2>6. ASSUME NEW j \in 1..x PROVE t[j] = j /\ u[j] = j
    <3>1. z + j = j /\ j \in 1..n
      BY <1>4, <2>1
    <3> QED BY <1>5, <2>4, <2>5, <3>1
  <2>7. t = [j \in 1..x |-> t[j]] /\ u = [j \in 1..x |-> u[j]]
    BY <2>4, <2>5, SeqIsFunction
  <2>8. t = [j \in 1..x |-> j] /\ u = [j \in 1..x |-> j]
    BY <2>6, <2>7
  <2> QED BY <2>2, <2>3, <2>8
<1>8. IsPrefix(out, p)
  BY <1>4, <1>6, <1>7 DEF IsPrefix
<1> QED BY <1>3, <1>8

\* What the invariant says of the reader.
LEMMA DownloadFine ==
    ASSUME DlInd
    PROVE  /\ dl.dec # None => dl.dec.idx \in 0..(IndexLimit - 1) /\ Len(dl.tail) <= Len(src)
           /\ HandsOnAPrefix /\ AcceptedIsWhole
<1>1. CASE dl.st = "idle"
  <2>1. dl = Idle
    BY <1>1 DEF DlInd
  <2>2. dl.dec = None /\ dl.st # "accepted"
    BY <1>1, <2>1 DEF Idle
  <2> QED BY <2>2 DEF HandsOnAPrefix, AcceptedIsWhole
<1>2. CASE dl.st # "idle"
  <2>1. PICK n, m : Source(n, m)
    BY <1>2 DEF DlInd, Underway, Source
  <2>2. /\ n \in Nat /\ m \in Nat /\ src \in Seq(Stock(n, m)) /\ DlIs(junk, dl, src, pos, n, m)
        /\ n \in FileSizes
    BY <2>1, SourceIs DEF Source
  <2>3. pos \in Nat /\ pos <= Len(src)
    BY <2>2 DEF DlInd
  <2>4. dl.st \in {"header", "body", "page", "pageBody", "accepted", "saved", "failed"}
    BY <1>2 DEF DlInd
  <2>5. Ended(dl, src, n, m)
    <3>1. CASE dl.st \in {"header", "page"}
      BY <2>2, <3>1 DEF DlIs, Opening, Ended
    <3>2. CASE dl.st \in {"body", "pageBody"}
      <4>0. PICK p \in Nat : p = pos
        BY <2>3
      <4>1. PICK dec, tail, out, s : dec = dl.dec /\ tail = dl.tail /\ out = dl.out /\ s = src
        OBVIOUS
      <4>2. \/ Reading(dec, tail, out, s, p, n, m)
            \/ Stalled(junk, dec, tail, p, n, m) /\ Prefix(out, n, m)
        BY <2>2, <3>2, <4>0, <4>1 DEF DlIs
      <4>3. /\ dec.key = "a" /\ dec.idx \in 0..(IndexLimit - 1) /\ Prefix(out, n, m)
            /\ tail \in Seq(Stock(n, m)) /\ Len(tail) <= p
        BY <2>2, <4>2, ReadEnds, StallEnds
      <4>4. Len(tail) <= Len(src)
        <5>1. PICK l \in Nat : l = Len(src)
          BY <2>2
        <5>2. PICK y \in Nat : y = Len(tail)
          BY <4>3
        <5>3. y <= p /\ p <= l
          BY <2>3, <4>0, <4>3, <5>1, <5>2
        <5> QED BY <5>1, <5>2, <5>3
      <4> QED BY <4>1, <4>3, <4>4 DEF Ended
    <3>3. CASE dl.st \in {"accepted", "saved", "failed"}
      BY <2>2, <3>3 DEF DlIs
    <3> QED BY <2>4, <3>1, <3>2, <3>3
  <2>6. dl.dec # None => /\ dl.dec.key = "a" /\ dl.dec.idx \in 0..(IndexLimit - 1)
                         /\ Prefix(dl.out, n, m) /\ Len(dl.tail) <= Len(src)
    BY <2>5 DEF Ended
  <2>7. HandsOnAPrefix
    <3> SUFFICES ASSUME dl.dec # None PROVE \E p \in PlainOptions(dl.dec.key) : IsPrefix(dl.out, p)
      BY DEF HandsOnAPrefix
    <3>1. PICK out : out = dl.out
      OBVIOUS
    <3>2. IsPrefix(out, PlainOf(n))
      BY <2>2, <2>6, <3>1, PrefixIs
    <3>3. PlainOf(n) \in PlainOptions(dl.dec.key)
      BY <2>2, <2>6 DEF PlainOptions
    <3> QED BY <3>1, <3>2, <3>3
  <2>8. AcceptedIsWhole
    BY <2>2 DEF DlIs, AcceptedIsWhole
  <2> QED BY <2>6, <2>7, <2>8
<1> QED BY <1>1, <1>2

LEMMA BlobFine ==
    ASSUME BlobInd
    PROVE  BlobInv
<1>1. BlobTypeOK
  BY DownloadFine, UploadFine DEF BlobTypeOK, BlobInd, DlInd
<1> QED BY <1>1, DownloadFine, UploadFine DEF BlobInv, BlobInd

LEMMA BlobStarts ==
    ASSUME BlobInit
    PROVE  BlobInd
<1>1. DlInd
  <2>1. Len(<<>>) = 0 /\ 0 \in 0..0 /\ 0 \in 0..3
    OBVIOUS
  <2>2. IsFlow(Idle) /\ Idle.st = "idle"
    BY DEF IsFlow, Idle
  <2>3. dl = Idle /\ junk = 0 /\ pos = 0 /\ src = <<>>
    BY DEF BlobInit
  <2> QED BY <2>1, <2>2, <2>3 DEF DlInd
<1>2. UpInd
  <2>1. up = UpIdle
    BY DEF BlobInit
  <2>2. IsUp(UpIdle) /\ UpIdle.st = "idle" /\ UpIdle.idx = 0 /\ UpIdle.last = FALSE /\ UpIdle.sealed = <<>>
    BY DEF UpIdle, IsUp, UpOf
  <2>3. Numbers(0) = <<>>
    BY DEF Numbers
  <2>4. 0 \in 0..(IndexLimit - 1)
    BY BlobAssumption
  <2> QED BY <2>1, <2>2, <2>3, <2>4 DEF UpInd, UpIs
<1> QED BY <1>1, <1>2 DEF BlobInd

LEMMA ReaderRests ==
    ASSUME DlInd, UNCHANGED <<src, junk, pos, dl>>
    PROVE  DlInd'
<1>1. Underway => Underway'
  BY DEF Underway
<1> QED BY <1>1 DEF DlInd

LEMMA UploadRests ==
    ASSUME UpInd, UNCHANGED up
    PROVE  UpInd'
BY DEF UpInd

LEMMA BlobSteps ==
    ASSUME BlobInd, [BlobNext]_blobVars
    PROVE  BlobInd'
<1>0. DlInd /\ UpInd
  BY DEF BlobInd
<1>1. ASSUME NEW n \in FileSizes, NEW page \in BOOLEAN, NEW s \in Aligned(n), DlOpen(s, 0, page)
      PROVE  BlobInd'
  <2>1. DlInd'
    BY <1>0, <1>1, DlOpenKeeps
  <2>2. UpInd'
    BY <1>0, <1>1, UploadRests DEF DlOpen
  <2> QED BY <2>1, <2>2 DEF BlobInd
<1>2. ASSUME NEW n \in FileSizes, NEW g \in 0..3, NEW page \in BOOLEAN, NEW s \in Misread(n), DlOpen(s, g, page)
      PROVE  BlobInd'
  <2>1. DlInd'
    BY <1>0, <1>2, DlOpenKeeps
  <2>2. UpInd'
    BY <1>0, <1>2, UploadRests DEF DlOpen
  <2> QED BY <2>1, <2>2 DEF BlobInd
<1>3. ASSUME NEW n \in 1..(Len(src) - pos), DlPush(n) \/ PageHeader(n) \/ PagePush(n)
      PROVE  BlobInd'
  <2>1. DlInd'
    BY <1>0, <1>3, DlPushKeeps, PageHeaderKeeps, PagePushKeeps
  <2>2. UNCHANGED up
    BY <1>3 DEF DlPush, PageHeader, PagePush
  <2> QED BY <1>0, <2>1, <2>2, UploadRests DEF BlobInd
<1>4. CASE DlFinalize \/ PageEnd
  <2>1. DlInd'
    BY <1>0, <1>4, DlFinalizeKeeps, PageEndKeeps
  <2>2. UNCHANGED up
    BY <1>4 DEF DlFinalize, PageEnd
  <2> QED BY <1>0, <2>1, <2>2, UploadRests DEF BlobInd
<1>5. ASSUME NEW n \in FileSizes, UpOpen(n) PROVE BlobInd'
  <2>1. UpInd'
    BY <1>0, <1>5, UpOpenKeeps
  <2>2. DlInd'
    BY <1>0, <1>5, ReaderRests DEF UpOpen
  <2> QED BY <2>1, <2>2 DEF BlobInd
<1>6. ASSUME NEW n \in 0..Chunk, NEW last \in BOOLEAN, UpPush(n, last) PROVE BlobInd'
  <2>1. UpInd'
    BY <1>0, <1>6, UpPushKeeps
  <2>2. DlInd'
    BY <1>0, <1>6, ReaderRests DEF UpPush
  <2> QED BY <2>1, <2>2 DEF BlobInd
<1>7. CASE UpFinalize
  <2>1. UpInd'
    BY <1>0, <1>7, UpFinalizeKeeps
  <2>2. DlInd'
    BY <1>0, <1>7, ReaderRests DEF UpFinalize
  <2> QED BY <2>1, <2>2 DEF BlobInd
<1>8. CASE UNCHANGED blobVars
  BY <1>0, <1>8, ReaderRests, UploadRests DEF blobVars, BlobInd
<1> QED BY <1>1, <1>2, <1>3, <1>4, <1>5, <1>6, <1>7, <1>8 DEF BlobNext

\* For every chunk size, index limit and file size: however the delivered blob was cut, damaged,
\* reordered or torn between two versions, and in whatever fragments it came, the download flow
\* and the recipient's page hand on only a beginning of the stored file and accept only the whole
\* of it (V7StreamDecryptor, V7ShareDecryptor, FooterTrimmer, ByoDownloadFlow), and what the
\* upload flow finalizes opens to what was pushed, has the promised length and uses no nonce
\* twice (ByoUploadFlow, V7StreamEncryptor).
THEOREM StreamsHold == BlobSpec => []BlobInv
<1>1. BlobInit => BlobInd
  BY BlobStarts
<1>2. BlobInd /\ [BlobNext]_blobVars => BlobInd'
  BY BlobSteps
<1>3. BlobInd => BlobInv
  BY BlobFine
<1> QED BY <1>1, <1>2, <1>3, PTL DEF BlobSpec
=============================================================================
