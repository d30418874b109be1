-------------------------------- MODULE Loops --------------------------------
(***************************************************************************)
(* Induction, for the proofs about what the code computes in a loop: the   *)
(* state after each round is a function of the round.  That the function   *)
(* exists, and what it is after the last round, is proved by induction;    *)
(* the principle is stated for sets of numbers, of which a predicate is an *)
(* instance.                                                               *)
(***************************************************************************)
EXTENDS Naturals, WellFoundedInduction, TLAPS

\* The numbers are well ordered.
LEMMA LeastNumber ==
    ASSUME NEW S \in SUBSET Nat, S # {}
    PROVE  \E n \in S : \A m \in S : n <= m
<1>1. PICK n \in S : \A m \in S : ~ (<<m, n>> \in OpToRel(<, Nat))
  BY NatLessThanWellFounded, WFMin
<1>2. \A m \in S : m \in Nat /\ n \in Nat /\ ~(m < n)
  BY <1>1 DEF OpToRel
<1>3. \A m \in S : n <= m
  BY <1>2
<1> QED BY <1>3

\* Induction over the numbers, with the predicate as the set of which it is true.
LEMMA SetInduction ==
    ASSUME NEW P \in SUBSET Nat, 0 \in P, \A n \in P : n + 1 \in P
    PROVE  P = Nat
<1> SUFFICES ASSUME P # Nat PROVE FALSE
  OBVIOUS
<1>1. PICK n \in Nat \ P : \A m \in Nat \ P : n <= m
  BY LeastNumber
<1>2. n # 0 /\ n - 1 \in Nat /\ n - 1 \in P
  BY <1>1
<1>3. n \in P
  BY <1>2
<1> QED BY <1>1, <1>3

\* A loop of N rounds over states in S, of which round i does g[i], has a run.
Rounds(S, N) == [1..N -> [S -> S]]
IsRun(f, S, b, N, g) == f \in [0..N -> S] /\ f[0] = b /\ \A i \in 1..N : f[i] = g[i][f[i - 1]]
LEMMA Iterates ==
    ASSUME NEW S, NEW b \in S, NEW N \in Nat, NEW g \in Rounds(S, N)
    PROVE  \E f : IsRun(f, S, b, N, g)
<1> USE DEF Rounds, IsRun
<1> DEFINE Run(f, n) == f \in [0..n -> S] /\ f[0] = b /\ \A i \in 1..n : f[i] = g[i][f[i - 1]]
           P == {n \in Nat : n <= N => \E f : Run(f, n)}
<1>1. 0 \in P
  <2>1. Run([i \in 0..0 |-> b], 0)
    OBVIOUS
  <2> QED BY <2>1
<1>2. ASSUME NEW n \in P PROVE n + 1 \in P
  <2> SUFFICES ASSUME n + 1 <= N PROVE \E f : Run(f, n + 1)
    OBVIOUS
  <2>0. n \in Nat /\ n <= N
    OBVIOUS
  <2>1. PICK f : Run(f, n)
    BY <2>0
  <2>2. PICK h : h = [i \in 0..n + 1 |-> IF i = n + 1 THEN g[n + 1][f[n]] ELSE f[i]]
    OBVIOUS
  <2>3. g[n + 1][f[n]] \in S
    BY <2>0, <2>1
  <2>4. h \in [0..n + 1 -> S]
    BY <2>0, <2>1, <2>2, <2>3
  <2>5. ASSUME NEW i \in 1..n + 1 PROVE h[i] = g[i][h[i - 1]]
    BY <2>0, <2>1, <2>2
  <2>6. h[0] = b
    BY <2>0, <2>1, <2>2
  <2> QED BY <2>4, <2>5, <2>6
<1>3. P = Nat
  <2> HIDE DEF P
  <2>1. P \in SUBSET Nat
    BY DEF P
  <2> QED BY <1>1, <1>2, <2>1, SetInduction
<1> QED BY <1>3
=============================================================================
