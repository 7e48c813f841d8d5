--------------------------- MODULE NaturalMinimum ---------------------------
(***************************************************************************)
(* Lemmas that the proofs of several components need: a set of naturals    *)
(* has a least element, and what follows from it.                          *)
(***************************************************************************)
EXTENDS Integers, FiniteSets, FiniteSetTheorems, WellFoundedInduction, TLAPS

(* The numbers of S up to n.                                               *)
UpTo(S, n) == {m \in S : m <= n}

LEMMA UpToFinite ==
    ASSUME NEW S \in SUBSET Nat, NEW n \in Nat
    PROVE  UpTo(S, n) \in FiniteSubsetsOf(Nat)
<1>1. IsFiniteSet(UpTo(S, n))
  BY FS_BoundedSetOfNaturals DEF UpTo
<1> QED
  BY <1>1 DEF FiniteSubsetsOf, UpTo

(* Strict inclusion of the sets UpTo(S, n) is well founded, and is the     *)
(* order of the numbers.                                                   *)
LEMMA LeastNatural ==
    ASSUME NEW S \in SUBSET Nat, S # {}
    PROVE  \E m \in S : \A n \in S : m <= n
<1> DEFINE T == {UpTo(S, n) : n \in S}
           R == StrictSubsetOrdering(Nat)
<1>1. IsWellFoundedOn(R, FiniteSubsetsOf(Nat))
  BY FS_StrictSubsetOrderingWellFounded
<1>2. T \subseteq FiniteSubsetsOf(Nat) /\ T # {}
  BY UpToFinite
<1>3. PICK x \in T : \A y \in T : ~(<<y, x>> \in R)
  <2> HIDE DEF T, R
  <2> QED
    BY <1>1, <1>2, WFMin
<1>4. PICK m \in S : x = UpTo(S, m)
  BY <1>3
<1>5. ASSUME NEW n \in S, n < m
      PROVE  FALSE
  <2>1. UpTo(S, n) \subseteq UpTo(S, m)
    <3>1. n \in Nat /\ m \in Nat /\ n < m
      BY <1>5
    <3>2. \A k \in S : k \in Nat /\ (k <= n => k <= m)
      BY <3>1
    <3> HIDE DEF T, R
    <3> QED
      BY <3>2 DEF UpTo
  <2>2. m \in UpTo(S, m) /\ m \notin UpTo(S, n)
    BY <1>5 DEF UpTo
  <2>3. UpTo(S, n) \in SUBSET Nat /\ UpTo(S, m) \in SUBSET Nat
    BY DEF UpTo
  <2>4. <<UpTo(S, n), UpTo(S, m)>> \in R
    BY <2>1, <2>2, <2>3 DEF StrictSubsetOrdering
  <2> QED
    BY <1>3, <1>4, <1>5, <2>4
<1> QED
  BY <1>5

(* A key that is a natural has a least value on a set, and a greatest one  *)
(* when it is bounded.                                                     *)
LEMMA LeastKey ==
    ASSUME NEW S, S # {}, NEW f, \A i \in S : f[i] \in Nat
    PROVE  \E i \in S : \A j \in S : f[i] <= f[j]
<1> DEFINE K == {f[i] : i \in S}
<1>1. K \in SUBSET Nat /\ K # {}
  OBVIOUS
<1>2. PICK m \in K : \A n \in K : m <= n
  <2> HIDE DEF K
  <2> QED
    BY <1>1, LeastNatural
<1>3. PICK i \in S : m = f[i]
  BY <1>2
<1> QED
  BY <1>2, <1>3

LEMMA GreatestKey ==
    ASSUME NEW S, S # {}, NEW n \in Nat, NEW f, \A i \in S : f[i] \in 0..n
    PROVE  \E i \in S : \A j \in S : f[j] <= f[i]
<1> DEFINE g == [i \in S |-> n - f[i]]
<1>1. \A i \in S : g[i] \in Nat /\ g[i] = n - f[i] /\ f[i] \in 0..n
  OBVIOUS
<1> HIDE DEF g
<1>2. PICK i \in S : \A j \in S : g[i] <= g[j]
  BY <1>1, LeastKey
<1>3. \A j \in S : f[j] <= f[i]
  BY <1>1, <1>2
<1> QED
  BY <1>3

(* What holds at the start and over every step holds to the end.           *)
LEMMA StepByStep ==
    ASSUME NEW n \in Nat, NEW P, 0 \in P, \A i \in 1..n : i - 1 \in P => i \in P
    PROVE  \A i \in 0..n : i \in P
<1> SUFFICES ASSUME NEW j \in 0..n, j \notin P PROVE FALSE
  OBVIOUS
<1> DEFINE S == {i \in 0..n : i \notin P}
<1>1. S \in SUBSET Nat /\ S # {}
  OBVIOUS
<1>2. PICK m \in S : \A k \in S : m <= k
  <2> HIDE DEF S
  <2> QED
    BY <1>1, LeastNatural
<1>3. m \in 1..n /\ m - 1 \in 0..n /\ m - 1 \notin S
  BY <1>2
<1> QED
  BY <1>2, <1>3

=============================================================================
