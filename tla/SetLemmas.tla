------------------------------- MODULE SetLemmas -------------------------------
(* What the proofs need of finite sets and of folds over them.  A fold is a recursive     *)
(* function on the subsets of a set; what it computes follows from a least subset for     *)
(* which it does not.                                                                     *)
EXTENDS Integers, FiniteSets, FiniteSetsExt, FiniteSetTheorems, TLAPS

\* A family of subsets of a finite set has a least member.
FamilyOf(T, S) == T \subseteq SUBSET S /\ T # {}
LeastOf(x, T) == x \in T /\ \A y \in T : y \subseteq x => y = x

LEMMA LeastSubset ==
  ASSUME NEW S, IsFiniteSet(S), NEW T, FamilyOf(T, S)
  PROVE  \E x : LeastOf(x, T)
  <1>1. IsWellFoundedOn(StrictSubsetOrdering(S), SUBSET S)
    <2>1. FiniteSubsetsOf(S) = SUBSET S
      BY FS_FiniteSubsetsOfFinite
    <2> QED BY <2>1, FS_StrictSubsetOrderingWellFounded
  <1>2. \E x \in T : \A y \in T : ~ (<<y, x>> \in StrictSubsetOrdering(S))
    BY <1>1, WFMin DEF FamilyOf
  <1> QED BY <1>2 DEF StrictSubsetOrdering, FamilyOf, LeastOf

\* A finite set of numbers has a greatest member.
LEMMA Greatest ==
  ASSUME NEW S, IsFiniteSet(S), S \subseteq Nat, S # {}
  PROVE  \E m \in S : \A c \in S : c <= m
  <1> DEFINE Above(b) == {c \in S : b <= c}
             Fam == {Above(b) : b \in S}
  <1>0. FamilyOf(Fam, S) /\ \A b \in S : Above(b) \in Fam
    BY DEF FamilyOf
  <1>1. PICK x : LeastOf(x, Fam)
    <2> HIDE DEF Fam
    <2> QED BY <1>0, LeastSubset
  <1>2. PICK m \in S : x = Above(m)
    BY <1>1 DEF LeastOf
  <1>3. ASSUME NEW c \in S, ~(c <= m) PROVE FALSE
    <2>1. c \in Nat /\ m \in Nat /\ m <= c
      BY <1>3
    <2>2. \A d \in S : d \in Nat /\ (c <= d => m <= d)
      BY <1>3, <2>1
    <2>3. Above(c) \subseteq Above(m)
      BY <2>2
    <2>4. m \in Above(m) /\ m \notin Above(c)
      BY <1>3, <2>1
    <2>5. Above(c) \in Fam
      BY <1>0
    <2> HIDE DEF Fam, Above
    <2> QED BY <1>1, <1>2, <2>3, <2>4, <2>5 DEF LeastOf
  <1> QED BY <1>3

LEMMA MaxIsGreatest ==
  ASSUME NEW S, IsFiniteSet(S), S \subseteq Nat, S # {}
  PROVE  Max(S) \in S /\ \A c \in S : c <= Max(S)
  <1>1. PICK m \in S : \A c \in S : c <= m
    BY Greatest
  <1>2. \E x \in S : \A y \in S : x >= y
    BY <1>1
  <1>3. Max(S) \in S /\ \A y \in S : Max(S) >= y
    BY <1>2 DEF Max
  <1> QED BY <1>3

LEMMA Lowest ==
  ASSUME NEW N \in Nat, NEW S, S \subseteq 0 .. N, S # {}
  PROVE  \E m \in S : \A c \in S : m <= c
  <1> DEFINE T == {N - c : c \in S}
  <1>1. T \subseteq 0 .. N /\ T # {}
    <2>1. \A c \in 0 .. N : N - c \in 0 .. N
      OBVIOUS
    <2> QED BY <2>1
  <1>2. IsFiniteSet(T) /\ T \subseteq Nat
    <2>1. IsFiniteSet(0 .. N)
      BY FS_Interval
    <2> QED BY <1>1, <2>1, FS_Subset
  <1>3. PICK g \in T : \A c \in T : c <= g
    <2> HIDE DEF T
    <2> QED BY <1>1, <1>2, Greatest
  <1>4. PICK m \in S : g = N - m
    BY <1>3
  <1>5. ASSUME NEW c \in S PROVE m <= c
    <2>1. N - c \in T /\ c \in 0 .. N /\ m \in 0 .. N
      BY <1>5
    <2>2. N - c <= N - m
      BY <1>3, <1>4, <2>1
    <2> QED BY <2>1, <2>2
  <1> QED BY <1>5

\* A set whose members are equal.
LEMMA OneAtMost ==
  ASSUME NEW S, \A a, b \in S : a = b
  PROVE  Cardinality(S) <= 1
  <1>1. CASE S = {}
    BY <1>1, FS_EmptySet
  <1>2. CASE S # {}
    <2>1. PICK a : a \in S
      BY <1>2
    <2>2. S = {a}
      BY <2>1
    <2> QED BY <2>2, FS_Singleton
  <1> QED BY <1>1, <1>2

(* Folds from the greatest number down *)

Folded(it, D, b, f) == \A s \in SUBSET D : it[s] = IF s = {} THEN b ELSE f[<<Max(s), it[s \ {Max(s)}]>>]

\* There is a function that unrolls as a fold does.
LEMMA FoldExists ==
  ASSUME NEW D, IsFiniteSet(D), D \subseteq Nat, NEW V, NEW b \in V, NEW f \in [D \X V -> V]
  PROVE  \E it \in [SUBSET D -> V] : Folded(it, D, b, f)
  <1> DEFINE Has(T) == \E it \in [SUBSET T -> V] : Folded(it, T, b, f)
             Fam == {T \in SUBSET D : ~Has(T)}
  <1> SUFFICES ASSUME Fam # {} PROVE FALSE
    OBVIOUS
  <1>1. PICK T : LeastOf(T, Fam)
    <2>1. FamilyOf(Fam, D)
      BY DEF FamilyOf
    <2> HIDE DEF Fam
    <2> QED BY <2>1, LeastSubset
  <1>2. T \in SUBSET D /\ ~Has(T)
    BY <1>1 DEF LeastOf
  <1>3. ASSUME NEW s \in SUBSET D, s # {} PROVE Max(s) \in s /\ \A c \in s : c <= Max(s)
    <2>1. IsFiniteSet(s) /\ s \subseteq Nat
      BY FS_Subset
    <2> QED BY <1>3, <2>1, MaxIsGreatest
  <1>4. CASE T = {}
    <2>1. [s \in SUBSET T |-> b] \in [SUBSET T -> V] /\ Folded([s \in SUBSET T |-> b], T, b, f)
      BY <1>4 DEF Folded
    <2> QED BY <1>2, <2>1
  <1>5. CASE T # {}
    <2>1. PICK m : m = Max(T)
      OBVIOUS
    <2>2. m \in T /\ (\A c \in T : c <= m) /\ T \subseteq Nat
      BY <1>2, <1>3, <1>5, <2>1
    <2>3. PICK R : R = T \ {m}
      OBVIOUS
    <2>4. R \in SUBSET D /\ R # T /\ R \subseteq T
      BY <1>2, <2>2, <2>3
    <2>5. Has(R)
      BY <1>1, <2>4 DEF LeastOf
    <2>6. PICK g \in [SUBSET R -> V] : Folded(g, R, b, f)
      BY <2>5
    <2> DEFINE it == [s \in SUBSET T |-> IF m \in s THEN f[<<m, g[s \ {m}]>>] ELSE g[s]]
    <2>7. ASSUME NEW s \in SUBSET T
          PROVE  it[s] \in V /\ it[s] = IF s = {} THEN b ELSE f[<<Max(s), it[s \ {Max(s)}]>>]
      <3>1. CASE m \in s
        <4>1. s \in SUBSET D /\ s # {} /\ s \ {m} \in SUBSET R /\ s \ {m} \in SUBSET T /\ m \notin s \ {m}
          BY <1>2, <2>3, <3>1
        <4>2. Max(s) = m
          <5>1. Max(s) \in s /\ m <= Max(s)
            BY <1>3, <3>1, <4>1
          <5>2. Max(s) <= m /\ Max(s) \in Nat /\ m \in Nat
            BY <2>2, <5>1
          <5> QED BY <5>1, <5>2
        <4>3. it[s \ {m}] = g[s \ {m}] /\ it[s] = f[<<m, g[s \ {m}]>>] /\ g[s \ {m}] \in V
          BY <3>1, <4>1
        <4>4. f[<<m, g[s \ {m}]>>] \in V
          BY <1>2, <2>2, <4>3
        <4> QED BY <4>1, <4>2, <4>3, <4>4
      <3>2. CASE m \notin s
        <4>1. s \in SUBSET R /\ s \in SUBSET D
          BY <1>2, <2>3, <3>2
        <4>2. it[s] = g[s] /\ g[s] \in V
          BY <3>2, <4>1
        <4>3. g[s] = IF s = {} THEN b ELSE f[<<Max(s), g[s \ {Max(s)}]>>]
          BY <2>6, <4>1 DEF Folded
        <4>4. s # {} => it[s \ {Max(s)}] = g[s \ {Max(s)}]
          <5>1. s \ {Max(s)} \in SUBSET T /\ m \notin s \ {Max(s)}
            BY <3>2
          <5> QED BY <5>1
        <4> HIDE DEF it
        <4> QED BY <4>2, <4>3, <4>4
      <3> QED BY <3>1, <3>2
    <2>8. it \in [SUBSET T -> V] /\ Folded(it, T, b, f)
      <3>1. it \in [SUBSET T -> V]
        BY <2>7
      <3> HIDE DEF it
      <3> QED BY <2>7, <3>1 DEF Folded
    <2> QED BY <1>2, <2>8
  <1> QED BY <1>4, <1>5

\* What the fold starts with and every step keeps, it ends with.
LEMMA FoldKeeps ==
  ASSUME NEW D, IsFiniteSet(D), D \subseteq Nat, NEW it, NEW P, it[{}] \subseteq P,
         \A s \in SUBSET D : s # {} /\ Max(s) \in D /\ it[s \ {Max(s)}] \subseteq P => it[s] \subseteq P
  PROVE  it[D] \subseteq P
  <1> DEFINE Fam == {s \in SUBSET D : ~(it[s] \subseteq P)}
  <1> SUFFICES ASSUME Fam # {} PROVE FALSE
    OBVIOUS
  <1>1. PICK s : LeastOf(s, Fam)
    <2>1. FamilyOf(Fam, D)
      BY DEF FamilyOf
    <2> HIDE DEF Fam
    <2> QED BY <2>1, LeastSubset
  <1>2. s \in SUBSET D /\ ~(it[s] \subseteq P) /\ s # {}
    BY <1>1 DEF LeastOf
  <1>3. Max(s) \in s
    <2>1. IsFiniteSet(s) /\ s \subseteq Nat
      BY <1>2, FS_Subset
    <2> QED BY <1>2, <2>1, MaxIsGreatest
  <1>4. PICK m, r : m = Max(s) /\ r = s \ {m}
    OBVIOUS
  <1>5. r \in SUBSET D /\ r # s /\ r \subseteq s
    <2>1. m \in s /\ m \notin r
      BY <1>3, <1>4
    <2> HIDE DEF Fam
    <2> QED BY <1>2, <1>4, <2>1
  <1>6. it[r] \subseteq P
    BY <1>1, <1>5 DEF LeastOf
  <1> QED BY <1>2, <1>3, <1>4, <1>6

================================================================================
