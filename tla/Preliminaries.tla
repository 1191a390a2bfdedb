--------------------------- MODULE Preliminaries ---------------------------
(***************************************************************************)
(* Facts the proofs of several components need: induction and recursion on *)
(* natural numbers, stated of sets and functions (the theorems of the      *)
(* library say the same about predicates and operators, which no prover    *)
(* can fill in), powers of two, and the parts of sequences.                *)
(***************************************************************************)
EXTENDS Integers, FiniteSetTheorems, WellFoundedInduction, SequenceTheorems, TLAPS

\* A set that has zero and with each number the next has all of them.
LEMMA InductionOnNat ==
  ASSUME NEW S, 0 \in S, \A n \in Nat : n \in S => n + 1 \in S
  PROVE  Nat \subseteq S
<1> DEFINE Wrong == Nat \ S
<1>1. ASSUME Wrong # {} PROVE FALSE
  <2>1. PICK n \in Wrong : \A j \in Wrong : ~(<<j, n>> \in OpToRel(<, Nat))
    BY <1>1, NatLessThanWellFounded, WFMin
  <2>0. n \in Nat /\ n \notin S
    OBVIOUS
  <2>2. n \in Nat /\ n # 0 /\ n - 1 \in Nat
    BY <2>0
  <2>3. <<n - 1, n>> \in OpToRel(<, Nat)
    BY <2>2 DEF OpToRel
  <2>4. n - 1 \in S
    BY <2>1, <2>2, <2>3
  <2>5. (n - 1) + 1 \in S
    BY <2>2, <2>4
  <2>6. (n - 1) + 1 = n
    BY <2>2
  <2> QED BY <2>0, <2>5, <2>6
<1> QED BY <1>1

\* The same up to a limit.
LEMMA InductionUpTo ==
  ASSUME NEW m \in Nat, NEW S, 0 \in S, \A n \in 0..(m - 1) : n \in S => n + 1 \in S
  PROVE  0..m \subseteq S
<1> DEFINE T == {n \in Nat : n =< m => n \in S}
<1>1. 0 \in T
  OBVIOUS
<1>2. \A n \in Nat : n \in T => n + 1 \in T
  OBVIOUS
<1>3. Nat \subseteq T
  <2> HIDE DEF T
  <2> QED BY <1>1, <1>2, InductionOnNat
<1> QED BY <1>3

\* The function with a first value, and with each value a step from the one before.
Unfolds(f, D, base, step) ==
    f \in [Nat -> D] /\ f[0] = base /\ \A n \in Nat : f[n + 1] = step[n][f[n]]

\* A function may be defined by its first value and a step.
LEMMA RecursionOnNat ==
  ASSUME NEW D, NEW base \in D, NEW step \in [Nat -> [D -> D]]
  PROVE  \E f : Unfolds(f, D, base, step)
<1> DEFINE Part(n, g) == /\ g \in [0..n -> D] /\ g[0] = base
                         /\ \A k \in 0..(n - 1) : g[k + 1] = step[k][g[k]]
           S == {n \in Nat : \E g : Part(n, g)}
           G == [n \in Nat |-> CHOOSE g : Part(n, g)]
           F == [n \in Nat |-> G[n][n]]
<1>1. 0 \in S
  <2>1. Part(0, [k \in 0..0 |-> base])
    OBVIOUS
  <2> QED BY <2>1
<1>2. \A n \in Nat : n \in S => n + 1 \in S
  <2> SUFFICES ASSUME NEW n \in Nat, NEW g, Part(n, g) PROVE \E h : Part(n + 1, h)
    <3> HIDE DEF Part
    <3> QED OBVIOUS
  <2> DEFINE h == [k \in 0..(n + 1) |-> IF k =< n THEN g[k] ELSE step[n][g[n]]]
  <2>1. g[n] \in D
    OBVIOUS
  <2>2. step[n][g[n]] \in D
    BY <2>1
  <2>3. h \in [0..(n + 1) -> D] /\ h[0] = base
    BY <2>2
  <2>4. ASSUME NEW k \in 0..n PROVE h[k + 1] = step[k][h[k]]
    <3>1. CASE k < n
      <4>1. k \in 0..(n - 1) /\ k + 1 =< n /\ k + 1 \in 0..(n + 1) /\ k \in 0..(n + 1)
        BY <3>1
      <4>2. h[k + 1] = g[k + 1] /\ h[k] = g[k]
        BY <4>1
      <4> QED BY <4>1, <4>2
    <3>2. CASE k = n
      <4>1. n \in 0..(n + 1) /\ n + 1 \in 0..(n + 1) /\ ~(n + 1 =< n)
        OBVIOUS
      <4>2. h[n + 1] = step[n][g[n]] /\ h[n] = g[n]
        BY <4>1
      <4> QED BY <3>2, <4>2
    <3> QED BY <3>1, <3>2
  <2>5. Part(n + 1, h)
    <3>1. (n + 1) - 1 = n
      OBVIOUS
    <3> HIDE DEF h
    <3> QED BY <2>3, <2>4, <3>1
  <2> QED BY <2>5
<1>3. Nat \subseteq S
  <2> HIDE DEF S
  <2> QED BY <1>1, <1>2, InductionOnNat
<1>4. \A n \in Nat : Part(n, G[n])
  <2> SUFFICES ASSUME NEW n \in Nat PROVE Part(n, G[n])
    OBVIOUS
  <2>1. \E g : Part(n, g)
    BY <1>3
  <2>2. G[n] = CHOOSE g : Part(n, g)
    OBVIOUS
  <2> QED
    <3> HIDE DEF Part, G
    <3> QED BY <2>1, <2>2
<1>5. \A n \in Nat : \A k \in 0..n : G[n + 1][k] = G[n][k]
  <2> SUFFICES ASSUME NEW n \in Nat PROVE \A k \in 0..n : G[n + 1][k] = G[n][k]
    OBVIOUS
  <2> DEFINE T == {k \in 0..n : G[n + 1][k] = G[n][k]}
  <2>1. Part(n, G[n]) /\ Part(n + 1, G[n + 1])
    <3>1. n + 1 \in Nat
      OBVIOUS
    <3> HIDE DEF Part, G
    <3> QED BY <1>4, <3>1
  <2>2. 0 \in T
    <3>1. G[n + 1][0] = base /\ G[n][0] = base
      <4> HIDE DEF G
      <4> QED BY <2>1
    <3> QED BY <3>1
  <2>3. ASSUME NEW k \in 0..(n - 1), k \in T PROVE k + 1 \in T
    <3> HIDE DEF G
    <3>1. G[n + 1][k + 1] = step[k][G[n + 1][k]]
      BY <2>1, <2>3
    <3>2. G[n][k + 1] = step[k][G[n][k]]
      BY <2>1, <2>3
    <3> QED BY <2>3, <3>1, <3>2
  <2>4. 0..n \subseteq T
    <3> HIDE DEF T
    <3> QED BY <2>2, <2>3, InductionUpTo
  <2> QED BY <2>4
<1>6. F \in [Nat -> D] /\ F[0] = base
  <2>1. \A n \in Nat : G[n][n] \in D
    <3> HIDE DEF G
    <3> QED BY <1>4
  <2>2. G[0][0] = base
    <3> HIDE DEF G
    <3> QED BY <1>4
  <2> HIDE DEF G
  <2> QED BY <2>1, <2>2
<1>7. ASSUME NEW n \in Nat PROVE F[n + 1] = step[n][F[n]]
  <2>0. n + 1 \in Nat /\ n \in 0..n /\ n \in 0..((n + 1) - 1)
    OBVIOUS
  <2>1. Part(n + 1, G[n + 1])
    <3> HIDE DEF Part, G
    <3> QED BY <1>4, <2>0
  <2>2. G[n + 1][n] = G[n][n]
    <3> HIDE DEF G
    <3> QED BY <1>5, <2>0
  <2>3. F[n + 1] = G[n + 1][n + 1] /\ F[n] = G[n][n]
    OBVIOUS
  <2>4. G[n + 1][n + 1] = step[n][G[n + 1][n]]
    <3> HIDE DEF G
    <3> QED BY <2>0, <2>1
  <2> QED BY <2>2, <2>3, <2>4
<1>8. Unfolds(F, D, base, step)
  <2> HIDE DEF F
  <2> QED BY <1>6, <1>7 DEF Unfolds
<1> QED BY <1>8

\* A power of two is twice the one before.
LEMMA PowersOfTwo ==
  ASSUME NEW k \in Nat
  PROVE  2^k \in Nat /\ 2^k > 0 /\ 2^(k + 1) = 2 * 2^k
<1> DEFINE S(n) == 1..n
           More == {T \cup {k + 1} : T \in SUBSET S(k)}
           f == [T \in SUBSET S(k) |-> T \cup {k + 1}]
<1>1. \A n \in Nat : IsFiniteSet(S(n)) /\ Cardinality(S(n)) = n
  BY FS_Interval
<1>2. \A n \in Nat : IsFiniteSet(SUBSET S(n)) /\ Cardinality(SUBSET S(n)) = 2^n
  <2> SUFFICES ASSUME NEW n \in Nat PROVE IsFiniteSet(SUBSET S(n)) /\ Cardinality(SUBSET S(n)) = 2^n
    OBVIOUS
  <2> QED BY <1>1, FS_SUBSET
<1>3. \A n \in Nat : 2^n \in Nat
  <2> HIDE DEF S
  <2> QED BY <1>2, FS_CardinalityType
<1>4. 2^k # 0
  <2>1. SUBSET S(k) # {}
    OBVIOUS
  <2> QED
    <3> HIDE DEF S
    <3> QED BY <1>2, <2>1, FS_EmptySet
<1>5. SUBSET S(k + 1) = (SUBSET S(k)) \cup More
  <2>1. ASSUME NEW T \in SUBSET S(k + 1) PROVE T \in (SUBSET S(k)) \cup More
    <3>1. CASE k + 1 \in T
      <4>1. T \ {k + 1} \in SUBSET S(k)
        OBVIOUS
      <4>2. T = (T \ {k + 1}) \cup {k + 1}
        BY <3>1
      <4> QED BY <4>1, <4>2
    <3>2. CASE k + 1 \notin T
      <4>1. T \in SUBSET S(k)
        BY <3>2
      <4> QED BY <4>1
    <3> QED BY <3>1, <3>2
  <2>2. ASSUME NEW T \in (SUBSET S(k)) \cup More PROVE T \in SUBSET S(k + 1)
    OBVIOUS
  <2> QED BY <2>1, <2>2
<1>6. (SUBSET S(k)) \cap More = {}
  <2>1. k + 1 \notin S(k)
    OBVIOUS
  <2> QED BY <2>1
<1>7. f \in Bijection(SUBSET S(k), More)
  <2>1. f \in [SUBSET S(k) -> More]
    OBVIOUS
  <2>2. ASSUME NEW T \in SUBSET S(k), NEW U \in SUBSET S(k), f[T] = f[U] PROVE T = U
    <3>1. k + 1 \notin T /\ k + 1 \notin U
      OBVIOUS
    <3>2. T \cup {k + 1} = U \cup {k + 1}
      BY <2>2
    <3> QED BY <3>1, <3>2
  <2>3. \A y \in More : \E T \in SUBSET S(k) : f[T] = y
    OBVIOUS
  <2> HIDE DEF f, More, S
  <2> HIDE DEF f, More, S
  <2>4. f \in Injection(SUBSET S(k), More)
    BY <2>1, <2>2 DEF Injection, IsInjective
  <2>5. f \in Surjection(SUBSET S(k), More)
    BY <2>1, <2>3 DEF Surjection
  <2> QED BY <2>4, <2>5 DEF Bijection
<1>8. IsFiniteSet(More) /\ Cardinality(More) = 2^k
  <2> HIDE DEF More, f, S
  <2>1. IsFiniteSet(SUBSET S(k)) /\ Cardinality(SUBSET S(k)) = 2^k
    BY <1>2
  <2>2. ExistsBijection(SUBSET S(k), More)
    BY <1>7 DEF ExistsBijection
  <2> QED BY <2>1, <2>2, FS_Bijection
<1>9. Cardinality(SUBSET S(k + 1)) = Cardinality(SUBSET S(k)) + Cardinality(More) - Cardinality((SUBSET S(k)) \cap More)
  <2> HIDE DEF More, S
  <2> QED BY <1>2, <1>5, <1>8, FS_Union
<1>10. 2^(k + 1) = 2^k + 2^k
  <2>1. Cardinality((SUBSET S(k)) \cap More) = 0
    BY <1>6, FS_EmptySet
  <2>2. k + 1 \in Nat
    OBVIOUS
  <2> HIDE DEF S, More
  <2>3. Cardinality(SUBSET S(k)) = 2^k /\ Cardinality(SUBSET S(k + 1)) = 2^(k + 1)
    BY <1>2, <2>2
  <2>4. 2^k \in Nat
    BY <1>3
  <2>5. Cardinality(More) = 2^k
    BY <1>8
  <2> QED BY <1>9, <2>1, <2>3, <2>4, <2>5
<1> QED
  <2> HIDE DEF S, More, f
  <2>1. 2^k \in Nat
    BY <1>3
  <2> QED BY <2>1, <1>4, <1>10

(***************************************************************************)
(* Sequences.                                                              *)
(***************************************************************************)

\* The first elements of a sequence.
LEMMA FirstElements ==
  ASSUME NEW S, NEW s \in Seq(S), NEW n \in 0..Len(s)
  PROVE  /\ SubSeq(s, 1, n) \in Seq(S)
         /\ Len(SubSeq(s, 1, n)) = n
         /\ \A k \in 1..n : SubSeq(s, 1, n)[k] = s[k]
<1>1. Len(s) \in Nat /\ n \in Int /\ 1 \in Int /\ n - 1 + 1 = n
  BY LenProperties
<1>2. \A k \in 1..n : s[k] \in S
  <2>1. ASSUME NEW k \in 1..n PROVE s[k] \in S
    <3>1. k \in 1..Len(s)
      BY <1>1
    <3> QED BY <3>1, ElementOfSeq
  <2> QED BY <2>1
<1> DEFINE a == SubSeq(s, 1, n)
<1>3. /\ a \in Seq(S)
      /\ Len(a) = IF 1 <= n THEN n - 1 + 1 ELSE 0
      /\ \A k \in 1..(n - 1 + 1) : a[k] = s[1 + k - 1]
  BY <1>1, <1>2, SubSeqProperties
<1> HIDE DEF a
<1>4. ASSUME NEW k \in 1..n PROVE a[k] = s[k]
  <2>1. k \in 1..(n - 1 + 1) /\ 1 + k - 1 = k
    BY <1>1
  <2> QED BY <1>3, <2>1
<1>5. Len(a) = n
  BY <1>1, <1>3
<1> QED BY <1>3, <1>4, <1>5 DEF a

\* Sequences that agree as far begin alike.
LEMMA SamePrefix ==
  ASSUME NEW S, NEW s \in Seq(S), NEW t \in Seq(S), NEW n \in Nat, n =< Len(s), n =< Len(t),
         \A k \in 1..n : s[k] = t[k]
  PROVE  SubSeq(s, 1, n) = SubSeq(t, 1, n)
<1>1. n \in 0..Len(s) /\ n \in 0..Len(t)
  BY LenProperties
<1> DEFINE a == SubSeq(s, 1, n)
           b == SubSeq(t, 1, n)
<1>2. a \in Seq(S) /\ Len(a) = n /\ \A k \in 1..n : a[k] = s[k]
  BY <1>1, FirstElements
<1>3. b \in Seq(S) /\ Len(b) = n /\ \A k \in 1..n : b[k] = t[k]
  BY <1>1, FirstElements
<1> HIDE DEF a, b
<1>4. a = b
  BY <1>2, <1>3, SeqEqual
<1> QED BY <1>4 DEF a, b

\* One sequence behind another.
LEMMA Joined ==
  ASSUME NEW S, NEW s \in Seq(S), NEW t \in Seq(S)
  PROVE  /\ s \o t \in Seq(S)
         /\ Len(s \o t) = Len(s) + Len(t)
         /\ \A k \in 1..Len(s) : (s \o t)[k] = s[k]
         /\ \A k \in 1..Len(t) : (s \o t)[Len(s) + k] = t[k]
<1>1. Len(s) \in Nat /\ Len(t) \in Nat
  BY LenProperties
<1> DEFINE c == s \o t
<1>2. /\ c \in Seq(S) /\ Len(c) = Len(s) + Len(t)
      /\ \A k \in 1..(Len(s) + Len(t)) : c[k] = IF k =< Len(s) THEN s[k] ELSE t[k - Len(s)]
  BY ConcatProperties
<1> HIDE DEF c
<1>3. ASSUME NEW k \in 1..Len(s) PROVE c[k] = s[k]
  BY <1>1, <1>2
<1>4. ASSUME NEW k \in 1..Len(t) PROVE c[Len(s) + k] = t[k]
  <2>1. Len(s) + k \in 1..(Len(s) + Len(t)) /\ ~(Len(s) + k =< Len(s)) /\ (Len(s) + k) - Len(s) = k
    BY <1>1
  <2> QED BY <1>2, <2>1
<1> QED BY <1>2, <1>3, <1>4 DEF c

=============================================================================
