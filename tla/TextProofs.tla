----------------------------- MODULE TextProofs -----------------------------
(***************************************************************************)
(* What the conversions of text do, proved for every text and literal.     *)
(***************************************************************************)
EXTENDS IntegerConversion, StringBuffer, Preliminaries

(***************************************************************************)
(* Integer literals.                                                       *)
(***************************************************************************)

\* The function of which Prefix(n) is a value.
PrefixFunction(s, n, f) == f = [k \in 0..n |-> IF k = 0 THEN 0 ELSE 10 * f[k - 1] + s[k]]

\* Each prefix of a literal stands for a number.
LEMMA PrefixExists ==
  ASSUME NEW s \in Seq(0..9)
  PROVE  \E f \in [Nat -> Nat] : f[0] = 0 /\ \A k \in 1..Len(s) : f[k] = 10 * f[k - 1] + s[k]
<1> DEFINE digit(k) == IF k \in 1..Len(s) THEN s[k] ELSE 0
           step == [k \in Nat |-> [x \in Nat |-> 10 * x + digit(k + 1)]]
<1>1. \A k \in Nat : digit(k) \in Nat
  OBVIOUS
<1>2. step \in [Nat -> [Nat -> Nat]]
  <2> HIDE DEF digit
  <2> QED BY <1>1, SMTT(30)
<1>3. PICK f : Unfolds(f, Nat, 0, step)
  <2> HIDE DEF step
  <2> QED BY <1>2, RecursionOnNat
<1>9. f \in [Nat -> Nat] /\ f[0] = 0 /\ \A n \in Nat : f[n + 1] = step[n][f[n]]
  <2> HIDE DEF step
  <2> QED BY <1>3 DEF Unfolds
<1>4. ASSUME NEW k \in 1..Len(s) PROVE f[k] = 10 * f[k - 1] + s[k]
  <2>1. k - 1 \in Nat /\ (k - 1) + 1 = k /\ f[k - 1] \in Nat
    BY <1>9
  <2>2. f[k] = step[k - 1][f[k - 1]]
    <3> HIDE DEF step
    <3> QED BY <1>9, <2>1
  <2>4. step[k - 1][f[k - 1]] = 10 * f[k - 1] + digit(k)
    <3> HIDE DEF digit
    <3> QED BY <2>1
  <2> QED BY <2>2, <2>4
<1> QED BY <1>9, <1>4

\* And the number of a prefix is the one before, times ten, and a digit.
LEMMA PrefixStep ==
  ASSUME digits \in Seq(0..9)
  PROVE  /\ Prefix(0) = 0
         /\ \A n \in 0..Len(digits) : Prefix(n) \in Nat
         /\ \A n \in 1..Len(digits) : Prefix(n) = 10 * Prefix(n - 1) + digits[n]
<1>1. PICK f \in [Nat -> Nat] : f[0] = 0 /\ \A k \in 1..Len(digits) : f[k] = 10 * f[k - 1] + digits[k]
  BY PrefixExists
<1>2. ASSUME NEW n \in 0..Len(digits) PROVE Prefix(n) = f[n]
  <2> DEFINE g == CHOOSE h : PrefixFunction(digits, n, h)
             S == {k \in 0..n : g[k] = f[k]}
             r == [k \in 0..n |-> f[k]]
  <2>1. PrefixFunction(digits, n, g)
    <3>1. r = [k \in 0..n |-> IF k = 0 THEN 0 ELSE 10 * r[k - 1] + digits[k]]
      <4>1. ASSUME NEW k \in 0..n PROVE f[k] = IF k = 0 THEN 0 ELSE 10 * r[k - 1] + digits[k]
        <5>1. CASE k = 0
          BY <1>1, <5>1
        <5>2. CASE k # 0
          <6>1. k \in 1..Len(digits) /\ k - 1 \in 0..n
            BY <5>2
          <6> QED BY <1>1, <5>2, <6>1
        <5> QED BY <5>1, <5>2
      <4> QED BY <4>1
    <3>2. \E h : PrefixFunction(digits, n, h)
      BY <3>1 DEF PrefixFunction
    <3> QED BY <3>2
  <2>2. g = [k \in 0..n |-> IF k = 0 THEN 0 ELSE 10 * g[k - 1] + digits[k]]
    BY <2>1 DEF PrefixFunction
  <2>3. Prefix(n) = g[n]
    BY DEF Prefix, PrefixFunction
  <2> HIDE DEF g
  <2>4. 0 \in S
    BY <1>1, <2>2
  <2>5. ASSUME NEW k \in 0..(n - 1), k \in S PROVE k + 1 \in S
    <3>1. k + 1 \in 1..Len(digits) /\ k + 1 \in 0..n /\ k + 1 # 0 /\ (k + 1) - 1 = k
      BY SMTT(30)
    <3>2. g[k + 1] = 10 * g[k] + digits[k + 1]
      BY <2>2, <3>1
    <3>3. f[k + 1] = 10 * f[k] + digits[k + 1]
      BY <1>1, <3>1
    <3> QED BY <2>5, <3>1, <3>2, <3>3
  <2>6. 0..n \subseteq S
    <3> HIDE DEF S
    <3>1. n \in Nat
      OBVIOUS
    <3> QED BY <2>4, <2>5, <3>1, InductionUpTo
  <2> QED BY <2>3, <2>6
<1>3. ASSUME NEW n \in 1..Len(digits) PROVE Prefix(n) = 10 * Prefix(n - 1) + digits[n]
  <2>1. n \in 0..Len(digits) /\ n - 1 \in 0..Len(digits)
    OBVIOUS
  <2> QED BY <1>1, <1>2, <2>1
<1>4. 0 \in 0..Len(digits)
  OBVIOUS
<1> QED BY <1>1, <1>2, <1>3, <1>4

\* A longer prefix is no smaller a number.
LEMMA PrefixesGrow ==
  ASSUME digits \in Seq(0..9), NEW n \in 0..Len(digits)
  PROVE  Prefix(n) =< Number
<1> DEFINE m == Len(digits) - n
           S == {k \in 0..m : Prefix(n) =< Prefix(n + k)}
<1>1. Prefix(n) \in Nat /\ m \in Nat
  BY PrefixStep
<1>2. 0 \in S
  BY <1>1
<1>3. ASSUME NEW k \in 0..(m - 1), k \in S PROVE k + 1 \in S
  <2>1. n + k \in 0..Len(digits) /\ n + (k + 1) \in 1..Len(digits) /\ (n + (k + 1)) - 1 = n + k
    OBVIOUS
  <2>2. Prefix(n + (k + 1)) = 10 * Prefix(n + k) + digits[n + (k + 1)]
    <3> DEFINE x == n + (k + 1)
    <3>1. Prefix(x) = 10 * Prefix(x - 1) + digits[x]
      <4>1. x \in 1..Len(digits)
        BY <2>1
      <4> HIDE DEF x
      <4> QED BY <4>1, PrefixStep
    <3>2. x - 1 = n + k
      BY <2>1
    <3> QED BY <3>1, <3>2
  <2>3. Prefix(n + k) \in Nat /\ digits[n + (k + 1)] \in Nat
    <3> DEFINE x == n + k
    <3>1. Prefix(x) \in Nat
      <4>1. x \in 0..Len(digits)
        BY <2>1
      <4> HIDE DEF x
      <4> QED BY <4>1, PrefixStep
    <3> QED BY <2>1, <3>1
  <2>4. Prefix(n) =< Prefix(n + (k + 1))
    BY <1>1, <1>3, <2>2, <2>3
  <2>5. k + 1 \in 0..m
    OBVIOUS
  <2> QED BY <2>4, <2>5
<1>4. 0..m \subseteq S
  <2> HIDE DEF S, m
  <2> QED BY <1>1, <1>2, <1>3, InductionUpTo
<1>5. m \in 0..m /\ n + m = Len(digits)
  BY <1>1
<1>6. Prefix(n) =< Prefix(n + m)
  BY <1>4, <1>5
<1> QED BY <1>5, <1>6 DEF Number

\* What the loop of integer() keeps: the value is never negative, and it is the
\* number of the digits read as long as the whole literal fits an unsigned word.
IntegerInv ==
    /\ digits \in Seq(0..9)
    /\ i \in 0..Len(digits)
    /\ value \in 0..(2^(WordBits - 1) - 1)
    /\ verdict \in {"running", "integer", "too large"}
    /\ Number < 2^WordBits => value = Prefix(i)
    /\ verdict = "integer" => i = Len(digits)
    /\ verdict = "too large" => Number >= 2^(WordBits - 1)

\* The unsigned words are twice as many as those that are not negative.
LEMMA Words ==
  /\ 2^WordBits \in Nat /\ 2^(WordBits - 1) \in Nat
  /\ 2^(WordBits - 1) > 0 /\ 2^WordBits = 2 * 2^(WordBits - 1)
<1> DEFINE k == WordBits - 1
<1>1. k \in Nat /\ k + 1 = WordBits
  BY WordAssumption
<1>2. 2^k \in Nat /\ 2^k > 0 /\ 2^(k + 1) = 2 * 2^k
  <2> HIDE DEF k
  <2> QED BY <1>1, PowersOfTwo
<1> QED BY <1>1, <1>2

\* What a word holds of a number that would fit an unsigned one, and of any.
LEMMA WrappedWords ==
  /\ \A n \in Int : Wrapped(n) \in (-2^(WordBits - 1))..(2^(WordBits - 1) - 1)
  /\ \A n \in 0..(2^WordBits - 1) :
       Wrapped(n) = IF n < 2^(WordBits - 1) THEN n ELSE n - 2^WordBits
<1> DEFINE h == 2^(WordBits - 1)
           w == 2^WordBits
<1>1. h \in Nat /\ w \in Nat /\ h > 0 /\ w = 2 * h
  BY Words
<1>2. \A n \in Int : Wrapped(n) = IF n % w >= h THEN (n % w) - w ELSE n % w
  BY DEF Wrapped
<1> HIDE DEF h, w
<1>3. \A n \in Int : n % w \in 0..(w - 1)
  BY <1>1
<1>4. \A n \in 0..(w - 1) : n % w = n
  BY <1>1
<1>5. ASSUME NEW n \in Int PROVE Wrapped(n) \in (-h)..(h - 1)
  <2> DEFINE low == n % w
  <2>1. low \in Int /\ 0 =< low /\ low < w
    BY <1>1, <1>3
  <2>2. Wrapped(n) = IF low >= h THEN low - w ELSE low
    BY <1>2
  <2> HIDE DEF low
  <2> QED BY <1>1, <2>1, <2>2
<1>6. ASSUME NEW n \in 0..(w - 1) PROVE Wrapped(n) = IF n < h THEN n ELSE n - w
  <2>1. n \in Int /\ n % w = n
    BY <1>1, <1>4
  <2>2. Wrapped(n) = IF n >= h THEN n - w ELSE n
    BY <1>2, <2>1
  <2> QED BY <1>1, <2>1, <2>2
<1> QED BY <1>5, <1>6 DEF h, w

\* One more digit.
LEMMA DigitRead ==
  ASSUME IntegerInv, verdict = "running", i < Len(digits),
         NEW new, new = Wrapped(10 * value + digits[i + 1])
  PROVE  /\ new \in (-2^(WordBits - 1))..(2^(WordBits - 1) - 1)
         /\ Number < 2^WordBits /\ new >= value => new = Prefix(i + 1)
         /\ new < value => Number >= 2^(WordBits - 1)
<1> DEFINE h == 2^(WordBits - 1)
           w == 2^WordBits
           n == 10 * value + digits[i + 1]
<1>1. h \in Nat /\ w \in Nat /\ h > 0 /\ w = 2 * h
  BY Words
<1>2. /\ digits \in Seq(0..9) /\ i \in Nat /\ i + 1 \in 1..Len(digits) /\ (i + 1) - 1 = i
      /\ value \in 0..(h - 1) /\ (Number < w => value = Prefix(i))
  BY DEF IntegerInv
<1>3. digits[i + 1] \in 0..9
  BY <1>2
<1>4. n \in Nat
  <2> HIDE DEF h, w
  <2> QED BY <1>1, <1>2, <1>3
<1>5. new \in (-h)..(h - 1)
  <2> HIDE DEF n
  <2>1. n \in Int
    BY <1>4
  <2>2. new = Wrapped(n)
    BY DEF n
  <2> QED BY <2>1, <2>2, WrappedWords
<1>6. Prefix(i + 1) = 10 * Prefix(i) + digits[i + 1]
  <2> DEFINE k == i + 1
  <2>1. k \in 1..Len(digits) /\ k - 1 = i
    BY <1>2
  <2>2. Prefix(k) = 10 * Prefix(k - 1) + digits[k]
    <3> HIDE DEF k
    <3> QED BY <1>2, <2>1, PrefixStep
  <2> QED BY <2>1, <2>2
<1>7. Prefix(i + 1) \in Nat /\ Prefix(i + 1) =< Number /\ Number \in Nat
  <2> DEFINE k == i + 1
  <2>1. k \in 0..Len(digits) /\ Len(digits) \in 0..Len(digits)
    BY <1>2
  <2>2. Prefix(k) \in Nat /\ Prefix(k) =< Number
    <3> HIDE DEF k
    <3> QED BY <1>2, <2>1, PrefixStep, PrefixesGrow
  <2>3. Number \in Nat
    BY <1>2, <2>1, PrefixStep DEF Number
  <2> QED BY <2>2, <2>3
<1>8. CASE Number < w
  <2>1. n = Prefix(i + 1)
    BY <1>2, <1>6, <1>8
  <2>2. n \in 0..(w - 1)
    BY <1>1, <1>4, <1>7, <1>8, <2>1
  <2>3. new = IF n < h THEN n ELSE n - w
    <3> HIDE DEF n
    <3>1. new = Wrapped(n)
      BY DEF n
    <3> QED BY <2>2, <3>1, WrappedWords
  <2>4. CASE n < h
    <3>1. new = n
      BY <2>3, <2>4
    <3>2. new >= value
      BY <1>2, <1>3, <3>1, SMTT(30)
    <3> QED BY <1>1, <1>2, <1>5, <2>1, <3>1, <3>2
  <2>5. CASE ~(n < h)
    <3>1. new = n - w
      BY <2>3, <2>5
    <3>2. new < 0
      BY <1>1, <1>4, <2>2, <3>1
    <3>3. Number >= h
      BY <1>1, <1>4, <1>7, <2>1, <2>5
    <3> QED BY <1>1, <1>2, <1>5, <3>2, <3>3
  <2> QED BY <2>4, <2>5
<1>9. CASE ~(Number < w)
  BY <1>1, <1>5, <1>7, <1>9
<1> QED BY <1>8, <1>9

\* Every step of integer() keeps the invariant.
LEMMA StepInteger == IntegerInv /\ [integer]_ivars => IntegerInv'
<1> SUFFICES ASSUME IntegerInv, [integer]_ivars PROVE IntegerInv'
  OBVIOUS
<1>1. CASE UNCHANGED ivars
  <2>1. digits' = digits /\ i' = i /\ value' = value /\ verdict' = verdict
    BY <1>1 DEF ivars
  <2>2. Prefix(i)' = Prefix(i) /\ Number' = Number
    BY <2>1 DEF Number, Prefix
  <2> QED BY <2>1, <2>2 DEF IntegerInv
<1>2. CASE integer
  <2>0. digits' = digits /\ verdict = "running"
    BY <1>2 DEF integer
  <2>1. Number' = Number
    BY <2>0 DEF Number, Prefix
  <2>2. CASE /\ i < Len(digits)
             /\ LET new_value == Wrapped(10 * value + digits[i + 1])
                IN IF TooLarge(new_value, value)
                   THEN verdict' = "too large" /\ UNCHANGED <<i, value>>
                   ELSE value' = new_value /\ i' = i + 1 /\ UNCHANGED verdict
    <3> DEFINE new == Wrapped(10 * value + digits[i + 1])
    <3>1. /\ new \in (-2^(WordBits - 1))..(2^(WordBits - 1) - 1)
          /\ Number < 2^WordBits /\ new >= value => new = Prefix(i + 1)
          /\ new < value => Number >= 2^(WordBits - 1)
      BY <2>0, <2>2, DigitRead
    <3>2. CASE new < value
      <4>1. verdict' = "too large" /\ i' = i /\ value' = value
        BY <2>2, <3>2 DEF TooLarge
      <4>2. Prefix(i)' = Prefix(i)
        BY <2>0, <4>1 DEF Prefix
      <4> HIDE DEF new
      <4> QED BY <2>0, <2>1, <3>1, <3>2, <4>1, <4>2 DEF IntegerInv
    <3>3. CASE ~(new < value)
      <4>1. verdict' = verdict /\ i' = i + 1 /\ value' = new
        BY <2>2, <3>3 DEF TooLarge
      <4>2. Prefix(i)' = Prefix(i + 1)
        BY <2>0, <4>1 DEF Prefix
      <4>3. new \in 0..(2^(WordBits - 1) - 1) /\ new >= value
        <5> DEFINE h == 2^(WordBits - 1)
        <5>1. h \in Nat /\ new \in (-h)..(h - 1) /\ value \in 0..(h - 1)
          BY <3>1, Words DEF IntegerInv
        <5> HIDE DEF new, h
        <5>2. new \in 0..(h - 1) /\ new >= value
          BY <3>3, <5>1
        <5> QED BY <5>2 DEF h
      <4>4. i + 1 \in 0..Len(digits)
        <5>1. digits \in Seq(0..9) /\ i \in 0..Len(digits)
          BY DEF IntegerInv
        <5>2. Len(digits) \in Nat
          BY <5>1, LenProperties
        <5>3. i < Len(digits)
          BY <2>2
        <5> HIDE DEF new
        <5> QED BY <5>1, <5>2, <5>3
      <4> HIDE DEF new
      <4> QED BY <2>0, <2>1, <3>1, <4>1, <4>2, <4>3, <4>4 DEF IntegerInv
    <3> QED BY <3>2, <3>3
  <2>3. CASE i = Len(digits) /\ verdict' = "integer" /\ UNCHANGED <<i, value>>
    <3>1. Prefix(i)' = Prefix(i)
      BY <2>0, <2>3 DEF Prefix
    <3> QED BY <2>0, <2>1, <2>3, <3>1 DEF IntegerInv
  <2> QED BY <1>2, <2>2, <2>3 DEF integer
<1> QED BY <1>1, <1>2

\* For every word size and every literal, integer() of parser.c gives the number
\* the digits stand for whenever that is less than 2^64, and it never calls a
\* literal too large that would fit.
THEOREM IntegersCorrect == IntegerSpec => []IntegersAreRight
<1>1. IntegerInit => IntegerInv
  <2> SUFFICES ASSUME IntegerInit PROVE IntegerInv
    OBVIOUS
  <2>1. digits \in Seq(0..9) /\ i = 0 /\ value = 0 /\ verdict = "running"
    BY LiteralsAssumption DEF IntegerInit
  <2>2. Prefix(i) = 0
    BY <2>1, PrefixStep
  <2> QED BY <2>1, <2>2, Words DEF IntegerInv
<1>2. IntegerInv => IntegersAreRight
  <2> SUFFICES ASSUME IntegerInv PROVE IntegersAreRight
    OBVIOUS
  <2> QED BY DEF IntegerInv, IntegersAreRight, Number
<1> QED BY <1>1, <1>2, StepInteger, PTL DEF IntegerSpec

-----------------------------------------------------------------------------
(***************************************************************************)
(* Sizes and their bits.                                                   *)
(***************************************************************************)

\* The part of a size that one bit is.
Bit(word, k) == IF k \in word THEN 2^k ELSE 0

\* The function of which Low(word, n) is a value.
LowFunction(word, n, f) ==
    f = [k \in 0..n |-> IF k = 0 THEN 0 ELSE f[k - 1] + IF k - 1 \in word THEN 2^(k - 1) ELSE 0]

\* The lowest bits are the ones before and one more.
LEMMA LowStep ==
  ASSUME NEW word
  PROVE  /\ Low(word, 0) = 0
         /\ \A n \in Nat : Low(word, n) \in Nat
         /\ \A n \in Nat : Low(word, n + 1) = Low(word, n) + Bit(word, n)
<1> DEFINE step == [k \in Nat |-> [x \in Nat |-> x + Bit(word, k)]]
<1>1. \A k \in Nat : Bit(word, k) \in Nat
  BY PowersOfTwo DEF Bit
<1>2. step \in [Nat -> [Nat -> Nat]]
  BY <1>1
<1>3. PICK f : Unfolds(f, Nat, 0, step)
  <2> HIDE DEF step
  <2> QED BY <1>2, RecursionOnNat
<1>4. f \in [Nat -> Nat] /\ f[0] = 0 /\ \A n \in Nat : f[n + 1] = step[n][f[n]]
  <2> HIDE DEF step
  <2> QED BY <1>3 DEF Unfolds
<1>5. \A n \in Nat : f[n + 1] = f[n] + Bit(word, n)
  BY <1>4
<1> HIDE DEF step
<1>6. ASSUME NEW n \in Nat PROVE Low(word, n) = f[n]
  <2> DEFINE g == CHOOSE h : LowFunction(word, n, h)
             r == [k \in 0..n |-> f[k]]
             S == {k \in 0..n : g[k] = f[k]}
  <2>1. LowFunction(word, n, g)
    <3>1. ASSUME NEW k \in 0..n
          PROVE  f[k] = IF k = 0 THEN 0 ELSE r[k - 1] + IF k - 1 \in word THEN 2^(k - 1) ELSE 0
      <4>1. CASE k = 0
        BY <1>4, <4>1
      <4>2. CASE k # 0
        <5>1. k - 1 \in Nat /\ k - 1 \in 0..n /\ (k - 1) + 1 = k
          BY <4>2
        <5>2. f[k] = f[k - 1] + Bit(word, k - 1)
          BY <1>5, <5>1
        <5> QED BY <4>2, <5>1, <5>2 DEF Bit
      <4> QED BY <4>1, <4>2
    <3>2. r = [k \in 0..n |-> IF k = 0 THEN 0 ELSE r[k - 1] + IF k - 1 \in word THEN 2^(k - 1) ELSE 0]
      BY <3>1
    <3>3. \E h : LowFunction(word, n, h)
      BY <3>2 DEF LowFunction
    <3> QED BY <3>3
  <2>2. g = [k \in 0..n |-> IF k = 0 THEN 0 ELSE g[k - 1] + IF k - 1 \in word THEN 2^(k - 1) ELSE 0]
    BY <2>1 DEF LowFunction
  <2>3. Low(word, n) = g[n]
    BY DEF Low, LowFunction
  <2> HIDE DEF g
  <2>4. 0 \in S
    BY <1>4, <2>2
  <2>5. ASSUME NEW k \in 0..(n - 1), k \in S PROVE k + 1 \in S
    <3>1. k \in Nat /\ k + 1 \in 0..n /\ k + 1 # 0 /\ (k + 1) - 1 = k
      OBVIOUS
    <3>2. g[k + 1] = g[k] + Bit(word, k)
      BY <2>2, <3>1 DEF Bit
    <3>3. f[k + 1] = f[k] + Bit(word, k)
      BY <1>5, <3>1
    <3> QED BY <2>5, <3>1, <3>2, <3>3
  <2>6. 0..n \subseteq S
    <3> HIDE DEF S
    <3> QED BY <2>4, <2>5, InductionUpTo
  <2> QED BY <2>3, <2>6
<1>7. ASSUME NEW n \in Nat PROVE Low(word, n + 1) = Low(word, n) + Bit(word, n)
  <2>1. n + 1 \in Nat
    OBVIOUS
  <2>2. Low(word, n + 1) = f[n + 1]
    <3> DEFINE m == n + 1
    <3>1. m \in Nat
      BY <2>1
    <3> HIDE DEF m
    <3>2. Low(word, m) = f[m]
      BY <1>6, <3>1
    <3> QED BY <3>2 DEF m
  <2> QED BY <1>5, <1>6, <2>2
<1> QED BY <1>4, <1>6, <1>7

\* The lowest n bits make less than 2^n.
LEMMA LowIsLess ==
  ASSUME NEW word, NEW n \in Nat
  PROVE  Low(word, n) < 2^n
<1> DEFINE S == {k \in Nat : Low(word, k) < 2^k}
<1>1. 0 \in S
  BY LowStep
<1>2. ASSUME NEW k \in Nat, k \in S PROVE k + 1 \in S
  <2>1. 2^k \in Nat /\ 2^(k + 1) = 2 * 2^k
    BY PowersOfTwo
  <2>2. Low(word, k + 1) = Low(word, k) + Bit(word, k) /\ Low(word, k) \in Nat
    BY LowStep
  <2>3. Bit(word, k) \in Nat /\ Bit(word, k) =< 2^k
    BY <2>1 DEF Bit
  <2> QED BY <1>2, <2>1, <2>2, <2>3
<1>3. Nat \subseteq S
  <2> HIDE DEF S
  <2> QED BY <1>1, <1>2, InductionOnNat
<1> QED BY <1>3

\* Bits that agree make the same, and so do bits where there are no more.
LEMMA LowAgrees ==
  ASSUME NEW word, NEW other, NEW n \in Nat, \A k \in 0..(n - 1) : k \in word <=> k \in other
  PROVE  Low(word, n) = Low(other, n)
<1> DEFINE S == {k \in 0..n : Low(word, k) = Low(other, k)}
<1>1. 0 \in S
  BY LowStep
<1>2. ASSUME NEW k \in 0..(n - 1), k \in S PROVE k + 1 \in S
  <2>1. k \in Nat /\ k + 1 \in 0..n
    OBVIOUS
  <2>2. Low(word, k + 1) = Low(word, k) + Bit(word, k)
    BY <2>1, LowStep
  <2>3. Low(other, k + 1) = Low(other, k) + Bit(other, k)
    BY <2>1, LowStep
  <2>4. Bit(word, k) = Bit(other, k)
    BY DEF Bit
  <2> QED BY <1>2, <2>1, <2>2, <2>3, <2>4
<1>3. 0..n \subseteq S
  <2> HIDE DEF S
  <2> QED BY <1>1, <1>2, InductionUpTo
<1> QED BY <1>3

\* Above the highest bit there is nothing more.
LEMMA LowIsAll ==
  ASSUME NEW word, NEW m \in Nat, NEW n \in Nat, \A b \in word : b < m
  PROVE  Low(word, m + n) = Low(word, m)
<1> DEFINE S == {k \in Nat : Low(word, m + k) = Low(word, m)}
<1>1. 0 \in S
  OBVIOUS
<1>2. ASSUME NEW k \in Nat, k \in S PROVE k + 1 \in S
  <2> DEFINE x == m + k
  <2>1. x \in Nat /\ x + 1 = m + (k + 1) /\ x \notin word
    OBVIOUS
  <2>2. Low(word, x + 1) = Low(word, x) + Bit(word, x) /\ Low(word, x) \in Nat
    <3> HIDE DEF x
    <3> QED BY <2>1, LowStep
  <2>3. Bit(word, x) = 0
    <3> HIDE DEF x
    <3> QED BY <2>1 DEF Bit
  <2>4. Low(word, x + 1) = Low(word, x)
    <3> HIDE DEF x
    <3> QED BY <2>2, <2>3
  <2> QED BY <1>2, <2>1, <2>4
<1>3. Nat \subseteq S
  <2> HIDE DEF S
  <2> QED BY <1>1, <1>2, InductionOnNat
<1> QED BY <1>3

\* All of the lowest n bits make 2^n - 1.
LEMMA AllBitsOfLow ==
  ASSUME NEW word, NEW n \in Nat, \A k \in 0..(n - 1) : k \in word
  PROVE  Low(word, n) = 2^n - 1
<1> DEFINE S == {k \in 0..n : Low(word, k) = 2^k - 1}
<1>1. 0 \in S
  BY LowStep
<1>2. ASSUME NEW k \in 0..(n - 1), k \in S PROVE k + 1 \in S
  <2>1. k \in Nat /\ k + 1 \in 0..n
    OBVIOUS
  <2>2. Low(word, k + 1) = Low(word, k) + 2^k
    BY <2>1, LowStep DEF Bit
  <2>3. 2^k \in Nat /\ 2^(k + 1) = 2 * 2^k
    BY <2>1, PowersOfTwo
  <2> QED BY <1>2, <2>1, <2>2, <2>3
<1>3. 0..n \subseteq S
  <2> HIDE DEF S
  <2> QED BY <1>1, <1>2, InductionUpTo
<1> QED BY <1>3

\* Every number below 2^n has n bits.
LEMMA BitsExist ==
  ASSUME NEW n \in Nat, NEW x \in 0..(2^n - 1)
  PROVE  \E word \in SUBSET (0..(n - 1)) : Low(word, n) = x
<1> DEFINE Has(k, y) == \E word \in SUBSET (0..(k - 1)) : Low(word, k) = y
           S == {k \in Nat : \A y \in 0..(2^k - 1) : Has(k, y)}
<1>1. 0 \in S
  <2>1. Low({}, 0) = 0 /\ 2^0 = 1 /\ {} \in SUBSET (0..(0 - 1))
    BY LowStep
  <2> QED BY <2>1
<1>2. ASSUME NEW k \in Nat, k \in S PROVE k + 1 \in S
  <2>1. 2^k \in Nat /\ 2^(k + 1) = 2 * 2^k
    BY PowersOfTwo
  <2>2. ASSUME NEW y \in 0..(2^(k + 1) - 1) PROVE Has(k + 1, y)
    <3>1. CASE y < 2^k
      <4>1. PICK word \in SUBSET (0..(k - 1)) : Low(word, k) = y
        BY <1>2, <2>1, <3>1
      <4>2. k \notin word /\ word \in SUBSET (0..((k + 1) - 1))
        BY <4>1
      <4>3. Low(word, k + 1) = y
        <5>1. Low(word, k + 1) = Low(word, k) + Bit(word, k)
          BY LowStep
        <5>2. Bit(word, k) = 0
          BY <4>2 DEF Bit
        <5> QED BY <4>1, <5>1, <5>2
      <4> QED BY <4>2, <4>3
    <3>2. CASE ~(y < 2^k)
      <4>1. y - 2^k \in 0..(2^k - 1)
        BY <2>1, <3>2
      <4>2. PICK word \in SUBSET (0..(k - 1)) : Low(word, k) = y - 2^k
        BY <1>2, <4>1
      <4> DEFINE more == word \cup {k}
      <4>3. k \in more /\ more \in SUBSET (0..((k + 1) - 1)) /\ \A j \in 0..(k - 1) : j \in word <=> j \in more
        OBVIOUS
      <4> HIDE DEF more
      <4>4. Low(more, k) = Low(word, k)
        BY <4>3, LowAgrees
      <4>5. Low(more, k + 1) = y
        <5>1. Low(more, k + 1) = Low(more, k) + Bit(more, k)
          BY LowStep
        <5>2. Bit(more, k) = 2^k
          BY <4>3 DEF Bit
        <5> QED BY <2>1, <4>2, <4>4, <5>1, <5>2
      <4> QED BY <4>3, <4>5
    <3> QED BY <3>1, <3>2
  <2> QED BY <2>2
<1>3. Nat \subseteq S
  <2> HIDE DEF S
  <2> QED BY <1>1, <1>2, InductionOnNat
<1> QED BY <1>3

\* What an or with a shift of itself does to a size whose topmost bits are set,
\* by at most as many of them.
LEMMA ShiftSmears ==
  ASSUME NEW word, NEW t \in Bits, word \subseteq 0..t,
         NEW n \in Nat, NEW m \in 1..n, \A b \in 0..t : t - n < b => b \in word
  PROVE  /\ OrShifted(word, m) \subseteq 0..t
         /\ \A b \in 0..t : t - (n + m) < b => b \in OrShifted(word, m)
<1>1. OrShifted(word, m) \subseteq 0..t
  <2>1. ASSUME NEW b \in Bits, b + m \in word PROVE b \in 0..t
    BY <2>1 DEF Bits
  <2> QED BY <2>1 DEF OrShifted
<1>2. ASSUME NEW b \in 0..t, t - (n + m) < b PROVE b \in OrShifted(word, m)
  <2>1. t \in Nat /\ t < SizeBits /\ SizeBits \in Nat
    BY StringAssumption DEF Bits
  <2>2. CASE t - n < b
    BY <2>2 DEF OrShifted
  <2>3. CASE ~(t - n < b)
    <3>1. b + m \in 0..t /\ t - n < b + m
      BY <1>2, <2>1, <2>3
    <3>2. b \in Bits
      BY <2>1 DEF Bits
    <3> QED BY <3>1, <3>2 DEF OrShifted
  <2> QED BY <2>2, <2>3
<1> QED BY <1>1, <1>2

\* The shifts of string_resize_to_atleast() set all bits under the highest.
LEMMA SmearedToTheEnd ==
  ASSUME NEW word, NEW t \in Bits, t \in word, word \subseteq 0..t
  PROVE  Smeared(word) = 0..t
<1> DEFINE w1 == OrShifted(word, 1)
           w2 == OrShifted(w1, 2)
           w4 == OrShifted(w2, 4)
           w8 == OrShifted(w4, 8)
           w16 == OrShifted(w8, 16)
           w32 == OrShifted(w16, 32)
           Set(w, n) == w \subseteq 0..t /\ \A b \in 0..t : t - n < b => b \in w
<1>0. t \in Nat /\ t < 64
  BY StringAssumption DEF Bits
<1>1. Set(word, 1)
  BY <1>0
<1>2. ASSUME NEW w, NEW n \in Nat, NEW m \in 1..n, Set(w, n) PROVE Set(OrShifted(w, m), n + m)
  BY <1>2, ShiftSmears
<1> HIDE DEF Set
<1>3. Set(w1, 2)
  BY <1>1, <1>2, 1 \in Nat, 1 \in 1..1, 1 + 1 = 2
<1>4. Set(w2, 4)
  <2> HIDE DEF w1
  <2> QED BY <1>2, <1>3, 2 \in Nat, 2 \in 1..2, 2 + 2 = 4
<1>5. Set(w4, 8)
  <2> HIDE DEF w2
  <2> QED BY <1>2, <1>4, 4 \in Nat, 4 \in 1..4, 4 + 4 = 8
<1>6. Set(w8, 16)
  <2> HIDE DEF w4
  <2> QED BY <1>2, <1>5, 8 \in Nat, 8 \in 1..8, 8 + 8 = 16
<1>7. Set(w16, 32)
  <2> HIDE DEF w8
  <2> QED BY <1>2, <1>6, 16 \in Nat, 16 \in 1..16, 16 + 16 = 32
<1>8. Set(w32, 64)
  <2> HIDE DEF w16
  <2> QED BY <1>2, <1>7, 32 \in Nat, 32 \in 1..32, 32 + 32 = 64
<1>9. Smeared(word) = w32
  BY DEF Smeared
<1> HIDE DEF w32
<1>10. w32 = 0..t
  <2>1. \A b \in 0..t : t - 64 < b
    BY <1>0
  <2>2. w32 \subseteq 0..t /\ \A b \in 0..t : b \in w32
    BY <1>8, <2>1 DEF Set
  <2> QED BY <2>2
<1> QED BY <1>9, <1>10

\* The least power of two that is no smaller.
IsLeastPower(k, capacity) ==
    /\ k \in Bits
    /\ 2^k >= capacity
    /\ \A j \in Bits : 2^j >= capacity => k =< j

\* A larger exponent makes a larger power.
LEMMA PowersGrow ==
  ASSUME NEW a \in Nat, NEW b \in Nat
  PROVE  a < b => 2^(a + 1) =< 2^b
<1> DEFINE S == {n \in Nat : 2^(a + 1) =< 2^((a + 1) + n)}
<1>1. \A n \in Nat : 2^n \in Nat
  BY PowersOfTwo
<1>2. 0 \in S
  <2>1. (a + 1) + 0 = a + 1 /\ 2^(a + 1) \in Nat
    BY <1>1
  <2> QED BY <2>1
<1>3. ASSUME NEW n \in Nat, n \in S PROVE n + 1 \in S
  <2> DEFINE x == (a + 1) + n
  <2>1. x \in Nat /\ x + 1 = (a + 1) + (n + 1) /\ 2^(a + 1) =< 2^x /\ 2^(a + 1) \in Nat
    BY <1>1, <1>3
  <2>2. 2^x \in Nat /\ 2^(x + 1) = 2 * 2^x
    <3> HIDE DEF x
    <3> QED BY <2>1, PowersOfTwo
  <2>3. 2^(a + 1) =< 2^(x + 1)
    <3> HIDE DEF x
    <3> QED BY <2>1, <2>2
  <2> QED BY <2>1, <2>3
<1>4. Nat \subseteq S
  <2> HIDE DEF S
  <2> QED BY <1>2, <1>3, InductionOnNat
<1>5. ASSUME a < b PROVE 2^(a + 1) =< 2^b
  <2>1. b - (a + 1) \in Nat /\ (a + 1) + (b - (a + 1)) = b
    BY <1>5
  <2> DEFINE n == b - (a + 1)
  <2>2. n \in S
    BY <1>4, <2>1
  <2> QED BY <2>1, <2>2
<1> QED BY <1>5

\* A set of bits that is not empty has a highest one.
LEMMA HighestBit ==
  ASSUME NEW n \in Nat, NEW word \in SUBSET (0..(n - 1)), word # {}
  PROVE  \E t \in word : \A b \in word : b =< t
<1> DEFINE Has(w) == \E t \in w : \A b \in w : b =< t
           S == {k \in Nat : \A w \in SUBSET (0..(k - 1)) : w # {} => Has(w)}
<1>1. 0 \in S
  <2>1. 0..(0 - 1) = {}
    OBVIOUS
  <2>2. \A w \in SUBSET (0..(0 - 1)) : w = {}
    BY <2>1
  <2> QED BY <2>2
<1>2. ASSUME NEW k \in Nat, k \in S PROVE k + 1 \in S
  <2>1. ASSUME NEW w \in SUBSET (0..((k + 1) - 1)), w # {} PROVE Has(w)
    <3>1. CASE k \in w
      <4>1. \A b \in w : b =< k
        OBVIOUS
      <4> QED BY <3>1, <4>1
    <3>2. CASE k \notin w
      <4>1. w \in SUBSET (0..(k - 1))
        BY <3>2
      <4> HIDE DEF Has
      <4> QED BY <1>2, <2>1, <4>1
    <3> QED BY <3>1, <3>2
  <2> HIDE DEF Has
  <2> QED BY <2>1
<1>3. Nat \subseteq S
  <2> HIDE DEF S
  <2> QED BY <1>1, <1>2, InductionOnNat
<1>4. Has(word)
  <2> HIDE DEF Has
  <2> QED BY <1>3
<1> QED BY <1>4

\* A capacity up to half of the address space is rounded up to a power of two.
LEMMA RoundedUpIsPower ==
  ASSUME NEW capacity \in 1..(2^(SizeBits - 1))
  PROVE  \E k \in Bits : RoundedUp(capacity) = 2^k /\ IsLeastPower(k, capacity)
<1> DEFINE size == capacity - 1
           top == SizeBits - 1
           word == Word(size)
<1>1. top \in Nat /\ top + 1 = SizeBits /\ SizeBits \in Nat /\ Bits = 0..top
  BY StringAssumption DEF Bits
<1>2. 2^top \in Nat /\ 2^top > 0 /\ 2^SizeBits = 2 * 2^top
  <2>1. 2^top \in Nat /\ 2^top > 0 /\ 2^(top + 1) = 2 * 2^top
    <3> HIDE DEF top
    <3> QED BY <1>1, PowersOfTwo
  <2> QED BY <1>1, <2>1
<1>3. size \in Nat /\ size < 2^top /\ size \in 0..(2^SizeBits - 1)
  <2>1. capacity \in 1..(2^top)
    OBVIOUS
  <2> HIDE DEF top
  <2> QED BY <1>2, <2>1
<1>4. word \in SUBSET Bits /\ Size(word) = size
  <2>1. \E w \in SUBSET (0..(SizeBits - 1)) : Low(w, SizeBits) = size
    <3> HIDE DEF size
    <3> QED BY <1>1, <1>3, BitsExist
  <2>2. \E w \in SUBSET Bits : Size(w) = size
    BY <2>1 DEF Bits, Size
  <2> HIDE DEF size
  <2> QED BY <2>2 DEF Word
<1>5. RoundedUp(capacity) = (Size(Smeared(word)) + 1) % 2^SizeBits
  BY DEF RoundedUp
<1> HIDE DEF word
<1>6. CASE word = {}
  <2>1. Size(word) = 0
    <3>1. Low(word, 0 + SizeBits) = Low(word, 0)
      <4> HIDE DEF top
      <4> QED BY <1>1, <1>6, LowIsAll, 0 \in Nat
    <3>2. 0 + SizeBits = SizeBits
      BY <1>1
    <3> QED BY <3>1, <3>2, LowStep DEF Size
  <2>2. Smeared(word) = {}
    BY <1>6 DEF Smeared, OrShifted
  <2>3. capacity = 1 /\ RoundedUp(capacity) = 1 % 2^SizeBits
    BY <1>4, <1>5, <1>6, <2>1, <2>2
  <2>4. RoundedUp(capacity) = 1
    <3> HIDE DEF top
    <3> QED BY <1>2, <2>3
  <2>5. 2^0 = 1 /\ 0 \in Bits
    BY <1>1
  <2>6. IsLeastPower(0, capacity)
    BY <1>1, <2>3, <2>5 DEF IsLeastPower
  <2> QED BY <2>4, <2>5, <2>6
<1>7. CASE word # {}
  <2>1. PICK t \in word : \A b \in word : b =< t
    <3>1. \E t \in word : \A b \in word : b =< t
      <4>1. SizeBits \in Nat /\ word \subseteq 0..(SizeBits - 1)
        BY <1>1, <1>4 DEF Bits
      <4> QED BY <1>7, <4>1, HighestBit
    <3> QED BY <3>1
  <2>2. t \in Bits /\ t \in Nat /\ t + 1 \in Nat /\ word \subseteq 0..t
    BY <1>1, <1>4, <2>1
  <2>3. Smeared(word) = 0..t
    BY <2>1, <2>2, SmearedToTheEnd
  <2> DEFINE rest == SizeBits - (t + 1)
  <2>4. rest \in Nat /\ (t + 1) + rest = SizeBits
    BY <1>1, <2>2
  <2>5. 2^t \in Nat /\ 2^(t + 1) = 2 * 2^t /\ 2^t > 0
    BY <2>2, PowersOfTwo
  <2>6. Size(0..t) = 2^(t + 1) - 1
    <3>1. Low(0..t, (t + 1) + rest) = Low(0..t, t + 1)
      <4>1. \A b \in 0..t : b < t + 1
        BY <2>2
      <4> HIDE DEF rest
      <4> QED BY <2>2, <2>4, <4>1, LowIsAll
    <3>2. Low(0..t, t + 1) = 2^(t + 1) - 1
      <4> DEFINE n == t + 1
      <4>1. n \in Nat /\ \A k \in 0..(n - 1) : k \in 0..t
        BY <2>2
      <4>2. Low(0..t, n) = 2^n - 1
        <5> HIDE DEF n
        <5> QED BY <4>1, AllBitsOfLow
      <4> QED BY <4>2
    <3> QED BY <2>4, <3>1, <3>2 DEF Size
  <2>7. size >= 2^t /\ size < 2^(t + 1)
    <3>1. Low(word, (t + 1) + rest) = Low(word, t + 1)
      <4>1. \A b \in word : b < t + 1
        BY <2>2
      <4> HIDE DEF rest
      <4> QED BY <2>2, <2>4, <4>1, LowIsAll
    <3>2. size = Low(word, t + 1)
      BY <1>4, <2>4, <3>1 DEF Size
    <3>3. Low(word, t + 1) = Low(word, t) + 2^t /\ Low(word, t) \in Nat
      BY <2>1, <2>2, LowStep DEF Bit
    <3>4. Low(word, t) < 2^t
      BY <2>2, LowIsLess
    <3> HIDE DEF size
    <3> QED BY <2>5, <3>2, <3>3, <3>4
  <2>8. t < top
    <3>1. CASE t >= top
      <4>1. t = top
        BY <1>1, <2>2, <3>1
      <4> HIDE DEF top, size
      <4> QED BY <1>2, <1>3, <2>5, <2>7, <4>1
    <3> QED BY <1>1, <2>2, <3>1
  <2>9. 2^(t + 1) =< 2^top
    <3> HIDE DEF top
    <3> QED BY <1>1, <2>2, <2>8, PowersGrow
  <2>10. RoundedUp(capacity) = 2^(t + 1)
    <3> DEFINE p == 2^(t + 1)
               w == 2^SizeBits
    <3>1. p \in Nat /\ w \in Nat /\ p < w
      <4> HIDE DEF top
      <4> QED BY <1>2, <2>5, <2>9
    <3>2. RoundedUp(capacity) = ((p - 1) + 1) % w
      BY <1>5, <2>3, <2>6
    <3>3. (p - 1) + 1 = p
      <4> HIDE DEF p
      <4> QED BY <3>1
    <3>4. p % w = p
      <4> HIDE DEF p, w
      <4> QED BY <3>1
    <3> QED BY <3>2, <3>3, <3>4
  <2>11. t + 1 \in Bits
    BY <1>1, <2>2, <2>8
  <2>12. 2^(t + 1) >= capacity
    <3>1. capacity = size + 1
      OBVIOUS
    <3> HIDE DEF size
    <3> QED BY <1>3, <2>5, <2>7, <3>1
  <2>13. ASSUME NEW j \in Bits, 2^j >= capacity PROVE t + 1 =< j
    <3>1. j \in Nat
      BY <1>1
    <3>2. CASE j =< t
      <4>1. 2^j =< 2^t
        <5>1. CASE j = t
          BY <2>5, <5>1
        <5>2. CASE j < t
          <6>1. 2^(j + 1) =< 2^t
            BY <2>2, <3>1, <5>2, PowersGrow
          <6>2. 2^j \in Nat /\ 2^(j + 1) = 2 * 2^j
            BY <3>1, PowersOfTwo
          <6> QED BY <2>5, <6>1, <6>2
        <5> QED BY <2>2, <3>1, <3>2, <5>1, <5>2
      <4>2. 2^j \in Nat
        BY <3>1, PowersOfTwo
      <4>3. capacity = size + 1
        OBVIOUS
      <4> HIDE DEF size
      <4> QED BY <1>3, <2>5, <2>7, <2>13, <4>1, <4>2, <4>3
    <3> QED BY <2>2, <3>1, <3>2
  <2>14. IsLeastPower(t + 1, capacity)
    BY <2>11, <2>12, <2>13 DEF IsLeastPower
  <2> QED BY <2>10, <2>11, <2>14
<1> QED BY <1>6, <1>7

-----------------------------------------------------------------------------
\* Every text is made of bytes other than NUL.
LEMMA TextsAreBytes ==
  /\ \A text \in Contents \cup Writes : text \in Seq(1..255) /\ Len(text) \in Nat
  /\ \A text \in Seq(1..255) : text \in Seq(0..255)
<1>1. \A text \in Contents \cup Writes : text \in Seq(1..255)
  BY StringAssumption
<1>2. \A text \in Seq(1..255) : Len(text) \in Nat
  BY LenProperties
<1>3. ASSUME NEW text \in Seq(1..255) PROVE text \in Seq(0..255)
  <2>1. 1..255 \subseteq 0..255
    OBVIOUS
  <2> QED BY <2>1, SeqMonotonic
<1> QED BY <1>1, <1>2, <1>3

Texts == Seq(1..255)
Buffers == [data : Seq(0..255), length : Nat, capacity : Nat]

\* What a buffer holds of a text written behind its first bytes, with the NUL
\* that ends it.
Terminated(d, n, text) == SubSeq(d, 1, n) \o text \o <<0>>

\* The text is whole, and what was there before it has not moved.
LEMMA TerminatedText ==
  ASSUME NEW d \in Seq(0..255), NEW n \in 0..Len(d), NEW text \in Texts
  PROVE  /\ Terminated(d, n, text) \in Seq(0..255)
         /\ Len(Terminated(d, n, text)) = n + Len(text) + 1
         /\ \A k \in 1..n : Terminated(d, n, text)[k] = d[k]
         /\ \A k \in 1..Len(text) : Terminated(d, n, text)[n + k] = text[k]
         /\ Terminated(d, n, text)[n + Len(text) + 1] = 0
<1> DEFINE a == SubSeq(d, 1, n)
           b == a \o text
           c == b \o <<0>>
<1>1. Len(d) \in Nat /\ Len(text) \in Nat /\ n \in Nat
  BY LenProperties DEF Texts
<1>2. a \in Seq(0..255) /\ Len(a) = n /\ \A k \in 1..n : a[k] = d[k]
  BY FirstElements
<1>3. text \in Seq(0..255)
  BY TextsAreBytes DEF Texts
<1> HIDE DEF a
<1>4. /\ b \in Seq(0..255) /\ Len(b) = n + Len(text)
      /\ \A k \in 1..n : b[k] = a[k]
      /\ \A k \in 1..Len(text) : b[n + k] = text[k]
  <2>1. a \in Seq(0..255)
    BY <1>2
  <2>2. /\ b \in Seq(0..255) /\ Len(b) = Len(a) + Len(text)
        /\ \A k \in 1..Len(a) : b[k] = a[k]
        /\ \A k \in 1..Len(text) : b[Len(a) + k] = text[k]
    BY <1>3, <2>1, Joined
  <2> HIDE DEF b
  <2> QED BY <1>2, <2>2
<1> HIDE DEF b
<1>5. /\ c \in Seq(0..255) /\ Len(c) = n + Len(text) + 1
      /\ \A k \in 1..(n + Len(text)) : c[k] = b[k]
      /\ c[n + Len(text) + 1] = 0
  <2> DEFINE z == <<0>>
  <2>1. z \in Seq(0..255) /\ Len(z) = 1 /\ z[1] = 0 /\ 1 \in 1..Len(z)
    OBVIOUS
  <2>2. c = b \o z
    OBVIOUS
  <2> HIDE DEF z, c
  <2>3. /\ c \in Seq(0..255) /\ Len(c) = Len(b) + 1
        /\ \A k \in 1..Len(b) : c[k] = b[k]
        /\ \A k \in 1..Len(z) : c[Len(b) + k] = z[k]
    <3>1. b \in Seq(0..255) /\ z \in Seq(0..255)
      BY <1>4, <2>1
    <3>2. /\ b \o z \in Seq(0..255) /\ Len(b \o z) = Len(b) + Len(z)
          /\ \A k \in 1..Len(b) : (b \o z)[k] = b[k]
          /\ \A k \in 1..Len(z) : (b \o z)[Len(b) + k] = z[k]
      BY <3>1, Joined
    <3> QED BY <2>1, <2>2, <3>2
  <2>4. c[Len(b) + 1] = 0
    BY <2>1, <2>3
  <2> QED BY <1>4, <2>3, <2>4
<1>6. Terminated(d, n, text) = c
  BY DEF Terminated, a, b
<1> HIDE DEF c
<1> QED BY <1>1, <1>2, <1>4, <1>5, <1>6

\* An int is half of the numbers of its bits, and no size is smaller.
LEMMA IntSizes ==
  LET half == 2^(IntBits - 1)
  IN /\ half \in Nat /\ half >= 4 /\ 2^IntBits = 2 * half
     /\ 2^SizeBits \in Nat /\ 2^IntBits =< 2^SizeBits
<1> DEFINE b == IntBits - 3
<1>1. IntBits \in Nat /\ SizeBits \in Nat /\ b \in Nat /\ IntBits =< SizeBits
  BY StringAssumption
<1>2. IntBits - 1 = (b + 1) + 1 /\ IntBits = (IntBits - 1) + 1 /\ IntBits - 1 \in Nat /\ b + 1 \in Nat
  BY <1>1
<1>3. 2^b \in Nat /\ 2^b > 0 /\ 2^(b + 1) = 2 * 2^b
  BY <1>1, PowersOfTwo
<1>4. 2^((b + 1) + 1) = 2 * 2^(b + 1)
  BY <1>2, PowersOfTwo
<1>5. 2^((IntBits - 1) + 1) = 2 * 2^(IntBits - 1) /\ 2^(IntBits - 1) \in Nat
  BY <1>2, PowersOfTwo
<1>6. 2^(IntBits - 1) >= 4
  BY <1>2, <1>3, <1>4
<1>7. 2^IntBits = 2 * 2^(IntBits - 1)
  BY <1>2, <1>5
<1>8. 2^SizeBits \in Nat /\ 2^IntBits =< 2^SizeBits
  <2>1. 2^SizeBits \in Nat
    BY <1>1, PowersOfTwo
  <2>2. CASE IntBits = SizeBits
    BY <2>1, <2>2
  <2>3. CASE IntBits < SizeBits
    <3>1. 2^(IntBits + 1) =< 2^SizeBits
      BY <1>1, <2>3, PowersGrow
    <3>2. 2^(IntBits + 1) = 2 * 2^IntBits /\ 2^IntBits \in Nat
      BY <1>1, PowersOfTwo
    <3> QED BY <2>1, <3>1, <3>2
  <2> QED BY <1>1, <2>1, <2>2, <2>3
<1> QED BY <1>5, <1>6, <1>7, <1>8

\* What is left of a size when it is cast to an int: the size itself if it is one, or
\* a negative number if it is no longer than an int, and never more.
LEMMA AsIntIs ==
  ASSUME NEW n \in Nat
  PROVE  /\ AsInt(n) \in Int /\ AsInt(n) =< n /\ AsInt(n) >= -(2^(IntBits - 1))
         /\ n < 2^(IntBits - 1) => AsInt(n) = n
         /\ n < 2^IntBits => AsInt(n) = n \/ AsInt(n) < 0
<1> DEFINE half == 2^(IntBits - 1)
           p == 2^IntBits
           low == n % p
           q == n \div p
<1>1. half \in Nat /\ half >= 4 /\ p = 2 * half
  BY IntSizes
<1>2. AsInt(n) = IF low < half THEN low ELSE low - p
  BY DEF AsInt
<1> HIDE DEF half, p
<1>3. p \in Nat /\ p > 0
  BY <1>1
<1>4. q \in Nat /\ low \in 0..(p - 1) /\ n = p * q + low
  <2>1. n \div p \in Nat /\ n % p \in 0..(p - 1) /\ n = p * (n \div p) + (n % p)
    BY <1>3, SMTT(30)
  <2> QED BY <2>1
<1> HIDE DEF q, low
<1>5. p * q >= 0 /\ (q > 0 => p * q >= p)
  BY <1>3, <1>4, SMTT(30)
<1>6. low =< n /\ (n < p => low = n)
  <2>1. p * q \in Nat
    BY <1>3, <1>4, <1>5
  <2>2. low =< n
    BY <1>4, <1>5, <2>1
  <2>3. ASSUME n < p PROVE low = n
    <3>1. q = 0
      BY <1>3, <1>4, <1>5, <2>1, <2>3
    <3>2. p * q = 0
      BY <1>3, <3>1
    <3> QED BY <1>4, <3>2
  <2> QED BY <2>2, <2>3
<1>7. /\ AsInt(n) \in Int /\ AsInt(n) =< n /\ AsInt(n) >= -half
      /\ n < half => AsInt(n) = n
      /\ n < p => AsInt(n) = n \/ AsInt(n) < 0
  BY <1>1, <1>2, <1>4, <1>6
<1> QED BY <1>7 DEF half, p

\* What vsnprintf() is told of the free part of a buffer is all of it, or less, or so
\* much that nothing is cut; and it is less only where the free part is longer than an
\* int.
LEMMA RoomIs ==
  ASSUME NEW s \in Buffers, s.length =< s.capacity, NEW text \in Writes
  PROVE  /\ Room(s) \in Nat /\ Remaining(s) \in Int
         /\ Len(text) >= Room(s) => Room(s) =< s.capacity - s.length
         /\ Len(text) < Room(s) => Len(text) < s.capacity - s.length
         /\ s.capacity - s.length < 2^IntBits /\ Len(text) < s.capacity - s.length => Len(text) < Room(s)
         /\ ~Tight(s, text) => Len(text) < Room(s)
         /\ Tight(s, text) /\ s.capacity - s.length < 2^(IntBits - 1) => Len(text) >= s.capacity - s.length
<1> DEFINE half == 2^(IntBits - 1)
           p == 2^IntBits
           most == 2^SizeBits
           free == s.capacity - s.length
           r == Remaining(s)
<1>1. half \in Nat /\ half >= 4 /\ p = 2 * half /\ most \in Nat /\ p =< most
  BY IntSizes
<1>2. free \in Nat
  BY DEF Buffers
<1>3. /\ r \in Int /\ r =< free /\ r >= -half
      /\ free < half => r = free
      /\ free < p => r = free \/ r < 0
  BY <1>2, AsIntIs DEF Remaining
<1>4. Len(text) \in Nat /\ Len(text) < half
  BY TextsAreBytes, StringAssumption
<1>5. Room(s) = IF r < 0 THEN r + most ELSE r
  BY DEF Room
<1>6. Tight(s, text) <=> Len(text) >= r
  BY DEF Tight
<1> HIDE DEF half, p, most, r, free
<1>7. /\ Room(s) \in Nat
      /\ Len(text) >= Room(s) => Room(s) =< free
      /\ Len(text) < Room(s) => Len(text) < free
      /\ free < p /\ Len(text) < free => Len(text) < Room(s)
      /\ ~Tight(s, text) => Len(text) < Room(s)
      /\ Tight(s, text) /\ free < half => Len(text) >= free
  BY <1>1, <1>2, <1>3, <1>4, <1>5, <1>6
<1> QED BY <1>3, <1>7 DEF half, p, r, free

\* Where there is room for the text and its NUL, all of it is printed.
LEMMA PrintedWhole ==
  ASSUME NEW s, NEW text \in Texts, Room(s) \in Nat, Len(text) < Room(s)
  PROVE  Printed(s, text) = Terminated(s.data, s.length, text)
<1>1. Len(text) \in Nat
  BY LenProperties DEF Texts
<1>2. SubSeq(text, 1, Len(text)) = text
  BY SubSeqFull DEF Texts
<1>3. Room(s) # 0
  BY <1>1
<1> QED BY <1>2, <1>3 DEF Printed, Terminated

\* However much is printed, it fits, and what was there before is still there.
LEMMA PrintedInPart ==
  ASSUME NEW s \in Buffers, NEW text \in Writes, s.length =< Len(s.data), Len(s.data) =< s.capacity
  PROVE  /\ Printed(s, text) \in Seq(0..255)
         /\ s.length =< Len(Printed(s, text)) /\ Len(Printed(s, text)) =< s.capacity
         /\ \A k \in 1..s.length : Printed(s, text)[k] = s.data[k]
<1>1. /\ Len(text) \in Nat /\ s.capacity \in Nat /\ s.length \in Nat /\ s.data \in Seq(0..255)
      /\ Len(s.data) \in Nat /\ text \in Texts
  BY TextsAreBytes, LenProperties DEF Texts, Buffers
<1>2. /\ Room(s) \in Nat
      /\ Len(text) >= Room(s) => Room(s) =< s.capacity - s.length
      /\ Len(text) < Room(s) => Len(text) < s.capacity - s.length
  <2>1. s.length =< s.capacity
    BY <1>1
  <2> QED BY <2>1, RoomIs
<1>3. CASE Room(s) = 0
  BY <1>1, <1>3 DEF Printed
<1>4. CASE Room(s) # 0
  <2> DEFINE room == Room(s)
             n == IF Len(text) < room THEN Len(text) ELSE room - 1
             part == SubSeq(text, 1, n)
  <2>1. Printed(s, text) = Terminated(s.data, s.length, part)
    BY <1>4 DEF Printed, Terminated
  <2>2. /\ room \in Nat /\ room # 0
        /\ Len(text) >= room => room =< s.capacity - s.length
        /\ Len(text) < room => Len(text) < s.capacity - s.length
    BY <1>2, <1>4
  <2> HIDE DEF room
  <2>3. n \in 0..Len(text) /\ s.length + n + 1 =< s.capacity
    BY <1>1, <2>2
  <2> HIDE DEF n
  <2>4. part \in Seq(1..255) /\ Len(part) = n /\ text \in Seq(1..255)
    BY <1>1, <2>3, FirstElements DEF Texts
  <2> HIDE DEF part
  <2>5. s.length \in 0..Len(s.data) /\ part \in Texts
    BY <1>1, <2>4 DEF Texts
  <2>6. /\ Terminated(s.data, s.length, part) \in Seq(0..255)
        /\ Len(Terminated(s.data, s.length, part)) = s.length + n + 1
        /\ \A k \in 1..s.length : Terminated(s.data, s.length, part)[k] = s.data[k]
    <3> DEFINE d == s.data
               from == s.length
    <3>1. d \in Seq(0..255) /\ from \in 0..Len(d) /\ part \in Texts
      BY <1>1, <2>5
    <3> HIDE DEF d, from
    <3>2. /\ Terminated(d, from, part) \in Seq(0..255)
          /\ Len(Terminated(d, from, part)) = from + Len(part) + 1
          /\ \A k \in 1..from : Terminated(d, from, part)[k] = d[k]
      BY <3>1, TerminatedText
    <3> QED BY <2>4, <3>2 DEF d, from
  <2>7. s.length =< s.length + n + 1
    BY <1>1, <2>3
  <2> QED BY <2>1, <2>3, <2>6, <2>7
<1> QED BY <1>3, <1>4

\* A String between two calls.
Sound(s) ==
    /\ s \in Buffers
    /\ s.length =< Len(s.data) /\ Len(s.data) =< s.capacity /\ s.capacity < 2^SizeBits

StringInv ==
    /\ Sound(string)
    /\ result \in {"true", "false", "died"}
    /\ result = "died" => string.capacity - string.length >= 2^(IntBits - 1)
    /\ call.text \in Texts

\* The assertion fails only where more is free than an int can say.
LEMMA DiesWithRoom ==
  ASSUME NEW s, Sound(s), NEW text \in Writes, Dies(s, text)
  PROVE  s.capacity - s.length >= 2^(IntBits - 1)
<1>1. s \in Buffers /\ s.length =< s.capacity /\ s.capacity \in Nat /\ s.length \in Nat /\ Len(text) \in Nat
  BY TextsAreBytes, LenProperties DEF Sound, Buffers
<1>2. Len(text) < s.capacity - s.length
  BY <1>1 DEF Dies, Needed
<1>3. ~(s.capacity - s.length < 2^(IntBits - 1))
  BY <1>1, <1>2, RoomIs DEF Dies
<1> QED BY <1>1, <1>3, IntSizes

\* The String that is filled is long enough and holds what it held before, all of the
\* text is behind that unless more is free than an int has numbers, and a buffer that
\* grows is a power of two, the least that will do.
LEMMA FilledIsSound ==
  ASSUME NEW s, Sound(s), s.length =< MaxLength, NEW text \in Writes, ~Dies(s, text)
  PROVE  /\ Filled(s, text) \in Buffers
         /\ Filled(s, text).length = s.length
         /\ Filled(s, text).capacity < 2^SizeBits
         /\ Needed(s, text) = s.length + Len(text) + 1
         /\ Needed(s, text) =< Filled(s, text).capacity
         /\ s.length =< Len(Filled(s, text).data) /\ Len(Filled(s, text).data) =< Filled(s, text).capacity
         /\ \A k \in 1..s.length : Filled(s, text).data[k] = s.data[k]
         /\ Len(text) < Room(Filled(s, text)) =>
              Filled(s, text).data = Terminated(s.data, s.length, text)
         /\ ~Tight(s, text) => Filled(s, text).capacity = s.capacity
         /\ Tight(s, text) => \E k \in Bits : /\ Filled(s, text).capacity = 2^k
                                              /\ IsLeastPower(k, Needed(s, text))
<1>1. /\ Len(text) \in Nat /\ s.capacity \in Nat /\ s.length \in Nat /\ s.data \in Seq(0..255)
      /\ Len(s.data) \in Nat /\ text \in Texts
  BY TextsAreBytes, LenProperties DEF Texts, Buffers, Sound
<1>2. /\ s \in Buffers /\ s.length =< Len(s.data) /\ Len(s.data) =< s.capacity /\ s.capacity < 2^SizeBits
      /\ s = [data |-> s.data, length |-> s.length, capacity |-> s.capacity]
  BY DEF Sound, Buffers
<1>3. Needed(s, text) = s.length + Len(text) + 1
  BY DEF Needed
<1>4. s.length =< s.capacity
  BY <1>1, <1>2
<1>5. /\ Printed(s, text) \in Seq(0..255)
      /\ s.length =< Len(Printed(s, text)) /\ Len(Printed(s, text)) =< s.capacity
      /\ \A k \in 1..s.length : Printed(s, text)[k] = s.data[k]
  BY <1>2, PrintedInPart
<1>6. CASE ~Tight(s, text)
  <2>1. Room(s) \in Nat /\ Len(text) < Room(s) /\ Len(text) < s.capacity - s.length
    BY <1>2, <1>4, <1>6, RoomIs
  <2>2. Printed(s, text) = Terminated(s.data, s.length, text)
    BY <1>1, <2>1, PrintedWhole
  <2> DEFINE d == Printed(s, text)
             y == [data |-> d, length |-> s.length, capacity |-> s.capacity]
  <2>3. Filled(s, text) = y
    BY <1>2, <1>6 DEF Filled
  <2>4. y.data = d /\ y.length = s.length /\ y.capacity = s.capacity
    OBVIOUS
  <2>5. y \in Buffers
    BY <1>1, <1>5 DEF Buffers
  <2>6. Needed(s, text) =< s.capacity
    BY <1>1, <1>3, <2>1
  <2> HIDE DEF y, d
  <2> QED BY <1>2, <1>3, <1>5, <1>6, <2>2, <2>3, <2>4, <2>5, <2>6 DEF d
<1>7. CASE Tight(s, text)
  <2> DEFINE d == Printed(s, text)
             c == RoundedUp(Needed(s, text))
             room == [data |-> d, length |-> s.length, capacity |-> c]
             e == Printed(room, text)
             y == [data |-> e, length |-> s.length, capacity |-> c]
  <2>1. d \in Seq(0..255) /\ s.length =< Len(d) /\ Len(d) =< s.capacity /\ \A k \in 1..s.length : d[k] = s.data[k]
    BY <1>5
  <2>2. Needed(s, text) \in 1..(2^(SizeBits - 1))
    <3>1. MaxLength \in Nat /\ MaxLength + Len(text) + 1 =< 2^(SizeBits - 1) /\ SizeBits - 1 \in Nat
      BY StringAssumption
    <3>2. 2^(SizeBits - 1) \in Nat
      BY <3>1, PowersOfTwo
    <3>3. s.length \in Nat /\ Len(text) \in Nat
      BY <1>1
    <3> DEFINE half == 2^(SizeBits - 1)
               from == s.length
               n == Len(text)
    <3>4. from + n + 1 \in 1..half
      <4>1. MaxLength + n + 1 =< half /\ half \in Nat /\ from =< MaxLength /\ from \in Nat /\ n \in Nat
            /\ MaxLength \in Nat
        BY <3>1, <3>2, <3>3
      <4> HIDE DEF half, from, n
      <4> QED BY <4>1
    <3> QED BY <1>3, <3>4
  <2>3. PICK k \in Bits : c = 2^k /\ IsLeastPower(k, Needed(s, text))
    BY <2>2, RoundedUpIsPower
  <2>4. k \in Nat /\ SizeBits \in Nat /\ k < SizeBits
    BY StringAssumption DEF Bits
  <2>5. c \in Nat /\ c < 2^SizeBits /\ Needed(s, text) =< c
    <3>1. 2^k \in Nat /\ 2^k > 0 /\ 2^(k + 1) = 2 * 2^k /\ 2^SizeBits \in Nat
      BY <2>4, PowersOfTwo
    <3>2. 2^(k + 1) =< 2^SizeBits
      BY <2>4, PowersGrow
    <3> QED BY <1>1, <1>3, <2>3, <3>1, <3>2 DEF IsLeastPower
  <2>6. Filled(s, text) = y
    <3>1. [s EXCEPT !.data = d] = [data |-> d, length |-> s.length, capacity |-> s.capacity]
      BY <1>2
    <3>2. string_resize_to_atleast([s EXCEPT !.data = d], Needed(s, text)) = room
      <4> DEFINE tried == [data |-> d, length |-> s.length, capacity |-> s.capacity]
      <4>1. string_resize_to_atleast(tried, Needed(s, text)) = [tried EXCEPT !.capacity = c]
        BY DEF string_resize_to_atleast
      <4>2. [tried EXCEPT !.capacity = c] = room
        <5> HIDE DEF d, c
        <5> QED OBVIOUS
      <4>3. string_resize_to_atleast(tried, Needed(s, text)) = room
        <5> HIDE DEF tried, d, c
        <5> QED BY <4>1, <4>2
      <4>4. [s EXCEPT !.data = d] = tried
        BY <3>1
      <4> HIDE DEF tried, d, c
      <4> QED BY <4>3, <4>4
    <3>3. Filled(s, text) = [room EXCEPT !.data = Printed(room, text)]
      BY <1>7, <3>2 DEF Filled
    <3> QED BY <3>3
  <2> HIDE DEF d, c
  <2>7. Len(d) =< c
    <3>1. ~(Needed(s, text) =< s.capacity)
      BY <1>7 DEF Dies
    <3>2. Len(d) \in Nat
      BY <2>1, LenProperties
    <3>3. s.capacity < Needed(s, text) /\ Needed(s, text) \in Nat
      BY <1>1, <1>3, <3>1
    <3> QED BY <1>1, <2>1, <2>5, <3>2, <3>3
  <2>8. room \in Buffers /\ room.data = d /\ room.length = s.length /\ room.capacity = c
    BY <1>1, <2>1, <2>5 DEF Buffers
  <2>9. /\ e \in Seq(0..255) /\ s.length =< Len(e) /\ Len(e) =< c
        /\ \A j \in 1..s.length : e[j] = d[j]
    <3> HIDE DEF room
    <3> QED BY <2>1, <2>7, <2>8, PrintedInPart DEF e
  <2>10. y \in Buffers /\ y.data = e /\ y.length = s.length /\ y.capacity = c
    <3> HIDE DEF e
    <3> QED BY <1>1, <2>5, <2>9 DEF Buffers
  <2>11. Room(y) = Room(room)
    BY <2>8, <2>10 DEF Room, Remaining
  <2>12. ASSUME Len(text) < Room(y) PROVE e = Terminated(s.data, s.length, text)
    <3> HIDE DEF room, y
    <3>1. Room(room) \in Nat
      <4>1. room.length =< room.capacity
        BY <1>1, <1>3, <2>5, <2>8
      <4> QED BY <2>8, <4>1, RoomIs
    <3>2. e = Terminated(d, s.length, text)
      BY <1>1, <2>8, <2>11, <2>12, <3>1, PrintedWhole DEF e
    <3>3. SubSeq(d, 1, s.length) = SubSeq(s.data, 1, s.length)
      BY <1>1, <1>2, <2>1, SamePrefix
    <3> QED BY <3>2, <3>3 DEF Terminated
  <2> HIDE DEF room, e, y
  <2> QED BY <1>1, <1>3, <1>7, <2>1, <2>3, <2>5, <2>6, <2>9, <2>10, <2>12
<1> QED BY <1>6, <1>7

\* What is looked at of a String is in its buffer, holds what was there before, and
\* behind it all of the text unless it was cut.
LEMMA SeenIsSound ==
  ASSUME NEW s, Sound(s), s.length =< MaxLength, NEW text \in Writes, ~Dies(s, text),
         NEW data \in Seen(Filled(s, text), text)
  PROVE  /\ data \in Seq(0..255)
         /\ s.length + Len(text) =< Len(data) /\ Len(data) =< Filled(s, text).capacity
         /\ \A k \in 1..s.length : data[k] = s.data[k]
         /\ Filled(s, text).capacity - s.length < 2^IntBits =>
              data = Terminated(s.data, s.length, text)
<1> DEFINE y == Filled(s, text)
           half == 2^(IntBits - 1)
           ints == 2^IntBits
<1>1. /\ y \in Buffers /\ y.length = s.length
      /\ s.length + Len(text) + 1 =< y.capacity
      /\ s.length =< Len(y.data) /\ Len(y.data) =< y.capacity
      /\ \A k \in 1..s.length : y.data[k] = s.data[k]
      /\ Len(text) < Room(y) => y.data = Terminated(s.data, s.length, text)
  BY FilledIsSound
<1>2. data \in Seen(y, text)
  OBVIOUS
<1> HIDE DEF y
<1>3. /\ Len(text) \in Nat /\ s.length \in Nat /\ y.capacity \in Nat /\ y.data \in Seq(0..255)
      /\ Len(y.data) \in Nat /\ text \in Texts /\ s.data \in Seq(0..255) /\ s.length \in 0..Len(s.data)
  BY <1>1, TextsAreBytes, LenProperties DEF Texts, Buffers, Sound
<1>4. half \in Nat /\ half >= 4 /\ ints = 2 * half /\ Len(text) < half
  BY IntSizes, StringAssumption
<1> HIDE DEF half
<1>5. /\ Room(y) \in Nat
      /\ y.capacity - s.length < ints /\ Len(text) < y.capacity - s.length => Len(text) < Room(y)
  <2>1. y.length =< y.capacity
    BY <1>1, <1>3
  <2> QED BY <1>1, <2>1, RoomIs
<1> HIDE DEF ints
<1>6. CASE Len(text) < Room(y)
  <2>1. data = y.data
    BY <1>2, <1>6 DEF Seen
  <2>2. Len(y.data) = s.length + Len(text) + 1
    <3>1. y.data = Terminated(s.data, s.length, text)
      BY <1>1, <1>6
    <3>2. Len(Terminated(s.data, s.length, text)) = s.length + Len(text) + 1
      BY <1>3, TerminatedText
    <3> QED BY <3>1, <3>2
  <2> QED BY <1>1, <1>3, <1>6, <2>1, <2>2 DEF y
<1>7. CASE ~(Len(text) < Room(y))
  <2> DEFINE k == s.length + Len(text) + 3 - Len(y.data)
             m == IF k > 0 THEN k ELSE 0
  <2>1. PICK rest \in [1..k -> Unset] : data = y.data \o rest
    <3>1. Seen(y, text) = {y.data \o rest : rest \in [1..k -> Unset]}
      BY <1>1, <1>7 DEF Seen
    <3> QED BY <1>2, <3>1
  <2>2. k \in Int /\ m \in Nat /\ 1..k = 1..m
    BY <1>3
  <2>3. rest \in Seq(0..255) /\ Len(rest) = m
    <3>1. rest \in [1..m -> 0..255]
      <4> HIDE DEF k, m
      <4> QED BY <2>1, <2>2, StringAssumption
    <3> HIDE DEF k, m
    <3>2. rest \in Seq(0..255)
      BY <2>2, <3>1, SeqDef
    <3> QED BY <2>2, <3>1, <3>2, LenProperties
  <2>4. data \in Seq(0..255) /\ Len(data) = Len(y.data) + m /\ \A j \in 1..Len(y.data) : data[j] = y.data[j]
    <3> DEFINE d == y.data
    <3>1. d \in Seq(0..255) /\ data = d \o rest
      BY <1>3, <2>1
    <3> HIDE DEF k, m, d
    <3>2. /\ d \o rest \in Seq(0..255) /\ Len(d \o rest) = Len(d) + Len(rest)
          /\ \A j \in 1..Len(d) : (d \o rest)[j] = d[j]
      BY <2>3, <3>1, Joined
    <3> QED BY <2>3, <3>1, <3>2 DEF d
  <2>5. y.capacity - s.length >= 2 * half
    <3>1. ~(y.capacity - s.length < ints)
      <4>1. Len(text) < y.capacity - s.length
        BY <1>1, <1>3
      <4> QED BY <1>5, <1>7, <4>1
    <3> QED BY <1>3, <1>4, <3>1
  <2>6. s.length + Len(text) =< Len(data) /\ Len(data) =< y.capacity
    <3>1. m = IF k > 0 THEN k ELSE 0
      OBVIOUS
    <3>2. k = s.length + Len(text) + 3 - Len(y.data)
      OBVIOUS
    <3> HIDE DEF k, m
    <3>3. Len(data) = Len(y.data) + m /\ k \in Int /\ m \in Nat
      BY <2>2, <2>4
    <3> DEFINE from == s.length
               n == Len(text)
               c == y.capacity
               old == Len(y.data)
               new == Len(data)
    <3>4. /\ from \in Nat /\ n \in Nat /\ c \in Nat /\ old \in Nat
          /\ old =< c /\ c - from >= 2 * half
      BY <1>1, <1>3, <2>5
    <3>5. /\ k = from + n + 3 - old /\ new = old + m /\ k \in Int /\ m \in Nat
          /\ n < half /\ half \in Nat /\ half >= 4
      BY <1>4, <3>2, <3>3
    <3> HIDE DEF from, n, c, old, new, k, m
    <3>6. from + n =< new /\ new =< c
      <4>1. CASE k > 0
        BY <3>1, <3>4, <3>5, <4>1
      <4>2. CASE ~(k > 0)
        BY <3>1, <3>4, <3>5, <4>2
      <4> QED BY <4>1, <4>2
    <3> QED BY <3>6 DEF from, n, c, new
  <2>7. \A j \in 1..s.length : data[j] = s.data[j]
    BY <1>1, <1>3, <2>4
  <2>8. ~(y.capacity - s.length < ints)
    BY <1>3, <1>4, <2>5
  <2> HIDE DEF k, m
  <2> QED BY <2>4, <2>6, <2>7, <2>8 DEF y, ints
<1> QED BY <1>6, <1>7

\* What the contents of a String are before and after a text is written behind them.
LEMMA ContentsAre ==
  ASSUME NEW s, Sound(s), NEW text \in Texts, NEW z \in Buffers,
         z.data = Terminated(s.data, s.length, text)
  PROVE  /\ z.length = s.length => Content(z) = Content(s)
         /\ z.length = s.length + Len(text) => Content(z) = Content(s) \o text
         /\ Len(z.data) = s.length + Len(text) + 1
<1>1. /\ s.length \in 0..Len(s.data) /\ s.data \in Seq(0..255) /\ s.length \in Nat
      /\ s.length =< Len(s.data) /\ Len(s.data) \in Nat
  BY LenProperties DEF Sound, Buffers
<1> DEFINE d == Terminated(s.data, s.length, text)
<1>2. Len(text) \in Nat /\ text \in Seq(0..255)
  BY LenProperties, TextsAreBytes DEF Texts
<1>3. /\ d \in Seq(0..255) /\ Len(d) = s.length + Len(text) + 1
      /\ \A k \in 1..s.length : d[k] = s.data[k]
      /\ \A k \in 1..Len(text) : d[s.length + k] = text[k]
  BY <1>1, TerminatedText, SMTT(30)
<1>4. z.data = d
  OBVIOUS
<1> HIDE DEF d
<1>5. SubSeq(d, 1, s.length) = SubSeq(s.data, 1, s.length)
  <2>1. s.length =< Len(d)
    BY <1>1, <1>2, <1>3
  <2> QED BY <1>1, <1>3, <2>1, SamePrefix
<1>6. SubSeq(d, 1, s.length + Len(text)) = SubSeq(s.data, 1, s.length) \o text
  <2> DEFINE a == SubSeq(d, 1, s.length + Len(text))
             b == SubSeq(s.data, 1, s.length)
             c == b \o text
  <2>1. s.length + Len(text) \in 0..Len(d)
    BY <1>1, <1>2, <1>3
  <2>2. /\ a \in Seq(0..255) /\ Len(a) = s.length + Len(text)
        /\ \A k \in 1..(s.length + Len(text)) : a[k] = d[k]
    <3> DEFINE n == s.length + Len(text)
    <3> HIDE DEF n
    <3> QED BY <1>3, <2>1, FirstElements DEF n
  <2>3. b \in Seq(0..255) /\ Len(b) = s.length /\ \A k \in 1..s.length : b[k] = s.data[k]
    <3> DEFINE old == s.data
               n == s.length
    <3>1. old \in Seq(0..255) /\ n \in 0..Len(old) /\ b = SubSeq(old, 1, n)
      BY <1>1
    <3> HIDE DEF old, n, b
    <3>2. b \in Seq(0..255) /\ Len(b) = n /\ \A k \in 1..n : b[k] = old[k]
      BY <3>1, FirstElements
    <3> QED BY <3>2 DEF old, n
  <2> HIDE DEF a, b
  <2>4. /\ c \in Seq(0..255) /\ Len(c) = Len(b) + Len(text)
        /\ \A k \in 1..Len(b) : c[k] = b[k]
        /\ \A k \in 1..Len(text) : c[Len(b) + k] = text[k]
    <3>1. b \in Seq(0..255)
      BY <2>3
    <3> QED BY <1>2, <3>1, Joined
  <2> HIDE DEF c
  <2>5. ASSUME NEW k \in 1..Len(a) PROVE a[k] = c[k]
    <3>1. CASE k =< s.length
      <4>1. k \in 1..s.length
        BY <1>1, <1>2, <2>2, <3>1
      <4>2. a[k] = d[k] /\ d[k] = s.data[k]
        <5>1. k \in 1..(s.length + Len(text))
          BY <2>2
        <5>2. a[k] = d[k]
          BY <2>2, <5>1
        <5> QED BY <1>3, <4>1, <5>2
      <4>3. c[k] = b[k] /\ b[k] = s.data[k]
        <5>1. k \in 1..Len(b)
          BY <2>3, <4>1
        <5>2. c[k] = b[k]
          BY <2>4, <5>1
        <5> QED BY <2>3, <4>1, <5>2
      <4> QED BY <4>2, <4>3
    <3>2. CASE ~(k =< s.length)
      <4>1. k - s.length \in 1..Len(text) /\ s.length + (k - s.length) = k
        BY <1>1, <1>2, <2>2, <3>2
      <4>2. d[k] = text[k - s.length] /\ c[k] = text[k - s.length]
        <5> DEFINE m == k - s.length
        <5>1. m \in 1..Len(text) /\ s.length + m = k
          BY <4>1
        <5> HIDE DEF m
        <5>2. d[s.length + m] = text[m] /\ c[s.length + m] = text[m]
          BY <1>3, <2>3, <2>4, <5>1
        <5> QED BY <5>1, <5>2 DEF m
      <4> QED BY <2>2, <4>2
    <3> QED BY <3>1, <3>2
  <2>6. a = c
    BY <2>2, <2>3, <2>4, <2>5, SeqEqual
  <2> QED BY <2>6 DEF a, b, c
<1> QED BY <1>3, <1>4, <1>5, <1>6 DEF Content

\* A String of which only what is behind its contents was touched.
LEMMA ContentsKept ==
  ASSUME NEW s, Sound(s), NEW z, Sound(z), z.length = s.length,
         \A k \in 1..s.length : z.data[k] = s.data[k]
  PROVE  Content(z) = Content(s)
<1>1. /\ s.length \in Nat /\ s.data \in Seq(0..255) /\ z.data \in Seq(0..255)
      /\ s.length =< Len(s.data) /\ s.length =< Len(z.data)
  BY DEF Sound, Buffers
<1>2. SubSeq(z.data, 1, s.length) = SubSeq(s.data, 1, s.length)
  BY <1>1, SamePrefix
<1> QED BY <1>2 DEF Content

\* What a write does, seen from its outside.
LEMMA WriteDoes ==
  ASSUME Sound(string), string_vwritef
  PROVE  \E text \in Writes :
           /\ string.length =< MaxLength
           /\ Call("string_vwritef", text, Len(text))
           /\ \/ Dies(string, text) /\ result' = "died" /\ string' = string
              \/ /\ ~Dies(string, text)
                 /\ \E data \in Seen(Filled(string, text), text) :
                      /\ result' = IF Accepted(string, text, data) THEN "true" ELSE "false"
                      /\ string' = Written(string, text, data, Accepted(string, text, data))
  BY DEF string_vwritef

\* The String that a write leaves, in its parts.
LEMMA WrittenString ==
  ASSUME NEW s, Sound(s), s.length =< MaxLength, NEW text \in Writes, ~Dies(s, text),
         NEW data \in Seen(Filled(s, text), text), NEW ok, NEW z, z = Written(s, text, data, ok)
  PROVE  /\ Sound(z)
         /\ z.data = data
         /\ z.length = IF ok THEN s.length + Len(text) ELSE s.length
         /\ z.capacity = Filled(s, text).capacity
         /\ \A k \in 1..s.length : z.data[k] = s.data[k]
         /\ z.capacity - s.length < 2^IntBits => z.data = Terminated(s.data, s.length, text)
<1> DEFINE y == Filled(s, text)
           most == 2^SizeBits
           ints == 2^IntBits
<1>1. y \in Buffers /\ y.length = s.length /\ y.capacity < most
  BY FilledIsSound
<1>2. /\ data \in Seq(0..255) /\ s.length + Len(text) =< Len(data) /\ Len(data) =< y.capacity
      /\ \A k \in 1..s.length : data[k] = s.data[k]
      /\ y.capacity - s.length < ints => data = Terminated(s.data, s.length, text)
  BY SeenIsSound
<1>3. s.length \in Nat /\ Len(text) \in Nat /\ Len(data) \in Nat
  BY <1>2, TextsAreBytes, LenProperties DEF Sound, Buffers
<1>4. z = [y EXCEPT !.data = data, !.length = IF ok THEN @ + Len(text) ELSE @]
  BY DEF Written
<1> DEFINE l == IF ok THEN s.length + Len(text) ELSE s.length
<1>5. l \in Nat /\ l =< Len(data)
  BY <1>2, <1>3
<1> HIDE DEF y, most, ints
<1>6. z = [data |-> data, length |-> l, capacity |-> y.capacity]
  BY <1>1, <1>4 DEF Buffers
<1> HIDE DEF l
<1>7. z \in Buffers /\ z.data = data /\ z.length = l /\ z.capacity = y.capacity
  BY <1>1, <1>2, <1>5, <1>6 DEF Buffers
<1>8. Sound(z)
  <2>1. z.length =< Len(z.data) /\ Len(z.data) =< z.capacity /\ z.capacity < most
    BY <1>1, <1>2, <1>5, <1>7
  <2> QED BY <1>7, <2>1 DEF Sound, most
<1> QED BY <1>2, <1>7, <1>8 DEF y, l, ints

\* The String that does not exist is sound.
LEMMA NothingIsSound == Sound(Nothing)
<1>1. Nothing \in Buffers
  BY DEF Nothing, Buffers
<1>2. 0 < 2^SizeBits
  BY StringAssumption, PowersOfTwo
<1> QED BY <1>1, <1>2 DEF Sound, Nothing

\* Every step keeps the String sound.
LEMMA StepString == StringInv /\ [StringNext]_svars => StringInv'
<1> SUFFICES ASSUME StringInv, [StringNext]_svars PROVE StringInv'
  OBVIOUS
<1>1. CASE string_init
  <2>1. PICK text \in Contents :
           /\ Call("string_init", text, Len(text))
           /\ \/ string' = [data |-> text, length |-> Len(text), capacity |-> Len(text)]
              \/ string' = Nothing
           /\ result' \in {"true", "false"}
    BY <1>1 DEF string_init
  <2>2. text \in Texts /\ text \in Seq(0..255) /\ Len(text) \in Nat /\ Len(text) < 2^SizeBits
    BY TextsAreBytes, StringAssumption DEF Texts
  <2>3. Sound([data |-> text, length |-> Len(text), capacity |-> Len(text)])
    BY <2>2 DEF Sound, Buffers
  <2>4. Sound(string')
    BY <2>1, <2>3, NothingIsSound
  <2>5. call'.text = text
    BY <2>1 DEF Call
  <2> QED BY <2>1, <2>2, <2>4, <2>5 DEF StringInv
<1>2. CASE string_fini
  <2>1. string' = Nothing /\ result' = "true" /\ call'.text = <<>>
    BY <1>2 DEF string_fini, Call
  <2>2. call'.text \in Texts
    BY <2>1 DEF Texts
  <2> QED BY <2>1, <2>2, NothingIsSound DEF StringInv
<1>3. CASE str_init
  <2>1. PICK text \in Contents :
           call'.text = text /\ result' \in {"true", "false"} /\ string' = string
    BY <1>3 DEF str_init, Call
  <2>2. text \in Texts
    BY TextsAreBytes DEF Texts
  <2> QED BY <2>1, <2>2 DEF StringInv
<1>4. CASE string_vwritef
  <2>1. PICK text \in Writes :
           /\ string.length =< MaxLength
           /\ Call("string_vwritef", text, Len(text))
           /\ \/ Dies(string, text) /\ result' = "died" /\ string' = string
              \/ /\ ~Dies(string, text)
                 /\ \E data \in Seen(Filled(string, text), text) :
                      /\ result' = IF Accepted(string, text, data) THEN "true" ELSE "false"
                      /\ string' = Written(string, text, data, Accepted(string, text, data))
    BY <1>4, WriteDoes DEF StringInv
  <2>2. call'.text = text /\ text \in Texts
    BY <2>1, TextsAreBytes DEF Call, Texts
  <2>3. CASE Dies(string, text)
    <3>1. result' = "died" /\ string' = string
      BY <2>1, <2>3
    <3>2. string.capacity - string.length >= 2^(IntBits - 1)
      BY <2>3, DiesWithRoom DEF StringInv
    <3> QED BY <2>2, <3>1, <3>2 DEF StringInv
  <2>4. CASE ~Dies(string, text)
    <3>1. PICK data \in Seen(Filled(string, text), text) :
             /\ result' \in {"true", "false"}
             /\ string' = Written(string, text, data, Accepted(string, text, data))
      BY <2>1, <2>4
    <3>2. Sound(string')
      BY <2>1, <2>4, <3>1, WrittenString DEF StringInv
    <3>3. result' # "died"
      BY <3>1
    <3> QED BY <2>2, <3>1, <3>2, <3>3 DEF StringInv
  <2> QED BY <2>3, <2>4
<1>5. CASE UNCHANGED svars
  BY <1>5 DEF svars, StringInv
<1> QED BY <1>1, <1>2, <1>3, <1>4, <1>5 DEF StringNext

\* Before the first call there is no string, and that is sound.
LEMMA InitString == StringInit => StringInv
<1> SUFFICES ASSUME StringInit PROVE StringInv
  OBVIOUS
<1>1. call.text \in Texts /\ string = Nothing /\ result = "true"
  BY DEF StringInit, Texts
<1> QED BY <1>1, NothingIsSound DEF StringInv

\* No call overruns the buffer of a String and no size overflows, whatever is written;
\* the assertion of string_resize_to_atleast() can fail only where the free part of the
\* buffer is longer than the largest int.
THEOREM StringsAreSound == StringSpec => []StringTypeOK
<1>1. StringInv => StringTypeOK
  BY DEF StringInv, Sound, StringTypeOK
<1> QED BY <1>1, InitString, StepString, PTL DEF StringSpec

\* A write that fails leaves what the String holds as it was, and one that succeeds
\* appends the whole of its text, unless the buffer behind the contents has become too
\* long for the number of an int; for every text and however often the buffer has grown.
THEOREM WritesAppendAll == StringSpec => WritesAppend
<1> DEFINE Appends == call'.name = "string_vwritef" =>
              /\ result' # "true" => Content(string') = Content(string)
              /\ result' = "true" /\ NotCut' => Content(string') = Content(string) \o call'.text
<1>1. ASSUME StringInv, StringNext PROVE Appends
  <2>1. CASE ~string_vwritef
    <3>1. call'.name # "string_vwritef"
      BY <1>1, <2>1 DEF StringNext, string_init, string_fini, str_init, Call
    <3> QED BY <3>1
  <2>2. CASE string_vwritef
    <3>1. PICK text \in Writes :
             /\ string.length =< MaxLength
             /\ Call("string_vwritef", text, Len(text))
             /\ \/ Dies(string, text) /\ result' = "died" /\ string' = string
                \/ /\ ~Dies(string, text)
                   /\ \E data \in Seen(Filled(string, text), text) :
                        /\ result' = IF Accepted(string, text, data) THEN "true" ELSE "false"
                        /\ string' = Written(string, text, data, Accepted(string, text, data))
      BY <1>1, <2>2, WriteDoes DEF StringInv
    <3>2. Sound(string) /\ text \in Texts /\ call'.text = text /\ call'.length = Len(text)
      BY <1>1, <3>1, TextsAreBytes DEF StringInv, Call, Texts
    <3>3. CASE Dies(string, text)
      <4>1. result' = "died" /\ string' = string
        BY <3>1, <3>3
      <4> QED BY <4>1 DEF Content
    <3>4. CASE ~Dies(string, text)
      <4>1. PICK data \in Seen(Filled(string, text), text) :
               /\ result' = IF Accepted(string, text, data) THEN "true" ELSE "false"
               /\ string' = Written(string, text, data, Accepted(string, text, data))
        BY <3>1, <3>4
      <4> DEFINE ok == Accepted(string, text, data)
      <4>2. (result' = IF ok THEN "true" ELSE "false") /\ string' = Written(string, text, data, ok)
        BY <4>1
      <4> HIDE DEF ok
      <4>3. /\ Sound(string')
            /\ string'.length = IF ok THEN string.length + Len(text) ELSE string.length
            /\ \A k \in 1..string.length : string'.data[k] = string.data[k]
            /\ string'.capacity - string.length < 2^IntBits =>
                 string'.data = Terminated(string.data, string.length, text)
        BY <3>1, <3>2, <3>4, <4>2, WrittenString
      <4>4. CASE ok
        <5>1. string'.length = string.length + Len(text) /\ result' = "true"
          BY <4>2, <4>3, <4>4
        <5>2. ASSUME NotCut' PROVE Content(string') = Content(string) \o text
          <6>1. string'.capacity - string.length < 2^IntBits
            <7>1. string'.length - call'.length = string.length
              <8>1. string.length \in Nat /\ Len(text) \in Nat
                BY <3>2, LenProperties DEF Sound, Buffers, Texts
              <8> QED BY <3>2, <5>1, <8>1
            <7>2. Start' = string.length
              BY <5>1, <7>1 DEF Start
            <7> QED BY <5>2, <7>2 DEF NotCut
          <6>2. string' \in Buffers
            BY <4>3 DEF Sound
          <6> QED BY <3>2, <4>3, <5>1, <6>1, <6>2, ContentsAre
        <5> QED BY <3>2, <5>1, <5>2
      <4>5. CASE ~ok
        <5>1. string'.length = string.length /\ result' = "false"
          BY <4>2, <4>3, <4>5
        <5>2. Content(string') = Content(string)
          BY <3>2, <4>3, <5>1, ContentsKept
        <5> QED BY <5>1, <5>2
      <4> QED BY <4>4, <4>5
    <3> QED BY <3>3, <3>4
  <2> QED BY <2>1, <2>2
<1>2. ASSUME StringInv, [StringNext]_svars PROVE [Appends]_svars
  BY <1>1, <1>2
<1> QED BY <1>2, InitString, StepString, PTL DEF StringSpec, WritesAppend

\* A buffer that grows gets the least power of two that is enough for its text and
\* the NUL.
THEOREM BuffersGrowToPowersOfTwo == StringSpec => GrowsToPowersOfTwo
<1> DEFINE Fits == {k \in 0..(SizeBits - 1) : 2^k >= string.length + Len(call'.text) + 1}
           Grows == call'.name = "string_vwritef" /\ string'.capacity # string.capacity =>
              LET fits == {k \in 0..(SizeBits - 1) : 2^k >= string.length + Len(call'.text) + 1}
              IN string'.capacity = 2^(CHOOSE k \in fits : \A j \in fits : k =< j)
<1>1. ASSUME StringInv, StringNext PROVE Grows
  <2>1. CASE ~string_vwritef
    <3>1. call'.name # "string_vwritef"
      BY <1>1, <2>1 DEF StringNext, string_init, string_fini, str_init, Call
    <3> QED BY <3>1
  <2>2. CASE string_vwritef
    <3>1. SUFFICES ASSUME string'.capacity # string.capacity
                   PROVE  string'.capacity = 2^(CHOOSE k \in Fits : \A j \in Fits : k =< j)
      OBVIOUS
    <3>2. PICK text \in Writes :
             /\ string.length =< MaxLength
             /\ Call("string_vwritef", text, Len(text))
             /\ \/ Dies(string, text) /\ result' = "died" /\ string' = string
                \/ /\ ~Dies(string, text)
                   /\ \E data \in Seen(Filled(string, text), text) :
                        /\ result' = IF Accepted(string, text, data) THEN "true" ELSE "false"
                        /\ string' = Written(string, text, data, Accepted(string, text, data))
      BY <1>1, <2>2, WriteDoes DEF StringInv
    <3>3. Sound(string) /\ call'.text = text
      BY <1>1, <3>2 DEF StringInv, Call
    <3>4. ~Dies(string, text)
      BY <3>1, <3>2
    <3>5. string'.capacity = Filled(string, text).capacity
      BY <3>2, <3>3, <3>4, WrittenString
    <3>6. Tight(string, text)
      BY <3>1, <3>2, <3>3, <3>4, <3>5, FilledIsSound
    <3>7. PICK k \in Bits : string'.capacity = 2^k /\ IsLeastPower(k, Needed(string, text))
      BY <3>2, <3>3, <3>4, <3>5, <3>6, FilledIsSound
    <3>8. Needed(string, text) = string.length + Len(call'.text) + 1
      BY <3>3 DEF Needed
    <3>9. k \in Fits /\ \A j \in Fits : k =< j
      BY <3>7, <3>8 DEF IsLeastPower, Bits
    <3>10. ASSUME NEW j \in Fits, \A m \in Fits : j =< m PROVE j = k
      BY <3>9, <3>10, StringAssumption
    <3> DEFINE least == CHOOSE j \in Fits : \A m \in Fits : j =< m
    <3>11. least = k
      <4> HIDE DEF Fits
      <4> QED BY <3>9, <3>10
    <3> QED BY <3>7, <3>11
  <2> QED BY <2>1, <2>2
<1>2. ASSUME StringInv, [StringNext]_svars PROVE [Grows]_svars
  BY <1>1, <1>2
<1> QED BY <1>2, InitString, StepString, PTL DEF StringSpec, GrowsToPowersOfTwo

-----------------------------------------------------------------------------
\* The function of which a code point is the last value.
CodepointFunction(text, j, n, f) ==
    f = [k \in 0..n |-> IF k = 0 THEN FirstBits(text[j])
                        ELSE Accumulated(f[k - 1], CharAt(text, j + k))]

\* What the bytes that begin a character announce.
LEMMA FirstBytesAre ==
  ASSUME NEW byte \in Nat
  PROVE  /\ IsFirst(byte) <=> byte \in 192..247
         /\ byte \in 192..223 => Announced(byte) = 1
         /\ byte \in 224..239 => Announced(byte) = 2
         /\ byte \in 240..247 => Announced(byte) = 3
         /\ IsFirst(byte) => Announced(byte) \in 1..3
<1>1. DOMAIN FirstBytes = {1, 2, 3}
  BY DEF FirstBytes
<1>2. FirstBytes[1] = 192..223 /\ FirstBytes[2] = 224..239 /\ FirstBytes[3] = 240..247
  BY DEF FirstBytes
<1>3. IsFirst(byte) <=> byte \in 192..247
  BY <1>1, <1>2 DEF IsFirst
<1>4. Announced(byte) = CHOOSE n \in {1, 2, 3} : byte \in FirstBytes[n]
  BY <1>1 DEF Announced
<1>5. ASSUME byte \in 192..223 PROVE Announced(byte) = 1
  <2>1. \A n \in {1, 2, 3} : byte \in FirstBytes[n] <=> n = 1
    BY <1>2, <1>5
  <2> QED BY <1>4, <2>1
<1>6. ASSUME byte \in 224..239 PROVE Announced(byte) = 2
  <2>1. \A n \in {1, 2, 3} : byte \in FirstBytes[n] <=> n = 2
    BY <1>2, <1>6
  <2> QED BY <1>4, <2>1
<1>7. ASSUME byte \in 240..247 PROVE Announced(byte) = 3
  <2>1. \A n \in {1, 2, 3} : byte \in FirstBytes[n] <=> n = 3
    BY <1>2, <1>7
  <2> QED BY <1>4, <2>1
<1>8. IsFirst(byte) => Announced(byte) \in 1..3
  <2>1. byte \in 192..247 => byte \in 192..223 \/ byte \in 224..239 \/ byte \in 240..247
    OBVIOUS
  <2> QED BY <1>3, <1>5, <1>6, <1>7, <2>1
<1> QED BY <1>3, <1>5, <1>6, <1>7, <1>8

\* A first byte has at most five bits for the code point.
LEMMA FirstBitsAre ==
  ASSUME NEW byte \in 0..255, IsFirst(byte)
  PROVE  Announced(byte) \in 1..3 /\ FirstBits(byte) \in 0..31
<1>0. byte \in Nat
  OBVIOUS
<1>1. 2^0 = 1 /\ 2^(0 + 1) = 2 * 2^0 /\ 2^(1 + 1) = 2 * 2^1 /\ 2^(2 + 1) = 2 * 2^2
      /\ 2^(3 + 1) = 2 * 2^3 /\ 2^(4 + 1) = 2 * 2^4
  BY PowersOfTwo
<1>2. 2^3 = 8 /\ 2^4 = 16 /\ 2^5 = 32
  BY <1>1
<1>3. byte \in 192..223 \/ byte \in 224..239 \/ byte \in 240..247
  <2>1. byte \in 192..247
    BY <1>0, FirstBytesAre
  <2> QED BY <2>1
<1>4. CASE byte \in 192..223
  <2>1. Announced(byte) = 1
    BY <1>0, <1>4, FirstBytesAre
  <2>2. FirstBits(byte) = byte % 32
    BY <1>2, <2>1 DEF FirstBits
  <2>3. byte % 32 \in 0..31
    BY <1>0
  <2> QED BY <2>1, <2>2, <2>3
<1>5. CASE byte \in 224..239
  <2>1. Announced(byte) = 2
    BY <1>0, <1>5, FirstBytesAre
  <2>2. FirstBits(byte) = byte % 16
    BY <1>2, <2>1 DEF FirstBits
  <2>3. byte % 16 \in 0..31
    BY <1>0
  <2> QED BY <2>1, <2>2, <2>3
<1>6. CASE byte \in 240..247
  <2>1. Announced(byte) = 3
    BY <1>0, <1>6, FirstBytesAre
  <2>2. FirstBits(byte) = byte % 8
    BY <1>2, <2>1 DEF FirstBits
  <2>3. byte % 8 \in 0..31
    BY <1>0
  <2> QED BY <2>1, <2>2, <2>3
<1> QED BY <1>3, <1>4, <1>5, <1>6

\* Adding a continuation byte sets bit 7 and leaves bit 5 clear.
HasBit7(codepoint) == \E q \in Nat : \E r \in 0..95 : codepoint = 256 * q + 128 + r

\* What adding a byte leaves has that bit set and that bit clear.
LEMMA AccumulatedHasBit7 ==
  ASSUME NEW c \in Nat, NEW byte \in 0..255
  PROVE  Accumulated(c, byte) \in Nat /\ HasBit7(Accumulated(c, byte))
<1> DEFINE x == byte % 32
           h == c \div 2
           l == c % 2
           q == h \div 2
<1>1. x \in 0..31 /\ h \in Nat /\ l \in 0..1 /\ c = 2 * h + l /\ q \in Nat /\ (h % 2 \in 0..1) /\ h = 2 * q + (h % 2)
  OBVIOUS
<1>2. Accumulated(c, byte) = 64 * c + x + (IF h % 2 = 0 THEN 128 ELSE 0)
  BY DEF Accumulated
<1> HIDE DEF x, l, q
<1>3. Accumulated(c, byte) = 256 * q + 128 + (64 * l + x)
  <2>1. CASE h % 2 = 0
    <3>1. h = 2 * q
      BY <1>1, <2>1
    <3> HIDE DEF h
    <3> QED BY <1>1, <1>2, <2>1, <3>1
  <2>2. CASE h % 2 = 1
    <3>1. h = 2 * q + 1
      BY <1>1, <2>2
    <3> HIDE DEF h
    <3> QED BY <1>1, <1>2, <2>2, <3>1
  <2> QED BY <1>1, <2>1, <2>2
<1>4. 64 * l + x \in 0..95
  BY <1>1
<1> QED BY <1>1, <1>3, <1>4 DEF HasBit7

\* Hence no second continuation byte makes a surrogate, and one alone is too few.
LEMMA NoSurrogates ==
  ASSUME NEW c \in Nat, NEW byte \in 0..255, HasBit7(c) \/ c =< 31
  PROVE  Accumulated(c, byte) \notin Surrogates
<1> DEFINE x == (byte % 32) + (IF (c \div 2) % 2 = 0 THEN 128 ELSE 0)
<1>1. x \in 0..159
  OBVIOUS
<1>2. Accumulated(c, byte) = 64 * c + x
  BY DEF Accumulated
<1> HIDE DEF x
<1>3. CASE HasBit7(c)
  <2>1. PICK q \in Nat, r \in 0..95 : c = 256 * q + 128 + r
    BY <1>3 DEF HasBit7
  <2>2. CASE q =< 2
    BY <1>1, <1>2, <2>1, <2>2 DEF Surrogates
  <2>3. CASE q >= 3
    BY <1>1, <1>2, <2>1, <2>3 DEF Surrogates
  <2> QED BY <2>1, <2>2, <2>3
<1>4. CASE c =< 31
  BY <1>1, <1>2, <1>4 DEF Surrogates
<1> QED BY <1>3, <1>4

\* The test for surrogates in string.c never strikes.
LEMMA CodepointIsNoSurrogate ==
  ASSUME NEW text \in Seq(0..255), NEW j \in 1..Len(text), IsFirst(text[j])
  PROVE  Codepoint(text, j) \notin Surrogates
<1> DEFINE n == Announced(text[j])
           char(k) == CharAt(text, j + k)
           base == FirstBits(text[j])
<1>1. text[j] \in 0..255 /\ Len(text) \in Nat
  BY LenProperties, ElementOfSeq
<1>2. \A k \in Nat : char(k) \in 0..255
  <2>1. ASSUME NEW k \in Nat PROVE CharAt(text, j + k) \in 0..255
    <3>1. CASE j + k =< Len(text)
      <4>1. j + k \in 1..Len(text)
        BY <1>1, <3>1
      <4>2. text[j + k] \in 0..255
        BY <4>1, ElementOfSeq
      <4> QED BY <3>1, <4>2 DEF CharAt
    <3>2. CASE ~(j + k =< Len(text))
      BY <3>2 DEF CharAt
    <3> QED BY <3>1, <3>2
  <2> QED BY <2>1
<1>3. n \in 1..3 /\ base \in 0..31
  BY <1>1, FirstBitsAre
<1> HIDE DEF char, base
<1> DEFINE a1 == Accumulated(base, char(1))
           a2 == Accumulated(a1, char(2))
           a3 == Accumulated(a2, char(3))
<1>4. a1 \in Nat /\ HasBit7(a1) /\ a1 \notin Surrogates
  <2>1. base \in Nat /\ base =< 31 /\ char(1) \in 0..255
    BY <1>2, <1>3
  <2> HIDE DEF n
  <2> QED BY <2>1, AccumulatedHasBit7, NoSurrogates
<1>5. a2 \in Nat /\ HasBit7(a2) /\ a2 \notin Surrogates
  <2> HIDE DEF a1
  <2> QED BY <1>2, <1>4, AccumulatedHasBit7, NoSurrogates
<1>6. a3 \in Nat /\ a3 \notin Surrogates
  <2> HIDE DEF a2
  <2> QED BY <1>2, <1>5, AccumulatedHasBit7, NoSurrogates
<1> HIDE DEF a1, a2, a3
<1> DEFINE f == CHOOSE h : CodepointFunction(text, j, n, h)
           r == [k \in 0..n |-> IF k = 0 THEN base ELSE IF k = 1 THEN a1 ELSE IF k = 2 THEN a2 ELSE a3]
<1>7. CodepointFunction(text, j, n, f)
  <2>1. ASSUME NEW k \in 0..n PROVE r[k] = IF k = 0 THEN base ELSE Accumulated(r[k - 1], char(k))
    <3> HIDE DEF n
    <3>1. k = 0 \/ k = 1 \/ k = 2 \/ k = 3
      BY <1>3
    <3> QED BY <1>3, <3>1 DEF a1, a2, a3
  <2>2. r = [k \in 0..n |-> IF k = 0 THEN base ELSE Accumulated(r[k - 1], char(k))]
    <3> HIDE DEF n
    <3> QED BY <2>1
  <2>3. CodepointFunction(text, j, n, r)
    BY <2>2 DEF CodepointFunction, base, char
  <2> HIDE DEF r
  <2> QED BY <2>3
<1>8. Codepoint(text, j) = f[n]
  BY DEF Codepoint, CodepointFunction
<1>9. f = [k \in 0..n |-> IF k = 0 THEN base ELSE Accumulated(f[k - 1], char(k))]
  BY <1>7 DEF CodepointFunction, base, char
<1> HIDE DEF f, n
<1>10. f[0] = base /\ f[1] = a1
  BY <1>3, <1>9 DEF a1
<1>11. n >= 2 => f[2] = a2
  BY <1>3, <1>9, <1>10 DEF a2
<1>12. n >= 3 => f[3] = a3
  BY <1>3, <1>9, <1>11 DEF a3
<1>13. n = 1 \/ n = 2 \/ n = 3
  BY <1>3
<1> QED BY <1>4, <1>5, <1>6, <1>8, <1>10, <1>11, <1>12, <1>13

\* From position j on, a text has whole characters as far as length; the last may go
\* on behind it.
Ends(text, length, j, n) ==
    /\ \A k \in 1..n : IsContinuation(CharAt(text, j + k))
    /\ j + n + 1 =< length => ~IsContinuation(CharAt(text, j + n + 1))
Fine(text, length, j) ==
    \/ IsContinuation(CharAt(text, j))
    \/ CharAt(text, j) =< 127 /\ Ends(text, length, j, 0)
    \/ IsFirst(CharAt(text, j)) /\ Ends(text, length, j, Announced(CharAt(text, j)))
Whole(text, length, j) ==
    j =< length => ~IsContinuation(CharAt(text, j)) /\ \A k \in j..length : Fine(text, length, k)

\* The character at a position is one of three kinds.
LEMMA ThreeKinds ==
  ASSUME NEW byte \in Nat
  PROVE  /\ IsContinuation(byte) => ~(byte =< 127) /\ ~IsFirst(byte)
         /\ byte =< 127 => ~IsFirst(byte)
<1>1. IsFirst(byte) <=> byte \in 192..247
  BY FirstBytesAre
<1> QED BY <1>1 DEF IsContinuation

\* What is behind the first character is whole if the text is, and the other way round.
LEMMA WholeStep ==
  ASSUME NEW text \in Seq(0..255), NEW length \in 0..Len(text), NEW j \in 1..length
  PROVE  Whole(text, length, j) <=>
           \/ CharAt(text, j) =< 127 /\ Whole(text, length, j + 1)
           \/ /\ IsFirst(CharAt(text, j))
              /\ \A k \in 1..Announced(CharAt(text, j)) : IsContinuation(CharAt(text, j + k))
              /\ Whole(text, length, j + 1 + Announced(CharAt(text, j)))
<1> DEFINE c == CharAt(text, j)
           n == Announced(c)
           cont(k) == IsContinuation(CharAt(text, k))
           fine(k) == Fine(text, length, k)
<1>1. Len(text) \in Nat /\ length \in Nat /\ j \in Nat /\ j =< length
  BY LenProperties
<1>2. c \in Nat
  <2>1. j \in 1..Len(text)
    BY <1>1
  <2>2. text[j] \in 0..255
    BY <2>1, ElementOfSeq
  <2>3. j =< Len(text)
    BY <2>1
  <2>4. c = text[j]
    BY <2>3 DEF CharAt
  <2>5. text[j] \in Nat
    <3>1. \A b \in 0..255 : b \in Nat
      OBVIOUS
    <3> QED BY Zenon, <2>2, <3>1
  <2> HIDE DEF c
  <2> QED BY <2>4, <2>5
<1>3. IsFirst(c) => n \in 1..3
  <2> HIDE DEF c
  <2> QED BY <1>2, FirstBytesAre
<1>4. /\ cont(j) => ~(c =< 127) /\ ~IsFirst(c)
      /\ c =< 127 => ~IsFirst(c)
  BY <1>2, ThreeKinds
<1>5. fine(j) <=> \/ cont(j)
                  \/ c =< 127 /\ Ends(text, length, j, 0)
                  \/ IsFirst(c) /\ Ends(text, length, j, n)
  BY Zenon DEF Fine
<1>6. \A m \in Nat : Ends(text, length, j, m) <=> /\ \A k \in 1..m : cont(j + k)
                                                  /\ j + m + 1 =< length => ~cont(j + m + 1)
  BY DEF Ends
<1>7. \A k : Whole(text, length, k) <=> (k =< length => ~cont(k) /\ \A m \in k..length : fine(m))
  BY DEF Whole
<1>8. \A k : cont(k) => fine(k)
  BY DEF Fine
<1> HIDE DEF c, n, cont, fine
<1>9. ASSUME c =< 127 PROVE Whole(text, length, j) <=> Whole(text, length, j + 1)
  <2>1. fine(j) <=> (j + 1 =< length => ~cont(j + 1))
    <3>1. fine(j) <=> Ends(text, length, j, 0)
      BY Zenon, <1>4, <1>5, <1>9
    <3>2. j + 0 + 1 = j + 1 /\ 1..0 = {}
      BY <1>1
    <3> QED BY <1>6, <3>1, <3>2
  <2>2. ASSUME Whole(text, length, j) PROVE Whole(text, length, j + 1)
    BY <1>1, <1>7, <2>1, <2>2
  <2>3. ASSUME Whole(text, length, j + 1) PROVE Whole(text, length, j)
    <3>1. ~cont(j)
      BY <1>4, <1>9
    <3>2. fine(j)
      BY <1>7, <2>1, <2>3
    <3>3. ASSUME NEW m \in j..length PROVE fine(m)
      <4>1. CASE m = j
        BY <3>2, <4>1
      <4>2. CASE m # j
        <5>1. j + 1 =< length /\ m \in (j + 1)..length
          BY <1>1, <4>2
        <5> QED BY <1>7, <2>3, <5>1
      <4> QED BY <4>1, <4>2
    <3> QED BY <1>7, <3>1, <3>3
  <2> QED BY <2>2, <2>3
<1>10. ASSUME IsFirst(c)
       PROVE  Whole(text, length, j) <=>
                (\A k \in 1..n : cont(j + k)) /\ Whole(text, length, j + 1 + n)
  <2>0. n \in 1..3 /\ n \in Nat
    BY <1>3, <1>10
  <2>1. fine(j) <=> /\ \A k \in 1..n : cont(j + k)
                    /\ j + n + 1 =< length => ~cont(j + n + 1)
    <3>1. fine(j) <=> Ends(text, length, j, n)
      BY <1>4, <1>5, <1>10
    <3> QED BY <1>6, <2>0, <3>1
  <2>2. j + 1 + n = j + n + 1
    BY <1>1, <2>0
  <2>3. ASSUME Whole(text, length, j)
        PROVE  (\A k \in 1..n : cont(j + k)) /\ Whole(text, length, j + n + 1)
    <3>1. fine(j) /\ \A m \in j..length : fine(m)
      BY <1>1, <1>7, <2>3
    <3>2. \A m \in (j + n + 1)..length : m \in j..length
      BY <1>1, <2>0
    <3> QED BY <1>7, <2>1, <3>1, <3>2
  <2>4. ASSUME \A k \in 1..n : cont(j + k), Whole(text, length, j + n + 1)
        PROVE  Whole(text, length, j)
    <3>1. ~cont(j)
      BY <1>4, <1>10
    <3>2. fine(j)
      BY <1>7, <2>1, <2>4
    <3>3. ASSUME NEW m \in j..length PROVE fine(m)
      <4>1. CASE m = j
        BY <3>2, <4>1
      <4>2. CASE m \in (j + 1)..(j + n)
        <5>1. m - j \in 1..n /\ j + (m - j) = m
          BY <1>1, <2>0, <4>2
        <5>2. cont(m)
          BY <2>4, <5>1
        <5> QED BY <1>8, <5>2
      <4>3. CASE m > j + n
        <5>1. j + n + 1 =< length /\ m \in (j + n + 1)..length
          BY <1>1, <2>0, <4>3
        <5> QED BY <1>7, <2>4, <5>1
      <4> QED BY <1>1, <2>0, <4>1, <4>2, <4>3
    <3> QED BY <1>7, <3>1, <3>3
  <2> QED BY <2>2, <2>3, <2>4
<1>11. ASSUME Whole(text, length, j) PROVE c =< 127 \/ IsFirst(c)
  <2>1. ~cont(j) /\ fine(j)
    BY <1>1, <1>7, <1>11
  <2> QED BY <1>5, <2>1
<1>12. Whole(text, length, j) <=>
           \/ c =< 127 /\ Whole(text, length, j + 1)
           \/ IsFirst(c) /\ (\A k \in 1..n : cont(j + k)) /\ Whole(text, length, j + 1 + n)
  BY <1>9, <1>10, <1>11
<1> QED BY <1>12 DEF c, n, cont

\* The function of which the validator gives the first value.
ValidFunction(text, length, f) ==
    f = [k \in 1..(length + 4) |->
          \/ k > length
          \/ text[k] =< 127 /\ f[k + 1]
          \/ /\ IsFirst(text[k])
             /\ AllContinue(text, k, Announced(text[k]))
             /\ Codepoint(text, k) \notin Surrogates
             /\ f[k + 1 + Announced(text[k])]]

\* The validator accepts what is whole.
LEMMA ValidIsWhole ==
  ASSUME NEW text \in Seq(0..255), NEW length \in 0..Len(text)
  PROVE  validate_null_terminated_utf8(text, length) <=> Whole(text, length, 1)
<1> DEFINE f == CHOOSE h : ValidFunction(text, length, h)
           w == [k \in 1..(length + 4) |-> Whole(text, length, k)]
           next(g, k) == \/ k > length
                         \/ text[k] =< 127 /\ g[k + 1]
                         \/ /\ IsFirst(text[k])
                            /\ AllContinue(text, k, Announced(text[k]))
                            /\ Codepoint(text, k) \notin Surrogates
                            /\ g[k + 1 + Announced(text[k])]
<1>1. Len(text) \in Nat /\ length \in Nat
  BY LenProperties
<1>2. validate_null_terminated_utf8(text, length) = f[1]
  BY DEF validate_null_terminated_utf8, ValidFunction
<1>3. \A k \in 1..length : /\ text[k] = CharAt(text, k) /\ text[k] \in Nat
                           /\ k + 1 \in 1..(length + 4)
                           /\ IsFirst(text[k]) => /\ Announced(text[k]) \in 1..3
                                                  /\ k + 1 + Announced(text[k]) \in 1..(length + 4)
                                                  /\ Codepoint(text, k) \notin Surrogates
  <2>1. ASSUME NEW k \in 1..length
        PROVE  /\ text[k] = CharAt(text, k) /\ text[k] \in Nat
               /\ k + 1 \in 1..(length + 4)
               /\ IsFirst(text[k]) => /\ Announced(text[k]) \in 1..3
                                      /\ k + 1 + Announced(text[k]) \in 1..(length + 4)
                                      /\ Codepoint(text, k) \notin Surrogates
    <3>1. k \in 1..Len(text)
      BY <1>1
    <3>2. text[k] \in 0..255 /\ text[k] \in Nat /\ text[k] = CharAt(text, k)
      <4>1. text[k] \in 0..255
        BY <3>1, ElementOfSeq
      <4>2. k =< Len(text)
        BY <3>1
      <4>3. text[k] = CharAt(text, k)
        BY <4>2 DEF CharAt
      <4>4. text[k] \in Nat
        <5>1. \A b \in 0..255 : b \in Nat
          OBVIOUS
        <5> QED BY Zenon, <4>1, <5>1
      <4> QED BY <4>1, <4>3, <4>4
    <3>3. IsFirst(text[k]) => Announced(text[k]) \in 1..3
      BY <3>2, FirstBytesAre
    <3>4. IsFirst(text[k]) => Codepoint(text, k) \notin Surrogates
      BY <3>1, CodepointIsNoSurrogate
    <3> QED BY <1>1, <3>2, <3>3, <3>4
  <2> QED BY <2>1
<1>4. \A k \in 1..(length + 4) : k > length => Whole(text, length, k)
  BY <1>1 DEF Whole
<1>5. \A k \in 1..length :
         Whole(text, length, k) <=>
           \/ text[k] =< 127 /\ Whole(text, length, k + 1)
           \/ /\ IsFirst(text[k])
              /\ AllContinue(text, k, Announced(text[k]))
              /\ Whole(text, length, k + 1 + Announced(text[k]))
  <2>1. ASSUME NEW k \in 1..length
        PROVE  Whole(text, length, k) <=>
           \/ text[k] =< 127 /\ Whole(text, length, k + 1)
           \/ /\ IsFirst(text[k])
              /\ AllContinue(text, k, Announced(text[k]))
              /\ Whole(text, length, k + 1 + Announced(text[k]))
    BY <1>3, WholeStep DEF AllContinue
  <2> QED BY <2>1
<1>6. \A k \in 1..(length + 4) : w[k] = next(w, k)
  <2>1. ASSUME NEW k \in 1..(length + 4) PROVE w[k] = next(w, k)
    <3>1. CASE k > length
      BY <1>4, <3>1
    <3>2. CASE ~(k > length)
      <4>1. k \in 1..length
        BY <1>1, <3>2
      <4>2. w[k + 1] = Whole(text, length, k + 1)
        BY <1>3, <4>1
      <4>3. IsFirst(text[k]) => w[k + 1 + Announced(text[k])] = Whole(text, length, k + 1 + Announced(text[k]))
        BY <1>3, <4>1
      <4>4. w[k] = Whole(text, length, k)
        OBVIOUS
      <4>5. w[k] <=> next(w, k)
        <5> HIDE DEF w
        <5> QED BY <1>3, <1>5, <3>2, <4>1, <4>2, <4>3, <4>4
      <4>6. w[k] \in BOOLEAN /\ next(w, k) \in BOOLEAN
        BY <4>4 DEF Whole
      <4> HIDE DEF w, next
      <4> QED BY <4>5, <4>6
    <3> QED BY <3>1, <3>2
  <2> QED BY <2>1
<1>7. ValidFunction(text, length, f)
  <2>1. w = [k \in 1..(length + 4) |-> next(w, k)]
    <3> HIDE DEF next
    <3> QED BY <1>6
  <2>2. ValidFunction(text, length, w)
    BY <2>1 DEF ValidFunction
  <2> HIDE DEF w
  <2> QED BY <2>2
<1>8. \A k \in 1..(length + 4) : f[k] = next(f, k)
  BY <1>7 DEF ValidFunction
<1> HIDE DEF f
<1> DEFINE S == {m \in Nat : \A k \in 1..(length + 4) : k + m > length => (f[k] <=> Whole(text, length, k))}
<1>9. 0 \in S
  <2>1. ASSUME NEW k \in 1..(length + 4), k + 0 > length PROVE f[k] <=> Whole(text, length, k)
    <3>1. k > length
      BY <1>1, <2>1
    <3>2. f[k] = TRUE
      BY <1>8, <3>1
    <3> QED BY <1>4, <3>1, <3>2
  <2> QED BY <2>1
<1>10. ASSUME NEW m \in Nat, m \in S PROVE m + 1 \in S
  <2>1. ASSUME NEW k \in 1..(length + 4), k + (m + 1) > length PROVE f[k] <=> Whole(text, length, k)
    <3>1. CASE k > length
      <4>1. f[k] = TRUE
        BY <1>8, <3>1
      <4> QED BY <1>4, <3>1, <4>1
    <3>2. CASE ~(k > length)
      <4>1. k \in 1..length
        BY <1>1, <3>2
      <4>2. f[k + 1] <=> Whole(text, length, k + 1)
        <5>1. (k + 1) + m > length /\ k + 1 \in 1..(length + 4)
          BY <1>1, <2>1, <4>1
        <5> QED BY <1>10, <5>1
      <4>3. IsFirst(text[k]) => (f[k + 1 + Announced(text[k])] <=> Whole(text, length, k + 1 + Announced(text[k])))
        <5>1. ASSUME IsFirst(text[k]) PROVE k + 1 + Announced(text[k]) + m > length
          <6>1. Announced(text[k]) \in 1..3
            BY <1>3, <4>1, <5>1
          <6> QED BY <1>1, <2>1, <4>1, <6>1
        <5> QED BY <1>3, <1>10, <4>1, <5>1
      <4>4. f[k] = next(f, k)
        BY <1>8
      <4>5. next(f, k) <=> \/ text[k] =< 127 /\ f[k + 1]
                           \/ /\ IsFirst(text[k])
                              /\ AllContinue(text, k, Announced(text[k]))
                              /\ f[k + 1 + Announced(text[k])]
        BY <1>3, <3>2, <4>1
      <4> HIDE DEF next
      <4> QED BY <1>5, <4>1, <4>2, <4>3, <4>4, <4>5
    <3> QED BY <3>1, <3>2
  <2> QED BY <2>1
<1>11. Nat \subseteq S
  <2> HIDE DEF S
  <2> QED BY <1>9, <1>10, InductionOnNat
<1>12. f[1] <=> Whole(text, length, 1)
  <2>1. length \in S /\ 1 \in 1..(length + 4) /\ 1 + length > length
    <3> HIDE DEF S
    <3> QED BY <1>1, <1>11
  <2> QED BY <2>1
<1> QED BY <1>2, <1>12

\* The continuation bytes behind a position, among the first n bytes of a text.
Run(text, n, j) ==
    {m \in 1..n : m > j /\ \A k \in (j + 1)..m : IsContinuation(CharAt(text, k))}

\* What it takes for the first n bytes to be well-formed, said of the text they begin.
LEMMA WellFormedPrefix ==
  ASSUME NEW text \in Seq(0..255), NEW n \in 0..Len(text)
  PROVE  WellFormed(SubSeq(text, 1, n)) <=>
           /\ n >= 1 => ~IsContinuation(CharAt(text, 1))
           /\ \A j \in 1..n :
                \/ IsContinuation(CharAt(text, j))
                \/ CharAt(text, j) =< 127 /\ Run(text, n, j) = {}
                \/ /\ IsFirst(CharAt(text, j))
                   /\ Run(text, n, j) = (j + 1)..(j + Announced(CharAt(text, j)))
<1> DEFINE t == SubSeq(text, 1, n)
           run(j) == {m \in DOMAIN t : m > j /\ \A k \in (j + 1)..m : IsContinuation(t[k])}
<1>1. Len(text) \in Nat /\ n \in Nat /\ n =< Len(text)
  BY LenProperties
<1>2. t \in Seq(0..255) /\ Len(t) = n /\ \A k \in 1..n : t[k] = text[k]
  BY FirstElements
<1> HIDE DEF t
<1>3. DOMAIN t = 1..n
  BY <1>2, LenProperties
<1>4. \A k \in 1..n : t[k] = CharAt(text, k)
  <2>1. ASSUME NEW k \in 1..n PROVE text[k] = CharAt(text, k)
    <3>1. k =< Len(text)
      BY <1>1
    <3> QED BY <3>1 DEF CharAt
  <2> QED BY <1>2, <2>1
<1>5. ASSUME NEW j \in 1..n PROVE run(j) = Run(text, n, j)
  <2>1. ASSUME NEW m \in 1..n
        PROVE  (\A k \in (j + 1)..m : IsContinuation(t[k]))
                 <=> (\A k \in (j + 1)..m : IsContinuation(CharAt(text, k)))
    <3>1. \A k \in (j + 1)..m : k \in 1..n
      BY <1>1
    <3>2. \A k \in (j + 1)..m : t[k] = CharAt(text, k)
      BY <1>4, <3>1
    <3> QED BY <3>2
  <2> QED BY <1>3, <2>1 DEF Run
<1>6. WellFormed(t) <=>
        /\ t # <<>> => ~IsContinuation(t[1])
        /\ \A j \in DOMAIN t :
             \/ IsContinuation(t[j])
             \/ t[j] =< 127 /\ run(j) = {}
             \/ IsFirst(t[j]) /\ run(j) = (j + 1)..(j + Announced(t[j]))
  BY DEF WellFormed
<1> HIDE DEF run
<1>7. (t # <<>> => ~IsContinuation(t[1])) <=> (n >= 1 => ~IsContinuation(CharAt(text, 1)))
  <2>1. t # <<>> <=> n >= 1
    <3>1. CASE t = <<>>
      <4>1. Len(t) = 0
        BY <3>1
      <4> QED BY <1>2, <3>1, <4>1
    <3>2. CASE t # <<>>
      BY <1>1, <1>2, <3>2, EmptySeq
    <3> QED BY <3>1, <3>2
  <2>2. n >= 1 => t[1] = CharAt(text, 1)
    BY <1>1, <1>4
  <2> QED BY <2>1, <2>2
<1>8. (\A j \in DOMAIN t :
             \/ IsContinuation(t[j])
             \/ t[j] =< 127 /\ run(j) = {}
             \/ IsFirst(t[j]) /\ run(j) = (j + 1)..(j + Announced(t[j])))
      <=> \A j \in 1..n :
                \/ IsContinuation(CharAt(text, j))
                \/ CharAt(text, j) =< 127 /\ Run(text, n, j) = {}
                \/ /\ IsFirst(CharAt(text, j))
                   /\ Run(text, n, j) = (j + 1)..(j + Announced(CharAt(text, j)))
  BY <1>3, <1>4, <1>5
<1> QED BY <1>6, <1>7, <1>8 DEF t

\* A text is whole as far as length exactly if it is well-formed as far, or with the
\* continuation bytes behind that its last character still needs.
LEMMA WholeIsWellFormed ==
  ASSUME NEW text \in Seq(0..255), NEW length \in 0..Len(text)
  PROVE  Whole(text, length, 1) <=>
           \E n \in length..Len(text) :
               /\ WellFormed(SubSeq(text, 1, n))
               /\ \A k \in (length + 1)..n : IsContinuation(CharAt(text, k))
<1> DEFINE c(k) == CharAt(text, k)
           cont(k) == IsContinuation(c(k))
           Ok(n, j) == \/ cont(j)
                       \/ c(j) =< 127 /\ Run(text, n, j) = {}
                       \/ IsFirst(c(j)) /\ Run(text, n, j) = (j + 1)..(j + Announced(c(j)))
<1>1. Len(text) \in Nat /\ length \in Nat /\ length =< Len(text)
  BY LenProperties
<1>2. \A n \in 0..Len(text) : WellFormed(SubSeq(text, 1, n)) <=>
         (n >= 1 => ~cont(1)) /\ \A j \in 1..n : Ok(n, j)
  BY WellFormedPrefix
<1>3. \A k \in Nat : k >= 1 => c(k) \in Nat
  <2>1. ASSUME NEW k \in Nat, k >= 1 PROVE c(k) \in Nat
    <3>1. CASE k =< Len(text)
      <4>1. k \in 1..Len(text)
        BY <1>1, <2>1, <3>1
      <4>2. text[k] \in 0..255
        BY <4>1, ElementOfSeq
      <4>3. \A b \in 0..255 : b \in Nat
        OBVIOUS
      <4>4. text[k] \in Nat
        BY Zenon, <4>2, <4>3
      <4>5. c(k) = text[k]
        BY <3>1 DEF CharAt
      <4> HIDE DEF c
      <4> QED BY <4>4, <4>5
    <3>2. CASE ~(k =< Len(text))
      BY <3>2 DEF CharAt
    <3> QED BY <3>1, <3>2
  <2> QED BY <2>1
<1>4. \A k \in Nat : cont(k) => k =< Len(text)
  BY <1>1 DEF CharAt, IsContinuation
<1>5. \A k : k \in Nat /\ k >= 1 =>
         /\ IsFirst(c(k)) => Announced(c(k)) \in 1..3
         /\ cont(k) => ~(c(k) =< 127) /\ ~IsFirst(c(k))
         /\ c(k) =< 127 => ~IsFirst(c(k))
  <2>1. ASSUME NEW k \in Nat, k >= 1
        PROVE  /\ IsFirst(c(k)) => Announced(c(k)) \in 1..3
               /\ cont(k) => ~(c(k) =< 127) /\ ~IsFirst(c(k))
               /\ c(k) =< 127 => ~IsFirst(c(k))
    <3>1. c(k) \in Nat
      BY <1>3, <2>1
    <3> HIDE DEF c
    <3> QED BY <3>1, FirstBytesAre, ThreeKinds
  <2> QED BY <2>1
<1>15. ASSUME NEW k \in Nat, k >= 1, IsFirst(c(k)) PROVE Announced(c(k)) \in 1..3
  <2>1. c(k) \in Nat
    BY <1>3, <1>15
  <2> HIDE DEF c
  <2> QED BY <1>15, <2>1, FirstBytesAre
<1>16. ASSUME NEW j, NEW m, Ends(text, length, j, m)
       PROVE  (\A k \in 1..m : cont(j + k)) /\ (j + m + 1 =< length => ~cont(j + m + 1))
  BY <1>16 DEF Ends
<1>6. \A j, m : Ends(text, length, j, m) <=> /\ \A k \in 1..m : cont(j + k)
                                             /\ j + m + 1 =< length => ~cont(j + m + 1)
  BY DEF Ends
<1>7. \A j : Fine(text, length, j) <=> \/ cont(j)
                                       \/ c(j) =< 127 /\ Ends(text, length, j, 0)
                                       \/ IsFirst(c(j)) /\ Ends(text, length, j, Announced(c(j)))
  BY Zenon DEF Fine
<1>8. Whole(text, length, 1) <=> (1 =< length => ~cont(1) /\ \A k \in 1..length : Fine(text, length, k))
  BY DEF Whole
<1>9. \A n, j : Run(text, n, j) = {m \in 1..n : m > j /\ \A k \in (j + 1)..m : cont(k)}
  BY DEF Run
<1> HIDE DEF c, cont
<1>10. ASSUME NEW n \in length..Len(text), WellFormed(SubSeq(text, 1, n)) PROVE Whole(text, length, 1)
  <2>1. n \in Nat /\ n \in 0..Len(text)
    BY <1>1
  <2>2. (n >= 1 => ~cont(1)) /\ \A j \in 1..n : Ok(n, j)
    BY <1>2, <1>10, <2>1
  <2>3. ASSUME NEW j \in 1..length PROVE Fine(text, length, j)
    <3>1. j \in Nat /\ j >= 1 /\ j =< n /\ Ok(n, j)
      BY <1>1, <2>1, <2>2
    <3>2. CASE cont(j)
      BY <1>7, <3>2
    <3>3. CASE c(j) =< 127 /\ Run(text, n, j) = {}
      <4>1. ASSUME j + 1 =< length, cont(j + 1) PROVE FALSE
        <5>1. j + 1 \in 1..n /\ j + 1 > j /\ \A k \in (j + 1)..(j + 1) : k = j + 1
          BY <1>1, <2>1, <4>1
        <5>2. j + 1 \in Run(text, n, j)
          BY <1>9, <4>1, <5>1
        <5> QED BY <3>3, <5>2
      <4>2. 1..0 = {} /\ j + 0 + 1 = j + 1
        BY <3>1
      <4>3. Ends(text, length, j, 0)
        BY <1>6, <4>1, <4>2
      <4> QED BY <1>7, <3>3, <4>3
    <3>4. CASE IsFirst(c(j)) /\ Run(text, n, j) = (j + 1)..(j + Announced(c(j)))
      <4> DEFINE a == Announced(c(j))
      <4>1. a \in 1..3 /\ a \in Nat
        BY <1>15, <3>1, <3>4
      <4> HIDE DEF a
      <4>2. Run(text, n, j) = (j + 1)..(j + a)
        BY <3>4 DEF a
      <4>3. ASSUME NEW k \in 1..a PROVE cont(j + k)
        <5>1. j + k \in Run(text, n, j) /\ j + k \in (j + 1)..(j + k)
          BY <3>1, <4>1, <4>2
        <5> QED BY <1>9, <5>1
      <4>4. ASSUME j + a + 1 =< length, cont(j + a + 1) PROVE FALSE
        <5>1. \A k \in (j + 1)..(j + a + 1) : cont(k)
          <6>1. ASSUME NEW k \in (j + 1)..(j + a + 1) PROVE cont(k)
            <7>1. CASE k = j + a + 1
              BY <4>4, <7>1
            <7>2. CASE k # j + a + 1
              <8>1. k - j \in 1..a /\ j + (k - j) = k
                BY <3>1, <4>1, <7>2
              <8> QED BY <4>3, <8>1
            <7> QED BY <7>1, <7>2
          <6> QED BY <6>1
        <5>2. j + a + 1 \in 1..n /\ j + a + 1 > j
          BY <1>1, <2>1, <3>1, <4>1, <4>4
        <5>3. j + a + 1 \in Run(text, n, j)
          BY <1>9, <5>1, <5>2
        <5>4. j + a + 1 \notin (j + 1)..(j + a)
          BY <3>1, <4>1
        <5> QED BY <4>2, <5>3, <5>4
      <4>5. Ends(text, length, j, a)
        BY <1>6, <4>3, <4>4
      <4> QED BY <1>7, <3>4, <4>5 DEF a
    <3> QED BY <3>1, <3>2, <3>3, <3>4
  <2> QED BY <1>1, <1>8, <2>1, <2>2, <2>3
<1>11. ASSUME Whole(text, length, 1), length >= 1
       PROVE  \E n \in length..Len(text) :
                 WellFormed(SubSeq(text, 1, n)) /\ \A k \in (length + 1)..n : cont(k)
  <2>1. ~cont(1) /\ \A k \in 1..length : Fine(text, length, k)
    BY <1>8, <1>11
  <2> DEFINE starts == {k \in 1..length : ~cont(k)}
  <2>2. PICK s \in starts : \A k \in starts : k =< s
    <3>1. starts \in SUBSET (0..((length + 1) - 1)) /\ starts # {} /\ length + 1 \in Nat
      BY <1>1, <1>11, <2>1
    <3> HIDE DEF starts
    <3> QED BY <3>1, HighestBit
  <2>3. s \in 1..length /\ s \in Nat /\ s >= 1 /\ ~cont(s) /\ Fine(text, length, s)
    BY <2>1, <2>2
  <2>4. \A k \in (s + 1)..length : cont(k)
    BY <1>1, <2>2, <2>3
  <2>5. PICK a \in 0..3 : Ends(text, length, s, a) /\ \/ a = 0 /\ c(s) =< 127
                                                      \/ IsFirst(c(s)) /\ a = Announced(c(s)) /\ a >= 1
    <3>1. CASE c(s) =< 127 /\ Ends(text, length, s, 0)
      BY <3>1
    <3>2. CASE IsFirst(c(s)) /\ Ends(text, length, s, Announced(c(s)))
      <4>1. Announced(c(s)) \in 1..3
        BY <1>15, <2>3, <3>2
      <4> QED BY <3>2, <4>1
    <3> QED BY <1>7, <2>3, <3>1, <3>2
  <2>6. (\A k \in 1..a : cont(s + k)) /\ (s + a + 1 =< length => ~cont(s + a + 1)) /\ a \in Nat
    <3>1. a \in Nat
      OBVIOUS
    <3>2. Ends(text, length, s, a) <=> /\ \A k \in 1..a : cont(s + k)
                                       /\ s + a + 1 =< length => ~cont(s + a + 1)
      BY <1>6
    <3> QED BY <2>5, <3>1, <3>2, Zenon
  <2> DEFINE n == s + a
  <2>7. n >= length /\ n \in Nat
    <3>1. CASE s + a + 1 =< length
      <4>1. s + a + 1 \in (s + 1)..length
        BY <1>1, <2>3, <2>6, <3>1
      <4> QED BY <2>4, <2>6, <3>1, <4>1
    <3>2. CASE ~(s + a + 1 =< length)
      BY <1>1, <2>3, <2>6, <3>2
    <3> QED BY <3>1, <3>2
  <2>8. \A k \in (s + 1)..n : cont(k)
    <3>1. ASSUME NEW k \in (s + 1)..n PROVE cont(k)
      <4>1. k - s \in 1..a /\ s + (k - s) = k
        BY <2>3, <2>6
      <4> QED BY <2>6, <4>1
    <3> QED BY <3>1
  <2>9. n =< Len(text)
    <3>1. CASE a = 0
      BY <1>1, <2>3, <3>1
    <3>2. CASE a # 0
      <4>1. n \in (s + 1)..n
        BY <2>3, <2>6, <3>2
      <4> QED BY <1>4, <2>7, <2>8, <4>1
    <3> QED BY <3>1, <3>2
  <2>10. n \in length..Len(text) /\ n \in 0..Len(text) /\ \A k \in (length + 1)..n : k \in (s + 1)..n
    BY <1>1, <2>3, <2>7, <2>9
  <2> HIDE DEF n
  <2>11. ASSUME NEW j \in 1..n PROVE Ok(n, j)
    <3>0. j \in Nat /\ j >= 1
      OBVIOUS
    <3>1. CASE j > s
      <4>1. j \in (s + 1)..n
        BY <2>3, <2>7, <3>1
      <4> QED BY <2>8, <4>1
    <3>2. CASE j = s
      <4>1. Run(text, n, s) = (s + 1)..n
        <5>1. ASSUME NEW m \in (s + 1)..n PROVE m \in Run(text, n, s)
          <6>1. m \in 1..n /\ m > s /\ \A k \in (s + 1)..m : k \in (s + 1)..n
            BY <2>3, <2>7
          <6> QED BY <1>9, <2>8, <6>1
        <5>2. ASSUME NEW m \in Run(text, n, s) PROVE m \in (s + 1)..n
          <6>1. m \in 1..n /\ m > s
            BY <1>9
          <6> QED BY <2>3, <2>7, <6>1
        <5> QED BY <5>1, <5>2
      <4>2. CASE a = 0 /\ c(s) =< 127
        <5>1. (s + 1)..n = {}
          BY <2>3, <4>2 DEF n
        <5> QED BY <3>2, <4>1, <4>2, <5>1
      <4>3. CASE IsFirst(c(s)) /\ a = Announced(c(s))
        BY <3>2, <4>1, <4>3 DEF n
      <4> QED BY <2>5, <4>2, <4>3
    <3>3. CASE j < s
      <4>1. j \in 1..length /\ Fine(text, length, j)
        BY <1>1, <2>1, <2>3, <3>0, <3>3
      <4>2. CASE cont(j)
        BY <4>2
      <4>3. ASSUME ~cont(j) PROVE Ok(n, j)
        <5>1. PICK b \in 0..3 : Ends(text, length, j, b) /\ \/ b = 0 /\ c(j) =< 127
                                                            \/ IsFirst(c(j)) /\ b = Announced(c(j)) /\ b >= 1
          <6>1. CASE c(j) =< 127 /\ Ends(text, length, j, 0)
            BY <6>1
          <6>2. CASE IsFirst(c(j)) /\ Ends(text, length, j, Announced(c(j)))
            <7>1. Announced(c(j)) \in 1..3
              BY <1>15, <3>0, <6>2
            <7> QED BY <6>2, <7>1
          <6> QED BY <1>7, <4>1, <4>3, <6>1, <6>2
        <5>2. (\A k \in 1..b : cont(j + k)) /\ (j + b + 1 =< length => ~cont(j + b + 1)) /\ b \in Nat
          <6>1. Ends(text, length, j, b)
            BY <5>1
          <6>2. (\A k \in 1..b : cont(j + k)) /\ (j + b + 1 =< length => ~cont(j + b + 1))
            BY <1>16, <6>1
          <6>3. b \in Nat
            OBVIOUS
          <6> QED BY <6>2, <6>3
        <5>3. j + b < s
          <6>1. CASE j + b >= s
            <7>1. s - j \in 1..b /\ j + (s - j) = s
              BY <2>3, <3>0, <3>3, <5>2, <6>1
            <7> QED BY <2>3, <5>2, <7>1
          <6> QED BY <2>3, <3>0, <5>2, <6>1
        <5>4. j + b + 1 =< length /\ ~cont(j + b + 1) /\ j + b + 1 =< n
          BY <1>1, <2>3, <2>7, <3>0, <5>2, <5>3
        <5>5. Run(text, n, j) = (j + 1)..(j + b)
          <6>1. ASSUME NEW m \in (j + 1)..(j + b) PROVE m \in Run(text, n, j)
            <7>1. m \in 1..n /\ m > j
              BY <2>7, <3>0, <5>2, <5>4
            <7>2. ASSUME NEW k \in (j + 1)..m PROVE cont(k)
              <8>1. k - j \in 1..b /\ j + (k - j) = k
                BY <3>0, <5>2
              <8> QED BY <5>2, <8>1
            <7> QED BY <1>9, <7>1, <7>2
          <6>2. ASSUME NEW m \in Run(text, n, j) PROVE m \in (j + 1)..(j + b)
            <7>1. m \in 1..n /\ m > j /\ \A k \in (j + 1)..m : cont(k)
              BY <1>9
            <7>2. CASE m > j + b
              <8>1. j + b + 1 \in (j + 1)..m
                BY <3>0, <5>2, <7>1, <7>2
              <8> QED BY <5>4, <7>1, <8>1
            <7> QED BY <2>7, <3>0, <5>2, <7>1, <7>2
          <6> QED BY <6>1, <6>2
        <5>6. CASE b = 0 /\ c(j) =< 127
          <6>1. (j + 1)..(j + b) = {}
            BY <3>0, <5>6
          <6> QED BY <5>5, <5>6, <6>1
        <5>7. CASE IsFirst(c(j)) /\ b = Announced(c(j))
          BY <5>5, <5>7
        <5> QED BY <5>1, <5>6, <5>7
      <4> QED BY <4>2, <4>3
    <3> QED BY <2>3, <3>0, <3>1, <3>2, <3>3
  <2>12. WellFormed(SubSeq(text, 1, n))
    BY <1>2, <2>1, <2>10, <2>11
  <2> QED BY <2>8, <2>10, <2>12
<1>12. ASSUME length = 0
       PROVE  \E n \in length..Len(text) :
                 WellFormed(SubSeq(text, 1, n)) /\ \A k \in (length + 1)..n : cont(k)
  <2>1. 0 \in 0..Len(text) /\ 1..0 = {} /\ ~(0 >= 1)
    BY <1>1
  <2>2. WellFormed(SubSeq(text, 1, 0))
    BY <1>2, <2>1
  <2>3. \A k \in (length + 1)..0 : cont(k)
    BY <1>12
  <2> QED BY <1>12, <2>1, <2>2, <2>3
<1>13. CASE length = 0
  BY <1>8, <1>12, <1>13 DEF cont, c
<1>14. CASE length >= 1
  BY <1>10, <1>11, <1>14 DEF cont, c
<1> QED BY <1>1, <1>13, <1>14

\* A text and the buffer it is in are looked at alike.
LEMMA WholeInBuffer ==
  ASSUME NEW text \in Seq(0..255), NEW length \in 0..Len(text)
  PROVE  Whole(text \o <<0>>, length, 1) <=> Whole(text, length, 1)
<1> DEFINE z == <<0>>
           b == text \o z
<1>1. z \in Seq(0..255) /\ Len(z) = 1 /\ z[1] = 0 /\ 1 \in 1..Len(z)
  OBVIOUS
<1> HIDE DEF z
<1>2. /\ b \in Seq(0..255) /\ Len(b) = Len(text) + 1
      /\ \A k \in 1..Len(text) : b[k] = text[k]
      /\ \A k \in 1..Len(z) : b[Len(text) + k] = z[k]
  <2>1. /\ b \in Seq(0..255) /\ Len(b) = Len(text) + Len(z)
        /\ \A k \in 1..Len(text) : b[k] = text[k]
        /\ \A k \in 1..Len(z) : b[Len(text) + k] = z[k]
    <3>1. z \in Seq(0..255)
      BY <1>1
    <3>2. /\ text \o z \in Seq(0..255) /\ Len(text \o z) = Len(text) + Len(z)
          /\ \A k \in 1..Len(text) : (text \o z)[k] = text[k]
          /\ \A k \in 1..Len(z) : (text \o z)[Len(text) + k] = z[k]
      BY <3>1, Joined
    <3> QED BY <3>2
  <2> HIDE DEF b
  <2> QED BY <1>1, <2>1
<1> HIDE DEF b
<1>3. Len(text) \in Nat
  BY LenProperties
<1>4. b[Len(text) + 1] = 0
  BY <1>1, <1>2
<1>5. \A k \in Nat : k >= 1 => CharAt(b, k) = CharAt(text, k)
  <2>1. ASSUME NEW k \in Nat, k >= 1 PROVE CharAt(b, k) = CharAt(text, k)
    <3>1. CASE k =< Len(text)
      <4>1. k \in 1..Len(text) /\ k =< Len(b)
        BY <1>2, <1>3, <2>1, <3>1
      <4> QED BY <1>2, <3>1, <4>1 DEF CharAt
    <3>2. CASE k = Len(text) + 1
      <4>1. k =< Len(b) /\ ~(k =< Len(text))
        BY <1>2, <1>3, <3>2
      <4> QED BY <1>4, <3>2, <4>1 DEF CharAt
    <3>3. CASE k > Len(text) + 1
      <4>1. ~(k =< Len(b)) /\ ~(k =< Len(text))
        BY <1>2, <1>3, <3>3
      <4> QED BY <4>1 DEF CharAt
    <3> QED BY <1>3, <3>1, <3>2, <3>3
  <2> QED BY <2>1
<1>6. \A k \in Nat : k >= 1 => CharAt(text, k) \in Nat
  <2>1. ASSUME NEW k \in Nat, k >= 1 PROVE CharAt(text, k) \in Nat
    <3>1. CASE k =< Len(text)
      <4>1. k \in 1..Len(text)
        BY <1>3, <2>1, <3>1
      <4>2. text[k] \in 0..255
        BY <4>1, ElementOfSeq
      <4>3. \A x \in 0..255 : x \in Nat
        OBVIOUS
      <4>4. text[k] \in Nat
        BY Zenon, <4>2, <4>3
      <4> QED BY <3>1, <4>4 DEF CharAt
    <3>2. CASE ~(k =< Len(text))
      BY <3>2 DEF CharAt
    <3> QED BY <3>1, <3>2
  <2> QED BY <2>1
<1>7. ASSUME NEW j \in Nat, j >= 1, NEW n \in Nat PROVE Ends(b, length, j, n) <=> Ends(text, length, j, n)
  <2>1. \A k \in 1..n : j + k \in Nat /\ j + k >= 1
    BY <1>7
  <2>2. j + n + 1 \in Nat /\ j + n + 1 >= 1
    BY <1>7
  <2>3. \A k \in 1..n : CharAt(b, j + k) = CharAt(text, j + k)
    BY <1>5, <2>1
  <2>4. CharAt(b, j + n + 1) = CharAt(text, j + n + 1)
    BY <1>5, <2>2
  <2> QED BY <2>3, <2>4 DEF Ends
<1>8. ASSUME NEW j \in Nat, j >= 1 PROVE Fine(b, length, j) <=> Fine(text, length, j)
  <2> DEFINE c == CharAt(text, j)
             n == Announced(c)
  <2>1. CharAt(b, j) = c /\ c \in Nat
    BY <1>5, <1>6, <1>8
  <2> HIDE DEF c
  <2>2. Ends(b, length, j, 0) <=> Ends(text, length, j, 0)
    BY <1>7, <1>8
  <2>3. IsFirst(c) => (Ends(b, length, j, n) <=> Ends(text, length, j, n))
    <3>1. IsFirst(c) => n \in 1..3
      BY <2>1, FirstBytesAre
    <3>2. n \in 1..3 => n \in Nat
      OBVIOUS
    <3> QED BY <1>7, <1>8, <3>1, <3>2
  <2>4. Fine(b, length, j) <=> \/ IsContinuation(c)
                               \/ c =< 127 /\ Ends(b, length, j, 0)
                               \/ IsFirst(c) /\ Ends(b, length, j, n)
    BY <2>1 DEF Fine
  <2>5. Fine(text, length, j) <=> \/ IsContinuation(c)
                                  \/ c =< 127 /\ Ends(text, length, j, 0)
                                  \/ IsFirst(c) /\ Ends(text, length, j, n)
    BY Zenon DEF Fine, c
  <2> HIDE DEF n
  <2> QED BY <2>2, <2>3, <2>4, <2>5
<1>9. (\A k \in 1..length : Fine(b, length, k)) <=> (\A k \in 1..length : Fine(text, length, k))
  <2>1. \A k \in 1..length : k \in Nat /\ k >= 1
    OBVIOUS
  <2> QED BY <1>8, <2>1
<1>10. CharAt(b, 1) = CharAt(text, 1)
  BY <1>5
<1>11. b = text \o <<0>>
  BY DEF b, z
<1>12. Whole(b, length, 1) <=> Whole(text, length, 1)
  BY <1>9, <1>10 DEF Whole
<1> QED BY <1>11, <1>12

\* The validator accepts a text, or a slice of one, exactly if it is well-formed.
LEMMA ValidIsWellFormed ==
  ASSUME NEW text \in Seq(0..255), NEW length \in 0..Len(text)
  PROVE  validate_null_terminated_utf8(text, length) <=>
           \E n \in length..Len(text) :
               /\ WellFormed(SubSeq(text, 1, n))
               /\ \A k \in (length + 1)..n : IsContinuation(text[k])
<1>1. validate_null_terminated_utf8(text, length) <=>
           \E n \in length..Len(text) :
               /\ WellFormed(SubSeq(text, 1, n))
               /\ \A k \in (length + 1)..n : IsContinuation(CharAt(text, k))
  BY ValidIsWhole, WholeIsWellFormed
<1>2. \A n \in length..Len(text) : \A k \in (length + 1)..n : text[k] = CharAt(text, k)
  <2>1. ASSUME NEW n \in length..Len(text), NEW k \in (length + 1)..n PROVE text[k] = CharAt(text, k)
    <3>1. k =< Len(text)
      BY LenProperties
    <3> QED BY <3>1 DEF CharAt
  <2> QED BY <2>1
<1> QED BY <1>1, <1>2

\* What string_vwritef() looks at is the text it has written, if that is not cut.
LEMMA AcceptedIsWellFormed ==
  ASSUME NEW s, Sound(s), NEW text \in Writes, NEW data, data = Terminated(s.data, s.length, text)
  PROVE  Accepted(s, text, data) <=> validate_null_terminated_utf8(text, Len(text))
<1> DEFINE d == Terminated(s.data, s.length, text)
           b == text \o <<0>>
           m == s.length + 1
           n == s.length + Len(text) + 1
           a == SubSeq(d, m, n)
<1>1. /\ s.length \in Nat /\ Len(text) \in Nat /\ s.length \in 0..Len(s.data) /\ s.data \in Seq(0..255)
      /\ text \in Texts /\ text \in Seq(0..255)
  BY TextsAreBytes, LenProperties DEF Sound, Buffers, Texts
<1>2. data = d
  OBVIOUS
<1>3. /\ d \in Seq(0..255) /\ Len(d) = n
      /\ \A k \in 1..Len(text) : d[s.length + k] = text[k]
      /\ d[n] = 0
  BY <1>1, TerminatedText, SMTT(30)
<1>4. Accepted(s, text, data) <=> validate_null_terminated_utf8(SubSeq(d, s.length + 1, Len(d)), Len(text))
  BY <1>2 DEF Accepted
<1> HIDE DEF d
<1>5. m \in Int /\ n \in Int /\ m =< n /\ n - m + 1 = Len(text) + 1
  <2>1. s.length \in Nat /\ Len(text) \in Nat
    BY <1>1
  <2> QED BY <2>1
<1>6. \A k \in m..n : d[k] \in 0..255
  <2>1. ASSUME NEW k \in m..n PROVE d[k] \in 0..255
    <3>1. k \in 1..Len(d)
      BY <1>1, <1>3
    <3> QED BY <1>3, <3>1, ElementOfSeq
  <2> QED BY <2>1
<1>7. a \in Seq(0..255) /\ Len(a) = Len(text) + 1 /\ \A k \in 1..(Len(text) + 1) : a[k] = d[m + k - 1]
  <2> HIDE DEF m, n
  <2>1. /\ a \in Seq(0..255) /\ Len(a) = IF m <= n THEN n - m + 1 ELSE 0
        /\ \A k \in 1..(n - m + 1) : a[k] = d[m + k - 1]
    <3> DEFINE S == 0..255
    <3>1. m \in Int /\ n \in Int /\ \A k \in m..n : d[k] \in S
      BY <1>5, <1>6
    <3> HIDE DEF S
    <3>2. /\ a \in Seq(S) /\ Len(a) = IF m <= n THEN n - m + 1 ELSE 0
          /\ \A k \in 1..(n - m + 1) : a[k] = d[m + k - 1]
      BY <3>1, SubSeqProperties
    <3> HIDE DEF a
    <3> QED BY <3>2 DEF S
  <2> HIDE DEF a
  <2> QED BY <1>5, <2>1
<1> HIDE DEF a
<1>8. /\ b \in Seq(0..255) /\ Len(b) = Len(text) + 1
      /\ \A k \in 1..Len(text) : b[k] = text[k]
      /\ b[Len(text) + 1] = 0
  <2> DEFINE z == <<0>>
  <2>1. z \in Seq(0..255) /\ Len(z) = 1 /\ z[1] = 0 /\ 1 \in 1..Len(z)
    OBVIOUS
  <2>2. b = text \o z
    OBVIOUS
  <2> HIDE DEF z, b
  <2>3. /\ b \in Seq(0..255) /\ Len(b) = Len(text) + Len(z)
        /\ \A k \in 1..Len(text) : b[k] = text[k]
        /\ \A k \in 1..Len(z) : b[Len(text) + k] = z[k]
    <3>1. /\ text \o z \in Seq(0..255) /\ Len(text \o z) = Len(text) + Len(z)
          /\ \A k \in 1..Len(text) : (text \o z)[k] = text[k]
          /\ \A k \in 1..Len(z) : (text \o z)[Len(text) + k] = z[k]
      BY <1>1, <2>1, Joined
    <3> QED BY <2>2, <3>1
  <2>4. b[Len(text) + 1] = 0
    BY <2>1, <2>3
  <2> QED BY <2>1, <2>3, <2>4
<1> HIDE DEF b
<1>9. ASSUME NEW k \in 1..Len(a) PROVE a[k] = b[k]
  <2>1. k \in 1..(Len(text) + 1) /\ m + k - 1 = s.length + k /\ k \in Nat
    BY <1>1, <1>7
  <2>2. a[k] = d[s.length + k]
    BY <1>7, <2>1
  <2>3. CASE k = Len(text) + 1
    <3>1. s.length + k = n
      <4>1. s.length \in Nat /\ Len(text) \in Nat
        BY <1>1
      <4> QED BY <2>3, <4>1
    <3> QED BY <1>3, <1>8, <2>2, <2>3, <3>1
  <2>4. CASE k # Len(text) + 1
    <3>1. k \in 1..Len(text)
      BY <1>1, <2>1, <2>4
    <3> QED BY <1>3, <1>8, <2>2, <3>1
  <2> QED BY <2>3, <2>4
<1>10. a = b
  <2>1. Len(a) = Len(b)
    BY <1>7, <1>8
  <2> QED BY <1>7, <1>8, <1>9, <2>1, SeqEqual
<1>11. SubSeq(d, s.length + 1, Len(d)) = b
  BY <1>3, <1>10 DEF a
<1>12. Accepted(s, text, data) <=> validate_null_terminated_utf8(b, Len(text))
  BY <1>4, <1>11
<1>13. Len(text) \in 0..Len(b) /\ Len(text) \in 0..Len(text)
  BY <1>1, <1>8
<1>14. validate_null_terminated_utf8(b, Len(text)) <=> Whole(b, Len(text), 1)
  BY <1>8, <1>13, ValidIsWhole
<1>15. validate_null_terminated_utf8(text, Len(text)) <=> Whole(text, Len(text), 1)
  BY <1>1, <1>13, ValidIsWhole
<1>16. Whole(b, Len(text), 1) <=> Whole(text, Len(text), 1)
  BY <1>1, <1>13, WholeInBuffer DEF b
<1> QED BY <1>12, <1>14, <1>15, <1>16

\* An empty text, which string_init() does not look at, would be accepted too.
LEMMA EmptyIsValid == validate_null_terminated_utf8(<<>>, Len(<<>>))
<1>1. <<>> \in Seq(0..255) /\ Len(<<>>) = 0 /\ 0 \in 0..Len(<<>>)
  OBVIOUS
<1>2. Whole(<<>>, 0, 1)
  BY DEF Whole
<1> QED BY <1>1, <1>2, ValidIsWhole

\* What the last call has answered for the text that it has looked at.
AnswersInv ==
    LookedAt =>
      /\ call.text \in Seq(0..255) /\ call.length \in 0..Len(call.text)
      /\ (result = "true") <=> validate_null_terminated_utf8(call.text, call.length)

\* A step keeps what the last call has answered about its text.
LEMMA StepAnswers == StringInv /\ AnswersInv /\ [StringNext]_svars => AnswersInv'
<1> SUFFICES ASSUME StringInv, AnswersInv, [StringNext]_svars, LookedAt'
             PROVE  /\ call'.text \in Seq(0..255) /\ call'.length \in 0..Len(call'.text)
                    /\ (result' = "true") <=> validate_null_terminated_utf8(call'.text, call'.length)
  BY DEF AnswersInv
<1>0. \A text \in Contents \cup Writes : text \in Seq(0..255) /\ Len(text) \in Nat
  BY TextsAreBytes
<1>1. CASE string_init
  <2>1. PICK text \in Contents :
           /\ Call("string_init", text, Len(text))
           /\ result' = IF text = <<>> \/ validate_null_terminated_utf8(text, Len(text)) THEN "true" ELSE "false"
    BY <1>1 DEF string_init
  <2>2. call'.text = text /\ call'.length = Len(text)
    BY <2>1 DEF Call
  <2>3. text = <<>> => validate_null_terminated_utf8(text, Len(text))
    BY EmptyIsValid
  <2>4. result' = "true" <=> validate_null_terminated_utf8(text, Len(text))
    BY <2>1, <2>3
  <2>5. text \in Seq(0..255) /\ Len(text) \in 0..Len(text)
    BY <1>0
  <2> QED BY <2>2, <2>4, <2>5
<1>2. CASE string_fini
  <2>1. call'.name = "string_fini"
    BY <1>2 DEF string_fini, Call
  <2> QED BY <2>1 DEF LookedAt
<1>3. CASE str_init
  <2>0. PICK text \in Contents : \E length \in 0..Len(text) :
           /\ Call("str_init", text, length)
           /\ result' = IF validate_null_terminated_utf8(text, length) THEN "true" ELSE "false"
    BY <1>3 DEF str_init
  <2>1. PICK length \in 0..Len(text) :
           /\ Call("str_init", text, length)
           /\ result' = IF validate_null_terminated_utf8(text, length) THEN "true" ELSE "false"
    BY <2>0
  <2>2. call'.text = text /\ call'.length = length
    BY <2>1 DEF Call
  <2>3. result' = "true" <=> validate_null_terminated_utf8(text, length)
    BY <2>1
  <2>4. text \in Seq(0..255)
    BY <1>0
  <2> QED BY <2>2, <2>3, <2>4
<1>4. CASE string_vwritef
  <2>1. PICK text \in Writes :
           /\ string.length =< MaxLength
           /\ Call("string_vwritef", text, Len(text))
           /\ \/ Dies(string, text) /\ result' = "died" /\ string' = string
              \/ /\ ~Dies(string, text)
                 /\ \E data \in Seen(Filled(string, text), text) :
                      /\ result' = IF Accepted(string, text, data) THEN "true" ELSE "false"
                      /\ string' = Written(string, text, data, Accepted(string, text, data))
    BY <1>4, WriteDoes DEF StringInv
  <2>2. call'.name = "string_vwritef" /\ call'.text = text /\ call'.length = Len(text)
    BY <2>1 DEF Call
  <2>3. result' # "died" /\ NotCut'
    BY <2>2 DEF LookedAt
  <2>4. ~Dies(string, text)
    BY <2>1, <2>3
  <2>5. PICK data \in Seen(Filled(string, text), text) :
           /\ result' = IF Accepted(string, text, data) THEN "true" ELSE "false"
           /\ string' = Written(string, text, data, Accepted(string, text, data))
    BY <2>1, <2>4
  <2> DEFINE ok == Accepted(string, text, data)
  <2>6. (result' = IF ok THEN "true" ELSE "false") /\ string' = Written(string, text, data, ok)
    BY <2>5
  <2>7. ok <=> Accepted(string, text, data)
    OBVIOUS
  <2> HIDE DEF ok
  <2>8. /\ string'.data = data
        /\ string'.length = IF ok THEN string.length + Len(text) ELSE string.length
        /\ string'.capacity - string.length < 2^IntBits =>
             string'.data = Terminated(string.data, string.length, text)
    BY <2>1, <2>4, <2>6, WrittenString DEF StringInv
  <2>9. Start' = string.length
    <3>1. string.length \in Nat /\ Len(text) \in Nat
      BY <1>0 DEF StringInv, Sound, Buffers
    <3>2. CASE ok
      <4>1. result' = "true" /\ string'.length - call'.length = string.length
        BY <2>2, <2>6, <2>8, <3>1, <3>2
      <4> QED BY <4>1 DEF Start
    <3>3. CASE ~ok
      <4>1. result' # "true" /\ string'.length = string.length
        BY <2>6, <2>8, <3>3
      <4> QED BY <4>1 DEF Start
    <3> QED BY <3>2, <3>3
  <2>10. data = Terminated(string.data, string.length, text)
    <3>1. string'.capacity - string.length < 2^IntBits
      BY <2>3, <2>9 DEF NotCut
    <3> QED BY <2>8, <3>1
  <2>11. ok <=> validate_null_terminated_utf8(text, Len(text))
    BY <2>1, <2>7, <2>10, AcceptedIsWellFormed DEF StringInv
  <2>12. text \in Seq(0..255) /\ Len(text) \in 0..Len(text)
    BY <1>0
  <2> QED BY <2>2, <2>6, <2>11, <2>12
<1>5. CASE UNCHANGED svars
  BY <1>5 DEF svars, AnswersInv, LookedAt, NotCut, Start
<1> QED BY <1>1, <1>2, <1>3, <1>4, <1>5 DEF StringNext

\* A String, a Str and a write that is not cut are accepted exactly if the text is
\* well-formed, for every text and every slice: the test for surrogates, and the end of
\* the text in the middle of a character, change nothing of it.
THEOREM AcceptsExactlyWellFormed == StringSpec => []AcceptsWellFormed
<1>1. StringInit => AnswersInv
  BY DEF StringInit, AnswersInv, LookedAt
<1>2. ASSUME AnswersInv PROVE AcceptsWellFormed
  <2>0. SUFFICES ASSUME LookedAt
               PROVE  (result = "true") <=>
                         \E n \in call.length..Len(call.text) :
                             /\ WellFormed(SubSeq(call.text, 1, n))
                             /\ \A k \in (call.length + 1)..n : IsContinuation(call.text[k])
    BY Zenon DEF AcceptsWellFormed
  <2>1. /\ call.text \in Seq(0..255) /\ call.length \in 0..Len(call.text)
        /\ (result = "true") <=> validate_null_terminated_utf8(call.text, call.length)
    BY <1>2, <2>0 DEF AnswersInv
  <2> QED BY <2>1, ValidIsWellFormed
<1> QED BY <1>1, <1>2, InitString, StepString, StepAnswers, PTL DEF StringSpec

=============================================================================
