--------------------------- MODULE CurrencyProofs ----------------------------
(***************************************************************************)
(* Proofs about Currency, for every number of decimals (so for the code's  *)
(* nine) and for texts and amounts of every length: its types, that        *)
(* reading is exact, that what is printed is read back, and which errors   *)
(* texts throw.                                                            *)
(*                                                                         *)
(* Number, TenTo and Digits are defined by recursion.  What they compute   *)
(* is proved by induction in the form of sets: a set with 0 that contains  *)
(* the successors of its members contains Nat.                             *)
(***************************************************************************)
EXTENDS Currency, SequenceTheorems, WellFoundedInduction, TLAPS

LEMMA Induction ==
  ASSUME NEW S, 0 \in S, \A n \in Nat : n \in S => n + 1 \in S
  PROVE  \A n \in Nat : n \in S
<1> DEFINE Less == OpToRel(<, Nat)
           Rest == Nat \ S
<1>1. SUFFICES ASSUME Rest # {} PROVE FALSE
  OBVIOUS
<1>2. PICK n \in Rest : \A m \in Rest : <<m, n>> \notin Less
  <2>1. IsWellFoundedOn(Less, Nat)
    BY NatLessThanWellFounded
  <2>2. Rest \subseteq Nat
    OBVIOUS
  <2> HIDE DEF Less, Rest
  <2> QED
    BY <1>1, <2>1, <2>2, WFMin
<1>3. n # 0 /\ n - 1 \in Rest
  OBVIOUS
<1>4. <<n - 1, n>> \in Less
  BY <1>3 DEF OpToRel
<1> QED
  BY <1>2, <1>3, <1>4

-----------------------------------------------------------------------------
(* Powers of ten.                                                          *)

Powers(n, v) == v = [i \in 0..n |-> IF i = 0 THEN 1 ELSE 10 * v[i - 1]]

LEMMA PowersExist == \A n \in Nat : \E v : Powers(n, v)
<1> DEFINE S == {n \in Nat : \E v : Powers(n, v)}
<1>1. 0 \in S
  <2>1. Powers(0, [i \in 0..0 |-> 1])
    BY DEF Powers
  <2> QED
    BY <2>1
<1>2. ASSUME NEW n \in Nat, n \in S PROVE n + 1 \in S
  <2>1. PICK v : Powers(n, v)
    BY <1>2
  <2> DEFINE w == [i \in 0..(n + 1) |-> IF i = 0 THEN 1 ELSE 10 * v[i - 1]]
  <2>2. ASSUME NEW i \in 0..n PROVE w[i] = v[i]
    <3>1. v[i] = IF i = 0 THEN 1 ELSE 10 * v[i - 1]
      BY <2>1, Zenon DEF Powers
    <3>2. w[i] = IF i = 0 THEN 1 ELSE 10 * v[i - 1]
      OBVIOUS
    <3> QED
      BY <3>1, <3>2
  <2>3. \A i \in 0..(n + 1) : i # 0 => i - 1 \in 0..n
    OBVIOUS
  <2>4. w = [i \in 0..(n + 1) |-> IF i = 0 THEN 1 ELSE 10 * w[i - 1]]
    BY <2>2, <2>3, Zenon
  <2>5. Powers(n + 1, w)
    BY <2>4 DEF Powers
  <2> QED
    BY <2>5
<1> HIDE DEF S
<1>3. \A n \in Nat : n \in S
  BY <1>1, <1>2, Induction
<1> QED
  BY <1>3 DEF S

LEMMA PowersOfTenTo ==
  ASSUME NEW n \in Nat
  PROVE  \E v : Powers(n, v) /\ TenTo(n) = v[n]
<1>1. PICK v : Powers(n, v)
  BY PowersExist
<1> QED
  BY <1>1, Zenon DEF Powers, TenTo

LEMMA PowersAgree ==
  ASSUME NEW m \in Nat, NEW n \in Nat, NEW v, NEW w, Powers(m, v), Powers(n, w), m <= n
  PROVE  v[m] = w[m]
<1> DEFINE S == {i \in Nat : i <= m => v[i] = w[i]}
<1>1. 0 \in S
  BY DEF Powers
<1>2. ASSUME NEW i \in Nat, i \in S PROVE i + 1 \in S
  BY <1>2 DEF Powers
<1> HIDE DEF S
<1>3. \A i \in Nat : i \in S
  BY <1>1, <1>2, Induction
<1> QED
  BY <1>3 DEF S

\* The recursion that TenTo stands for.
LEMMA TenToDef ==
  TenTo(0) = 1 /\ \A n \in Nat : TenTo(n + 1) = 10 * TenTo(n)
<1>1. TenTo(0) = 1
  <2>1. PICK v : Powers(0, v) /\ TenTo(0) = v[0]
    BY PowersOfTenTo
  <2> QED
    BY <2>1 DEF Powers
<1>2. ASSUME NEW n \in Nat PROVE TenTo(n + 1) = 10 * TenTo(n)
  <2>1. PICK v : Powers(n, v) /\ TenTo(n) = v[n]
    BY PowersOfTenTo
  <2>2. PICK w : Powers(n + 1, w) /\ TenTo(n + 1) = w[n + 1]
    BY PowersOfTenTo
  <2>3. w[n + 1] = 10 * w[n]
    BY <2>2 DEF Powers
  <2>4. v[n] = w[n]
    BY <2>1, <2>2, PowersAgree
  <2> QED
    BY <2>1, <2>2, <2>3, <2>4
<1> QED
  BY <1>1, <1>2

LEMMA TenToType == \A n \in Nat : TenTo(n) \in Nat /\ TenTo(n) > n
<1> DEFINE S == {n \in Nat : TenTo(n) \in Nat /\ TenTo(n) > n}
<1>1. 0 \in S
  BY TenToDef
<1>2. ASSUME NEW n \in Nat, n \in S PROVE n + 1 \in S
  BY <1>2, TenToDef
<1> HIDE DEF S
<1>3. \A n \in Nat : n \in S
  BY <1>1, <1>2, Induction
<1> QED
  BY <1>3 DEF S

LEMMA TenToPlus ==
  ASSUME NEW m \in Nat
  PROVE  \A n \in Nat : TenTo(m + n) = TenTo(m) * TenTo(n)
<1> DEFINE S == {n \in Nat : TenTo(m + n) = TenTo(m) * TenTo(n)}
<1>1. 0 \in S
  BY TenToDef, TenToType
<1>2. ASSUME NEW n \in Nat, n \in S PROVE n + 1 \in S
  <2>1. TenTo(m + (n + 1)) = 10 * TenTo(m + n) /\ TenTo(n + 1) = 10 * TenTo(n)
    BY TenToDef
  <2>2. TenTo(m) \in Nat /\ TenTo(n) \in Nat
    BY TenToType
  <2> QED
    BY <1>2, <2>1, <2>2
<1> HIDE DEF S
<1>3. \A n \in Nat : n \in S
  BY <1>1, <1>2, Induction
<1> QED
  BY <1>3 DEF S

-----------------------------------------------------------------------------
(* The number that digits stand for.                                       *)

\* The numbers of the first 0 to n digits of p.
Heads(p, n, v) == v = [i \in 0..n |-> IF i = 0 THEN 0 ELSE 10 * v[i - 1] + p[i]]

LEMMA HeadsExist ==
  ASSUME NEW p
  PROVE  \A n \in Nat : \E v : Heads(p, n, v)
<1> DEFINE S == {n \in Nat : \E v : Heads(p, n, v)}
<1>1. 0 \in S
  <2>1. Heads(p, 0, [i \in 0..0 |-> 0])
    BY DEF Heads
  <2> QED
    BY <2>1
<1>2. ASSUME NEW n \in Nat, n \in S PROVE n + 1 \in S
  <2>1. PICK v : Heads(p, n, v)
    BY <1>2
  <2> DEFINE w == [i \in 0..(n + 1) |-> IF i = 0 THEN 0 ELSE 10 * v[i - 1] + p[i]]
  <2>2. ASSUME NEW i \in 0..n PROVE w[i] = v[i]
    <3>1. v[i] = IF i = 0 THEN 0 ELSE 10 * v[i - 1] + p[i]
      BY <2>1, Zenon DEF Heads
    <3>2. w[i] = IF i = 0 THEN 0 ELSE 10 * v[i - 1] + p[i]
      OBVIOUS
    <3> QED
      BY <3>1, <3>2
  <2>3. \A i \in 0..(n + 1) : i # 0 => i - 1 \in 0..n
    OBVIOUS
  <2>4. w = [i \in 0..(n + 1) |-> IF i = 0 THEN 0 ELSE 10 * w[i - 1] + p[i]]
    BY <2>2, <2>3, Zenon
  <2>5. Heads(p, n + 1, w)
    BY <2>4 DEF Heads
  <2> QED
    BY <2>5
<1> HIDE DEF S
<1>3. \A n \in Nat : n \in S
  BY <1>1, <1>2, Induction
<1> QED
  BY <1>3 DEF S

\* Number(p) is the last of a list that begins with 0 and of which each
\* member follows from the one before it.
LEMMA NumberHeads ==
  ASSUME NEW p \in Seq(Nat)
  PROVE  \E v \in [0..Len(p) -> Nat] :
            /\ v[0] = 0
            /\ \A i \in 1..Len(p) : v[i] = 10 * v[i - 1] + p[i]
            /\ Number(p) = v[Len(p)]
<1>1. Len(p) \in Nat /\ \A i \in 1..Len(p) : p[i] \in Nat
  OBVIOUS
<1>2. PICK v : Heads(p, Len(p), v) /\ Number(p) = v[Len(p)]
  <2>1. PICK v : Heads(p, Len(p), v)
    BY <1>1, HeadsExist
  <2> QED
    BY <2>1, Zenon DEF Heads, Number
<1>3. /\ v = [i \in 0..Len(p) |-> v[i]]
      /\ \A i \in 0..Len(p) : v[i] = IF i = 0 THEN 0 ELSE 10 * v[i - 1] + p[i]
  BY <1>2, Zenon DEF Heads
<1>4. v[0] = 0 /\ \A i \in 1..Len(p) : v[i] = 10 * v[i - 1] + p[i]
  BY <1>1, <1>3
<1> DEFINE S == {i \in Nat : i <= Len(p) => v[i] \in Nat}
<1>5. 0 \in S
  BY <1>4
<1>6. ASSUME NEW i \in Nat, i \in S PROVE i + 1 \in S
  <2> SUFFICES ASSUME i + 1 <= Len(p) PROVE v[i + 1] \in Nat
    OBVIOUS
  <2>1. i <= Len(p) /\ i + 1 \in 1..Len(p) /\ (i + 1) - 1 = i
    BY <1>1
  <2>2. v[i + 1] = 10 * v[i] + p[i + 1]
    BY <1>4, <2>1
  <2>3. v[i] \in Nat /\ p[i + 1] \in Nat
    BY <1>1, <1>6, <2>1
  <2> QED
    BY <2>2, <2>3
<1> HIDE DEF S
<1>7. \A i \in Nat : i \in S
  BY <1>5, <1>6, Induction
<1>8. \A i \in 0..Len(p) : v[i] \in Nat
  BY <1>1, <1>7 DEF S
<1>9. v \in [0..Len(p) -> Nat]
  BY <1>3, <1>8
<1> QED
  BY <1>2, <1>4, <1>9

\* What a digit more does to a sum.
LEMMA TenTimes ==
  /\ \A x, y, z \in Int : z = 10 * y => x * z = 10 * (x * y)
  /\ \A a, w, d \in Int : 10 * a + (10 * w + d) = 10 * (a + w) + d
<1>1. ASSUME NEW x \in Int, NEW y \in Int PROVE x * (10 * y) = 10 * (x * y)
  OBVIOUS
<1>2. \A a, w, d \in Int : 10 * a + (10 * w + d) = 10 * (a + w) + d
  OBVIOUS
<1> QED
  BY <1>1, <1>2

\* A list that follows the same rule ends with the same number.
LEMMA NumberIs ==
  ASSUME NEW p \in Seq(Nat), NEW u,
         u[0] = 0, \A i \in 1..Len(p) : u[i] = 10 * u[i - 1] + p[i]
  PROVE  Number(p) = u[Len(p)]
<1>1. PICK v \in [0..Len(p) -> Nat] :
        /\ v[0] = 0
        /\ \A i \in 1..Len(p) : v[i] = 10 * v[i - 1] + p[i]
        /\ Number(p) = v[Len(p)]
  BY NumberHeads
<1>2. Len(p) \in Nat
  OBVIOUS
<1> DEFINE S == {i \in Nat : i <= Len(p) => u[i] = v[i]}
<1>3. 0 \in S
  BY <1>1
<1>4. ASSUME NEW i \in Nat, i \in S PROVE i + 1 \in S
  BY <1>1, <1>2, <1>4
<1> HIDE DEF S
<1>5. \A i \in Nat : i \in S
  BY <1>3, <1>4, Induction
<1> QED
  BY <1>1, <1>2, <1>5 DEF S

LEMMA NumberType == ASSUME NEW p \in Seq(Nat) PROVE Number(p) \in Nat
BY NumberHeads

LEMMA ConcatType ==
  ASSUME NEW p \in Seq(Nat), NEW q \in Seq(Nat)
  PROVE  /\ p \o q \in Seq(Nat)
         /\ Len(p \o q) = Len(p) + Len(q)
         /\ \A i \in 1..Len(p) : (p \o q)[i] = p[i]
         /\ \A i \in 1..Len(q) : (p \o q)[Len(p) + i] = q[i]
OBVIOUS

\* Digits in front count for as many tens as there are digits behind them.
LEMMA NumberConcat ==
  ASSUME NEW p \in Seq(Nat), NEW q \in Seq(Nat)
  PROVE  Number(p \o q) = Number(p) * TenTo(Len(q)) + Number(q)
<1>1. PICK v \in [0..Len(p) -> Nat] :
        /\ v[0] = 0
        /\ \A i \in 1..Len(p) : v[i] = 10 * v[i - 1] + p[i]
        /\ Number(p) = v[Len(p)]
  BY NumberHeads
<1>2. PICK w \in [0..Len(q) -> Nat] :
        /\ w[0] = 0
        /\ \A i \in 1..Len(q) : w[i] = 10 * w[i - 1] + q[i]
        /\ Number(q) = w[Len(q)]
  BY NumberHeads
<1> DEFINE k == Len(p)
           u == [i \in 0..(k + Len(q)) |->
                   IF i <= k THEN v[i] ELSE v[k] * TenTo(i - k) + w[i - k]]
<1>3. k \in Nat /\ Len(q) \in Nat /\ k \in 0..k
  OBVIOUS
<1>4. v[k] \in Nat
  BY <1>3
<1>5. u[0] = 0
  BY <1>1, <1>3
<1>6. \A i \in 0..Len(q) : u[k + i] = v[k] * TenTo(i) + w[i]
  <2>1. u[k + 0] = v[k] * TenTo(0) + w[0]
    BY <1>2, <1>3, <1>4, TenToDef
  <2>2. ASSUME NEW i \in 1..Len(q) PROVE u[k + i] = v[k] * TenTo(i) + w[i]
    BY <1>3
  <2> QED
    BY <2>1, <2>2, <1>3
<1>7. ASSUME NEW i \in 1..Len(p \o q) PROVE u[i] = 10 * u[i - 1] + (p \o q)[i]
  <2>1. CASE i <= k
    <3>1. i \in 1..k /\ u[i] = v[i] /\ u[i - 1] = v[i - 1]
      BY <2>1, <1>3, ConcatType
    <3> QED
      BY <3>1, <1>1, ConcatType
  <2>2. CASE i > k
    <3>1. PICK j \in 1..Len(q) : i = k + j
      <4>1. i - k \in 1..Len(q) /\ i = k + (i - k)
        BY <2>2, <1>3, ConcatType
      <4> HIDE DEF k
      <4> QED
        BY <4>1
    <3>2. j \in 0..Len(q) /\ j - 1 \in 0..Len(q) /\ j - 1 \in Nat /\ i - 1 = k + (j - 1)
      BY <3>1, <1>3
    <3>3. (p \o q)[i] = q[j]
      BY <3>1, ConcatType
    <3> HIDE DEF u, k
    <3>4. u[i] = v[k] * TenTo(j) + w[j] /\ u[i - 1] = v[k] * TenTo(j - 1) + w[j - 1]
      BY <1>6, <3>1, <3>2
    <3>5. TenTo(j) = 10 * TenTo(j - 1) /\ TenTo(j - 1) \in Nat
      <4>1. TenTo((j - 1) + 1) = 10 * TenTo(j - 1)
        BY <3>2, TenToDef
      <4> QED
        BY <4>1, <3>2, TenToType
    <3>6. w[j] = 10 * w[j - 1] + q[j] /\ q[j] \in Nat
      BY <1>2, <3>1
    <3>7. w[j - 1] \in Nat
      BY <3>2
    <3>8. PICK a \in Int : a = v[k] * TenTo(j - 1)
      BY <3>5, <1>4
    <3>9. v[k] * TenTo(j) = 10 * a
      <4>1. v[k] \in Int /\ TenTo(j - 1) \in Int /\ TenTo(j) \in Int
        BY <3>5, <1>4
      <4> QED
        BY <4>1, <3>5, <3>8, TenTimes
    <3>10. 10 * a + (10 * w[j - 1] + q[j]) = 10 * (a + w[j - 1]) + q[j]
      <4>1. a \in Int /\ w[j - 1] \in Int /\ q[j] \in Int
        BY <3>6, <3>7, <3>8
      <4>2. PICK b \in Int : b = w[j - 1]
        BY <4>1
      <4>3. PICK c \in Int : c = q[j]
        BY <4>1
      <4>4. 10 * a + (10 * b + c) = 10 * (a + b) + c
        OBVIOUS
      <4> QED
        BY <4>2, <4>3, <4>4, Zenon
    <3> QED
      BY <3>3, <3>4, <3>6, <3>8, <3>9, <3>10, Zenon
  <2> QED
    BY <2>1, <2>2, <1>3, ConcatType
<1>8. Number(p \o q) = u[Len(p \o q)]
  <2> HIDE DEF u
  <2> QED
    BY <1>5, <1>7, ConcatType, NumberIs
<1>9. Len(p \o q) = k + Len(q) /\ Len(q) \in 0..Len(q)
  BY <1>3, ConcatType
<1> QED
  <2> HIDE DEF u
  <2> QED
    BY <1>1, <1>2, <1>6, <1>8, <1>9

LEMMA NumberZeros ==
  ASSUME NEW k \in Nat
  PROVE  Zeros(k) \in Seq(Nat) /\ Len(Zeros(k)) = k /\ Number(Zeros(k)) = 0
<1>1. Zeros(k) \in Seq(Nat) /\ Len(Zeros(k)) = k /\ \A i \in 1..k : Zeros(k)[i] = 0
  BY DEF Zeros
<1> DEFINE u == [i \in 0..k |-> 0]
<1>2. u[0] = 0 /\ u[k] = 0 /\ \A i \in 1..k : u[i] = 10 * u[i - 1] + 0
  OBVIOUS
<1> HIDE DEF u
<1>3. Number(Zeros(k)) = u[k]
  <2>1. \A i \in 1..Len(Zeros(k)) : u[i] = 10 * u[i - 1] + Zeros(k)[i]
    BY <1>1, <1>2
  <2>2. Number(Zeros(k)) = u[Len(Zeros(k))]
    BY <1>1, <1>2, <2>1, NumberIs
  <2> QED
    BY <1>1, <2>2
<1> QED
  BY <1>1, <1>2, <1>3

\* Zeros in front change nothing, zeros behind are factors of ten.
LEMMA NumberPadded ==
  ASSUME NEW p \in Seq(Nat), NEW k \in Nat
  PROVE  /\ Number(Zeros(k) \o p) = Number(p)
         /\ Number(p \o Zeros(k)) = Number(p) * TenTo(k)
<1>1. Zeros(k) \in Seq(Nat) /\ Len(Zeros(k)) = k /\ Number(Zeros(k)) = 0
  BY NumberZeros
<1>2. Number(p) \in Nat /\ Len(p) \in Nat
  BY NumberType
<1>3. TenTo(Len(p)) \in Nat /\ TenTo(k) \in Nat
  BY <1>2, TenToType
<1>4. Number(Zeros(k) \o p) = 0 * TenTo(Len(p)) + Number(p)
  BY <1>1, NumberConcat
<1>5. Number(p \o Zeros(k)) = Number(p) * TenTo(k) + 0
  BY <1>1, NumberConcat
<1>6. 0 * TenTo(Len(p)) = 0 /\ Number(p) * TenTo(k) \in Nat
  BY <1>2, <1>3
<1> QED
  BY <1>2, <1>4, <1>5, <1>6

-----------------------------------------------------------------------------
(* The digits of a number.                                                 *)

\* k is how many digits n has.
Width(n, k) == n < TenTo(k) /\ (k = 1 \/ n >= TenTo(k - 1))

LEMMA WidthExists ==
  ASSUME NEW n \in Nat
  PROVE  \E k \in 1..(n + 1) : Width(n, k)
<1> DEFINE S == {m \in Nat : n < TenTo(m + 1) => \E k \in 1..(m + 1) : Width(n, k)}
<1>1. 0 \in S
  <2>1. 1 \in 1..(0 + 1) /\ 0 + 1 = 1
    OBVIOUS
  <2> QED
    BY <2>1 DEF Width
<1>2. ASSUME NEW m \in Nat, m \in S PROVE m + 1 \in S
  <2>1. SUFFICES ASSUME n < TenTo(m + 2) PROVE \E k \in 1..(m + 2) : Width(n, k)
    OBVIOUS
  <2>2. TenTo(m + 1) \in Nat
    BY TenToType
  <2>3. CASE n < TenTo(m + 1)
    <3>1. PICK k \in 1..(m + 1) : Width(n, k)
      BY <2>3, <1>2
    <3>2. k \in 1..(m + 2)
      OBVIOUS
    <3> QED
      BY <3>1, <3>2
  <2>4. CASE n >= TenTo(m + 1)
    <3>1. m + 2 \in 1..(m + 2) /\ (m + 2) - 1 = m + 1
      OBVIOUS
    <3>2. Width(n, m + 2)
      BY <2>1, <2>4, <3>1 DEF Width
    <3> QED
      BY <3>1, <3>2
  <2> QED
    BY <2>2, <2>3, <2>4
<1> HIDE DEF S
<1>3. \A m \in Nat : m \in S
  BY <1>1, <1>2, Induction
<1>4. n < TenTo(n + 1)
  <2>1. TenTo(n + 1) \in Nat /\ TenTo(n + 1) > n + 1
    BY TenToType
  <2> QED
    BY <2>1
<1> QED
  BY <1>3, <1>4 DEF S

LEMMA DigitsShape ==
  ASSUME NEW n \in Nat
  PROVE  \E k \in 1..(n + 1) :
            Width(n, k) /\ Digits(n) = [i \in 1..k |-> (n \div TenTo(k - i)) % 10]
<1> DEFINE K == CHOOSE k \in 1..(n + 1) : Width(n, k)
<1>1. K \in 1..(n + 1) /\ Width(n, K)
  BY WidthExists
<1>2. Digits(n) = [i \in 1..K |-> (n \div TenTo(K - i)) % 10]
  BY Zenon DEF Digits, Width
<1> HIDE DEF K
<1> QED
  BY <1>1, <1>2

\* Division by 10 * a is division by a and then by 10.
LEMMA DivisionStep ==
  ASSUME NEW n \in Nat, NEW a \in Nat \ {0}
  PROVE  /\ n \div a \in Nat
         /\ n \div a = 10 * (n \div (10 * a)) + ((n \div a) % 10)
<1> DEFINE q == n \div a
           r == q \div 10
<1>1. q \in Nat /\ a * q <= n /\ n < a * q + a
  OBVIOUS
<1>2. r \in Nat /\ 10 * r <= q /\ q <= 10 * r + 9 /\ q = 10 * r + (q % 10)
  BY <1>1
<1> HIDE DEF q, r
<1>3. (10 * a) * r <= n
  <2>1. a * (10 * r) <= a * q
    BY <1>1, <1>2
  <2>2. a * (10 * r) = (10 * a) * r
    BY <1>2
  <2> QED
    BY <1>1, <1>2, <2>1, <2>2
<1>4. n < (10 * a) * r + 10 * a
  <2>1. a * q <= a * (10 * r + 9)
    BY <1>1, <1>2
  <2>2. a * (10 * r + 9) + a = (10 * a) * r + 10 * a
    BY <1>2
  <2> QED
    BY <1>1, <1>2, <2>1, <2>2
<1>5. n \div (10 * a) = r
  <2>1. 10 * a \in Nat /\ 10 * a > 0
    OBVIOUS
  <2>2. ASSUME NEW b \in Nat, b > 0, b * r <= n, n < b * r + b PROVE n \div b = r
    BY <1>2, <2>2
  <2> QED
    BY <1>3, <1>4, <2>1, <2>2
<1> QED
  BY <1>1, <1>2, <1>5 DEF q

\* A bigint is the number that its digits stand for.
LEMMA NumberOfDigits ==
  ASSUME NEW n \in Nat
  PROVE  /\ Digits(n) \in Seq(Nat) /\ Len(Digits(n)) >= 1
         /\ \A i \in 1..Len(Digits(n)) : Digits(n)[i] \in 0..9
         /\ Number(Digits(n)) = n
<1>1. PICK k \in 1..(n + 1) :
        Width(n, k) /\ Digits(n) = [i \in 1..k |-> (n \div TenTo(k - i)) % 10]
  BY DigitsShape
<1>2. \A i \in 0..k : k - i \in Nat /\ TenTo(k - i) \in Nat \ {0} /\ n \div TenTo(k - i) \in Nat
  <2>1. ASSUME NEW i \in 0..k PROVE k - i \in Nat
    OBVIOUS
  <2>2. ASSUME NEW i \in 0..k PROVE TenTo(k - i) \in Nat \ {0}
    BY <2>1, TenToType
  <2> QED
    BY <2>1, <2>2, DivisionStep
<1>3. \A i \in 1..k : (n \div TenTo(k - i)) % 10 \in 0..9
  <2>1. \A m \in Nat : m % 10 \in 0..9
    OBVIOUS
  <2>2. \A i \in 1..k : i \in 0..k
    OBVIOUS
  <2> QED
    BY <1>2, <2>1, <2>2
<1>4. /\ Digits(n) \in Seq(Nat) /\ Len(Digits(n)) = k
      /\ \A i \in 1..k : Digits(n)[i] = (n \div TenTo(k - i)) % 10
  <2>1. \A i \in 1..k : (n \div TenTo(k - i)) % 10 \in Nat
    BY <1>3
  <2> DEFINE d == [i \in 1..k |-> (n \div TenTo(k - i)) % 10]
  <2>2. d \in [1..k -> Nat]
    BY <2>1
  <2> HIDE DEF d
  <2>3. d \in Seq(Nat) /\ Len(d) = k
    BY <2>2
  <2> QED
    BY <1>1, <2>3, Zenon DEF d
<1> DEFINE u == [i \in 0..k |-> n \div TenTo(k - i)]
<1>5. u[0] = 0 /\ u[k] = n
  <2>1. u[0] = n \div TenTo(k) /\ u[k] = n \div TenTo(0)
    OBVIOUS
  <2>2. TenTo(k) \in Nat /\ n < TenTo(k)
    BY <1>1, TenToType DEF Width
  <2>3. n \div TenTo(k) = 0
    BY <2>2
  <2>4. n \div TenTo(0) = n
    BY TenToDef
  <2> QED
    BY <2>1, <2>3, <2>4
<1>6. ASSUME NEW i \in 1..k PROVE u[i] = 10 * u[i - 1] + Digits(n)[i]
  <2>1. i \in 0..k /\ i - 1 \in 0..k /\ k - (i - 1) = (k - i) + 1 /\ k - i \in Nat
    OBVIOUS
  <2>2. TenTo(k - (i - 1)) = 10 * TenTo(k - i)
    BY <2>1, TenToDef
  <2>3. TenTo(k - i) \in Nat \ {0}
    BY <1>2, <2>1
  <2>4. n \div TenTo(k - i) = 10 * (n \div (10 * TenTo(k - i))) + ((n \div TenTo(k - i)) % 10)
    BY <2>3, DivisionStep
  <2> QED
    BY <1>4, <2>1, <2>2, <2>4
<1>7. Number(Digits(n)) = u[k]
  <2> HIDE DEF u
  <2> QED
    BY <1>4, <1>5, <1>6, NumberIs
<1> QED
  BY <1>3, <1>4, <1>5, <1>7

-----------------------------------------------------------------------------
(* Reading and printing.                                                   *)

LEMMA PartType == \A p \in Parts : p \in Seq(Nat)
<1>1. Figures \union {Other} \subseteq Nat
  BY FiguresAssumption DEF Other
<1>2. ASSUME NEW k \in 0..Longest, NEW p \in [1..k -> Figures \union {Other}] PROVE p \in Seq(Nat)
  <2>1. k \in Nat /\ p \in [1..k -> Nat]
    BY <1>1, LongestAssumption
  <2> QED
    BY <2>1
<1> QED
  BY <1>2 DEF Parts

LEMMA TextType ==
  ASSUME NEW t \in Texts
  PROVE  /\ Len(t) \in {1, 2, 3} /\ t[1] \in Seq(Nat)
         /\ Len(t) = 2 => t[2] \in Seq(Nat)
         /\ t # NoText
<1>1. CASE \E p \in Parts : t = <<p>>
  BY <1>1, PartType DEF NoText
<1>2. CASE \E p, q \in Parts : t = <<p, q>>
  BY <1>2, PartType DEF NoText
<1>3. CASE \E p \in Parts : t = <<p, <<>>, p>>
  BY <1>3, PartType DEF NoText
<1> QED
  BY <1>1, <1>2, <1>3 DEF Texts

LEMMA NanominaPerMina == NANOMINA_PER_MINA \in Nat \ {0} /\ Decimals \in Nat /\ Decimals >= 1
BY TenToType, DecimalsAssumption DEF NANOMINA_PER_MINA

LEMMA ParseType ==
  ASSUME NEW t, t[1] \in Seq(Nat), Len(t) = 2 => t[2] \in Seq(Nat)
  PROVE  /\ parseDecimal(t) \in Nat \union {Invalid}
         /\ parseNanomina(t) \in Nat \union {Invalid}
<1>1. Number(t[1]) \in Nat
  BY NumberType
<1>2. Number(t[1]) * NANOMINA_PER_MINA \in Nat
  BY <1>1, NanominaPerMina
<1>3. ASSUME Len(t) = 2, Len(t[2]) <= Decimals
      PROVE  Number(padEnd(t[2])) \in Nat
  <2>1. Decimals - Len(t[2]) \in Nat
    BY <1>3, NanominaPerMina
  <2>2. t[2] \o Zeros(Decimals - Len(t[2])) \in Seq(Nat)
    BY <1>3, <2>1, NumberZeros, ConcatType
  <2> QED
    BY <2>2, NumberType DEF padEnd
<1>4. parseDecimal(t) \in Nat \union {Invalid}
  <2>1. CASE Len(t) = 1 /\ Digital(t[1]) /\ t[1] # <<>>
    BY <2>1, <1>2 DEF parseDecimal
  <2>2. CASE /\ Len(t) = 2 /\ Digital(t[1]) /\ Digital(t[2]) /\ t[2] # <<>>
             /\ Len(t[2]) <= Decimals
    BY <2>2, <1>2, <1>3 DEF parseDecimal
  <2>3. CASE /\ ~(Len(t) = 1 /\ Digital(t[1]) /\ t[1] # <<>>)
             /\ ~(/\ Len(t) = 2 /\ Digital(t[1]) /\ Digital(t[2]) /\ t[2] # <<>>
                  /\ Len(t[2]) <= Decimals)
    BY <2>3 DEF parseDecimal
  <2> QED
    BY <2>1, <2>2, <2>3
<1> QED
  BY <1>1, <1>4 DEF parseNanomina

\* What ReadsExactly says of the amount n that the text t is in a unit ...
Exact(n, t, unit) ==
  LET fraction == IF Len(t) = 2 THEN t[2] ELSE <<>>
  IN n * TenTo(Len(fraction)) = Number(t[1] \o fraction) * unit

\* ... and of the texts that a factory takes.
Readable(t, factory) ==
  LET fraction == IF Len(t) = 2 THEN t[2] ELSE <<>>
      digits   == t[1] \o fraction
  IN /\ Digital(digits)
     /\ Len(t) = 1 \/ (factory = "fromMina" /\ Len(t) = 2)
     /\ digits = <<>> => factory = "fromNanomina"

LEMMA ReadExactly ==
  ASSUME NEW t \in Texts, parseDecimal(t) # Invalid
  PROVE  Exact(parseDecimal(t), t, NANOMINA_PER_MINA)
<1> DEFINE N == NANOMINA_PER_MINA
           p == t[1]
<1>1. p \in Seq(Nat) /\ Number(p) \in Nat /\ N \in Nat
  BY TextType, NumberType, NanominaPerMina
<1>2. CASE Len(t) = 1 /\ Digital(p) /\ p # <<>>
  <2>1. parseDecimal(t) = Number(p) * N
    BY <1>2 DEF parseDecimal
  <2>2. Len(<<>>) = 0 /\ p \o <<>> = p
    BY <1>1
  <2>3. Exact(parseDecimal(t), t, N) <=> (Number(p) * N) * TenTo(0) = Number(p) * N
    BY <1>2, <2>1, <2>2 DEF Exact
  <2>4. (Number(p) * N) * 1 = Number(p) * N
    BY <1>1
  <2> QED
    BY <2>3, <2>4, TenToDef
<1>3. CASE /\ Len(t) = 2 /\ Digital(p) /\ Digital(t[2]) /\ t[2] # <<>>
           /\ Len(t[2]) <= Decimals
  <2> DEFINE q == t[2]
             l == Len(q)
             r == Decimals - l
  <2>1. q \in Seq(Nat) /\ Number(q) \in Nat /\ l \in Nat /\ r \in Nat /\ r + l = Decimals
    BY <1>3, TextType, NumberType, NanominaPerMina
  <2>2. TenTo(l) \in Nat /\ TenTo(r) \in Nat
    BY <2>1, TenToType
  <2>3. N = TenTo(r) * TenTo(l)
    BY <2>1, TenToPlus DEF NANOMINA_PER_MINA
  <2>4. parseDecimal(t) = Number(p) * N + Number(q) * TenTo(r)
    <3>1. Number(padEnd(q)) = Number(q) * TenTo(r)
      BY <2>1, NumberPadded DEF padEnd
    <3>2. parseDecimal(t) = Number(p) * N + Number(padEnd(q))
      BY <1>3 DEF parseDecimal
    <3> QED
      BY <3>1, <3>2
  <2>5. Number(p \o q) = Number(p) * TenTo(l) + Number(q)
    BY <1>1, <2>1, NumberConcat
  <2>6. Exact(parseDecimal(t), t, N) <=> parseDecimal(t) * TenTo(l) = Number(p \o q) * N
    BY <1>3 DEF Exact
  <2> HIDE DEF N, p, q, l, r
  <2>7. ASSUME NEW a \in Nat, NEW b \in Nat, NEW x \in Nat, NEW y \in Nat
        PROVE  (a * (y * x) + b * y) * x = (a * x + b) * (y * x)
    OBVIOUS
  <2>8. (Number(p) * (TenTo(r) * TenTo(l)) + Number(q) * TenTo(r)) * TenTo(l)
          = (Number(p) * TenTo(l) + Number(q)) * (TenTo(r) * TenTo(l))
    BY <1>1, <2>1, <2>2, <2>7
  <2>9. Exact(parseDecimal(t), t, N)
    BY <2>3, <2>4, <2>5, <2>6, <2>8, Zenon
  <2> QED
    BY <2>9 DEF N
<1> QED
  BY <1>2, <1>3 DEF parseDecimal

\* A text without a point is an amount of nanomina.
LEMMA WholeExactly ==
  ASSUME NEW t \in Texts, Len(t) = 1
  PROVE  Exact(Number(t[1]), t, 1)
<1> DEFINE p == t[1]
<1>1. p \in Seq(Nat) /\ Number(p) \in Nat
  BY TextType, NumberType
<1>2. Len(<<>>) = 0 /\ p \o <<>> = p
  BY <1>1
<1>3. Exact(Number(p), t, 1) <=> Number(p) * TenTo(0) = Number(p) * 1
  BY <1>2 DEF Exact
<1> QED
  BY <1>1, <1>3, TenToDef

LEMMA WholeReadable ==
  ASSUME NEW t \in Texts, NEW factory, Len(t) = 1, Digital(t[1]),
         t[1] # <<>> \/ factory = "fromNanomina"
  PROVE  Readable(t, factory)
<1>1. t[1] \o <<>> = t[1]
  BY TextType
<1> QED
  BY <1>1 DEF Readable

LEMMA PointReadable ==
  ASSUME NEW t \in Texts, Len(t) = 2, Digital(t[1]), Digital(t[2]), t[2] # <<>>
  PROVE  Readable(t, "fromMina")
<1> DEFINE p == t[1]
           q == t[2]
<1>1. p \in Seq(Nat) /\ q \in Seq(Nat)
  BY TextType
<1>2. \A i \in 1..Len(p) : p[i] # Other
  BY DEF Digital
<1>3. \A i \in 1..Len(q) : q[i] # Other
  BY DEF Digital
<1> HIDE DEF p, q
<1>4. /\ Len(p \o q) = Len(p) + Len(q) /\ Len(p) \in Nat /\ Len(q) \in Nat
      /\ \A i \in 1..Len(p) : (p \o q)[i] = p[i]
      /\ \A i \in 1..Len(q) : (p \o q)[Len(p) + i] = q[i]
  BY <1>1, ConcatProperties
<1>5. ASSUME NEW i \in 1..Len(p \o q) PROVE (p \o q)[i] # Other
  <2>1. CASE i <= Len(p)
    <3>1. i \in 1..Len(p)
      BY <2>1, <1>4
    <3> QED
      BY <3>1, <1>2, <1>4
  <2>2. CASE ~(i <= Len(p))
    <3>1. i - Len(p) \in 1..Len(q) /\ Len(p) + (i - Len(p)) = i
      BY <2>2, <1>4
    <3> QED
      BY <3>1, <1>3, <1>4
  <2> QED
    BY <2>1, <2>2
<1>6. Len(q) # 0
  BY <1>1 DEF q
<1>7. p \o q # <<>>
  BY <1>4, <1>6
<1>8. Digital(p \o q)
  BY <1>5 DEF Digital
<1> QED
  BY <1>7, <1>8 DEF Readable, p, q

LEMMA NanominaReadBack ==
  ASSUME NEW n \in Nat
  PROVE  parseNanomina(toNanominaString(n)) = n
<1>1. /\ Digits(n) \in Seq(Nat) /\ Len(Digits(n)) >= 1
      /\ \A i \in 1..Len(Digits(n)) : Digits(n)[i] \in 0..9
      /\ Number(Digits(n)) = n
  BY NumberOfDigits
<1> DEFINE t == <<Digits(n)>>
<1>2. Len(t) = 1 /\ t[1] = Digits(n) /\ Digits(n) # <<>>
  BY <1>1
<1>3. Digital(Digits(n))
  <2>1. \A d \in 0..9 : d # Other
    BY DEF Other
  <2> QED
    BY <1>1, <2>1 DEF Digital
<1> HIDE DEF t
<1>4. parseNanomina(t) = n
  <2>1. t[1] # <<>> /\ Digital(t[1]) /\ Number(t[1]) = n
    BY <1>1, <1>2, <1>3
  <2> QED
    BY <1>2, <2>1, Zenon DEF parseNanomina
<1> QED
  BY <1>4 DEF toNanominaString, t

\* A point Decimals digits from the end is read as what it was put into.
LEMMA PointReadBack ==
  ASSUME NEW n \in Nat, NEW p \in Seq(Nat), NEW q \in Seq(Nat),
         Digital(p), Digital(q), Len(q) = Decimals, Number(p \o q) = n
  PROVE  parseDecimal(<<p, q>>) = n
<1> DEFINE t == <<p, q>>
<1>1. Len(t) = 2 /\ t[1] = p /\ t[2] = q
  OBVIOUS
<1>2. q # <<>> /\ Len(q) <= Decimals
  BY NanominaPerMina
<1>3. padEnd(q) = q
  <2>1. Decimals - Len(q) = 0
    BY NanominaPerMina
  <2>2. Zeros(0) = <<>>
    BY DEF Zeros
  <2>3. q \o <<>> = q
    OBVIOUS
  <2> QED
    BY <2>1, <2>2, <2>3 DEF padEnd
<1>4. n = Number(p) * NANOMINA_PER_MINA + Number(q)
  BY NumberConcat DEF NANOMINA_PER_MINA
<1> HIDE DEF t
<1>5. parseDecimal(t) = Number(p) * NANOMINA_PER_MINA + Number(q)
  BY <1>1, <1>2, <1>3 DEF parseDecimal
<1> QED
  BY <1>4, <1>5 DEF t

LEMMA DigitSeq == \A p \in Seq(0..9) : p \in Seq(Nat) /\ Digital(p)
BY DEF Digital, Other

\* A list of digits is its first m and the others.
LEMMA SplitAt ==
  ASSUME NEW s \in Seq(0..9), NEW m \in Nat, m <= Len(s)
  PROVE  /\ SubSeq(s, 1, m) \in Seq(0..9)
         /\ SubSeq(s, m + 1, Len(s)) \in Seq(0..9)
         /\ Len(SubSeq(s, m + 1, Len(s))) = Len(s) - m
         /\ SubSeq(s, 1, m) \o SubSeq(s, m + 1, Len(s)) = s
<1>1. Len(s) \in Nat
  OBVIOUS
<1>2. SubSeq(s, 1, m) \o SubSeq(s, m + 1, Len(s)) = SubSeq(s, 1, Len(s))
  <2>1. 1 \in 1..(Len(s) + 1) /\ m \in (1 - 1)..Len(s) /\ Len(s) \in m..Len(s)
    BY <1>1
  <2> QED
    BY <2>1, ConcatAdjacentSubSeq
<1>3. SubSeq(s, 1, Len(s)) = s
  BY SubSeqFull
<1>4. \A i \in 1..Len(s) : s[i] \in 0..9
  OBVIOUS
<1>5. SubSeq(s, 1, m) \in Seq(0..9)
  <2>1. \A i \in 1..m : s[i] \in 0..9
    BY <1>1, <1>4
  <2> QED
    BY <2>1, SubSeqProperties
<1>6. /\ SubSeq(s, m + 1, Len(s)) \in Seq(0..9)
      /\ Len(SubSeq(s, m + 1, Len(s))) = Len(s) - m
  <2>1. m + 1 \in Int /\ \A i \in (m + 1)..Len(s) : s[i] \in 0..9
    BY <1>1, <1>4
  <2>2. /\ SubSeq(s, m + 1, Len(s)) \in Seq(0..9)
        /\ Len(SubSeq(s, m + 1, Len(s))) = IF m + 1 <= Len(s) THEN Len(s) - (m + 1) + 1 ELSE 0
    BY <2>1, <1>1, SubSeqProperties
  <2> QED
    BY <1>1, <2>2
<1> QED
  BY <1>2, <1>3, <1>5, <1>6

LEMMA MinaReadBack ==
  ASSUME NEW n \in Nat
  PROVE  parseDecimal(toMina(n)) = n
<1> DEFINE s == Digits(n)
           k == Len(s)
<1>1. s \in Seq(0..9) /\ k \in Nat /\ s \in Seq(Nat) /\ Number(s) = n
  <2>1. /\ s \in Seq(Nat) /\ k \in Nat /\ Number(s) = n
        /\ \A i \in 1..k : s[i] \in 0..9
    BY NumberOfDigits
  <2> HIDE DEF s
  <2>2. s \in [1..k -> 0..9]
    <3>1. s \in [1..k -> Nat]
      BY <2>1, LenProperties
    <3> QED
      BY <2>1, <3>1
  <2> HIDE DEF k
  <2>3. s \in Seq(0..9)
    BY <2>1, <2>2
  <2> QED
    BY <2>1, <2>3
<1>2. Decimals \in Nat /\ Decimals >= 1
  BY NanominaPerMina
<1>3. CASE k > Decimals
  <2> DEFINE m == k - Decimals
             p == SubSeq(s, 1, m)
             q == SubSeq(s, m + 1, k)
  <2>1. m \in Nat /\ m <= k /\ k - m = Decimals
    BY <1>1, <1>2, <1>3
  <2>2. toMina(n) = <<p, q>>
    BY <1>3 DEF toMina
  <2>3. p \in Seq(0..9) /\ q \in Seq(0..9) /\ Len(q) = Decimals /\ p \o q = s
    <3> HIDE DEF s, m
    <3> QED
      BY <1>1, <2>1, SplitAt
  <2> HIDE DEF p, q
  <2>4. parseDecimal(<<p, q>>) = n
    BY <1>1, <2>3, DigitSeq, PointReadBack
  <2> QED
    BY <2>2, <2>4
<1>4. CASE k <= Decimals
  <2> DEFINE z == Zeros(Decimals - k)
             q == z \o s
  <2>1. Decimals - k \in Nat
    BY <1>1, <1>2, <1>4
  <2>2. z \in Seq(0..9) /\ Len(z) = Decimals - k
    BY <2>1, NumberZeros DEF Zeros
  <2>3. q \in Seq(0..9) /\ Len(q) = Decimals /\ Number(q) = n
    <3>1. q \in Seq(0..9) /\ Len(q) = Len(z) + Len(s)
      <4> HIDE DEF s, z
      <4> QED
        BY <1>1, <2>2, ConcatProperties
    <3>2. Number(q) = n
      BY <1>1, <2>1, NumberPadded
    <3> HIDE DEF q, z
    <3> QED
      BY <1>1, <1>2, <2>2, <3>1, <3>2
  <2>4. toMina(n) = <<<<0>>, q>>
    <3>1. ~(k > Decimals)
      BY <1>1, <1>2, <1>4
    <3> QED
      BY <3>1, Zenon DEF toMina, padStart
  <2> HIDE DEF q
  <2>5. <<0>> \in Seq(0..9) /\ Number(<<0>>) = 0
    <3>1. <<0>> = Zeros(1)
      BY DEF Zeros
    <3> QED
      BY <3>1, NumberZeros
  <2>6. Number(<<0>> \o q) = n
    <3>1. Number(<<0>> \o q) = 0 * TenTo(Len(q)) + Number(q)
      BY <2>3, <2>5, DigitSeq, NumberConcat
    <3>2. TenTo(Len(q)) \in Nat
      BY <2>3, <1>2, TenToType
    <3> QED
      BY <3>1, <3>2, <2>3
  <2>7. parseDecimal(<<<<0>>, q>>) = n
    BY <2>3, <2>5, <2>6, DigitSeq, PointReadBack
  <2> QED
    BY <2>4, <2>7
<1> QED
  BY <1>1, <1>2, <1>3, <1>4

-----------------------------------------------------------------------------
(* The specification.                                                      *)

\* A text is kept with what was read from it, and by which factory.
IInv == TypeOK /\ ReadsExactly

LEMMA InitInv == Init => IInv
BY DEF Init, IInv, TypeOK, ReadsExactly, Fine, NoText, None

LEMMA ThrowInv ==
  ASSUME IInv, NEW call \in Factories \union {"sub", "mul"}, NEW error \in Errors,
         Throw(call, error)
  PROVE  IInv'
<1>1. /\ thrown' = [by |-> call, error |-> error]
      /\ nano' = nano /\ reader' = reader /\ text' = text
  BY DEF Throw
<1>2. TypeOK'
  BY <1>1 DEF IInv, TypeOK
<1>3. ReadsExactly'
  BY <1>1 DEF IInv, ReadsExactly
<1> QED
  BY <1>2, <1>3 DEF IInv

LEMMA HoldInv ==
  ASSUME NEW n \in Nat, Hold(n)
  PROVE  IInv'
<1>1. nano' = n /\ reader' = "none" /\ text' = NoText /\ thrown' = Fine
  BY DEF Hold, Read
<1> QED
  BY <1>1 DEF IInv, TypeOK, ReadsExactly

LEMMA ReadInv ==
  ASSUME NEW n \in Nat, NEW t \in Texts, NEW factory \in Factories, Read(n, factory, t),
         Exact(n, t, IF factory = "fromMina" THEN NANOMINA_PER_MINA ELSE 1),
         Readable(t, factory)
  PROVE  IInv'
<1>1. nano' = n /\ reader' = factory /\ text' = t /\ thrown' = Fine
  BY DEF Read
<1>2. TypeOK'
  BY <1>1 DEF TypeOK
<1>3. ReadsExactly'
  BY <1>1 DEF ReadsExactly, Exact, Readable
<1> QED
  BY <1>2, <1>3 DEF IInv

LEMMA FromTextInv ==
  IInv /\ (fromMinaText \/ fromNanominaText \/ fromGraphQL) => IInv'
<1> SUFFICES ASSUME IInv PROVE fromMinaText \/ fromNanominaText \/ fromGraphQL => IInv'
  OBVIOUS
<1>1. ASSUME fromMinaText PROVE IInv'
  <2>1. PICK t \in Texts :
          IF parseDecimal(t) = Invalid THEN Throw("fromMina", "CurrencyParseError")
                                       ELSE Read(parseDecimal(t), "fromMina", t)
    BY <1>1 DEF fromMinaText
  <2>2. CASE parseDecimal(t) = Invalid
    BY <2>1, <2>2, ThrowInv DEF Factories, Errors
  <2>3. CASE parseDecimal(t) # Invalid
    <3>1. parseDecimal(t) \in Nat
      BY <2>3, TextType, ParseType
    <3>2. Exact(parseDecimal(t), t, NANOMINA_PER_MINA)
      BY <2>3, ReadExactly
    <3>3. Readable(t, "fromMina")
      BY <2>3, WholeReadable, PointReadable DEF parseDecimal
    <3> QED
      BY <2>1, <2>3, <3>1, <3>2, <3>3, ReadInv DEF Factories
  <2> QED
    BY <2>2, <2>3
<1>2. ASSUME fromNanominaText PROVE IInv'
  <2>1. PICK t \in Texts :
          IF Len(t) = 1 /\ Digital(t[1]) THEN Read(Number(t[1]), "fromNanomina", t)
                                         ELSE Throw("fromNanomina", "SyntaxError")
    BY <1>2 DEF fromNanominaText
  <2>2. Number(t[1]) \in Nat
    BY TextType, NumberType
  <2>3. CASE Len(t) = 1 /\ Digital(t[1])
    <3>1. Exact(Number(t[1]), t, 1) /\ Readable(t, "fromNanomina")
      BY <2>3, WholeExactly, WholeReadable
    <3> QED
      BY <2>1, <2>2, <2>3, <3>1, ReadInv DEF Factories
  <2>4. CASE ~(Len(t) = 1 /\ Digital(t[1]))
    BY <2>1, <2>4, ThrowInv DEF Factories, Errors
  <2> QED
    BY <2>3, <2>4
<1>3. ASSUME fromGraphQL PROVE IInv'
  <2>1. PICK t \in Texts :
          IF parseNanomina(t) = Invalid THEN Throw("fromGraphQL", "CurrencyParseError")
                                        ELSE Read(parseNanomina(t), "fromGraphQL", t)
    BY <1>3 DEF fromGraphQL
  <2>2. CASE parseNanomina(t) = Invalid
    BY <2>1, <2>2, ThrowInv DEF Factories, Errors
  <2>3. CASE parseNanomina(t) # Invalid
    <3>1. parseNanomina(t) \in Nat
      BY <2>3, TextType, ParseType
    <3>2. Len(t) = 1 /\ Digital(t[1]) /\ t[1] # <<>> /\ parseNanomina(t) = Number(t[1])
      BY <2>3 DEF parseNanomina
    <3>3. Exact(parseNanomina(t), t, 1) /\ Readable(t, "fromGraphQL")
      BY <3>2, WholeExactly, WholeReadable
    <3> QED
      BY <2>1, <2>3, <3>1, <3>3, ReadInv DEF Factories
  <2> QED
    BY <2>2, <2>3
<1> QED
  BY <1>1, <1>2, <1>3

LEMMA IntegerArgument ==
  \A x \in Integral \union {NotIntegral} : x.n >= 0 => x.n \in Nat
<1>1. ASSUME NEW x \in Integral PROVE x.n \in -1..11
  BY DEF Integral
<1>2. NotIntegral.n = 0
  BY DEF NotIntegral
<1>3. \A m \in -1..11 : m >= 0 => m \in Nat
  OBVIOUS
<1> QED
  BY <1>1, <1>2, <1>3

LEMMA FromNumberInv == IInv /\ fromNumber => IInv'
<1> SUFFICES ASSUME IInv, fromNumber PROVE IInv'
  OBVIOUS
<1>1. PICK x \in Integral \union {NotIntegral} :
        \/ IF x.integral /\ x.n >= 0 THEN Hold(x.n * NANOMINA_PER_MINA)
                                     ELSE Throw("fromMina", "RangeError")
        \/ IF x.integral /\ x.n >= 0 THEN Hold(x.n)
                                     ELSE Throw("fromNanomina", "RangeError")
  BY DEF fromNumber
<1>2. CASE Throw("fromMina", "RangeError")
  BY <1>2, ThrowInv DEF Factories, Errors
<1>3. CASE Throw("fromNanomina", "RangeError")
  BY <1>3, ThrowInv DEF Factories, Errors
<1>4. CASE x.n >= 0 /\ (Hold(x.n * NANOMINA_PER_MINA) \/ Hold(x.n))
  <2>1. x.n \in Nat
    BY <1>4, IntegerArgument
  <2>2. x.n * NANOMINA_PER_MINA \in Nat
    BY <2>1, NanominaPerMina
  <2> QED
    BY <1>4, <2>1, <2>2, HoldInv
<1> QED
  BY <1>1, <1>2, <1>3, <1>4

LEMMA ArithmeticInv == IInv /\ (add \/ sub \/ mul) => IInv'
<1> SUFFICES ASSUME IInv PROVE add \/ sub \/ mul => IInv'
  OBVIOUS
<1>1. \A m \in Operands : m \in Nat
  BY NanominaPerMina DEF Operands
<1>2. Calculates => nano \in Nat
  BY MaxNanoAssumption DEF Calculates
<1>3. ASSUME add PROVE IInv'
  <2>1. PICK m \in Operands : Hold(nano + m)
    BY <1>3 DEF add
  <2>2. nano + m \in Nat
    BY <1>1, <1>2, <1>3 DEF add
  <2> QED
    BY <2>1, <2>2, HoldInv
<1>4. ASSUME sub PROVE IInv'
  <2>1. PICK m \in Operands : IF nano < m THEN Throw("sub", "CurrencyUnderflowError")
                                           ELSE Hold(nano - m)
    BY <1>4 DEF sub
  <2>2. CASE nano < m
    BY <2>1, <2>2, ThrowInv DEF Errors
  <2>3. CASE ~(nano < m)
    <3>1. nano - m \in Nat
      BY <2>3, <1>1, <1>2, <1>4 DEF sub
    <3> QED
      BY <2>1, <2>3, <3>1, HoldInv
  <2> QED
    BY <2>2, <2>3
<1>5. ASSUME mul PROVE IInv'
  <2>1. PICK x \in Integral \union {NotIntegral} :
          IF x.integral /\ x.n >= 0 THEN Hold(nano * x.n)
                                    ELSE Throw("mul", "RangeError")
    BY <1>5 DEF mul
  <2>2. CASE x.integral /\ x.n >= 0
    <3>1. x.n \in Nat
      BY <2>2, IntegerArgument
    <3>2. nano * x.n \in Nat
      BY <3>1, <1>2, <1>5 DEF mul
    <3> QED
      BY <2>1, <2>2, <3>2, HoldInv
  <2>3. CASE ~(x.integral /\ x.n >= 0)
    BY <2>1, <2>3, ThrowInv DEF Errors
  <2> QED
    BY <2>2, <2>3
<1> QED
  BY <1>3, <1>4, <1>5

LEMMA Invariance == Spec => []IInv
<1>1. IInv /\ [Next]_vars => IInv'
  <2>1. IInv /\ UNCHANGED vars => IInv'
    BY DEF vars, IInv, TypeOK, ReadsExactly
  <2> QED
    BY <2>1, FromTextInv, FromNumberInv, ArithmeticInv DEF Next
<1> QED
  BY InitInv, <1>1, PTL DEF Spec

-----------------------------------------------------------------------------
\* The variables have their types: the constructor never sees a negative
\* amount, whatever texts, numbers and operands come.
THEOREM TypeCorrect == Spec => []TypeOK
<1>1. IInv => TypeOK
  BY DEF IInv
<1> QED
  BY <1>1, Invariance, PTL

\* Each factory reads a text of any length exactly, for any number of
\* decimals, and takes none that is no number.
THEOREM ReadingIsExact == Spec => []ReadsExactly
<1>1. IInv => ReadsExactly
  BY DEF IInv
<1> QED
  BY <1>1, Invariance, PTL

\* Every amount, of any size, is read back from its two printed forms.
THEOREM PrintedIsReadBack == Spec => []PrintsReadably
<1>1. IInv => PrintsReadably
  <2> SUFFICES ASSUME IInv, Holds PROVE /\ parseDecimal(toMina(nano)) = nano
                                       /\ parseNanomina(toNanominaString(nano)) = nano
    BY DEF PrintsReadably
  <2>1. nano \in Nat
    BY DEF IInv, TypeOK, Holds
  <2> QED
    BY <2>1, MinaReadBack, NanominaReadBack
<1> QED
  BY <1>1, Invariance, PTL
=============================================================================
