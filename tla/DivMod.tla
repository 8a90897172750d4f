------------------------------- MODULE DivMod -------------------------------
(***************************************************************************)
(* Division with remainder by a number that is not a literal, for the      *)
(* buffers, pages and sectors whose size is a constant of the models.      *)
(***************************************************************************)
EXTENDS Integers, TLAPS

\* Quotient and remainder.
LEMMA DivModFacts ==
  ASSUME NEW R \in Nat \ {0}, NEW k \in Nat
  PROVE  /\ (k % R) \in Nat /\ (k % R) < R /\ (k \div R) \in Nat
         /\ k = R * (k \div R) + (k % R)
  OBVIOUS

\* No multiple of R but 0 lies strictly between -R and R.
LEMMA SmallMultiple ==
  ASSUME NEW R \in Nat \ {0}, NEW d \in Int, R * d < R, R * d > -R
  PROVE  d = 0
<1>1. d >= 1 => R * d >= R
  OBVIOUS
<1>2. d <= -1 => R * d <= -R
  OBVIOUS
<1>. QED
  BY <1>1, <1>2

\* There is one quotient and one remainder.
LEMMA DivModUnique ==
  ASSUME NEW R \in Nat \ {0}, NEW q1 \in Int, NEW q2 \in Int,
         NEW r1 \in 0..(R - 1), NEW r2 \in 0..(R - 1),
         R * q1 + r1 = R * q2 + r2
  PROVE  q1 = q2 /\ r1 = r2
<1>1. R * (q1 - q2) = r2 - r1
  OBVIOUS
<1>2. r2 - r1 < R /\ r2 - r1 > -R
  OBVIOUS
<1>3. q1 - q2 = 0
  BY <1>1, <1>2, SmallMultiple
<1>. QED
  BY <1>1, <1>3

\* The remainder of the next number.
LEMMA ModNext ==
  ASSUME NEW R \in Nat \ {0}, NEW k \in Nat
  PROVE  (k + 1) % R = IF (k % R) + 1 = R THEN 0 ELSE (k % R) + 1
<1> DEFINE q == k \div R
           r == k % R
           q1 == (k + 1) \div R
           r1 == (k + 1) % R
<1>0. k + 1 \in Nat
  OBVIOUS
<1>1. r \in Nat /\ r < R /\ q \in Nat /\ k = R * q + r
  BY DivModFacts
<1>2. r1 \in Nat /\ r1 < R /\ q1 \in Nat /\ k + 1 = R * q1 + r1
  BY <1>0, DivModFacts
<1> HIDE DEF q, r, q1, r1
<1>3. CASE r + 1 = R
  <2> DEFINE s == q + 1
  <2>1. R * s = R * q + R
    BY <1>1
  <2>2. R * q1 + r1 = R * s + 0
    BY <1>1, <1>2, <1>3, <2>1
  <2>3. s \in Int /\ 0 \in 0..(R - 1) /\ r1 \in 0..(R - 1) /\ q1 \in Int
    BY <1>1, <1>2
  <2> HIDE DEF s
  <2>4. r1 = 0
    BY <2>2, <2>3, DivModUnique
  <2>. QED
    BY <1>3, <2>4 DEF r, r1
<1>4. CASE r + 1 # R
  <2> DEFINE s == r + 1
  <2>1. R * q1 + r1 = R * q + s
    BY <1>1, <1>2
  <2>2. q \in Int /\ s \in 0..(R - 1) /\ r1 \in 0..(R - 1) /\ q1 \in Int
    BY <1>1, <1>2, <1>4
  <2> HIDE DEF s
  <2>3. r1 = s
    BY <2>1, <2>2, DivModUnique
  <2>4. r1 = r + 1
    BY <2>3 DEF s
  <2>. QED
    BY <1>4, <2>4 DEF r, r1
<1>. QED
  BY <1>3, <1>4

\* A multiple of R that does not exceed k is one of the first k \div R.
LEMMA MultipleBelow ==
  ASSUME NEW R \in Nat \ {0}, NEW k \in Nat, NEW j \in Nat, R * j <= k
  PROVE  (k \div R) \in Nat /\ j <= k \div R
<1> DEFINE q == k \div R
           r == k % R
<1>1. r \in Nat /\ r < R /\ q \in Nat /\ k = R * q + r
  BY DivModFacts
<1> HIDE DEF q, r
<1>2. ASSUME q + 1 <= j PROVE FALSE
  <2>1. R * (q + 1) <= R * j
    BY <1>1, <1>2
  <2>2. R * (q + 1) = R * q + R
    BY <1>1
  <2>3. R * q \in Nat /\ R * j \in Nat
    BY <1>1
  <2>. QED
    BY <1>1, <2>1, <2>2, <2>3
<1>3. q \in Nat /\ j <= q
  BY <1>1, <1>2
<1>. QED
  BY <1>3 DEF q

\* The multiple of R behind the first q + 1.
LEMMA NextMultiple ==
  ASSUME NEW R \in Nat \ {0}, NEW q \in Nat, NEW j \in Nat, j <= q
  PROVE  /\ R * (q + 1) \in Nat /\ R * (q + 1) = (q + 1) * R
         /\ R * j + R <= R * (q + 1) /\ R * j + R = R * (j + 1)
<1>1. R * j + R = R * (j + 1) /\ R * (q + 1) \in Nat /\ R * (q + 1) = (q + 1) * R
  OBVIOUS
<1>2. R * (j + 1) <= R * (q + 1)
  OBVIOUS
<1>. QED
  BY <1>1, <1>2
=============================================================================
