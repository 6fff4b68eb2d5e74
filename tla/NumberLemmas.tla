---------------------------- MODULE NumberLemmas ----------------------------
(***************************************************************************)
(* What the proofs need to know of the natural numbers: division with      *)
(* remainder, by which addresses, pages and screen positions are taken     *)
(* apart, and the least member of a set.                                   *)
(***************************************************************************)
EXTENDS NaturalsInduction, WellFoundedInduction, TLAPS

\* Division with remainder has one result.
LEMMA DivMod ==
  ASSUME NEW q \in Nat, NEW r \in Nat, NEW b \in Nat \ {0}, r < b
  PROVE  (q * b + r) \div b = q /\ (q * b + r) % b = r
<1> DEFINE a == q * b + r
<1>1. a \in Nat
  OBVIOUS
<1>2. a = b * (a \div b) + (a % b) /\ a % b \in 0 .. b - 1 /\ a \div b \in Nat
  BY <1>1
<1>3. b * (a \div b - q) = r - (a % b)
  BY <1>2
<1>4. a \div b = q
  <2>1. CASE a \div b - q >= 1
    BY <1>2, <1>3, <2>1
  <2>2. CASE a \div b - q <= -1
    BY <1>2, <1>3, <2>2
  <2> QED
    BY <1>2, <2>1, <2>2
<1> QED
  BY <1>2, <1>4

\* A number is made of its quotient and its remainder.
LEMMA Divided ==
  ASSUME NEW a \in Nat, NEW b \in Nat \ {0}
  PROVE  /\ a \div b \in Nat /\ a % b \in Nat /\ a % b < b
         /\ a = (a \div b) * b + (a % b)
OBVIOUS

\* A number below the divisor is its own remainder.
LEMMA Small ==
  ASSUME NEW a \in Nat, NEW b \in Nat \ {0}, a < b
  PROVE  a % b = a /\ a \div b = 0
  <1>1. 0 * b + a = a
    OBVIOUS
  <1> QED
    BY <1>1, DivMod

\* Multiplying keeps the order.
LEMMA Monotone ==
  ASSUME NEW a \in Nat, NEW b \in Nat, NEW c \in Nat, a <= b
  PROVE  a * c <= b * c
<1>1. b * c = a * c + (b - a) * c /\ (b - a) \in Nat
  OBVIOUS
<1>2. (b - a) * c >= 0
  BY <1>1
<1> QED
  BY <1>1, <1>2

\* One divisor more, and one less.
LEMMA Shifted ==
  ASSUME NEW a \in Nat, NEW b \in Nat \ {0}
  PROVE  /\ (a + b) \div b = a \div b + 1 /\ (a + b) % b = a % b
         /\ a >= b => (a - b) \div b = a \div b - 1 /\ (a - b) % b = a % b
         /\ a < b <=> a \div b = 0
<1> DEFINE q == a \div b
           r == a % b
<1>1. q \in Nat /\ r \in Nat /\ r < b /\ a = q * b + r
  BY Divided
<1> HIDE DEF q, r
<1>2. (a + b) \div b = q + 1 /\ (a + b) % b = r
  <2>1. a + b = (q + 1) * b + r /\ q + 1 \in Nat
    BY <1>1
  <2>2. ((q + 1) * b + r) \div b = q + 1 /\ ((q + 1) * b + r) % b = r
    BY <1>1, <2>1, DivMod
  <2> QED
    BY <2>1, <2>2
<1>3. a < b <=> q = 0
  <2>1. CASE q = 0
    BY <1>1, <2>1
  <2>2. CASE q >= 1
    <3>1. 1 * b <= q * b
      BY <1>1, <2>2, Monotone
    <3> QED
      BY <1>1, <2>2, <3>1
  <2> QED
    BY <1>1, <2>1, <2>2
<1>4. ASSUME a >= b PROVE (a - b) \div b = q - 1 /\ (a - b) % b = r
  <2>1. q - 1 \in Nat
    BY <1>1, <1>3, <1>4
  <2>2. a - b = (q - 1) * b + r
    BY <1>1
  <2>3. ((q - 1) * b + r) \div b = q - 1 /\ ((q - 1) * b + r) % b = r
    BY <1>1, <2>1, DivMod
  <2> QED
    BY <2>2, <2>3
<1> QED
  BY <1>2, <1>3, <1>4 DEF q, r

\* The same for numbers below zero,
LEMMA IntDivided ==
  ASSUME NEW a \in Int, NEW b \in Nat \ {0}
  PROVE  /\ a \div b \in Int /\ a % b \in Nat /\ a % b < b
         /\ a = (a \div b) * b + (a % b)
OBVIOUS

\* whose remainder is one number too.
LEMMA Remainder ==
  ASSUME NEW q \in Int, NEW r \in Nat, NEW b \in Nat \ {0}, r < b
  PROVE  (q * b + r) % b = r
<1>1. PICK a \in Int : a = q * b + r
  OBVIOUS
<1>2. PICK p \in Int, t \in Nat : p = a \div b /\ t = a % b /\ t < b /\ a = p * b + t
  BY IntDivided
<1>3. (p - q) * b = r - t
  BY <1>1, <1>2
<1>4. p = q
  <2>1. CASE p - q >= 1
    <3>1. 1 * b <= (p - q) * b
      BY <2>1, Monotone
    <3> QED
      BY <1>2, <1>3, <3>1
  <2>2. CASE q - p >= 1
    <3>1. 1 * b <= (q - p) * b
      BY <2>2, Monotone
    <3>2. (q - p) * b = t - r
      BY <1>3
    <3> QED
      BY <1>2, <3>1, <3>2
  <2> QED
    BY <2>1, <2>2
<1> QED
  BY <1>1, <1>2, <1>3, <1>4

\* The two low digits of a number are its remainder by the square of the base.
LEMMA TwoDigits ==
  ASSUME NEW x \in Int, NEW b \in Nat \ {0}
  PROVE  (x % b) + b * ((x \div b) % b) = x % (b * b)
<1>1. PICK q \in Int, r \in Nat : q = x \div b /\ r = x % b /\ r < b /\ x = q * b + r
  BY IntDivided
<1>2. PICK p \in Int, t \in Nat : t = q % b /\ t < b /\ q = p * b + t
  BY IntDivided
<1>3. PICK c \in Nat \ {0} : c = b * b
  OBVIOUS
<1>4. PICK s \in Nat : s = t * b + r
  OBVIOUS
<1>5. s < c
  <2>1. t * b <= (b - 1) * b
    BY <1>2, Monotone
  <2> QED
    BY <1>1, <1>3, <1>4, <2>1
<1>6. x = p * c + s
  <2>1. q * b = (p * b) * b + t * b
    BY <1>2
  <2>2. (p * b) * b = p * c
    BY <1>3
  <2>3. PICK e \in Int, f \in Int, g \in Int : e = q * b /\ f = p * c /\ g = t * b
    OBVIOUS
  <2>4. e = f + g /\ x = e + r /\ s = g + r
    BY <1>1, <1>4, <2>1, <2>2, <2>3
  <2>5. x = f + s
    BY <2>4
  <2> QED
    BY <2>3, <2>5
<1>7. x % c = s
  BY <1>5, <1>6, Remainder
<1>8. r + b * t = s
  BY <1>4
<1> QED
  BY <1>1, <1>2, <1>3, <1>7, <1>8, Zenon

\* What is added may be cut to its remainder before.
LEMMA Wrapped ==
  ASSUME NEW v \in Int, NEW d \in Int, NEW b \in Nat \ {0}
  PROVE  (v + (d % b)) % b = (v + d) % b
<1>1. PICK q \in Int, r \in Nat : r = d % b /\ d = q * b + r
  BY IntDivided
<1>2. PICK u \in Int : u = v + r
  OBVIOUS
<1>3. PICK p \in Int, t \in Nat : t = u % b /\ t < b /\ u = p * b + t
  BY IntDivided
<1>4. PICK e \in Int : e = q + p
  OBVIOUS
<1>5. v + d = e * b + t
  <2>1. e * b = q * b + p * b
    BY <1>4
  <2> QED
    BY <1>1, <1>2, <1>3, <2>1
<1>6. (e * b + t) % b = t
  BY <1>3, Remainder
<1> QED
  BY <1>1, <1>2, <1>3, <1>5, <1>6

\* A set of numbers that is not empty has a least one.
LEMMA LeastNumber ==
  ASSUME NEW S \in SUBSET Nat, S # {}
  PROVE  \E x \in S : \A y \in S : x <= y
<1>1. PICK x \in S : \A y \in S : ~(<<y, x>> \in OpToRel(<, Nat))
  BY NatLessThanWellFounded, WFMin, Zenon
<1>2. \A y \in S : ~(y < x)
  BY <1>1, Zenon DEF OpToRel
<1> QED
  BY <1>2

-----------------------------------------------------------------------------
(* Loops *)

\* Induction along the iterations of a loop.
LEMMA Induction ==
  ASSUME NEW n \in Nat, NEW S, 0 \in S, \A i \in 1 .. n : i - 1 \in S => i \in S
  PROVE  \A i \in 0 .. n : i \in S
<1> SUFFICES ASSUME NEW i \in 0 .. n, i \notin S PROVE FALSE
  OBVIOUS
<1> DEFINE Bad == {j \in 0 .. n : j \notin S}
<1>1. Bad \in SUBSET Nat /\ Bad # {}
  OBVIOUS
<1>2. PICK x \in Bad : \A y \in Bad : x <= y
  BY <1>1, LeastNumber
<1>3. x # 0
  OBVIOUS
<1>4. x \in 1 .. n /\ x - 1 \in 0 .. n /\ ~(x <= x - 1)
  BY <1>3
<1>5. x - 1 \in S
  BY <1>2, <1>4
<1> QED
  BY <1>4, <1>5

\* The bodies of n iterations, and the states before and after them.
Bodies(n, T) == [1 .. n -> [T -> T]]
States(n, T) == [0 .. n -> T]

\* A loop has a state after each of its iterations.
LEMMA LoopExists ==
  ASSUME NEW n \in Nat, NEW T, NEW base \in T, NEW body \in Bodies(n, T)
  PROVE  \E g \in States(n, T) : g[0] = base /\ \A i \in 1 .. n : g[i] = body[i][g[i - 1]]
<1> USE DEF Bodies, States
<1> DEFINE Run(g, m) == g[0] = base /\ \A i \in 1 .. m : g[i] = body[i][g[i - 1]]
           S == {m \in 0 .. n : \E g \in [0 .. m -> T] : Run(g, m)}
<1>1. 0 \in S
  <2> DEFINE g == [i \in 0 .. 0 |-> base]
  <2>1. g \in [0 .. 0 -> T] /\ g[0] = base
    OBVIOUS
  <2>2. \A i \in 1 .. 0 : g[i] = body[i][g[i - 1]]
    OBVIOUS
  <2>3. 0 \in 0 .. n
    OBVIOUS
  <2> QED
    BY <2>1, <2>2, <2>3, Zenon
<1>2. ASSUME NEW m \in 1 .. n, m - 1 \in S PROVE m \in S
  <2>1. PICK g \in [0 .. m - 1 -> T] : Run(g, m - 1)
    BY <1>2
  <2> DEFINE h == [i \in 0 .. m |-> IF i = m THEN body[m][g[m - 1]] ELSE g[i]]
  <2>2. body[m] \in [T -> T] /\ g[m - 1] \in T
    OBVIOUS
  <2>3. h \in [0 .. m -> T]
    BY <2>2
  <2>4. h[0] = base
    <3>1. 0 \in 0 .. m /\ 0 # m
      OBVIOUS
    <3> QED
      BY <2>1, <3>1, Zenon
  <2>5. ASSUME NEW i \in 1 .. m PROVE h[i] = body[i][h[i - 1]]
    <3>1. i \in 0 .. m /\ i - 1 \in 0 .. m /\ i - 1 # m
      OBVIOUS
    <3>2. h[i - 1] = g[i - 1]
      BY <3>1, Zenon
    <3>3. CASE i = m
      BY <3>1, <3>2, <3>3, Zenon
    <3>4. CASE i # m
      <4>1. i \in 1 .. m - 1
        BY <3>4
      <4> QED
        BY <2>1, <3>1, <3>2, <3>4, <4>1, Zenon
    <3> QED
      BY <3>3, <3>4
  <2>6. m \in 0 .. n
    OBVIOUS
  <2> HIDE DEF h
  <2> QED
    BY <2>3, <2>4, <2>5, <2>6, Zenon
<1> HIDE DEF S
<1>3. \A m \in 1 .. n : m - 1 \in S => m \in S
  BY <1>2
<1>4. \A m \in 0 .. n : m \in S
  BY <1>1, <1>3, Induction, Zenon
<1>5. n \in S
  BY <1>4
<1> QED
  BY <1>5 DEF S
=============================================================================
