--------------------------- MODULE Naturals_proofs --------------------------
(***************************************************************************)
(* What the proofs need to know of natural numbers: induction, the largest *)
(* and the smallest of a set, division, functions defined by recursion.    *)
(***************************************************************************)
EXTENDS Integers, FiniteSetsExt, WellFoundedInduction, TLAPS

\* Every set of naturals that is not empty has a least element.
LEMMA LeastOf ==
  ASSUME NEW T \in SUBSET Nat, T # {}
  PROVE  \E x \in T : \A y \in T : x <= y
<1> DEFINE R == OpToRel(<, Nat)
<1>1. IsWellFoundedOn(R, Nat)
  BY NatLessThanWellFounded, Zenon
<1>2. \A x, y \in Nat : x < y => <<x, y>> \in R
  BY DEF OpToRel
<1> HIDE DEF R
<1>3. PICK x \in T : \A y \in T : ~(<<y, x>> \in R)
  BY <1>1, WFMin
<1>4. \A y \in T : ~(y < x)
  BY <1>2, <1>3
<1> QED BY <1>4

\* Induction, over a set instead of a predicate.
LEMMA SetInduction ==
  ASSUME NEW S, 0 \in S, \A n \in Nat : n \in S => n + 1 \in S
  PROVE  Nat \subseteq S
<1>1. SUFFICES ASSUME Nat \ S # {} PROVE FALSE
  OBVIOUS
<1>2. PICK x \in Nat \ S : \A y \in Nat \ S : x <= y
  BY <1>1, LeastOf
<1>3. x # 0 /\ x - 1 \in Nat
  BY <1>2
<1>4. x - 1 \in S
  BY <1>2, <1>3
<1> QED BY <1>2, <1>3, <1>4

\* Max() of the community modules.
LEMMA MostOf ==
  ASSUME NEW n \in Nat, NEW T \in SUBSET (1..n), T # {}
  PROVE  Max(T) \in T /\ \A y \in T : Max(T) >= y
<1> DEFINE U == {n - y : y \in T}
<1>1. U \in SUBSET Nat /\ U # {}
  <2>1. PICK t \in T : TRUE
    OBVIOUS
  <2>2. n - t \in U
    OBVIOUS
  <2>3. \A y \in T : n - y \in Nat
    OBVIOUS
  <2> QED BY <2>2, <2>3
<1>2. PICK u \in U : \A y \in U : u <= y
  BY <1>1, LeastOf
<1>3. PICK x \in T : u = n - x
  BY <1>2
<1>4. ASSUME NEW y \in T PROVE x >= y
  <2>1. n - y \in U
    OBVIOUS
  <2>2. n - x <= n - y
    BY <1>2, <1>3, <2>1
  <2>3. x \in 1..n /\ y \in 1..n
    OBVIOUS
  <2> HIDE DEF U
  <2> QED BY <2>2, <2>3
<1>5. \E z \in T : \A y \in T : z >= y
  BY <1>4
<1> HIDE DEF U
<1> QED BY <1>5, Zenon DEF Max

\* Max() of the first k places.
LEMMA MaxOfFirst ==
  ASSUME NEW n \in Nat, NEW k \in Nat, k < n
  PROVE  /\ 1..(k + 1) \in SUBSET (1..n) /\ 1..(k + 1) # {}
         /\ Max(1..(k + 1)) = k + 1 /\ 1..(k + 1) \ {k + 1} = 1..k
<1>1. 1..(k + 1) \in SUBSET (1..n) /\ 1..(k + 1) # {}
  OBVIOUS
<1>2. Max(1..(k + 1)) \in 1..(k + 1) /\ \A y \in 1..(k + 1) : Max(1..(k + 1)) >= y
  BY <1>1, MostOf
<1>3. Max(1..(k + 1)) = k + 1
  BY <1>2
<1>4. 1..(k + 1) \ {k + 1} = 1..k
  OBVIOUS
<1> QED BY <1>1, <1>3, <1>4

-----------------------------------------------------------------------------
(* Division *)

\* What the lemmas below know of it.
LEMMA Division ==
  ASSUME NEW a \in Nat, NEW b \in Nat \ {0}
  PROVE  /\ a \div b \in Nat /\ a % b \in Nat /\ a % b < b
         /\ a = b * (a \div b) + (a % b)
<1>1. a \div b \in Int
  OBVIOUS
<1>2. a % b \in Nat /\ a % b < b
  OBVIOUS
<1>3. a = b * (a \div b) + (a % b)
  OBVIOUS
<1>4. a \div b \in Nat
  <2>1. a \div b >= 0
    OBVIOUS
  <2> QED BY <1>1, <2>1
<1> QED BY <1>2, <1>3, <1>4

LEMMA Quotient ==
  ASSUME NEW a \in Nat, NEW b \in Nat \ {0}
  PROVE  a \div b \in Nat /\ a % b \in Nat /\ a % b <= b - 1
<1>1. a \div b \in Nat /\ a % b \in Nat /\ a % b < b
  BY Division
<1> QED BY <1>1

\* A step of the quotient is at least as large as the divisor.
LEMMA Times ==
  ASSUME NEW b \in Nat \ {0}, NEW p \in Nat, NEW q \in Nat, p < q
  PROVE  b * p + b <= b * q
<1>1. PICK t \in Nat : q = p + 1 + t
  <2>1. q - p - 1 \in Nat /\ q = p + 1 + (q - p - 1)
    OBVIOUS
  <2> QED BY <2>1
<1>2. b * q = b * p + b + b * t /\ b * t \in Nat
  BY <1>1
<1>3. b * p \in Nat
  OBVIOUS
<1> QED BY <1>2, <1>3

\* Quotient and remainder are unique.
LEMMA Divided ==
  ASSUME NEW b \in Nat \ {0}, NEW q \in Nat, NEW r \in Nat, r < b
  PROVE  (b * q + r) \div b = q /\ (b * q + r) % b = r
<1> DEFINE a == b * q + r
           p == a \div b
           s == a % b
<1>1. a \in Nat /\ b * q \in Nat
  OBVIOUS
<1>2. p \in Nat /\ s \in Nat /\ s < b /\ a = b * p + s /\ b * p \in Nat
  BY <1>1, Division
<1>3. a = b * q + r
  OBVIOUS
<1> HIDE DEF a, p, s
<1>4. CASE p < q
  <2>1. b * p + b <= b * q
    BY <1>2, <1>4, Times
  <2> QED BY <1>1, <1>2, <1>3, <2>1
<1>5. CASE q < p
  <2>1. b * q + b <= b * p
    BY <1>2, <1>5, Times
  <2> QED BY <1>1, <1>2, <1>3, <2>1
<1>6. CASE p = q
  <2>1. s = r
    BY <1>1, <1>2, <1>3, <1>6
  <2> QED BY <1>6, <2>1 DEF p, s, a
<1> QED BY <1>2, <1>4, <1>5, <1>6

\* The next number: a carry, or not.
LEMMA Successor ==
  ASSUME NEW a \in Nat, NEW b \in Nat \ {0}
  PROVE  /\ a % b = b - 1 => (a + 1) \div b = (a \div b) + 1 /\ (a + 1) % b = 0
         /\ a % b # b - 1 => (a + 1) \div b = a \div b /\ (a + 1) % b = (a % b) + 1
<1> DEFINE p == a \div b
           s == a % b
<1>1. p \in Nat /\ s \in Nat /\ s < b /\ a = b * p + s /\ b * p \in Nat
  BY Division
<1> HIDE DEF p, s
<1>2. CASE s = b - 1
  <2>1. a + 1 = b * (p + 1) + 0
    BY <1>1, <1>2
  <2>2. (b * (p + 1) + 0) \div b = p + 1 /\ (b * (p + 1) + 0) % b = 0
    BY <1>1, Divided
  <2> QED BY <1>2, <2>1, <2>2 DEF p, s
<1>3. CASE s # b - 1
  <2>1. a + 1 = b * p + (s + 1) /\ s + 1 \in Nat /\ s + 1 < b
    BY <1>1, <1>3
  <2>2. (b * p + (s + 1)) \div b = p /\ (b * p + (s + 1)) % b = s + 1
    BY <1>1, <2>1, Divided
  <2> QED BY <1>3, <2>1, <2>2 DEF p, s
<1> QED BY <1>2, <1>3 DEF s

LEMMA DividedTwice ==
  ASSUME NEW a \in Nat, NEW b \in Nat \ {0}, NEW c \in Nat \ {0}
  PROVE  b * c \in Nat \ {0} /\ a \div (b * c) = (a \div c) \div b
<1> DEFINE q == a \div c
           s == a % c
           p == q \div b
           t == q % b
<1>1. q \in Nat /\ s \in Nat /\ s < c /\ a = c * q + s
  BY Division
<1>2. p \in Nat /\ t \in Nat /\ t < b /\ q = b * p + t
  BY <1>1, Division
<1> HIDE DEF q, s, p, t
<1>3. c * t + c <= c * b
  BY <1>2, Times
<1>4. c * t \in Nat /\ c * b \in Nat /\ c * b = b * c /\ b * c > 0
  <2>1. b * c \in Nat /\ c * b = b * c /\ c * t \in Nat
    BY <1>2
  <2>2. c * 0 + c <= c * b
    BY Times
  <2> QED BY <2>1, <2>2
<1>5. a = (b * c) * p + (c * t + s)
  BY <1>1, <1>2
<1>6. c * t + s \in Nat /\ c * t + s < b * c
  BY <1>1, <1>2, <1>3, <1>4
<1>7. a \div (b * c) = p
  BY <1>2, <1>4, <1>5, <1>6, Divided
<1> QED BY <1>4, <1>7 DEF p, q

-----------------------------------------------------------------------------
(* Functions *)

\* A function defined by recursion: each value is made of the one before.
IsRecursion(g, n, base, h) ==
  g = [k \in 0..n |-> IF k = 0 THEN base ELSE h[k][g[k - 1]]]

\* There is such a function, by induction over its arguments.
LEMMA Recursion ==
  ASSUME NEW n \in Nat, NEW V, NEW base \in V, NEW h \in [1..n -> [V -> V]]
  PROVE  \E g \in [0..n -> V] : IsRecursion(g, n, base, h)
<1> DEFINE Is(g, m) == IsRecursion(g, m, base, h)
           Exists(m) == \E g \in [0..m -> V] : Is(g, m)
           S == {m \in Nat : m <= n => Exists(m)}
<1>1. 0 \in S
  <2> DEFINE g == [k \in 0..0 |-> base]
  <2>1. \A k \in 0..0 : k = 0
    OBVIOUS
  <2>2. g \in [0..0 -> V]
    OBVIOUS
  <2>3. Is(g, 0)
    BY <2>1 DEF IsRecursion
  <2> QED BY <2>2, <2>3
<1>2. ASSUME NEW m \in Nat, m \in S PROVE m + 1 \in S
  <2>1. SUFFICES ASSUME m + 1 <= n PROVE Exists(m + 1)
    <3> HIDE DEF Exists
    <3> QED OBVIOUS
  <2>2. Exists(m)
    <3> HIDE DEF Exists
    <3> QED BY <1>2, <2>1
  <2>3. PICK g \in [0..m -> V] : Is(g, m)
    BY <2>2
  <2> DEFINE f == [k \in 0..(m + 1) |-> IF k = m + 1 THEN h[m + 1][g[m]] ELSE g[k]]
  <2>4. m + 1 \in 1..n /\ h[m + 1] \in [V -> V] /\ m \in 0..m /\ g[m] \in V
    BY <2>1
  <2>5. f \in [0..(m + 1) -> V]
    <3>1. h[m + 1][g[m]] \in V
      BY <2>4
    <3>2. \A k \in 0..(m + 1) : k # m + 1 => k \in 0..m
      OBVIOUS
    <3> QED BY <3>1, <3>2
  <2>6. ASSUME NEW k \in 0..(m + 1)
        PROVE  f[k] = IF k = 0 THEN base ELSE h[k][f[k - 1]]
    <3>1. CASE k = m + 1
      <4>1. k # 0 /\ k - 1 = m /\ m \in 0..(m + 1) /\ m # m + 1
        BY <3>1
      <4>2. f[m] = g[m]
        BY <4>1
      <4>3. f[k] = h[m + 1][g[m]]
        BY <3>1
      <4> HIDE DEF f
      <4> QED BY <3>1, <4>1, <4>2, <4>3
    <3>2. CASE k # m + 1
      <4>1. k \in 0..m
        BY <3>2
      <4>2. g[k] = IF k = 0 THEN base ELSE h[k][g[k - 1]]
        BY <2>3, <4>1 DEF IsRecursion
      <4>3. f[k] = g[k]
        BY <3>2
      <4>4. k # 0 => k - 1 \in 0..(m + 1) /\ k - 1 # m + 1
        BY <4>1
      <4>5. k # 0 => f[k - 1] = g[k - 1]
        BY <4>4
      <4> HIDE DEF f
      <4> QED BY <4>2, <4>3, <4>5
    <3> QED BY <3>1, <3>2
  <2>7. Is(f, m + 1)
    <3>1. f = [k \in 0..(m + 1) |-> f[k]]
      OBVIOUS
    <3> HIDE DEF f
    <3> QED BY <2>6, <3>1 DEF IsRecursion
  <2> HIDE DEF f, Is
  <2> QED BY <2>5, <2>7
<1>3. Nat \subseteq S
  <2> HIDE DEF S
  <2>1. \A m \in Nat : m \in S => m + 1 \in S
    BY <1>2
  <2> QED BY <1>1, <2>1, SetInduction
<1> HIDE DEF Is
<1> QED BY <1>3 DEF Is

\* It has the values that define it.
LEMMA RecursionIs ==
  ASSUME NEW n \in Nat, NEW base, NEW h, NEW g, IsRecursion(g, n, base, h)
  PROVE  g[0] = base /\ \A k \in 1..n : g[k] = h[k][g[k - 1]]
<1>1. 0 \in 0..n /\ \A k \in 1..n : k \in 0..n /\ k # 0
  OBVIOUS
<1> QED BY <1>1 DEF IsRecursion
=============================================================================
