----------------------------- MODULE Arithmetic -----------------------------
(***************************************************************************)
(* Facts about natural numbers that the proofs share: quotients and        *)
(* remainders, the least and the greatest member of a set, and induction   *)
(* up to a number, stated about a set of numbers.                          *)
(***************************************************************************)
EXTENDS Integers, FiniteSetsExt, WellFoundedInduction, TLAPS

-----------------------------------------------------------------------------
(* Quotients, remainders and products *)

\* What a quotient and a remainder are.
LEMMA DivMod ==
    ASSUME NEW n \in Nat, NEW w \in Nat \ {0}
    PROVE  /\ n \div w \in Nat
           /\ n % w \in 0 .. w - 1
           /\ n = (n \div w) * w + (n % w)
  BY SMT

\* A word number and a bit number make one frame number.
LEMMA DivModUnique ==
    ASSUME NEW w \in Nat \ {0}, NEW i \in Nat, NEW j \in 0 .. w - 1
    PROVE  (i * w + j) \div w = i /\ (i * w + j) % w = j
  BY SMT

\* A number below e words has its word among them.
LEMMA DivBelow ==
    ASSUME NEW n \in Nat, NEW w \in Nat \ {0}, NEW e \in Nat, n < e * w
    PROVE  n \div w < e
  BY SMT

\* A place in one of e words is below their end.
LEMMA WordsBelow ==
    ASSUME NEW i \in Nat, NEW w \in Nat \ {0}, NEW e \in Nat, NEW j \in 0 .. w - 1, i < e
    PROVE  i * w + j \in 0 .. e * w - 1
<1>1. i + 1 <= e  OBVIOUS
<1>2. (i + 1) * w <= e * w  BY <1>1, SMT
<1>3. (i + 1) * w = i * w + w  BY SMT
<1>4. i * w \in Nat /\ e * w \in Nat  BY SMT
<1> QED  BY <1>2, <1>3, <1>4

\* Multiplication by a positive number keeps the order.
LEMMA TimesMonotone ==
    ASSUME NEW w \in Nat \ {0}, NEW a \in Nat, NEW b \in Nat
    PROVE  a <= b <=> a * w <= b * w
<1>1. a <= b => a * w <= b * w
  <2> SUFFICES ASSUME a <= b PROVE a * w <= b * w  OBVIOUS
  <2> DEFINE d == b - a
  <2>1. d \in Nat /\ b = a + d  OBVIOUS
  <2> HIDE DEF d
  <2>2. (a + d) * w = a * w + d * w /\ d * w \in Nat /\ a * w \in Nat  BY <2>1, SMT
  <2> QED  BY <2>1, <2>2
<1>2. b + 1 <= a => b * w < a * w
  <2> SUFFICES ASSUME b + 1 <= a PROVE b * w < a * w  OBVIOUS
  <2> DEFINE d == a - b - 1
  <2>1. d \in Nat /\ a = b + 1 + d  OBVIOUS
  <2> HIDE DEF d
  <2>2. (b + 1 + d) * w = b * w + w + d * w /\ d * w \in Nat /\ b * w \in Nat  BY <2>1, SMT
  <2> QED  BY <2>1, <2>2
<1>3. a * w \in Nat /\ b * w \in Nat  BY SMT
<1> QED  BY <1>1, <1>2, <1>3

\* Quotient and remainder of any number.
LEMMA IntDivMod ==
    ASSUME NEW x \in Int, NEW w \in Nat \ {0}
    PROVE  /\ x \div w \in Int
           /\ x % w \in 0 .. w - 1
           /\ x = (x \div w) * w + (x % w)
  BY SMT

\* There is only one remainder.
LEMMA ModIs ==
    ASSUME NEW q \in Int, NEW w \in Nat \ {0}, NEW r \in 0 .. w - 1
    PROVE  (q * w + r) % w = r
<1> DEFINE x == q * w + r
           k == x \div w
           t == x % w
<1>1. x \in Int  BY SMT
<1>2. k \in Int /\ t \in 0 .. w - 1 /\ x = k * w + t  BY <1>1, IntDivMod
<1>3. x = q * w + r  OBVIOUS
<1> HIDE DEF x, k, t
<1>4. k * w \in Int /\ q * w \in Int  BY <1>2, SMT
<1>5. ~(k > q)
  <2> SUFFICES ASSUME k > q PROVE FALSE  OBVIOUS
  <2>1. k - q \in Nat /\ 1 <= k - q  BY <1>2
  <2>2. 1 * w <= (k - q) * w  BY <2>1, TimesMonotone
  <2>3. (k - q) * w = k * w - q * w  BY <1>2, SMT
  <2> QED  BY <1>2, <1>3, <1>4, <2>2, <2>3
<1>6. ~(k < q)
  <2> SUFFICES ASSUME k < q PROVE FALSE  OBVIOUS
  <2>1. q - k \in Nat /\ 1 <= q - k  BY <1>2
  <2>2. 1 * w <= (q - k) * w  BY <2>1, TimesMonotone
  <2>3. (q - k) * w = q * w - k * w  BY <1>2, SMT
  <2> QED  BY <1>2, <1>3, <1>4, <2>2, <2>3
<1>7. k = q  BY <1>2, <1>5, <1>6
<1>8. t = r  BY <1>2, <1>3, <1>4, <1>7
<1> QED  BY <1>8 DEF t, x

\* Multiples do not matter to the remainder.
LEMMA ModSame ==
    ASSUME NEW x \in Int, NEW k \in Int, NEW w \in Nat \ {0}
    PROVE  (x + k * w) % w = x % w
<1> DEFINE q == x \div w
           r == x % w
<1>1. q \in Int /\ r \in 0 .. w - 1 /\ x = q * w + r  BY IntDivMod
<1> HIDE DEF q, r
<1>2. q * w + r + k * w = (q + k) * w + r /\ q + k \in Int  BY <1>1, SMT
<1>3. ((q + k) * w + r) % w = r  BY <1>1, <1>2, ModIs
<1>4. (x + k * w) % w = r  BY <1>1, <1>2, <1>3
<1> QED  BY <1>4 DEF r

\* A quotient is exceeded just if the product exceeds the dividend.
LEMMA ExceedsQuotient ==
    ASSUME NEW u \in Nat, NEW m \in Nat, NEW v \in Nat \ {0}
    PROVE  u > m \div v <=> u * v > m
<1> DEFINE q == m \div v
           r == m % v
<1>1. q \in Nat /\ r \in 0 .. v - 1 /\ m = q * v + r  BY DivMod
<1> HIDE DEF q, r
<1>2. u * v \in Nat /\ q * v \in Nat  BY <1>1, SMT
<1>3. u <= q => u * v <= q * v  BY <1>1, TimesMonotone
<1>4. q + 1 <= u => (q + 1) * v <= u * v  BY <1>1, TimesMonotone
<1>5. (q + 1) * v = q * v + v  BY <1>1, SMT
<1>6. u > q <=> u * v > m  BY <1>1, <1>2, <1>3, <1>4, <1>5
<1> QED  BY <1>6 DEF q

-----------------------------------------------------------------------------
(* Least, greatest and induction *)

\* Min returns the least member of a nonempty set of numbers.
LEMMA MinIsLeast ==
    ASSUME NEW S \in SUBSET Nat, S # {}
    PROVE  Min(S) \in S /\ \A y \in S : Min(S) <= y
<1>1. PICK x \in S : \A y \in S : ~(<<y, x>> \in OpToRel(<, Nat))
  BY NatLessThanWellFounded, WFMin, Zenon
<1>2. \A a, b \in Nat : a < b => <<a, b>> \in OpToRel(<, Nat)
  BY SMT DEF OpToRel
<1>3. \A y \in S : ~(y < x)
  BY <1>1, <1>2, Zenon
<1>4. \A y \in S : x <= y
  BY <1>3
<1> QED  BY <1>4 DEF Min

\* Max returns the greatest member of a nonempty bounded set of numbers.
LEMMA MaxIsGreatest ==
    ASSUME NEW S \in SUBSET Nat, S # {}, NEW top \in Nat, \A y \in S : y <= top
    PROVE  Max(S) \in S /\ \A y \in S : y <= Max(S)
<1> DEFINE Bounds == {u \in Nat : \A y \in S : y <= u}
<1>1. Min(Bounds) \in Bounds /\ \A u \in Bounds : Min(Bounds) <= u
  BY MinIsLeast
<1> DEFINE m == Min(Bounds)
<1> HIDE DEF m
<1>2. m \in Nat /\ (\A y \in S : y <= m) /\ (\A u \in Nat : (\A y \in S : y <= u) => m <= u)
  BY <1>1 DEF m
<1>3. m \in S
  <2> SUFFICES ASSUME m \notin S PROVE FALSE  OBVIOUS
  <2>1. \A y \in S : y <= m - 1  BY <1>2
  <2>2. m > 0
    <3>1. PICK y \in S : TRUE  OBVIOUS
    <3> QED  BY <1>2, <3>1
  <2> QED  BY <1>2, <2>1, <2>2
<1> QED  BY <1>2, <1>3 DEF Max

\* Induction up to n: a set that holds 0 and, below n, with every number the
\* next one.
LEMMA InductionUpTo ==
    ASSUME NEW n \in Nat, NEW S, 0 \in S,
           \A k \in 0 .. n - 1 : k \in S => k + 1 \in S
    PROVE  0 .. n \subseteq S
<1> DEFINE Bad == (0 .. n) \ S
<1> SUFFICES ASSUME Bad # {} PROVE FALSE  OBVIOUS
<1> DEFINE k == Min(Bad)
<1>1. k \in Bad /\ \A y \in Bad : k <= y  BY MinIsLeast
<1> HIDE DEF k
<1>2. k \in 1 .. n /\ k - 1 \in 0 .. n - 1 /\ k - 1 \notin Bad  BY <1>1
<1>3. k - 1 \in S /\ (k - 1) + 1 = k  BY <1>2
<1>4. k \in S  BY <1>2, <1>3
<1> QED  BY <1>1, <1>4

\* The greater of two numbers.
LEMMA MaxOfTwo ==
    ASSUME NEW a \in Nat, NEW b \in Nat
    PROVE  Max({a, b}) \in {a, b} /\ Max({a, b}) >= a /\ Max({a, b}) >= b
<1>1. \E x \in {a, b} : \A y \in {a, b} : x >= y
  <2>1. CASE a <= b  BY <2>1
  <2>2. CASE b <= a  BY <2>2
  <2> QED  BY <2>1, <2>2
<1> QED  BY <1>1 DEF Max

\* Dividing twice is dividing by the product.
LEMMA DivDiv ==
    ASSUME NEW n \in Nat, NEW p \in Nat \ {0}, NEW b \in Nat \ {0}
    PROVE  (n \div p) \div b = n \div (b * p)
<1> DEFINE q == n \div p
           x == q \div b
           r == n % p
           s == q % b
<1>1. q \in Nat /\ r \in 0 .. p - 1 /\ n = q * p + r  BY DivMod
<1>2. x \in Nat /\ s \in 0 .. b - 1 /\ q = x * b + s  BY <1>1, DivMod
<1> HIDE DEF q, x, r, s
<1>3. s * p \in Nat /\ x * (b * p) \in Nat /\ b * p \in Nat /\ p \in Nat  BY <1>2, SMT
<1>4. n = x * (b * p) + (s * p + r)
  <2>1. (x * b + s) * p = x * (b * p) + s * p  BY <1>2, SMT
  <2> QED  BY <1>1, <1>2, <1>3, <2>1
<1>5. s * p + p <= b * p
  <2>1. (s + 1) * p <= b * p  BY <1>2, TimesMonotone
  <2>2. (s + 1) * p = s * p + p  BY <1>2, SMT
  <2> QED  BY <2>1, <2>2
<1>6. s * p + r \in 0 .. b * p - 1 /\ b * p \in Nat \ {0}  BY <1>1, <1>3, <1>5
<1> HIDE DEF x
<1>7. n \div (b * p) = x  BY <1>2, <1>4, <1>6, DivModUnique
<1> QED  BY <1>7 DEF x, q

-----------------------------------------------------------------------------
(* Recursion up to a number *)

\* A function that starts in a set and never leaves it.
LEMMA StaysIn ==
    ASSUME NEW n \in Nat, NEW S, NEW f, f[0] \in S,
           \A k \in 1 .. n : f[k - 1] \in S => f[k] \in S
    PROVE  \A k \in 0 .. n : f[k] \in S
<1> DEFINE Good == {k \in 0 .. n : f[k] \in S}
<1>1. 0 \in Good  OBVIOUS
<1>2. \A k \in 0 .. n - 1 : k \in Good => k + 1 \in Good
  <2> TAKE k \in 0 .. n - 1
  <2>1. k + 1 \in 1 .. n /\ (k + 1) - 1 = k  OBVIOUS
  <2> QED  BY <2>1
<1> HIDE DEF Good
<1>3. 0 .. n \subseteq Good  BY <1>1, <1>2, InductionUpTo
<1> QED  BY <1>3 DEF Good

\* The ways to start at base and go on by step[1], step[2], up to step[n].
Walks(n, S, base, step) ==
    {f \in [0 .. n -> S] : f[0] = base /\ \A k \in 1 .. n : f[k] = step[k][f[k - 1]]}

\* Steps within a set, one after the other, make a function.
LEMMA RecursionExists ==
    ASSUME NEW n \in Nat, NEW S, NEW base \in S, NEW step \in [1 .. n -> [S -> S]]
    PROVE  Walks(n, S, base, step) # {}
<1> DEFINE R(m) == {f \in [0 .. m -> S] :
                      f[0] = base /\ \A k \in 1 .. m : f[k] = step[k][f[k - 1]]}
           Good == {m \in 0 .. n : R(m) # {}}
<1>1. 0 \in Good
  <2>1. [k \in 0 .. 0 |-> base] \in R(0)  OBVIOUS
  <2> QED  BY <2>1
<1>2. \A m \in 0 .. n - 1 : m \in Good => m + 1 \in Good
  <2> SUFFICES ASSUME NEW m \in 0 .. n - 1, NEW f \in R(m)
               PROVE  m + 1 \in Good
    OBVIOUS
  <2> DEFINE g == [k \in 0 .. m + 1 |-> IF k = m + 1 THEN step[m + 1][f[m]] ELSE f[k]]
  <2>1. step[m + 1][f[m]] \in S
    <3>1. m + 1 \in 1 .. n /\ m \in 0 .. m  OBVIOUS
    <3>2. step[m + 1] \in [S -> S] /\ f[m] \in S  BY <3>1
    <3> QED  BY <3>2
  <2>2. g \in [0 .. m + 1 -> S]  BY <2>1
  <2>3. g[0] = base  OBVIOUS
  <2>4. \A k \in 1 .. m + 1 : g[k] = step[k][g[k - 1]]
    <3> TAKE k \in 1 .. m + 1
    <3>1. CASE k = m + 1  BY <3>1
    <3>2. CASE k # m + 1
      <4>1. k \in 1 .. m /\ k - 1 \in 0 .. m  BY <3>2
      <4>2. f[k] = step[k][f[k - 1]]  BY <4>1
      <4> QED  BY <3>2, <4>1, <4>2
    <3> QED  BY <3>1, <3>2
  <2>5. g \in R(m + 1)  BY <2>2, <2>3, <2>4
  <2>6. m + 1 \in 0 .. n  OBVIOUS
  <2> HIDE DEF R, g
  <2> QED  BY <2>5, <2>6
<1>3. n \in Good
  <2> HIDE DEF Good
  <2>1. 0 .. n \subseteq Good  BY <1>1, <1>2, InductionUpTo
  <2> QED  BY <2>1
<1> QED  BY <1>3 DEF Walks
=============================================================================
