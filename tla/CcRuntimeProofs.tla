-------------------------- MODULE CcRuntimeProofs ---------------------------
(***************************************************************************)
(* Theorems about the compiler runtime: its products, its divisions and    *)
(* its arithmetic that traps, for words of every even size.                *)
(***************************************************************************)
EXTENDS Library, Arithmetic, SequenceTheorems, TLAPS

-----------------------------------------------------------------------------
(* Words and powers of two. *)

\* Powers of two are positive, and each is twice the one before.
LEMMA TwoIs ==
    /\ Two[0] = 1
    /\ \A k \in 0 .. WIDEST : Two[k] \in Nat \ {0}
    /\ \A k \in 1 .. WIDEST : Two[k] = 2 * Two[k - 1]
<1> DEFINE IsTwo(g) == g = [k \in 0 .. WIDEST |-> IF k = 0 THEN 1 ELSE 2 * g[k - 1]]
           S == Nat \ {0}
           step == [k \in 1 .. WIDEST |-> [x \in S |-> 2 * x]]
<1>1. WIDEST \in Nat  BY WIDESTAssumption
<1>2. step \in [1 .. WIDEST -> [S -> S]]  OBVIOUS
<1>3. PICK f \in Walks(WIDEST, S, 1, step) : TRUE
  <2>1. 1 \in S  OBVIOUS
  <2> HIDE DEF step, S
  <2> QED  BY <1>1, <1>2, <2>1, RecursionExists
<1>4. f \in [0 .. WIDEST -> S] /\ f[0] = 1 /\ \A k \in 1 .. WIDEST : f[k] = 2 * f[k - 1]
  <2> HIDE DEF S, step
  <2>1. f \in [0 .. WIDEST -> S] /\ f[0] = 1
        /\ \A k \in 1 .. WIDEST : f[k] = step[k][f[k - 1]]
    BY <1>3 DEF Walks
  <2>2. ASSUME NEW k \in 1 .. WIDEST PROVE f[k] = 2 * f[k - 1]
    <3>1. k - 1 \in 0 .. WIDEST  BY <1>1
    <3>2. f[k - 1] \in S /\ f[k] = step[k][f[k - 1]]  BY <2>1, <3>1
    <3> QED  BY <3>2 DEF step
  <2> QED  BY <2>1, <2>2
<1>5. IsTwo(f)
  <2> HIDE DEF S, step
  <2>1. \A k \in 0 .. WIDEST : f[k] = IF k = 0 THEN 1 ELSE 2 * f[k - 1]  BY <1>1, <1>4
  <2> QED  BY <1>4, <2>1
<1>6. IsTwo(Two)
  <2>1. Two = CHOOSE g : IsTwo(g)  BY DEF Two
  <2> HIDE DEF IsTwo
  <2> QED  BY <1>5, <2>1, Zenon
<1> HIDE DEF S, step
<1>7. \A k \in 0 .. WIDEST : Two[k] = IF k = 0 THEN 1 ELSE 2 * Two[k - 1]  BY <1>6
<1>8. Two[0] = 1 /\ \A k \in 1 .. WIDEST : Two[k] = 2 * Two[k - 1]  BY <1>1, <1>7
<1>9. \A k \in 0 .. WIDEST : Two[k] \in S
  <2>1. Two[0] \in S  BY <1>8 DEF S
  <2>2. ASSUME NEW k \in 1 .. WIDEST, Two[k - 1] \in S PROVE Two[k] \in S
    BY <1>8, <2>2 DEF S
  <2> QED  BY <1>1, <2>1, <2>2, StaysIn
<1> QED  BY <1>8, <1>9 DEF S

\* The power of a sum is the product of the powers.
LEMMA TwoTimes ==
    ASSUME NEW i \in Nat, NEW j \in Nat, i + j <= WIDEST
    PROVE  Two[i + j] = Two[i] * Two[j]
<1> DEFINE Good == {k \in 0 .. j : Two[i + k] = Two[i] * Two[k]}
<1>1. WIDEST \in Nat  BY WIDESTAssumption
<1>2. Two[i] \in Nat /\ i \in 0 .. WIDEST  BY <1>1, TwoIs
<1>3. 0 \in Good
  <2>1. i + 0 = i /\ Two[0] = 1  BY TwoIs
  <2> QED  BY <1>2, <2>1
<1>4. \A k \in 0 .. j - 1 : k \in Good => k + 1 \in Good
  <2> SUFFICES ASSUME NEW k \in 0 .. j - 1, Two[i + k] = Two[i] * Two[k]
               PROVE  Two[i + (k + 1)] = Two[i] * Two[k + 1]
    OBVIOUS
  <2>1. i + (k + 1) \in 1 .. WIDEST /\ (i + (k + 1)) - 1 = i + k
        /\ k + 1 \in 1 .. WIDEST /\ (k + 1) - 1 = k /\ k \in 0 .. WIDEST
    BY <1>1
  <2>2. Two[i + (k + 1)] = 2 * Two[i + k]
    <3>1. Two[i + (k + 1)] = 2 * Two[(i + (k + 1)) - 1]  BY <2>1, TwoIs
    <3> QED  BY <2>1, <3>1
  <2>3. Two[k + 1] = 2 * Two[k]
    <3>1. Two[k + 1] = 2 * Two[(k + 1) - 1]  BY <2>1, TwoIs
    <3> QED  BY <2>1, <3>1
  <2>4. Two[k] \in Nat  BY <2>1, TwoIs
  <2>5. \A x, y \in Nat : 2 * (x * y) = x * (2 * y)  BY SMT
  <2> QED  BY <1>2, <2>2, <2>3, <2>4, <2>5
<1> HIDE DEF Good
<1>5. 0 .. j \subseteq Good  BY <1>3, <1>4, InductionUpTo
<1> QED  BY <1>5 DEF Good
\* A size, the power of it and of one bit less.
IsSize(n, w, h) ==
    /\ n \in 2 .. WIDEST /\ w = Two[n] /\ h = Two[n - 1]
    /\ w \in Nat \ {0} /\ h \in Nat /\ h >= 2 /\ w = 2 * h

\* Every size has them.
LEMMA SizeIs ==
    ASSUME NEW n \in 2 .. WIDEST
    PROVE  IsSize(n, Two[n], Two[n - 1])
<1>1. WIDEST \in Nat  BY WIDESTAssumption
<1>2. n \in 1 .. WIDEST /\ n - 1 \in 1 .. WIDEST /\ n \in 0 .. WIDEST /\ n - 1 \in 0 .. WIDEST
      /\ (n - 1) - 1 \in 0 .. WIDEST
  BY <1>1
<1>3. Two[n] = 2 * Two[n - 1] /\ Two[n - 1] = 2 * Two[(n - 1) - 1]  BY <1>2, TwoIs
<1>4. Two[n] \in Nat \ {0} /\ Two[n - 1] \in Nat \ {0} /\ Two[(n - 1) - 1] \in Nat \ {0}
  BY <1>2, TwoIs
<1> QED  BY <1>3, <1>4 DEF IsSize

\* What a word is as a signed number, and the number's magnitude.
LEMMA SignedIs ==
    ASSUME NEW n, NEW w, NEW h, IsSize(n, w, h), NEW a \in 0 .. w - 1
    PROVE  /\ Signed2(a, n) \in -h .. h - 1
           /\ Signed2(a, n) = IF a < h THEN a ELSE a - w
           /\ Negative(a, n) <=> Signed2(a, n) < 0
           /\ Magnitude(a, n) = IF Signed2(a, n) < 0 THEN -Signed2(a, n) ELSE Signed2(a, n)
           /\ a = MIN(n) <=> Signed2(a, n) = -h
           /\ MIN(n) = h
<1>1. w = Two[n] /\ h = Two[n - 1] /\ w \in Nat \ {0} /\ h \in Nat /\ h >= 2 /\ w = 2 * h
  BY DEF IsSize
<1>2. Signed2(a, n) = IF a < h THEN a ELSE a - w  BY <1>1 DEF Signed2
<1>3. Negative(a, n) <=> a >= h  BY <1>1 DEF Negative
<1>4. MIN(n) = h  BY <1>1 DEF MIN
<1>5. a >= h => Negate(a, n) = w - a
  <2> SUFFICES ASSUME a >= h PROVE Negate(a, n) = w - a  OBVIOUS
  <2>1. w - a \in 0 .. w - 1 /\ -1 \in Int /\ -a = (-1) * w + (w - a)  BY <1>1
  <2>2. ((-1) * w + (w - a)) % w = w - a  BY <1>1, <2>1, ModIs
  <2>3. Negate(a, n) = (-a) % w  BY <1>1 DEF Negate, Wrap
  <2> QED  BY <2>1, <2>2, <2>3
<1>6. Magnitude(a, n) = IF a >= h THEN w - a ELSE a  BY <1>3, <1>5 DEF Magnitude
<1> QED  BY <1>1, <1>2, <1>3, <1>4, <1>6

\* A number not much out of range is wrapped once.
LEMMA SignedOfWrap ==
    ASSUME NEW n, NEW w, NEW h, IsSize(n, w, h), NEW z \in -w .. w - 1
    PROVE  /\ Wrap(z, n) \in 0 .. w - 1
           /\ Signed2(Wrap(z, n), n) =
                  IF z >= h THEN z - w ELSE IF z < -h THEN z + w ELSE z
<1>1. w = Two[n] /\ w \in Nat \ {0} /\ h \in Nat /\ w = 2 * h  BY DEF IsSize
<1>2. CASE z >= 0
  <2>1. z \in 0 .. w - 1 /\ 0 \in Int /\ z = 0 * w + z  BY <1>1, <1>2
  <2>2. (0 * w + z) % w = z  BY <1>1, <2>1, ModIs
  <2>3. Wrap(z, n) = z  BY <1>1, <2>1, <2>2 DEF Wrap
  <2>4. Signed2(z, n) = IF z < h THEN z ELSE z - w  BY <2>1, SignedIs
  <2> QED  BY <1>1, <1>2, <2>1, <2>3, <2>4
<1>3. CASE z < 0
  <2>1. z + w \in 0 .. w - 1 /\ -1 \in Int /\ z = (-1) * w + (z + w)  BY <1>1, <1>3
  <2>2. ((-1) * w + (z + w)) % w = z + w  BY <1>1, <2>1, ModIs
  <2>3. Wrap(z, n) = z + w  BY <1>1, <2>1, <2>2 DEF Wrap
  <2>4. Signed2(z + w, n) = IF z + w < h THEN z + w ELSE (z + w) - w  BY <2>1, SignedIs
  <2> QED  BY <1>1, <1>3, <2>1, <2>3, <2>4
<1> QED  BY <1>1, <1>2, <1>3

\* Numbers that differ by multiples of the power wrap to the same word.
LEMMA WrapSame ==
    ASSUME NEW n, NEW w, NEW h, IsSize(n, w, h), NEW z \in Int, NEW k \in Int
    PROVE  Wrap(z + k * w, n) = Wrap(z, n)
  BY ModSame DEF IsSize, Wrap

\* An outcome tells whether the exact result has its type, and is that result wrapped.
Told(outcome, exact, n) ==
    /\ outcome.overflow <=> exact \notin -MIN(n) .. MIN(n) - 1
    /\ outcome.result = Wrap(exact, n)

\* Negation and the magnitude.
LEMMA NegateTells ==
    ASSUME NEW n, NEW w, NEW h, IsSize(n, w, h), NEW a \in 0 .. w - 1
    PROVE  /\ Told(negvXi2(a, n), -Signed2(a, n), n)
           /\ Told(absvXi2(a, n), IF Signed2(a, n) < 0 THEN -Signed2(a, n) ELSE Signed2(a, n), n)
<1>1. w \in Nat \ {0} /\ h \in Nat /\ h >= 2 /\ w = 2 * h /\ w = Two[n]  BY DEF IsSize
<1> DEFINE x == Signed2(a, n)
<1>2. /\ x \in -h .. h - 1 /\ x = IF a < h THEN a ELSE a - w
      /\ Magnitude(a, n) = IF x < 0 THEN -x ELSE x
      /\ a = MIN(n) <=> x = -h
      /\ MIN(n) = h
  BY SignedIs
<1> HIDE DEF x
<1>3. negvXi2(a, n).result = Wrap(-x, n)
  <2>1. negvXi2(a, n).result = Wrap(-a, n)  BY DEF negvXi2, Negate
  <2>2. -x = -a \/ -x = (-a) + 1 * w  BY <1>1, <1>2
  <2>3. Wrap((-a) + 1 * w, n) = Wrap(-a, n)
    <3>1. -a \in Int /\ 1 \in Int  OBVIOUS
    <3> QED  BY <3>1, WrapSame
  <2> QED  BY <2>1, <2>2, <2>3
<1>4. negvXi2(a, n).overflow <=> (-x \notin -MIN(n) .. MIN(n) - 1)
  <2>1. negvXi2(a, n).overflow = (a = MIN(n))  BY Zenon DEF negvXi2
  <2>2. a = MIN(n) <=> -x \notin -MIN(n) .. MIN(n) - 1  BY <1>1, <1>2
  <2> QED  BY <2>1, <2>2, Zenon
<1>5. absvXi2(a, n).result = Wrap(IF x < 0 THEN -x ELSE x, n)
  <2> DEFINE u == IF x < 0 THEN -x ELSE x
  <2>1. absvXi2(a, n).result = u  BY <1>2 DEF absvXi2
  <2>2. u \in 0 .. w - 1 /\ 0 \in Int /\ u = 0 * w + u  BY <1>1, <1>2
  <2> HIDE DEF u
  <2>3. (0 * w + u) % w = u  BY <1>1, <2>2, ModIs
  <2>4. Wrap(u, n) = u  BY <1>1, <2>2, <2>3 DEF Wrap
  <2> QED  BY <2>1, <2>4 DEF u
<1>6. absvXi2(a, n).overflow <=> ((IF x < 0 THEN -x ELSE x) \notin -MIN(n) .. MIN(n) - 1)
  <2>1. absvXi2(a, n).overflow = (a = MIN(n))  BY Zenon DEF absvXi2
  <2>2. a = MIN(n) <=> (IF x < 0 THEN -x ELSE x) \notin -MIN(n) .. MIN(n) - 1  BY <1>1, <1>2
  <2> QED  BY <2>1, <2>2, Zenon
<1> QED  BY <1>3, <1>4, <1>5, <1>6 DEF Told, x

\* Addition and subtraction.
LEMMA SumTells ==
    ASSUME NEW n, NEW w, NEW h, IsSize(n, w, h), NEW a \in 0 .. w - 1, NEW b \in 0 .. w - 1
    PROVE  /\ Told(addvXi3(a, b, n), Signed2(a, n) + Signed2(b, n), n)
           /\ Told(subvXi3(a, b, n), Signed2(a, n) - Signed2(b, n), n)
<1>1. w \in Nat \ {0} /\ h \in Nat /\ h >= 2 /\ w = 2 * h /\ w = Two[n]  BY DEF IsSize
<1> DEFINE x == Signed2(a, n)
           y == Signed2(b, n)
<1>2. /\ x \in -h .. h - 1 /\ x = (IF a < h THEN a ELSE a - w) /\ MIN(n) = h
  BY SignedIs
<1>3. /\ y \in -h .. h - 1 /\ y = (IF b < h THEN b ELSE b - w)
      /\ Negative(b, n) <=> y < 0
  BY SignedIs
<1>4. Signed2(a, n) = x /\ Signed2(b, n) = y  OBVIOUS
<1> HIDE DEF x, y
<1>5. x + y \in -w .. w - 1 /\ x - y \in -w .. w - 1  BY <1>1, <1>2, <1>3
<1>6. Wrap(a + b, n) = Wrap(x + y, n)
  <2>1. PICK k \in Int : a + b = (x + y) + k * w
    <3>1. a + b = (x + y) + 0 * w \/ a + b = (x + y) + 1 * w \/ a + b = (x + y) + 2 * w
      BY <1>1, <1>2, <1>3
    <3> QED  BY <3>1
  <2> QED  BY <1>5, <2>1, WrapSame
<1>7. Wrap(a - b, n) = Wrap(x - y, n)
  <2>1. PICK k \in Int : a - b = (x - y) + k * w
    <3>1. a - b = (x - y) + 0 * w \/ a - b = (x - y) + 1 * w \/ a - b = (x - y) + (-1) * w
      BY <1>1, <1>2, <1>3
    <3> QED  BY <3>1
  <2> QED  BY <1>5, <2>1, WrapSame
<1>8. Told(addvXi3(a, b, n), x + y, n)
  <2> DEFINE s == Wrap(a + b, n)
             over == IF Negative(b, n) THEN Signed2(s, n) >= Signed2(a, n)
                     ELSE Signed2(s, n) < Signed2(a, n)
  <2>1. addvXi3(a, b, n).result = s /\ addvXi3(a, b, n).overflow = over
    BY Zenon DEF addvXi3
  <2>2. Signed2(s, n) = IF x + y >= h THEN (x + y) - w ELSE IF x + y < -h THEN (x + y) + w ELSE x + y
    BY <1>5, <1>6, SignedOfWrap
  <2>3. over <=> x + y \notin -MIN(n) .. MIN(n) - 1
    <3> HIDE DEF s
    <3>1. over <=> IF y < 0 THEN Signed2(s, n) >= x ELSE Signed2(s, n) < x  BY <1>3, <1>4
    <3> HIDE DEF over
    <3> QED  BY <1>1, <1>2, <1>3, <2>2, <3>1
  <2> HIDE DEF over
  <2> QED  BY <1>6, <2>1, <2>3, Zenon DEF Told
<1>9. Told(subvXi3(a, b, n), x - y, n)
  <2> DEFINE s == Wrap(a - b, n)
             over == IF Negative(b, n) THEN Signed2(s, n) <= Signed2(a, n)
                     ELSE Signed2(s, n) > Signed2(a, n)
  <2>1. subvXi3(a, b, n).result = s /\ subvXi3(a, b, n).overflow = over
    BY Zenon DEF subvXi3
  <2>2. Signed2(s, n) = IF x - y >= h THEN (x - y) - w ELSE IF x - y < -h THEN (x - y) + w ELSE x - y
    BY <1>5, <1>7, SignedOfWrap
  <2>3. over <=> x - y \notin -MIN(n) .. MIN(n) - 1
    <3> HIDE DEF s
    <3>1. over <=> IF y < 0 THEN Signed2(s, n) <= x ELSE Signed2(s, n) > x  BY <1>3, <1>4
    <3> HIDE DEF over
    <3> QED  BY <1>1, <1>2, <1>3, <2>2, <3>1
  <2> HIDE DEF over
  <2> QED  BY <1>7, <2>1, <2>3, Zenon DEF Told
<1> QED  BY <1>4, <1>8, <1>9
\* The division of the bound by a magnitude.
LEMMA BoundIs ==
    ASSUME NEW n, NEW w, NEW h, IsSize(n, w, h), NEW u \in 2 .. h - 1, NEW v \in 2 .. h - 1
    PROVE  /\ u > Towards0(MIN(n) - 1, v) <=> u * v > h - 1
           /\ u > Towards0(-MIN(n), -v) <=> u * v > h
<1>1. h \in Nat /\ h >= 2 /\ MIN(n) = h  BY DEF IsSize, MIN
<1>2. Towards0(MIN(n) - 1, v) = (h - 1) \div v  BY <1>1 DEF Towards0
<1>3. Towards0(-MIN(n), -v) = h \div v
  <2>1. -h < 0 /\ -v < 0 /\ -(-h) = h /\ -(-v) = v  BY <1>1
  <2> QED  BY <1>1, <2>1 DEF Towards0
<1>4. u \in Nat /\ v \in Nat \ {0} /\ h - 1 \in Nat  BY <1>1
<1> QED  BY <1>1, <1>2, <1>3, <1>4, ExceedsQuotient

\* Signs come out of a product.
LEMMA SignsOut ==
    ASSUME NEW x \in Int, NEW y \in Int
    PROVE  /\ x * y \in Int /\ (-x) * y = -(x * y) /\ x * (-y) = -(x * y) /\ (-x) * (-y) = x * y
           /\ x * y = y * x
  BY SMT

\* Whether a product by a number of at least two magnitudes is in range.
LEMMA ProductRange ==
    ASSUME NEW h \in Nat, h >= 2, NEW y \in -h .. h - 1
    PROVE  (-h) * y \in -h .. h - 1 <=> y \in {0, 1}
<1>1. CASE y = 0  BY <1>1, SMT
<1>2. CASE y = 1  BY <1>2, SMT
<1>3. CASE y >= 2
  <2>1. y \in Nat /\ h \in Nat \ {0} /\ 2 \in Nat  BY <1>3
  <2>2. 2 * h <= y * h  BY <1>3, <2>1, TimesMonotone
  <2>3. (-h) * y = -(y * h)  BY SMT
  <2>4. y * h \in Int  BY <2>1, SMT
  <2> QED  BY <1>3, <2>2, <2>3, <2>4
<1>4. CASE y < 0
  <2>1. -y \in Nat /\ h \in Nat \ {0} /\ 1 \in Nat /\ 1 <= -y  BY <1>4
  <2>2. 1 * h <= (-y) * h  BY <2>1, TimesMonotone
  <2>3. (-h) * y = (-y) * h  BY SMT
  <2>4. (-y) * h \in Int  BY <2>1, SMT
  <2> QED  BY <1>4, <2>2, <2>3, <2>4
<1> QED  BY <1>1, <1>2, <1>3, <1>4

\* A product by a number of at most one is in range.
LEMMA SmallProduct ==
    ASSUME NEW h \in Nat, h >= 2, NEW x \in 1 - h .. h - 1, NEW y \in -1 .. 1
    PROVE  x * y \in -h .. h - 1 /\ y * x \in -h .. h - 1
<1>1. CASE y = 0  BY <1>1, SMT
<1>2. CASE y = 1  BY <1>2, SMT
<1>3. CASE y = -1  BY <1>3, SMT
<1> QED  BY <1>1, <1>2, <1>3

\* A product of greater ones is in range if the magnitudes' product is.
LEMMA MagnitudesProduct ==
    ASSUME NEW h \in Nat, h >= 2, NEW x \in Int, NEW y \in Int, NEW u, NEW v,
           u = (IF x < 0 THEN -x ELSE x), v = (IF y < 0 THEN -y ELSE y)
    PROVE  /\ u * v \in Nat
           /\ ((x < 0) <=> (y < 0)) => (x * y \notin -h .. h - 1 <=> u * v > h - 1)
           /\ ~((x < 0) <=> (y < 0)) => (x * y \notin -h .. h - 1 <=> u * v > h)
<1>1. u \in Nat /\ v \in Nat  OBVIOUS
<1>2. u * v \in Nat  BY <1>1, SMT
<1>3. ((x < 0) <=> (y < 0)) => x * y = u * v
  <2>1. CASE x < 0 /\ y < 0
    <3>1. x * y = (-x) * (-y)  BY SignsOut
    <3> QED  BY <2>1, <3>1
  <2>2. CASE ~(x < 0) /\ ~(y < 0)  BY <2>2
  <2> QED  BY <2>1, <2>2
<1>4. ~((x < 0) <=> (y < 0)) => x * y = -(u * v)
  <2>1. CASE x < 0 /\ ~(y < 0)
    <3>1. (-x) * y = -(x * y) /\ x * y \in Int  BY SignsOut
    <3>2. u * v = (-x) * y  BY <2>1
    <3> QED  BY <3>1, <3>2
  <2>2. CASE ~(x < 0) /\ y < 0
    <3>1. x * (-y) = -(x * y) /\ x * y \in Int  BY SignsOut
    <3>2. u * v = x * (-y)  BY <2>2
    <3> QED  BY <3>1, <3>2
  <2> QED  BY <2>1, <2>2
<1>5. PICK e \in Int, f \in Nat : e = x * y /\ f = u * v  BY <1>2, SignsOut
<1>6. ((x < 0) <=> (y < 0)) => e = f  BY <1>3, <1>5
<1>7. ~((x < 0) <=> (y < 0)) => e = -f  BY <1>4, <1>5
<1>8. /\ e = f => (e \notin -h .. h - 1 <=> f > h - 1)
      /\ e = -f => (e \notin -h .. h - 1 <=> f > h)
  OBVIOUS
<1> QED  BY <1>5, <1>6, <1>7, <1>8

\* Multiplication.
LEMMA ProductTells ==
    ASSUME NEW n, NEW w, NEW h, IsSize(n, w, h), NEW a \in 0 .. w - 1, NEW b \in 0 .. w - 1
    PROVE  Told(muloXi4(a, b, n), Signed2(a, n) * Signed2(b, n), n)
<1>1. w \in Nat \ {0} /\ h \in Nat /\ h >= 2 /\ w = 2 * h /\ w = Two[n]  BY DEF IsSize
<1> DEFINE x == Signed2(a, n)
           y == Signed2(b, n)
           u == Magnitude(a, n)
           v == Magnitude(b, n)
           over == IF a = MIN(n) THEN b \notin {0, 1}
                   ELSE IF b = MIN(n) THEN a \notin {0, 1}
                   ELSE u >= 2 /\ v >= 2 /\ BoundOfSign(a, b, n)
<1>2. /\ x \in -h .. h - 1 /\ x = (IF a < h THEN a ELSE a - w) /\ MIN(n) = h
      /\ (Negative(a, n) <=> x < 0) /\ u = (IF x < 0 THEN -x ELSE x) /\ (a = MIN(n) <=> x = -h)
  BY SignedIs
<1>3. /\ y \in -h .. h - 1 /\ y = (IF b < h THEN b ELSE b - w)
      /\ (Negative(b, n) <=> y < 0) /\ v = (IF y < 0 THEN -y ELSE y) /\ (b = MIN(n) <=> y = -h)
  BY SignedIs
<1>4. muloXi4(a, b, n).result = Wrap(a * b, n) /\ muloXi4(a, b, n).overflow = over
  BY Zenon DEF muloXi4
<1>5. BoundOfSign(a, b, n) <=> u > IF Negative(a, n) = Negative(b, n)
                                   THEN Towards0(MIN(n) - 1, v) ELSE Towards0(-MIN(n), -v)
  BY DEF BoundOfSign
<1>6. (Negative(a, n) = Negative(b, n)) <=> (x < 0 <=> y < 0)
  <2>1. Negative(a, n) \in BOOLEAN /\ Negative(b, n) \in BOOLEAN  BY DEF Negative
  <2> QED  BY <1>2, <1>3, <2>1
<1>7. Wrap(a * b, n) = Wrap(x * y, n)
  <2>1. PICK i \in {0, 1}, j \in {0, 1} : a = x + i * w /\ b = y + j * w
    BY <1>1, <1>2, <1>3
  <2>2. PICK k \in Int : a * b = x * y + k * w
    <3> HIDE DEF x, y
    <3>1. x \in Int /\ y \in Int /\ w \in Int  BY <1>1, <1>2, <1>3
    <3>2. CASE i = 0 /\ j = 0
      <4>1. a = x /\ b = y  BY <2>1, <3>1, <3>2
      <4>2. x * y = x * y + 0 * w  BY <3>1, SMT
      <4> QED  BY <4>1, <4>2
    <3>3. CASE i = 0 /\ j = 1
      <4>1. a = x /\ b = y + w  BY <2>1, <3>1, <3>3
      <4>2. x * (y + w) = x * y + x * w  BY <3>1, SMT
      <4> QED  BY <3>1, <4>1, <4>2
    <3>4. CASE i = 1 /\ j = 0
      <4>1. a = x + w /\ b = y  BY <2>1, <3>1, <3>4
      <4>2. (x + w) * y = x * y + y * w  BY <3>1, SMT
      <4> QED  BY <3>1, <4>1, <4>2
    <3>5. CASE i = 1 /\ j = 1
      <4>1. a = x + w /\ b = y + w  BY <2>1, <3>1, <3>5
      <4>2. (x + w) * (y + w) = x * y + (x + y + w) * w /\ x + y + w \in Int  BY <3>1, SMT
      <4> QED  BY <4>1, <4>2
    <3> QED  BY <3>2, <3>3, <3>4, <3>5
  <2>3. x * y \in Int  BY <1>2, <1>3, SignsOut
  <2> HIDE DEF x, y
  <2>4. Wrap(x * y + k * w, n) = Wrap(x * y, n)  BY <2>3, WrapSame
  <2> QED  BY <2>2, <2>4
<1> HIDE DEF x, y, u, v
<1>8. over <=> x * y \notin -h .. h - 1
  <2>1. CASE x = -h
    <3>1. (-h) * y \in -h .. h - 1 <=> y \in {0, 1}  BY <1>1, <1>3, ProductRange
    <3>2. y \in {0, 1} <=> b \in {0, 1}  BY <1>1, <1>3
    <3> QED  BY <1>2, <2>1, <3>1, <3>2
  <2>2. CASE x # -h /\ y = -h
    <3>1. (-h) * x \in -h .. h - 1 <=> x \in {0, 1}  BY <1>1, <1>2, ProductRange
    <3>2. x \in {0, 1} <=> a \in {0, 1}  BY <1>1, <1>2
    <3>3. x * y = (-h) * x  BY <1>2, <1>3, <2>2, SignsOut
    <3> QED  BY <1>2, <1>3, <2>2, <3>1, <3>2, <3>3
  <2>3. CASE x # -h /\ y # -h
    <3>1. over <=> u >= 2 /\ v >= 2 /\ BoundOfSign(a, b, n)  BY <1>2, <1>3, <2>3
    <3> HIDE DEF over
    <3>2. x \in 1 - h .. h - 1 /\ y \in 1 - h .. h - 1  BY <1>1, <1>2, <1>3, <2>3
    <3>3. CASE u < 2
      <4>1. x \in -1 .. 1  BY <1>2, <3>3
      <4>2. x * y \in -h .. h - 1  BY <1>1, <3>2, <4>1, SmallProduct
      <4> QED  BY <1>2, <3>1, <3>3, <4>2
    <3>4. CASE v < 2
      <4>1. y \in -1 .. 1  BY <1>3, <3>4
      <4>2. x * y \in -h .. h - 1  BY <1>1, <3>2, <4>1, SmallProduct
      <4> QED  BY <1>3, <3>1, <3>4, <4>2
    <3>5. CASE u >= 2 /\ v >= 2
      <4>1. u \in 2 .. h - 1 /\ v \in 2 .. h - 1  BY <1>1, <1>2, <1>3, <3>2, <3>5
      <4>2. /\ u > Towards0(MIN(n) - 1, v) <=> u * v > h - 1
            /\ u > Towards0(-MIN(n), -v) <=> u * v > h
        BY <4>1, BoundIs
      <4>3. /\ x \in Int /\ y \in Int /\ h \in Nat /\ h >= 2
            /\ u = (IF x < 0 THEN -x ELSE x) /\ v = (IF y < 0 THEN -y ELSE y)
        BY <1>1, <1>2, <1>3
      <4>4. /\ u * v \in Nat
            /\ (x < 0 <=> y < 0) => (x * y \notin -h .. h - 1 <=> u * v > h - 1)
            /\ ~(x < 0 <=> y < 0) => (x * y \notin -h .. h - 1 <=> u * v > h)
        BY <4>3, MagnitudesProduct
      <4>5. CASE x < 0 <=> y < 0
        <5>1. BoundOfSign(a, b, n) <=> u > Towards0(MIN(n) - 1, v)  BY <1>5, <1>6, <4>5
        <5> QED  BY <3>1, <3>5, <4>2, <4>4, <4>5, <5>1
      <4>6. CASE ~(x < 0 <=> y < 0)
        <5>1. BoundOfSign(a, b, n) <=> u > Towards0(-MIN(n), -v)  BY <1>5, <1>6, <4>6
        <5> QED  BY <3>1, <3>5, <4>2, <4>4, <4>6, <5>1
      <4> QED  BY <4>5, <4>6
    <3> QED  BY <1>2, <1>3, <3>3, <3>4, <3>5
  <2> QED  BY <2>1, <2>2, <2>3
<1> HIDE DEF over
<1>9. MIN(n) = h  BY <1>2
<1> QED  BY <1>4, <1>7, <1>8, <1>9 DEF Told, x, y
\* A word and its halves.
LEMMA HalvesIs ==
    ASSUME NEW n, NEW w, NEW h, IsSize(n, w, h), n % 2 = 0, NEW k \in Nat \ {0},
           k = Two[n \div 2], NEW a \in 0 .. w - 1
    PROVE  /\ w = k * k /\ Low(a, n) \in 0 .. k - 1 /\ High(a, n) \in 0 .. k - 1
           /\ a = High(a, n) * k + Low(a, n)
<1> DEFINE i == n \div 2
<1>1. n \in Nat /\ n <= WIDEST /\ w = Two[n]  BY WIDESTAssumption DEF IsSize
<1>2. i \in Nat /\ n = i + i  BY <1>1
<1>3. w = k * k
  <2>1. Two[i + i] = Two[i] * Two[i]  BY <1>1, <1>2, TwoTimes
  <2> QED  BY <1>1, <1>2, <2>1
<1> DEFINE q == a \div k
           r == a % k
<1>4. q \in Nat /\ r \in 0 .. k - 1 /\ a = q * k + r
  <2>1. a \in Nat  BY DEF IsSize
  <2> QED  BY <2>1, DivMod
<1>5. q < k  BY <1>3, DivBelow
<1>6. High(a, n) = q /\ Low(a, n) = r  BY DEF High, Low
<1> HIDE DEF q, r
<1> QED  BY <1>3, <1>4, <1>5, <1>6
\* What does not fill the halves of a word is not wrapped.
LEMMA FitsWord ==
    ASSUME NEW n, NEW w, NEW h, IsSize(n, w, h), NEW z \in 0 .. w - 1
    PROVE  Wrap(z, n) = z
<1>1. w \in Nat \ {0} /\ w = Two[n]  BY DEF IsSize
<1>2. z % w = z
  <2>1. 0 \in Int /\ (0 * w + z) % w = z  BY <1>1, ModIs
  <2>2. 0 * w + z = z  BY <1>1
  <2> QED  BY <2>1, <2>2
<1> QED  BY <1>1, <1>2 DEF Wrap

\* Shifting by half a word multiplies.
LEMMA ShiftsHalf ==
    ASSUME NEW n, NEW w, NEW h, IsSize(n, w, h), n % 2 = 0, NEW k \in Nat \ {0},
           k = Two[n \div 2], NEW z \in 0 .. k - 1
    PROVE  Shl(z, n \div 2, n) = z * k /\ z * k \in Nat /\ z * k + k <= w
<1>1. n \in Nat /\ n >= 2 /\ w \in Nat \ {0} /\ (n \div 2) % n = n \div 2
  BY WIDESTAssumption DEF IsSize
<1>2. w = k * k
  <2>1. 0 \in 0 .. w - 1  BY <1>1
  <2> QED  BY <2>1, HalvesIs
<1>3. z * k \in Nat /\ (z + 1) * k = z * k + k /\ k * k \in Nat  BY SMT
<1>4. (z + 1) * k <= k * k
  <2>1. z + 1 \in Nat /\ z + 1 <= k  OBVIOUS
  <2> QED  BY <2>1, TimesMonotone
<1>5. z * k + k <= w  BY <1>2, <1>3, <1>4
<1>6. z * k \in 0 .. w - 1  BY <1>1, <1>3, <1>5
<1>7. Wrap(z * k, n) = z * k  BY <1>6, FitsWord
<1>8. Shl(z, n \div 2, n) = Wrap(z * k, n)  BY <1>1 DEF Shl
<1> QED  BY <1>3, <1>5, <1>7, <1>8

\* Four products of halves make the product.
LEMMA FourProducts ==
    ASSUME NEW a1 \in Nat, NEW a0 \in Nat, NEW b1 \in Nat, NEW b0 \in Nat, NEW k \in Nat
    PROVE  (a1 * k + a0) * (b1 * k + b0)
               = (a1 * b1) * (k * k) + (a1 * b0 + b1 * a0) * k + a0 * b0
  BY SMT

\* A product of halves, and what is carried into it, fits a word.
LEMMA HalvesFit ==
    ASSUME NEW k \in Nat \ {0}, NEW x \in 0 .. k - 1, NEW y \in 0 .. k - 1, NEW c \in 0 .. k - 1
    PROVE  x * y \in Nat /\ x * y + c \in 0 .. k * k - 1
<1>1. x * y <= (k - 1) * y /\ y * (k - 1) <= (k - 1) * (k - 1)
  <2>1. x \in Nat /\ y \in Nat /\ k - 1 \in Nat /\ x <= k - 1 /\ y <= k - 1  OBVIOUS
  <2>2. CASE y = 0  BY <2>2, SMT
  <2>3. CASE y # 0 /\ k - 1 # 0
    <3>1. x * y <= (k - 1) * y  BY <2>1, <2>3, TimesMonotone
    <3>2. y * (k - 1) <= (k - 1) * (k - 1)  BY <2>1, <2>3, TimesMonotone
    <3> QED  BY <3>1, <3>2
  <2>4. CASE k - 1 = 0  BY <2>1, <2>4, SMT
  <2> QED  BY <2>2, <2>3, <2>4
<1>2. (k - 1) * y = y * (k - 1) /\ (k - 1) * (k - 1) = k * k - 2 * k + 1
      /\ x * y \in Nat /\ k * k \in Nat /\ (k - 1) * y \in Int /\ (k - 1) * (k - 1) \in Int
  BY SMT
<1> QED  BY <1>1, <1>2

\* The product of words made from those of their halves.
LEMMA WideProduct ==
    ASSUME NEW n, NEW w, NEW h, IsSize(n, w, h), n % 2 = 0,
           NEW a \in 0 .. w - 1, NEW b \in 0 .. w - 1
    PROVE  mulddi3(a, b, n) = a * b
<1> DEFINE i == n \div 2
           k == Two[i]
           a1 == High(a, n)
           a0 == Low(a, n)
           b1 == High(b, n)
           b0 == Low(b, n)
           low0 == Wrap(a0 * b0, n)
           t1 == Wrap(High(low0, n) + a1 * b0, n)
           low1 == Wrap(Low(low0, n) + Shl(Low(t1, n), i, n), n)
           t2 == Wrap(High(low1, n) + b1 * a0, n)
           low2 == Wrap(Low(low1, n) + Shl(Low(t2, n), i, n), n)
<1>1. n \in 2 .. WIDEST /\ n \in Nat /\ w \in Nat \ {0} /\ w = Two[n]
  BY WIDESTAssumption DEF IsSize
<1>2. i \in Nat /\ i \in 0 .. WIDEST /\ k \in Nat \ {0}
  <2>1. i \in 0 .. WIDEST  BY <1>1, WIDESTAssumption
  <2> QED  BY <2>1, TwoIs
<1>3. mulddi3(a, b, n) = Whole(High(t1, n) + High(t2, n) + a1 * b1, low2, 2 * n)
  BY DEF mulddi3
<1> HIDE DEF i, k, a1, a0, b1, b0
<1>4. ASSUME NEW z \in 0 .. w - 1
      PROVE  /\ w = k * k /\ Low(z, n) \in 0 .. k - 1 /\ High(z, n) \in 0 .. k - 1
             /\ z = High(z, n) * k + Low(z, n)
  BY <1>2, HalvesIs DEF i, k
<1>5. /\ w = k * k /\ a0 \in 0 .. k - 1 /\ a1 \in 0 .. k - 1 /\ a = a1 * k + a0
      /\ b0 \in 0 .. k - 1 /\ b1 \in 0 .. k - 1 /\ b = b1 * k + b0
  BY <1>4 DEF a0, a1, b0, b1
<1>6. ASSUME NEW x \in 0 .. k - 1, NEW y \in 0 .. k - 1, NEW c \in 0 .. k - 1
      PROVE  x * y \in Nat /\ c + x * y \in 0 .. w - 1 /\ Wrap(c + x * y, n) = c + x * y
  <2>1. x * y \in Nat /\ x * y + c \in 0 .. k * k - 1  BY <1>2, HalvesFit
  <2>2. c + x * y \in 0 .. w - 1  BY <1>5, <2>1
  <2> QED  BY <2>1, <2>2, FitsWord
<1>7. ASSUME NEW c \in 0 .. k - 1, NEW z \in 0 .. k - 1
      PROVE  LET x == Wrap(c + Shl(z, i, n), n)
             IN  x \in 0 .. w - 1 /\ Low(x, n) = c /\ High(x, n) = z /\ x = z * k + c
  <2> DEFINE x == z * k + c
  <2>1. Shl(z, i, n) = z * k /\ z * k \in Nat /\ z * k + k <= w
    BY <1>2, ShiftsHalf DEF i, k
  <2>2. c + z * k = x /\ x \in 0 .. w - 1  BY <1>1, <1>2, <2>1
  <2>3. Wrap(x, n) = x  BY <2>2, FitsWord
  <2>4. Low(x, n) = c /\ High(x, n) = z
    <3>1. x \div k = z /\ x % k = c  BY <1>2, DivModUnique
    <3> QED  BY <3>1 DEF Low, High, k, i
  <2> QED  BY <2>1, <2>2, <2>3, <2>4
<1>8. low0 = a0 * b0 /\ low0 \in 0 .. w - 1
  <2>1. 0 \in 0 .. k - 1  BY <1>2
  <2>2. a0 * b0 \in Nat /\ 0 + a0 * b0 \in 0 .. w - 1 /\ Wrap(0 + a0 * b0, n) = 0 + a0 * b0
    BY <1>5, <1>6, <2>1
  <2>3. 0 + a0 * b0 = a0 * b0  BY <2>2
  <2> QED  BY <2>2, <2>3
<1> HIDE DEF low0
<1> DEFINE c1 == High(low0, n)
           d1 == Low(low0, n)
<1>9. c1 \in 0 .. k - 1 /\ d1 \in 0 .. k - 1 /\ low0 = c1 * k + d1  BY <1>4, <1>8
<1> HIDE DEF c1, d1
<1>10. t1 = c1 + a1 * b0 /\ t1 \in 0 .. w - 1
  <2>1. t1 = Wrap(c1 + a1 * b0, n)  BY DEF c1
  <2> HIDE DEF t1
  <2> QED  BY <1>5, <1>6, <1>9, <2>1
<1> HIDE DEF t1
<1> DEFINE g1 == High(t1, n)
           f1 == Low(t1, n)
<1>11. g1 \in 0 .. k - 1 /\ f1 \in 0 .. k - 1 /\ t1 = g1 * k + f1  BY <1>4, <1>10
<1> HIDE DEF g1, f1
<1>12. low1 \in 0 .. w - 1 /\ Low(low1, n) = d1 /\ High(low1, n) = f1
  <2>1. low1 = Wrap(d1 + Shl(f1, i, n), n)  BY DEF d1, f1
  <2> HIDE DEF low1
  <2> QED  BY <1>7, <1>9, <1>11, <2>1
<1> HIDE DEF low1
<1>13. t2 = f1 + b1 * a0 /\ t2 \in 0 .. w - 1
  <2>1. t2 = Wrap(f1 + b1 * a0, n)  BY <1>12
  <2> HIDE DEF t2
  <2> QED  BY <1>5, <1>6, <1>11, <2>1
<1> HIDE DEF t2
<1> DEFINE g2 == High(t2, n)
           f2 == Low(t2, n)
<1>14. g2 \in 0 .. k - 1 /\ f2 \in 0 .. k - 1 /\ t2 = g2 * k + f2  BY <1>4, <1>13
<1> HIDE DEF g2, f2
<1>15. low2 \in 0 .. w - 1 /\ low2 = f2 * k + d1
  <2>1. low2 = Wrap(d1 + Shl(f2, i, n), n)  BY <1>12 DEF f2
  <2> HIDE DEF low2
  <2> QED  BY <1>7, <1>9, <1>14, <2>1
<1> HIDE DEF low2
<1> DEFINE high == g1 + g2 + a1 * b1
<1>16. a1 * b1 \in Nat /\ high \in Nat
  <2>1. a1 * b1 \in Nat  BY <1>5, <1>6, <1>9
  <2> QED  BY <1>11, <1>14, <2>1
<1>17. a * b = high * w + low2
  <2>1. a * b = (a1 * b1) * (k * k) + (a1 * b0 + b1 * a0) * k + a0 * b0
    <3>1. a1 \in Nat /\ a0 \in Nat /\ b1 \in Nat /\ b0 \in Nat /\ k \in Nat  BY <1>2, <1>5
    <3> QED  BY <1>5, <3>1, FourProducts
  <2>2. a1 * b0 \in Nat /\ b1 * a0 \in Nat  BY <1>5, <1>6, <1>9
  <2>3. a1 * b0 = g1 * k + f1 - c1 /\ b1 * a0 = g2 * k + f2 - f1 /\ a0 * b0 = c1 * k + d1
    <3>1. PICK x \in Nat, y \in Nat : x = a1 * b0 /\ y = b1 * a0  BY <2>2
    <3>2. PICK u \in Nat, v \in Nat : u = g1 * k /\ v = g2 * k
      <4>1. g1 * k \in Nat /\ g2 * k \in Nat  BY <1>2, <1>11, <1>14, SMT
      <4> QED  BY <4>1
    <3>3. c1 + x = u + f1 /\ f1 + y = v + f2  BY <1>10, <1>11, <1>13, <1>14, <3>1, <3>2
    <3>4. x = u + f1 - c1 /\ y = v + f2 - f1  BY <1>9, <1>11, <1>14, <3>3
    <3> QED  BY <1>8, <1>9, <3>1, <3>2, <3>4
  <2>4. PICK e \in Nat : e = a1 * b1  BY <1>16
  <2>5. e * (k * k) + ((g1 * k + f1 - c1) + (g2 * k + f2 - f1)) * k + (c1 * k + d1)
            = (g1 + g2 + e) * (k * k) + (f2 * k + d1)
    <3>1. k \in Int /\ g1 \in Int /\ g2 \in Int /\ f1 \in Int /\ f2 \in Int /\ c1 \in Int
          /\ d1 \in Int /\ e \in Int
      BY <1>2, <1>9, <1>11, <1>14
    <3> QED  BY <3>1, SMT
  <2> QED  BY <1>5, <1>15, <2>1, <2>3, <2>4, <2>5
<1> HIDE DEF high
<1>18. high < w
  <2>1. a * b < w * w /\ a * b \in Nat
    <3>1. 0 \in 0 .. w - 1  BY <1>1
    <3> QED  BY <1>1, <3>1, HalvesFit
  <2>2. high * w <= a * b
    <3>1. PICK u \in Nat : u = high * w  BY <1>1, <1>16, SMT
    <3> QED  BY <1>15, <1>17, <3>1
  <2> SUFFICES ASSUME w <= high PROVE FALSE  BY <1>1, <1>16
  <2>3. w * w <= high * w  BY <1>1, <1>16, TimesMonotone
  <2>4. w * w \in Nat /\ high * w \in Nat  BY <1>1, <1>16, SMT
  <2> QED  BY <2>1, <2>2, <2>3, <2>4
<1>19. mulddi3(a, b, n) = high * w + low2
  <2>1. (2 * n) \div 2 = n  BY <1>1
  <2>2. mulddi3(a, b, n) = Whole(high, low2, 2 * n)  BY <1>3 DEF high, g1, g2
  <2>3. Whole(high, low2, 2 * n) = Wrap(high, n) * w + Wrap(low2, n)  BY <1>1, <2>1 DEF Whole
  <2>4. Wrap(high, n) = high /\ Wrap(low2, n) = low2
    <3>1. high \in 0 .. w - 1  BY <1>1, <1>16, <1>18
    <3> QED  BY <1>15, <3>1, FitsWord
  <2> QED  BY <2>2, <2>3, <2>4
<1> QED  BY <1>17, <1>19
\* The product of n bits made from the halves' product.
LEMMA NarrowProduct ==
    ASSUME NEW n, NEW w, NEW h, IsSize(n, w, h), n % 4 = 0,
           NEW a \in 0 .. w - 1, NEW b \in 0 .. w - 1
    PROVE  multi3(a, b, n) = Wrap(a * b, n)
<1> DEFINE i == n \div 2
           k == Two[i]
           a1 == High(a, n)
           a0 == Low(a, n)
           b1 == High(b, n)
           b0 == Low(b, n)
           low == a0 * b0
<1>1. n \in 2 .. WIDEST /\ n \in Nat /\ n % 2 = 0 /\ w \in Nat \ {0} /\ w = Two[n]
  BY WIDESTAssumption DEF IsSize
<1>2. i \in 2 .. WIDEST /\ i % 2 = 0 /\ i \in 0 .. WIDEST  BY <1>1, WIDESTAssumption
<1>3. IsSize(i, k, Two[i - 1]) /\ k \in Nat \ {0}  BY <1>2, SizeIs, TwoIs
<1> HIDE DEF i, k, a1, a0, b1, b0
<1>4. ASSUME NEW z \in 0 .. w - 1
      PROVE  /\ w = k * k /\ Low(z, n) \in 0 .. k - 1 /\ High(z, n) \in 0 .. k - 1
             /\ z = High(z, n) * k + Low(z, n)
  BY <1>1, <1>3, HalvesIs DEF i, k
<1>5. /\ w = k * k /\ a0 \in 0 .. k - 1 /\ a1 \in 0 .. k - 1 /\ a = a1 * k + a0
      /\ b0 \in 0 .. k - 1 /\ b1 \in 0 .. k - 1 /\ b = b1 * k + b0
  BY <1>4 DEF a0, a1, b0, b1
<1>6. mulddi3(a0, b0, i) = low  BY <1>2, <1>3, <1>5, WideProduct
<1>7. low \in Nat /\ low \in 0 .. w - 1
  <2>1. 0 \in 0 .. k - 1  BY <1>3
  <2>2. a0 * b0 \in Nat /\ a0 * b0 + 0 \in 0 .. k * k - 1  BY <1>3, <1>5, <2>1, HalvesFit
  <2> QED  BY <1>5, <2>2
<1> DEFINE g == High(low, n)
           f == Low(low, n)
           high == g + a1 * b0 + a0 * b1
<1>8. multi3(a, b, n) = Whole(high, f, n)  BY <1>6 DEF multi3, i, a1, a0, b1, b0
<1> HIDE DEF low
<1>9. g \in 0 .. k - 1 /\ f \in 0 .. k - 1 /\ low = g * k + f  BY <1>4, <1>7
<1> HIDE DEF g, f
<1>10. a1 * b0 \in Nat /\ a0 * b1 \in Nat /\ a1 * b1 \in Nat
  BY <1>3, <1>5, <1>9, HalvesFit
<1>11. high \in Nat  BY <1>9, <1>10
<1>12. a * b = (a1 * b1) * w + (high * k + f)
  <2>1. a * b = (a1 * b1) * (k * k) + (a1 * b0 + b1 * a0) * k + a0 * b0
    <3>1. a1 \in Nat /\ a0 \in Nat /\ b1 \in Nat /\ b0 \in Nat /\ k \in Nat  BY <1>3, <1>5
    <3> QED  BY <1>5, <3>1, FourProducts
  <2>2. b1 * a0 = a0 * b1  BY <1>5, SMT
  <2>3. PICK x \in Nat, y \in Nat, e \in Nat : x = a1 * b0 /\ y = a0 * b1 /\ e = a1 * b1
    BY <1>10
  <2>4. e * (k * k) + (x + y) * k + (g * k + f) = e * (k * k) + ((g + x + y) * k + f)
    <3>1. k \in Int /\ g \in Int /\ f \in Int  BY <1>3, <1>9
    <3> QED  BY <3>1, SMT
  <2>5. a0 * b0 = g * k + f  BY <1>9 DEF low
  <2> QED  BY <1>5, <2>1, <2>2, <2>3, <2>4, <2>5
<1> HIDE DEF high
<1> DEFINE q == high \div k
           r == high % k
<1>13. q \in Nat /\ r \in 0 .. k - 1 /\ high = q * k + r  BY <1>3, <1>11, DivMod
<1> HIDE DEF q
<1>14. Whole(high, f, n) = r * k + f
  <2>1. Whole(high, f, n) = Wrap(high, i) * k + Wrap(f, i)  BY DEF Whole, i, k
  <2>2. Wrap(high, i) = r  BY DEF Wrap, k
  <2>3. Wrap(f, i) = f  BY <1>3, <1>9, FitsWord
  <2> QED  BY <2>1, <2>2, <2>3
<1> HIDE DEF r
<1>15. r * k + f \in 0 .. w - 1
  <2>1. r * k \in Nat /\ (r + 1) * k = r * k + k  BY <1>3, <1>13, SMT
  <2>2. (r + 1) * k <= k * k
    <3>1. r + 1 \in Nat /\ r + 1 <= k /\ k \in Nat  BY <1>3, <1>13
    <3> QED  BY <1>3, <3>1, TimesMonotone
  <2>3. k * k \in Nat  BY <1>1, <1>5
  <2> QED  BY <1>3, <1>5, <1>9, <2>1, <2>2, <2>3
<1>16. Wrap(a * b, n) = r * k + f
  <2>1. PICK e \in Nat : e = a1 * b1  BY <1>10
  <2>2. (q * k + r) * k + f = q * (k * k) + (r * k + f)
    <3>1. k \in Int /\ q \in Int /\ r \in Int /\ f \in Int  BY <1>3, <1>9, <1>13
    <3> QED  BY <3>1, SMT
  <2>3. a * b = e * w + (q * w + (r * k + f))  BY <1>5, <1>12, <1>13, <2>1, <2>2
  <2>4. PICK t \in 0 .. w - 1 : t = r * k + f  BY <1>15
  <2>5. e * w + (q * w + t) = (e + q) * w + t /\ e + q \in Int  BY <1>1, <1>13, SMT
  <2>6. ((e + q) * w + t) % w = t  BY <1>1, <2>5, ModIs
  <2> QED  BY <1>1, <2>3, <2>4, <2>5, <2>6 DEF Wrap
<1> QED  BY <1>8, <1>14, <1>16

-----------------------------------------------------------------------------
(* Whatever the operands. *)

\* The left operand is a word of its size.
OperandIsWord ==
    operand.bits \in 2 .. WIDEST /\ operand.bits % 2 = 0 /\ operand.a \in Words(operand.bits)

\* It always is.
LEMMA OperandsAreWords == Spec => []OperandIsWord
<1>1. Init => OperandIsWord
  <2> SUFFICES ASSUME Init PROVE OperandIsWord  OBVIOUS
  <2>1. operand = [a |-> 0, bits |-> 2]  BY DEF Init, CcRuntimeInit
  <2>2. 2 \in 2 .. WIDEST /\ 2 % 2 = 0  BY WIDESTAssumption
  <2>3. 0 \in Words(2)  BY <2>2, SizeIs DEF IsSize, Words
  <2> QED  BY <2>1, <2>2, <2>3 DEF OperandIsWord
<1>2. OperandIsWord /\ [Next]_libraryVars => OperandIsWord'
  <2> SUFFICES ASSUME OperandIsWord, [Next]_libraryVars PROVE OperandIsWord'  OBVIOUS
  <2>1. operand' = operand \/ \E word \in Operands : Operand(word[1], word[2])
    BY DEF Next, libraryVars
  <2>2. CASE operand' = operand  BY <2>2 DEF OperandIsWord, Words
  <2>3. ASSUME NEW word \in Operands, Operand(word[1], word[2]) PROVE OperandIsWord'
    <3>1. word[2] \in 2 .. WIDEST /\ word[2] % 2 = 0 /\ word[1] \in Words(word[2])
      BY OperandsAssumption
    <3>2. operand'.a = word[1] /\ operand'.bits = word[2]  BY <2>3 DEF Operand
    <3> QED  BY <3>1, <3>2 DEF OperandIsWord
  <2> QED  BY <2>1, <2>2, <2>3
<1> QED  BY <1>1, <1>2, PTL DEF Spec

\* cc-runtime.c:521-665 and 2198-3144: for words of every even size, the products made
\* from halves are the products, and the checked operations tell an overflow, or abort
\* the kernel, just when the exact result does not fit its type.
THEOREM OverflowIsAlwaysTold == Spec => []OverflowIsTold
<1>1. OperandIsWord => OverflowIsTold
  <2> SUFFICES ASSUME OperandIsWord PROVE OverflowIsTold  OBVIOUS
  <2> DEFINE a == operand.a
             n == operand.bits
             w == Two[n]
             h == Two[n - 1]
             x == Signed2(a, n)
  <2>1. n \in 2 .. WIDEST /\ n % 2 = 0 /\ a \in Words(n)  BY DEF OperandIsWord
  <2> HIDE DEF a, n
  <2>2. IsSize(n, w, h) /\ a \in 0 .. w - 1  BY <2>1, SizeIs DEF Words
  <2>3. Told(negvXi2(a, n), -x, n) /\ Told(absvXi2(a, n), IF x < 0 THEN -x ELSE x, n)
    BY <2>2, NegateTells
  <2>4. ASSUME NEW b \in Words(n)
        PROVE  /\ Told(muloXi4(a, b, n), x * Signed2(b, n), n)
               /\ Told(addvXi3(a, b, n), x + Signed2(b, n), n)
               /\ Told(subvXi3(a, b, n), x - Signed2(b, n), n)
               /\ mulddi3(a, b, n) = a * b
               /\ n % 4 = 0 => multi3(a, b, n) = Wrap(a * b, n)
    <3>1. b \in 0 .. w - 1  BY DEF Words
    <3>2. Told(muloXi4(a, b, n), x * Signed2(b, n), n)  BY <2>2, <3>1, ProductTells
    <3>3. Told(addvXi3(a, b, n), x + Signed2(b, n), n)
          /\ Told(subvXi3(a, b, n), x - Signed2(b, n), n)
      BY <2>2, <3>1, SumTells
    <3>4. mulddi3(a, b, n) = a * b  BY <2>1, <2>2, <3>1, WideProduct
    <3>5. n % 4 = 0 => multi3(a, b, n) = Wrap(a * b, n)  BY <2>2, <3>1, NarrowProduct
    <3> QED  BY <3>2, <3>3, <3>4, <3>5
  <2> HIDE DEF w, h
  <2> QED  BY <2>3, <2>4, Zenon DEF OverflowIsTold, Told, a, n, x
<1> QED  BY <1>1, OperandsAreWords, PTL

-----------------------------------------------------------------------------
(* Bits of a word, and shifts. *)

\* A power of two is a positive number.
LEMMA PowerIs ==
    ASSUME NEW k \in 0 .. WIDEST
    PROVE  Two[k] \in Nat \ {0} /\ Two[k] \in Int
  BY TwoIs

\* The powers grow.
LEMMA PowersGrow ==
    ASSUME NEW j \in 0 .. WIDEST, NEW i \in 0 .. j
    PROVE  Two[i] <= Two[j] /\ (i < j => 2 * Two[i] <= Two[j])
<1>1. WIDEST \in Nat  BY WIDESTAssumption
<1>2. i \in 0 .. WIDEST /\ j - i \in 0 .. WIDEST /\ i + (j - i) = j  BY <1>1
<1>3. Two[j] = Two[i] * Two[j - i]  BY <1>2, TwoTimes
<1>4. Two[i] \in Nat \ {0} /\ Two[j - i] \in Nat \ {0}  BY <1>2, PowerIs
<1>5. PICK x \in Nat, y \in Nat : x = Two[i] /\ y = Two[j - i] /\ x > 0 /\ y > 0  BY <1>4
<1>6. 1 * x <= y * x  BY <1>5, TimesMonotone
<1>7. x * y = y * x /\ 1 * x = x  BY SMT
<1>8. i < j => 2 * x <= y * x
  <2> SUFFICES ASSUME i < j PROVE 2 * x <= y * x  OBVIOUS
  <2>1. j - i \in 1 .. WIDEST /\ (j - i) - 1 \in 0 .. WIDEST  BY <1>1
  <2>2. Two[j - i] = 2 * Two[(j - i) - 1] /\ Two[(j - i) - 1] \in Nat \ {0}  BY <2>1, TwoIs
  <2>3. y >= 2  BY <1>5, <2>2
  <2> QED  BY <1>5, <2>3, TimesMonotone
<1> QED  BY <1>3, <1>5, <1>6, <1>7, <1>8

\* A word is not wrapped.
LEMMA WordStays ==
    ASSUME NEW n \in 0 .. WIDEST, NEW z \in 0 .. Two[n] - 1
    PROVE  Wrap(z, n) = z
<1>1. Two[n] \in Nat \ {0}  BY PowerIs
<1>2. PICK w \in Nat \ {0} : w = Two[n]  BY <1>1
<1>3. z \in 0 .. w - 1 /\ 0 \in Int /\ 0 * w + z = z  BY <1>2
<1>4. (0 * w + z) % w = z  BY <1>3, ModIs
<1> QED  BY <1>2, <1>3, <1>4 DEF Wrap

\* What is wrapped is a word.
LEMMA WrapIsWord ==
    ASSUME NEW n \in 0 .. WIDEST, NEW z \in Int
    PROVE  Wrap(z, n) \in 0 .. Two[n] - 1
  BY PowerIs, IntDivMod DEF Wrap

\* x is a number of l bits.
HasLength(x, l) == Two[l - 1] <= x /\ x < Two[l]

\* The leading zeros of a word tell its length.
LEMMA ClzIs ==
    ASSUME NEW n \in 1 .. WIDEST, NEW x \in 1 .. Two[n] - 1
    PROVE  \E l \in 1 .. n : HasLength(x, l) /\ Clz(x, n) = n - l
<1>1. WIDEST \in Nat /\ n \in Nat /\ n \in 0 .. WIDEST  BY WIDESTAssumption
<1>2. Two[n] \in Nat /\ Two[0] = 1  BY <1>1, PowerIs, TwoIs
<1> DEFINE S == {k \in 0 .. n - 1 : x >= Two[k]}
<1>3. S \in SUBSET Nat /\ S # {} /\ n \in Nat /\ \A y \in S : y <= n
  <2>1. 0 \in S  BY <1>1, <1>2
  <2> QED  BY <1>1, <2>1
<1> DEFINE k == Max(S)
<1>4. k \in S /\ \A y \in S : y <= k
  <2> HIDE DEF S
  <2> QED  BY <1>3, MaxIsGreatest
<1> HIDE DEF k
<1>5. k \in 0 .. n - 1 /\ Two[k] <= x  BY <1>4, <1>2
<1>6. x < Two[k + 1]
  <2>1. CASE k + 1 = n  BY <2>1, <1>2
  <2>2. CASE k + 1 # n
    <3>1. k + 1 \in 0 .. n - 1 /\ k + 1 \in 0 .. WIDEST  BY <1>1, <1>5, <2>2
    <3>2. k + 1 \notin S  BY <1>4, <1>5
    <3>3. Two[k + 1] \in Nat  BY <3>1, PowerIs
    <3> QED  BY <1>2, <3>1, <3>2, <3>3
  <2> QED  BY <2>1, <2>2
<1>7. Clz(x, n) = n - (k + 1)
  <2>1. x # 0  BY <1>2
  <2>2. Clz(x, n) = n - 1 - k  BY <2>1 DEF Clz, k
  <2> QED  BY <1>1, <1>5, <2>2
<1>8. k + 1 \in 1 .. n /\ (k + 1) - 1 = k  BY <1>1, <1>5
<1> QED  BY <1>5, <1>6, <1>7, <1>8 DEF HasLength

\* A word that is a power of two is the one its trailing zeros tell.
LEMMA CtzIs ==
    ASSUME NEW n \in 1 .. WIDEST, NEW x \in 1 .. Two[n] - 1
    PROVE  /\ Ctz(x, n) \in 0 .. n - 1
           /\ PowerOfTwo(x, n) <=> x = Two[Ctz(x, n)]
           /\ x = 1 => PowerOfTwo(x, n)
<1>1. WIDEST \in Nat /\ n \in Nat /\ n \in 0 .. WIDEST  BY WIDESTAssumption
<1>2. Two[n] \in Nat /\ Two[0] = 1  BY <1>1, PowerIs, TwoIs
<1>3. x \in Nat /\ x # 0  BY <1>2
<1> DEFINE S == {k \in 0 .. n - 1 : x % Two[k] = 0}
<1>4. S \in SUBSET Nat /\ S # {} /\ n \in Nat /\ \A y \in S : y <= n
  <2>1. 0 \in S
    <3>1. x % 1 = 0  BY <1>3
    <3> QED  BY <1>1, <1>2, <3>1
  <2> QED  BY <1>1, <2>1
<1>5. Max(S) \in S
  <2> HIDE DEF S
  <2> QED  BY <1>4, MaxIsGreatest
<1>6. Ctz(x, n) = Max(S)  BY DEF Ctz
<1>7. Ctz(x, n) \in 0 .. n - 1 /\ x % Two[Ctz(x, n)] = 0  BY <1>5, <1>6
<1>8. x = 1 => Two[Ctz(x, n)] = 1
  <2> SUFFICES ASSUME x = 1 PROVE Two[Ctz(x, n)] = 1  OBVIOUS
  <2>1. Two[Ctz(x, n)] \in Nat \ {0}
    <3>1. Ctz(x, n) \in 0 .. WIDEST  BY <1>1, <1>7
    <3> QED  BY <3>1, PowerIs
  <2>2. PICK y \in Nat \ {0} : y = Two[Ctz(x, n)]  BY <2>1
  <2>3. 1 % y = 0  BY <1>7, <2>2
  <2>4. ASSUME y > 1 PROVE FALSE
    <3>1. 0 \in Int /\ 1 \in 0 .. y - 1 /\ 0 * y + 1 = 1  BY <2>4
    <3>2. (0 * y + 1) % y = 1  BY <3>1, ModIs
    <3> QED  BY <2>3, <3>1, <3>2
  <2> QED  BY <2>2, <2>4
<1>9. PowerOfTwo(x, n) <=> x = Two[Ctz(x, n)]  BY <1>3 DEF PowerOfTwo
<1> QED  BY <1>7, <1>8, <1>9

\* A shift to the right divides.
LEMMA ShrIs ==
    ASSUME NEW n \in 1 .. WIDEST, NEW k \in 0 .. n - 1, NEW x
    PROVE  Shr(x, k, n) = x \div Two[k]
<1>1. n \in Nat /\ k % n = k  BY WIDESTAssumption
<1> QED  BY <1>1 DEF Shr

\* The parts of a word, taken apart at bit k.
LEMMA PartsAre ==
    ASSUME NEW n \in 1 .. WIDEST, NEW k \in 0 .. n, NEW x \in 0 .. Two[n] - 1
    PROVE  /\ x \div Two[k] \in 0 .. Two[n - k] - 1
           /\ x % Two[k] \in 0 .. Two[k] - 1
           /\ x = (x \div Two[k]) * Two[k] + (x % Two[k])
           /\ Two[n] = Two[n - k] * Two[k]
<1>1. WIDEST \in Nat /\ n \in Nat /\ n \in 0 .. WIDEST /\ k \in 0 .. WIDEST
      /\ n - k \in 0 .. WIDEST /\ (n - k) + k = n
  BY WIDESTAssumption
<1>2. Two[n] = Two[n - k] * Two[k]  BY <1>1, TwoTimes
<1>3. PICK w \in Nat \ {0}, t \in Nat \ {0}, u \in Nat \ {0} :
          w = Two[n] /\ t = Two[k] /\ u = Two[n - k]
  BY <1>1, PowerIs
<1>4. x \in Nat /\ x < u * t  BY <1>2, <1>3
<1>5. x \div t \in Nat /\ x % t \in 0 .. t - 1 /\ x = (x \div t) * t + (x % t)  BY <1>3, <1>4, DivMod
<1>6. x \div t < u  BY <1>3, <1>4, DivBelow
<1>7. x \div t \in 0 .. u - 1
  <2>1. PICK y \in Nat : y = x \div t  BY <1>5
  <2> QED  BY <1>6, <2>1
<1> QED  BY <1>2, <1>3, <1>5, <1>7

\* A shift to the left keeps the low bits, in their place at the top.
LEMMA ShlIs ==
    ASSUME NEW n \in 1 .. WIDEST, NEW k \in 1 .. n, NEW x \in 0 .. Two[n] - 1
    PROVE  Shl(x, n - k, n) = (x % Two[k]) * Two[n - k]
<1>1. WIDEST \in Nat /\ n \in Nat /\ n \in 0 .. WIDEST /\ k \in 0 .. n /\ k \in 0 .. WIDEST
      /\ n - k \in 0 .. WIDEST
  BY WIDESTAssumption
<1>2. Shl(x, n - k, n) = (x * Two[n - k]) % Two[n]
  <2>1. (n - k) % n = n - k  BY <1>1
  <2> QED  BY <2>1 DEF Shl, Wrap
<1>3. PICK w \in Nat \ {0}, t \in Nat \ {0}, u \in Nat \ {0} :
          w = Two[n] /\ t = Two[k] /\ u = Two[n - k]
  BY <1>1, PowerIs
<1>4. PICK q \in Nat, r \in 0 .. t - 1 : q = x \div t /\ r = x % t /\ x = q * t + r /\ w = u * t
  <2>1. x \div Two[k] \in 0 .. Two[n - k] - 1 /\ x % Two[k] \in 0 .. Two[k] - 1
        /\ x = (x \div Two[k]) * Two[k] + (x % Two[k]) /\ Two[n] = Two[n - k] * Two[k]
    BY <1>1, PartsAre
  <2> QED  BY <1>3, <2>1
<1>5. (q * t + r) * u = q * (u * t) + r * u  BY <1>3, <1>4, SMT
<1>6. r * u \in 0 .. w - 1
  <2>1. r \in Nat /\ r < t /\ 0 \in 0 .. u - 1  OBVIOUS
  <2>2. r * u + 0 \in 0 .. t * u - 1  BY <2>1, WordsBelow
  <2>3. t * u = u * t /\ r * u \in Nat  BY <2>1, SMT
  <2> QED  BY <1>4, <2>2, <2>3
<1>7. (q * w + r * u) % w = r * u
  <2>1. PICK v \in 0 .. w - 1 : v = r * u  BY <1>6
  <2>2. (q * w + v) % w = v  BY ModIs
  <2> QED  BY <2>1, <2>2
<1> QED  BY <1>2, <1>3, <1>4, <1>5, <1>7

\* The next bit below those that are taken.
LEMMA NextBit ==
    ASSUME NEW a \in Nat, NEW t \in Nat \ {0}
    PROVE  \E bit \in {0, 1} :
               a \div t = 2 * (a \div (2 * t)) + bit /\ a % (2 * t) = bit * t + (a % t)
<1> DEFINE x == a \div t
           r == a % t
           y == x \div 2
           bit == x % 2
<1>1. x \in Nat /\ r \in 0 .. t - 1 /\ a = x * t + r  BY DivMod
<1> HIDE DEF x, r
<1>2. y \in Nat /\ bit \in {0, 1} /\ x = y * 2 + bit
  <2>1. y \in Nat /\ bit \in 0 .. 2 - 1 /\ x = y * 2 + bit  BY <1>1, DivMod
  <2> QED  BY <2>1
<1> HIDE DEF y, bit
<1>3. a = y * (2 * t) + (bit * t + r)
  <2>1. (y * 2 + bit) * t = y * (2 * t) + bit * t  BY <1>2, SMT
  <2>2. (y * 2 + bit) * t \in Nat /\ y * (2 * t) \in Nat /\ bit * t \in Nat  BY <1>2, SMT
  <2> QED  BY <1>1, <1>2, <2>1, <2>2
<1>4. bit * t + r \in 0 .. 2 * t - 1 /\ 2 * t \in Nat \ {0}  BY <1>1, <1>2
<1>5. a \div (2 * t) = y /\ a % (2 * t) = bit * t + r  BY <1>2, <1>3, <1>4, DivModUnique
<1>6. a \div t = 2 * y + bit /\ a % t = r  BY <1>2 DEF x, r
<1> QED  BY <1>2, <1>5, <1>6, Zenon

\* The sign of d - r - 1 tells whether d is reached, if it is in range.
LEMMA ReachesTells ==
    ASSUME NEW n, NEW w, NEW h, IsSize(n, w, h), NEW r \in 0 .. w - 1, NEW d \in 0 .. w - 1,
           d - r - 1 \in -h .. h - 1
    PROVE  Reaches(r, d, n) <=> r >= d
<1>1. w \in Nat \ {0} /\ h \in Nat /\ h >= 2 /\ w = 2 * h  BY DEF IsSize
<1>2. PICK z \in -h .. h - 1 : z = d - r - 1  OBVIOUS
<1>3. z \in -w .. w - 1  BY <1>1
<1>4. Wrap(z, n) \in 0 .. w - 1 /\ Signed2(Wrap(z, n), n) = z
  <2>1. /\ Wrap(z, n) \in 0 .. w - 1
        /\ Signed2(Wrap(z, n), n) = IF z >= h THEN z - w ELSE IF z < -h THEN z + w ELSE z
    BY <1>3, SignedOfWrap
  <2> QED  BY <1>1, <1>2, <2>1
<1>5. Negative(Wrap(z, n), n) <=> z < 0  BY <1>4, SignedIs
<1>6. Reaches(r, d, n) <=> z < 0  BY <1>2, <1>5 DEF Reaches
<1>7. z < 0 <=> r >= d  BY <1>1, <1>2
<1> QED  BY <1>6, <1>7

-----------------------------------------------------------------------------
(* The loop of the long divisions. *)

\* Once around the loop.
OneTurn(s, d, n) ==
    LET r == Wrap(2 * s.r + Shr(s.q, n - 1, n), n)
        takes == Reaches(r, d, n)
    IN  [r |-> IF takes THEN Wrap(r - d, n) ELSE r,
         q |-> Wrap(2 * s.q + s.carry, n),
         carry |-> IF takes THEN 1 ELSE 0]

\* What the loop keeps from turn to turn.
Passing(n) == [r : 0 .. Two[n] - 1, q : 0 .. Two[n] - 1, carry : {0, 1}]

\* A turn leaves two words and a carry.
LEMMA TurnPasses ==
    ASSUME NEW n, NEW w, NEW h, IsSize(n, w, h), NEW d \in Int, NEW s \in Passing(n)
    PROVE  OneTurn(s, d, n) \in Passing(n)
<1>1. n \in 1 .. WIDEST /\ n \in 0 .. WIDEST /\ n - 1 \in 0 .. n - 1 /\ n - 1 \in 0 .. WIDEST
  BY WIDESTAssumption DEF IsSize
<1>2. s.r \in Int /\ s.q \in Int /\ s.carry \in Int  BY DEF Passing
<1> DEFINE r == Wrap(2 * s.r + Shr(s.q, n - 1, n), n)
           takes == Reaches(r, d, n)
           r1 == IF takes THEN Wrap(r - d, n) ELSE r
           q1 == Wrap(2 * s.q + s.carry, n)
           c1 == IF takes THEN 1 ELSE 0
<1>3. Shr(s.q, n - 1, n) \in Int
  <2>1. Shr(s.q, n - 1, n) = s.q \div Two[n - 1]  BY <1>1, ShrIs
  <2>2. s.q \div Two[n - 1] \in Int  BY <1>1, <1>2, PowerIs, IntDivMod
  <2> QED  BY <2>1, <2>2
<1>4. 2 * s.r + Shr(s.q, n - 1, n) \in Int /\ 2 * s.q + s.carry \in Int  BY <1>2, <1>3
<1>5. r \in 0 .. Two[n] - 1 /\ q1 \in 0 .. Two[n] - 1  BY <1>1, <1>4, WrapIsWord
<1>6. OneTurn(s, d, n) = [r |-> r1, q |-> q1, carry |-> c1]  BY DEF OneTurn
<1> HIDE DEF r, q1
<1>7. r1 \in 0 .. Two[n] - 1
  <2>1. r - d \in Int  BY <1>5
  <2>2. Wrap(r - d, n) \in 0 .. Two[n] - 1  BY <1>1, <2>1, WrapIsWord
  <2> QED  BY <1>5, <2>2
<1>8. c1 \in {0, 1}  OBVIOUS
<1> HIDE DEF r1, c1
<1> QED  BY <1>5, <1>6, <1>7, <1>8 DEF Passing

\* The loop goes turn by turn.
LEMMA TurnsGo ==
    ASSUME NEW n, NEW w, NEW h, IsSize(n, w, h), NEW start \in Passing(n), NEW d \in Int,
           NEW k \in Nat
    PROVE  \E f : /\ f[0] = start
                  /\ \A i \in 1 .. k : f[i] = OneTurn(f[i - 1], d, n)
                  /\ Turns(start, d, k, n) = f[k]
<1> DEFINE S == Passing(n)
           step == [i \in 1 .. k |-> [s \in S |-> OneTurn(s, d, n)]]
           IsAfter(g) == g = [i \in 0 .. k |-> IF i = 0 THEN start ELSE OneTurn(g[i - 1], d, n)]
           after == CHOOSE g : IsAfter(g)
<1>1. step \in [1 .. k -> [S -> S]]
  <2>1. \A s \in S : OneTurn(s, d, n) \in S  BY TurnPasses
  <2> HIDE DEF S
  <2> QED  BY <2>1
<1>2. Turns(start, d, k, n) = after[k]  BY Zenon DEF Turns, OneTurn
<1> HIDE DEF S
<1>3. PICK f \in Walks(k, S, start, step) : TRUE
  <2>1. start \in S  BY DEF S
  <2> HIDE DEF step
  <2> QED  BY <1>1, <2>1, RecursionExists
<1>4. f \in [0 .. k -> S] /\ f[0] = start /\ \A i \in 1 .. k : f[i] = OneTurn(f[i - 1], d, n)
  <2>1. f \in [0 .. k -> S] /\ f[0] = start /\ \A i \in 1 .. k : f[i] = step[i][f[i - 1]]
    <3> HIDE DEF step
    <3> QED  BY <1>3 DEF Walks
  <2>2. ASSUME NEW i \in 1 .. k PROVE f[i] = OneTurn(f[i - 1], d, n)
    <3>1. i - 1 \in 0 .. k  OBVIOUS
    <3>2. f[i - 1] \in S /\ f[i] = step[i][f[i - 1]]  BY <2>1, <3>1
    <3> QED  BY <3>2
  <2> QED  BY <2>1, <2>2
<1>5. IsAfter(f)
  <2>1. \A i \in 0 .. k : f[i] = IF i = 0 THEN start ELSE OneTurn(f[i - 1], d, n)  BY <1>4
  <2> QED  BY <1>4, <2>1
<1>6. IsAfter(after)  BY <1>5, Zenon
<1> HIDE DEF after
<1>7. after[0] = start /\ \A i \in 1 .. k : after[i] = OneTurn(after[i - 1], d, n)
  <2>1. \A i \in 0 .. k : after[i] = IF i = 0 THEN start ELSE OneTurn(after[i - 1], d, n)  BY <1>6
  <2> QED  BY <2>1
<1> QED  BY <1>2, <1>7

\* A turn in numbers: t is the weight of the next bit of a, u its place in the word.
BeforeTurn(t, u, h, a, d, r, c, x, q) ==
    /\ t \in Nat \ {0} /\ u \in Nat \ {0} /\ h \in Nat /\ h = t * u
    /\ a \in Nat /\ d \in Nat /\ r \in Nat /\ c \in {0, 1} /\ x \in Nat
    /\ 2 * x + c < u /\ q \in Nat /\ q = (a % (2 * t)) * u + x
    /\ a \div (2 * t) = (2 * x + c) * d + r
AfterTurn(t, u, h, a, d, r, c, x, q) ==
    \E bit \in {0, 1} :
        /\ q \div h = bit
        /\ (2 * q + c) % (2 * h) = (a % t) * (2 * u) + (2 * x + c)
        /\ a \div t = (2 * (2 * x + c)) * d + (2 * r + bit)

\* What a turn does to the numbers.
LEMMA TurnInNumbers ==
    ASSUME NEW t, NEW u, NEW h, NEW a, NEW d, NEW r, NEW c, NEW x, NEW q,
           BeforeTurn(t, u, h, a, d, r, c, x, q)
    PROVE  AfterTurn(t, u, h, a, d, r, c, x, q)
<1> SUFFICES ASSUME t \in Nat \ {0}, u \in Nat \ {0}, h \in Nat, h = t * u,
                    a \in Nat, d \in Nat, r \in Nat, c \in {0, 1}, x \in Nat,
                    2 * x + c < u, q \in Nat, q = (a % (2 * t)) * u + x,
                    a \div (2 * t) = (2 * x + c) * d + r
             PROVE  \E bit \in {0, 1} :
                        /\ q \div h = bit
                        /\ (2 * q + c) % (2 * h) = (a % t) * (2 * u) + (2 * x + c)
                        /\ a \div t = (2 * (2 * x + c)) * d + (2 * r + bit)
  BY Zenon DEF BeforeTurn, AfterTurn
<1>1. PICK bit \in {0, 1} :
          a \div t = 2 * (a \div (2 * t)) + bit /\ a % (2 * t) = bit * t + (a % t)
  BY NextBit
<1>2. PICK y \in 0 .. t - 1 : y = a % t
  <2>1. a % t \in 0 .. t - 1  BY DivMod
  <2> QED  BY <2>1
<1>3. PICK v \in Nat : v = y * u /\ v + u <= h
  <2>1. y * u \in Nat /\ (y + 1) * u = y * u + u  BY SMT
  <2>2. (y + 1) * u <= t * u
    <3>1. y + 1 \in Nat /\ y + 1 <= t /\ t \in Nat  OBVIOUS
    <3> QED  BY <3>1, TimesMonotone
  <2> QED  BY <2>1, <2>2
<1>4. h \in Nat \ {0}  BY <1>3
<1>5. q = bit * h + (v + x)
  <2>1. (bit * t + y) * u = bit * h + y * u
    <3>1. CASE bit = 0
      <4>1. bit * t = 0 /\ bit * h = 0  BY <3>1
      <4> QED  BY <4>1
    <3>2. CASE bit = 1
      <4>1. bit * t = t /\ bit * h = h /\ (t + y) * u = t * u + y * u  BY <3>2, SMT
      <4> QED  BY <4>1
    <3> QED  BY <3>1, <3>2
  <2>2. q = (bit * t + y) * u + x  BY <1>1, <1>2
  <2>3. bit * h \in Nat  BY <1>4
  <2> QED  BY <1>3, <2>1, <2>2, <2>3
<1>6. v + x \in 0 .. h - 1 /\ bit \in Nat  BY <1>3
<1>7. q \div h = bit
  <2>1. PICK j \in 0 .. h - 1 : j = v + x  BY <1>6
  <2>2. (bit * h + j) \div h = bit  BY <1>4, <1>6, DivModUnique
  <2> QED  BY <1>5, <2>1, <2>2
<1> DEFINE z == 2 * v + (2 * x + c)
<1>8. 2 * q + c = bit * (2 * h) + z
  <2>1. CASE bit = 0
    <3>1. bit * h = 0 /\ bit * (2 * h) = 0  BY <1>4, <2>1
    <3> QED  BY <1>3, <1>5, <3>1
  <2>2. CASE bit = 1
    <3>1. bit * h = h /\ bit * (2 * h) = 2 * h  BY <1>4, <2>2
    <3> QED  BY <1>3, <1>4, <1>5, <3>1
  <2> QED  BY <2>1, <2>2
<1>9. z \in 0 .. 2 * h - 1 /\ bit \in Int /\ 2 * h \in Nat \ {0}  BY <1>3, <1>4
<1>10. z = y * (2 * u) + (2 * x + c)
  <2>1. y * (2 * u) = 2 * (y * u)  BY SMT
  <2> QED  BY <1>3, <2>1
<1> HIDE DEF z
<1>11. (bit * (2 * h) + z) % (2 * h) = z  BY <1>9, ModIs
<1>12. a \div t = (2 * (2 * x + c)) * d + (2 * r + bit)
  <2>1. PICK e \in Nat : e = 2 * x + c  OBVIOUS
  <2>2. (2 * e) * d = 2 * (e * d) /\ e * d \in Nat  BY SMT
  <2>3. a \div t = 2 * (e * d + r) + bit  BY <1>1, <2>1
  <2> QED  BY <2>1, <2>2, <2>3
<1> QED  BY <1>2, <1>7, <1>8, <1>10, <1>11, <1>12

\* After i of the t turns that divide a: the bits of a that are left stand on
\* top of the quotient so far, and r is what remains of the others.
AtTurn(s, a, d, t, i, n) ==
    /\ s \in Passing(n) /\ s.r < d
    /\ \E x \in Nat :
          /\ 2 * x + s.carry < Two[i]
          /\ s.q = (a % Two[t - i]) * Two[n - (t - i)] + x
          /\ a \div Two[t - i] = (2 * x + s.carry) * d + s.r

\* The sign of d - r - 1 is right throughout: d has its top bit clear, or there
\* is one turn and the dividend's is set as well.
SignServes(a, d, t, h) == d <= h \/ (t = 1 /\ a >= h)

\* A turn takes the next bit.
LEMMA TurnTakesBit ==
    ASSUME NEW n, NEW w, NEW h, IsSize(n, w, h), NEW a \in 0 .. w - 1, NEW d \in 1 .. w - 1,
           NEW t \in 1 .. n, SignServes(a, d, t, h), NEW i \in 0 .. t - 1, NEW s,
           AtTurn(s, a, d, t, i, n)
    PROVE  AtTurn(OneTurn(s, d, n), a, d, t, i + 1, n)
<1>1. /\ w = Two[n] /\ h = Two[n - 1] /\ w \in Nat \ {0} /\ h \in Nat /\ h >= 2 /\ w = 2 * h
      /\ WIDEST \in Nat /\ n \in 2 .. WIDEST
  BY WIDESTAssumption DEF IsSize
<1> DEFINE m == t - (i + 1)
<1>2. /\ m \in 0 .. WIDEST /\ n - 1 - m \in 0 .. WIDEST /\ t - i = m + 1
      /\ n - (t - i) = n - 1 - m /\ n - m = (n - 1 - m) + 1 /\ m + (n - 1 - m) = n - 1
      /\ m + 1 \in 1 .. WIDEST /\ (n - 1 - m) + 1 \in 1 .. WIDEST
      /\ (m + 1) - 1 = m /\ ((n - 1 - m) + 1) - 1 = n - 1 - m
      /\ i \in 0 .. n - 1 - m /\ i + 1 \in 1 .. WIDEST /\ (i + 1) - 1 = i /\ i \in 0 .. WIDEST
  BY <1>1
<1> HIDE DEF m
<1>3. PICK tt \in Nat \ {0}, u \in Nat \ {0}, e \in Nat \ {0} :
          tt = Two[m] /\ u = Two[n - 1 - m] /\ e = Two[i]
  BY <1>2, PowerIs
<1>4. Two[t - i] = 2 * tt /\ Two[n - (t - i)] = u /\ Two[n - m] = 2 * u /\ Two[i + 1] = 2 * e
  BY <1>2, <1>3, TwoIs
<1>5. h = tt * u
  <2>1. m \in Nat /\ n - 1 - m \in Nat /\ m + (n - 1 - m) <= WIDEST  BY <1>1, <1>2
  <2>2. Two[m + (n - 1 - m)] = Two[m] * Two[n - 1 - m]  BY <2>1, TwoTimes
  <2> QED  BY <1>1, <1>2, <1>3, <2>2
<1>6. e <= u  BY <1>2, <1>3, PowersGrow
<1>7. PICK r \in 0 .. w - 1, q \in 0 .. w - 1, c \in {0, 1}, x \in Nat :
          /\ r = s.r /\ q = s.q /\ c = s.carry /\ r < d
          /\ 2 * x + c < e
          /\ q = (a % (2 * tt)) * u + x
          /\ a \div (2 * tt) = (2 * x + c) * d + r
  BY <1>1, <1>3, <1>4 DEF AtTurn, Passing
<1>8. /\ a \in Nat /\ d \in Nat /\ r \in Nat /\ q \in Nat /\ h \in Nat
      /\ 2 * x + c < u
  BY <1>1, <1>6, <1>7
<1>9. PICK bit \in {0, 1} :
          /\ q \div h = bit
          /\ (2 * q + c) % (2 * h) = (a % tt) * (2 * u) + (2 * x + c)
          /\ a \div tt = (2 * (2 * x + c)) * d + (2 * r + bit)
  <2>1. BeforeTurn(tt, u, h, a, d, r, c, x, q)  BY <1>5, <1>7, <1>8 DEF BeforeTurn
  <2>2. AfterTurn(tt, u, h, a, d, r, c, x, q)  BY <2>1, TurnInNumbers
  <2> QED  BY <2>2 DEF AfterTurn
<1> DEFINE r0 == 2 * r + bit
           e0 == 2 * x + c
<1>10. e0 \in Nat /\ e0 < e /\ r0 \in Nat /\ r0 <= 2 * d - 1 /\ d \in Nat  BY <1>7, <1>8
<1>11. r0 < w /\ d - r0 - 1 \in -h .. h - 1
  <2>1. CASE d <= h
    <3> HIDE DEF e0, r0
    <3> QED  BY <1>1, <1>10, <2>1
  <2>2. CASE t = 1 /\ a >= h /\ d > h
    <3>1. i = 0 /\ m = 0  BY <1>2, <2>2
    <3>2. e = 1 /\ tt = 1  BY <1>3, <3>1, TwoIs
    <3>3. e0 = 0  BY <1>10, <3>2
    <3>4. a \div 1 = a  BY <1>8
    <3>5. a = (2 * e0) * d + r0  BY <1>9, <3>2, <3>4
    <3>6. (2 * e0) * d = 0  BY <1>8, <3>3
    <3> HIDE DEF e0, r0
    <3>7. a = r0  BY <1>10, <3>5, <3>6
    <3> QED  BY <1>1, <2>2, <3>7
  <2>3. d <= h \/ (t = 1 /\ a >= h /\ d > h)  BY <1>1 DEF SignServes
  <2> QED  BY <2>1, <2>2, <2>3, Zenon
<1> DEFINE takes == Reaches(r0, d, n)
<1>12. Wrap(2 * s.r + Shr(s.q, n - 1, n), n) = r0
  <2>1. n \in 1 .. WIDEST /\ n - 1 \in 0 .. n - 1 /\ n \in 0 .. WIDEST  BY <1>1
  <2>2. Shr(q, n - 1, n) = bit  BY <1>1, <1>9, <2>1, ShrIs
  <2>3. Wrap(r0, n) = r0
    <3>1. r0 \in 0 .. Two[n] - 1  BY <1>1, <1>10, <1>11
    <3> HIDE DEF r0
    <3> QED  BY <2>1, <3>1, WordStays
  <2> QED  BY <1>7, <2>2, <2>3
<1>13. takes <=> r0 >= d
  <2> HIDE DEF r0
  <2>1. r0 \in 0 .. w - 1 /\ d \in 0 .. w - 1  BY <1>1, <1>10, <1>11
  <2> QED  BY <1>11, <2>1, ReachesTells
<1> DEFINE s1 == OneTurn(s, d, n)
<1>14. /\ s1.r = IF takes THEN Wrap(r0 - d, n) ELSE r0
       /\ s1.q = Wrap(2 * q + c, n)
       /\ s1.carry = IF takes THEN 1 ELSE 0
  BY <1>7, <1>12 DEF OneTurn
<1>15. s1.q = (a % tt) * (2 * u) + e0  BY <1>1, <1>9, <1>14 DEF Wrap
<1>16. s1 \in Passing(n)
  <2>1. d \in Int /\ s \in Passing(n)  BY DEF AtTurn
  <2> QED  BY <2>1, TurnPasses
<1> HIDE DEF r0, e0, s1, takes
<1>17. s1.r \in Nat /\ s1.r < d /\ s1.carry \in {0, 1} /\ r0 = s1.carry * d + s1.r
  <2>1. CASE takes
    <3>1. r0 - d \in 0 .. Two[n] - 1 /\ n \in 0 .. WIDEST  BY <1>1, <1>10, <1>11, <1>13, <2>1
    <3>2. Wrap(r0 - d, n) = r0 - d  BY <3>1, WordStays
    <3> QED  BY <1>10, <1>13, <1>14, <2>1, <3>2
  <2>2. CASE ~takes  BY <1>10, <1>13, <1>14, <2>2
  <2> QED  BY <2>1, <2>2
<1>18. 2 * e0 + s1.carry < Two[i + 1]  BY <1>4, <1>10, <1>17
<1>19. a \div Two[m] = (2 * e0 + s1.carry) * d + s1.r
  <2>1. PICK c1 \in {0, 1}, r1 \in Nat : c1 = s1.carry /\ r1 = s1.r  BY <1>17
  <2>2. (2 * e0) * d + (c1 * d + r1) = (2 * e0 + c1) * d + r1
    <3>1. e0 \in Int /\ d \in Int /\ c1 \in Int /\ r1 \in Int  BY <1>10
    <3> QED  BY <3>1, SMT
  <2>3. a \div tt = (2 * e0) * d + r0  BY <1>9 DEF e0, r0
  <2> QED  BY <1>3, <1>17, <2>1, <2>2, <2>3
<1>20. s1.q = (a % Two[m]) * Two[n - m] + e0  BY <1>3, <1>4, <1>15
<1> QED  BY <1>10, <1>16, <1>17, <1>18, <1>19, <1>20 DEF AtTurn, m, s1

\* A quotient and a remainder are those of the dividend if they make it.
LEMMA DivideIs ==
    ASSUME NEW a \in Nat, NEW d \in Nat \ {0}, NEW q \in Nat, NEW r \in 0 .. d - 1, a = q * d + r
    PROVE  Both(q, r) = Divide(a, d) /\ a \div d = q /\ a % d = r
<1>1. a \div d = q /\ a % d = r  BY DivModUnique
<1> QED  BY <1>1 DEF Divide

\* The loop divides.
LEMMA LongDivides ==
    ASSUME NEW n, NEW w, NEW h, IsSize(n, w, h), NEW a \in 0 .. w - 1, NEW d \in 1 .. w - 1,
           NEW t \in 1 .. n, SignServes(a, d, t, h), a \div Two[t] < d
    PROVE  LongDivision(a \div Two[t], (a % Two[t]) * Two[n - t], d, t, n) = Divide(a, d)
<1>1. /\ w = Two[n] /\ w \in Nat \ {0} /\ n \in 2 .. WIDEST /\ WIDEST \in Nat
  BY WIDESTAssumption DEF IsSize
<1>2. t \in 0 .. WIDEST /\ n - t \in 0 .. WIDEST /\ t \in 0 .. n /\ n \in 1 .. WIDEST
      /\ t \in Nat /\ t - 0 = t /\ t - t = 0 /\ n - 0 = n
  BY <1>1
<1>3. PICK tt \in Nat \ {0}, u \in Nat \ {0} : tt = Two[t] /\ u = Two[n - t]
  BY <1>2, PowerIs
<1> DEFINE r0 == a \div Two[t]
           q0 == (a % Two[t]) * Two[n - t]
           start == [r |-> r0, q |-> q0, carry |-> 0]
<1>4. r0 \in 0 .. w - 1 /\ q0 \in 0 .. w - 1
  <2>1. a \div tt \in 0 .. u - 1 /\ a % tt \in 0 .. tt - 1 /\ w = u * tt
    <3>1. a \in 0 .. Two[n] - 1  BY <1>1
    <3>2. /\ a \div Two[t] \in 0 .. Two[n - t] - 1 /\ a % Two[t] \in 0 .. Two[t] - 1
          /\ Two[n] = Two[n - t] * Two[t]
      BY <1>2, <3>1, PartsAre
    <3> QED  BY <1>1, <1>3, <3>2
  <2>2. r0 < w  BY <1>1, <1>3
  <2>3. PICK y \in 0 .. tt - 1 : y = a % tt  BY <2>1
  <2>4. y \in Nat /\ y < tt /\ 0 \in 0 .. u - 1  OBVIOUS
  <2>5. y * u + 0 \in 0 .. tt * u - 1  BY <2>4, WordsBelow
  <2>6. tt * u = u * tt /\ y * u \in Nat  BY <2>4, SMT
  <2>7. q0 = y * u  BY <1>3, <2>3
  <2>8. PICK z \in Nat : z = a \div tt  BY <2>1
  <2> QED  BY <1>1, <1>3, <2>1, <2>2, <2>5, <2>6, <2>7, <2>8
<1> HIDE DEF r0, q0
<1>5. start \in Passing(n) /\ start.r = r0 /\ start.q = q0 /\ start.carry = 0
  BY <1>1, <1>4 DEF Passing
<1> HIDE DEF start
<1>6. PICK f : /\ f[0] = start
               /\ \A i \in 1 .. t : f[i] = OneTurn(f[i - 1], d, n)
               /\ Turns(start, d, t, n) = f[t]
  BY <1>2, <1>5, TurnsGo
<1> DEFINE Good == {i \in 0 .. t : AtTurn(f[i], a, d, t, i, n)}
<1>7. 0 \in Good
  <2>1. 0 \in Nat /\ 2 * 0 + start.carry < Two[0]  BY <1>5, TwoIs
  <2>2. start.q = (a % Two[t - 0]) * Two[n - (t - 0)] + 0
    <3>1. q0 + 0 = q0  BY <1>4
    <3> QED  BY <1>2, <1>5, <3>1 DEF q0
  <2>3. a \div Two[t - 0] = (2 * 0 + start.carry) * d + start.r
    <3>1. (2 * 0 + 0) * d + r0 = r0  BY <1>4, SMT
    <3> QED  BY <1>2, <1>5, <3>1 DEF r0
  <2>4. start.r < d  BY <1>5 DEF r0
  <2>5. AtTurn(start, a, d, t, 0, n)  BY <1>5, <2>1, <2>2, <2>3, <2>4 DEF AtTurn
  <2>6. 0 \in 0 .. t  BY <1>2
  <2> QED  BY <1>6, <2>5, <2>6
<1>8. \A i \in 0 .. t - 1 : i \in Good => i + 1 \in Good
  <2> SUFFICES ASSUME NEW i \in 0 .. t - 1, AtTurn(f[i], a, d, t, i, n)
               PROVE  i + 1 \in 0 .. t /\ AtTurn(f[i + 1], a, d, t, i + 1, n)
    OBVIOUS
  <2>1. i + 1 \in 1 .. t /\ i + 1 \in 0 .. t /\ (i + 1) - 1 = i  BY <1>2
  <2>2. f[i + 1] = OneTurn(f[i], d, n)  BY <1>6, <2>1
  <2>3. AtTurn(OneTurn(f[i], d, n), a, d, t, i + 1, n)  BY TurnTakesBit
  <2> QED  BY <2>1, <2>2, <2>3
<1> HIDE DEF Good
<1>9. AtTurn(f[t], a, d, t, t, n)
  <2>1. 0 .. t \subseteq Good  BY <1>2, <1>7, <1>8, InductionUpTo
  <2>2. t \in 0 .. t  BY <1>2
  <2> QED  BY <2>1, <2>2 DEF Good
<1> DEFINE end == f[t]
<1> HIDE DEF end
<1>10. PICK x \in Nat, c \in {0, 1}, r \in Nat :
          /\ c = end.carry /\ r = end.r /\ r < d
          /\ end.q = (a % Two[0]) * Two[n] + x
          /\ a \div Two[0] = (2 * x + c) * d + r
  BY <1>2, <1>9 DEF AtTurn, Passing, end
<1>11. end.q = x /\ a = (2 * x + c) * d + r
  <2>1. Two[0] = 1 /\ a \in Nat /\ a \div 1 = a /\ a % 1 = 0  BY TwoIs
  <2>2. 0 * w + x = x  BY <1>1, SMT
  <2> QED  BY <1>1, <1>10, <2>1, <2>2
<1> DEFINE e == 2 * x + c
<1>12. e \in Nat /\ e < w
  <2>1. e \in Nat  OBVIOUS
  <2>2. e * 1 <= e * d
    <3> HIDE DEF e
    <3>1. 1 \in Nat /\ d \in Nat /\ 1 <= d  BY <1>1
    <3>2. 1 * e <= d * e
      <4>1. CASE e = 0  BY <4>1, <3>1, SMT
      <4>2. CASE e # 0
        <5>1. e \in Nat \ {0}  BY <2>1, <4>2
        <5> QED  BY <3>1, <5>1, TimesMonotone
      <4> QED  BY <4>1, <4>2
    <3>3. 1 * e = e * 1 /\ d * e = e * d  BY <2>1, <3>1, SMT
    <3> QED  BY <3>2, <3>3
  <2> HIDE DEF e
  <2>3. PICK y \in Nat : y = e * d
    <3>1. e * d \in Nat  BY <1>1, <2>1, SMT
    <3> QED  BY <3>1
  <2>4. a = y + r  BY <1>11, <2>3 DEF e
  <2> QED  BY <1>1, <1>10, <2>1, <2>2, <2>3, <2>4
<1>13. Wrap(2 * end.q + end.carry, n) = e
  <2>1. 2 * end.q + end.carry = e  BY <1>10, <1>11
  <2>2. e \in 0 .. Two[n] - 1 /\ n \in 0 .. WIDEST  BY <1>1, <1>12
  <2> HIDE DEF e
  <2> QED  BY <2>1, <2>2, WordStays
<1>14. LongDivision(r0, q0, d, t, n) = Both(e, r)
  <2>1. Turns([r |-> r0, q |-> q0, carry |-> 0], d, t, n) = end  BY <1>6 DEF start, end
  <2> HIDE DEF e
  <2> QED  BY <1>10, <1>13, <2>1 DEF LongDivision
<1>15. Both(e, r) = Divide(a, d)
  <2>1. a \in Nat /\ d \in Nat \ {0} /\ r \in 0 .. d - 1 /\ a = e * d + r  BY <1>1, <1>10, <1>11
  <2> HIDE DEF e
  <2> QED  BY <1>12, <2>1, DivideIs
<1> QED  BY <1>14, <1>15 DEF r0, q0

\* A shorter number is smaller.
LEMMA ShorterIsSmaller ==
    ASSUME NEW i \in 1 .. WIDEST, NEW j \in 1 .. WIDEST, NEW x \in Nat, NEW y \in Nat,
           HasLength(x, i), HasLength(y, j), i < j
    PROVE  x < y
<1>1. j - 1 \in 0 .. WIDEST /\ i \in 0 .. j - 1 /\ i \in 0 .. WIDEST  BY WIDESTAssumption
<1>2. Two[i] <= Two[j - 1] /\ Two[i] \in Nat /\ Two[j - 1] \in Nat  BY <1>1, PowersGrow, PowerIs
<1>3. x < Two[i] /\ Two[j - 1] <= y  BY DEF HasLength
<1> QED  BY <1>2, <1>3

\* What is not shorter, and the bits there are turns for.
LEMMA TurnsFor ==
    ASSUME NEW n, NEW w, NEW h, IsSize(n, w, h), NEW a \in 1 .. w - 1, NEW d \in 1 .. w - 1,
           NEW i \in 1 .. n, NEW j \in 1 .. i, HasLength(a, i), HasLength(d, j)
    PROVE  SignServes(a, d, i - j + 1, h) /\ a \div Two[i - j + 1] < d
<1>1. /\ w = Two[n] /\ h = Two[n - 1] /\ w \in Nat \ {0} /\ h \in Nat
      /\ n \in 2 .. WIDEST /\ WIDEST \in Nat
  BY WIDESTAssumption DEF IsSize
<1> DEFINE t == i - j + 1
<1>2. /\ t \in Nat /\ t \in 0 .. WIDEST /\ j - 1 \in Nat /\ j - 1 \in 0 .. WIDEST
      /\ (j - 1) + t = i /\ i <= WIDEST /\ j \in 1 .. WIDEST /\ i \in 1 .. WIDEST
  BY <1>1
<1>3. SignServes(a, d, t, h)
  <2>1. CASE j <= n - 1
    <3>1. j \in 0 .. n - 1 /\ n - 1 \in 0 .. WIDEST /\ j \in 0 .. WIDEST  BY <1>1, <2>1
    <3>2. Two[j] <= Two[n - 1] /\ Two[j] \in Nat  BY <3>1, PowersGrow, PowerIs
    <3>3. d < Two[j]  BY DEF HasLength
    <3>4. d <= h  BY <1>1, <3>2, <3>3
    <3> QED  BY <3>4 DEF SignServes
  <2>2. CASE j = n
    <3>1. i = n /\ t = 1  BY <1>1, <2>2
    <3>2. a >= h  BY <1>1, <3>1 DEF HasLength
    <3> QED  BY <3>1, <3>2 DEF SignServes
  <2> QED  BY <1>1, <2>1, <2>2
<1>4. a \div Two[t] < d
  <2>1. Two[(j - 1) + t] = Two[j - 1] * Two[t]  BY <1>2, TwoTimes
  <2>2. PICK x \in Nat \ {0}, y \in Nat \ {0} : x = Two[j - 1] /\ y = Two[t]  BY <1>2, PowerIs
  <2>3. a < x * y  BY <1>2, <2>1, <2>2 DEF HasLength
  <2>4. a \in Nat  BY <1>1
  <2>5. a \div y < x  BY <2>3, <2>4, DivBelow
  <2>6. x <= d  BY <2>2 DEF HasLength
  <2>7. a \div y \in Nat  BY <2>4, DivMod
  <2> QED  BY <1>1, <2>2, <2>5, <2>6, <2>7
<1> QED  BY <1>3, <1>4

\* __udivXi3 and __umodXi3 divide.
LEMMA UdivmodXDivides ==
    ASSUME NEW n, NEW w, NEW h, IsSize(n, w, h), NEW a \in 0 .. w - 1, NEW d \in 1 .. w - 1
    PROVE  UdivmodX(a, d, n) = Divide(a, d)
<1>1. w = Two[n] /\ w \in Nat \ {0} /\ n \in 2 .. WIDEST /\ n \in 1 .. WIDEST /\ WIDEST \in Nat
  BY WIDESTAssumption DEF IsSize
<1>2. PICK j \in 1 .. n : HasLength(d, j) /\ Clz(d, n) = n - j
  <2>1. d \in 1 .. Two[n] - 1  BY <1>1
  <2> QED  BY <1>1, <2>1, ClzIs
<1> DEFINE sr == Clz(d, n) - Clz(a, n)
<1>3. UdivmodX(a, d, n) =
          IF sr \notin 0 .. n - 1 THEN Both(0, a)
          ELSE IF sr = n - 1 THEN Both(a, 0)
          ELSE LongDivision(Shr(a, sr + 1, n), Shl(a, n - sr - 1, n), d, sr + 1, n)
  BY DEF UdivmodX
<1> HIDE DEF sr
<1>4. ASSUME a < d PROVE Both(0, a) = Divide(a, d)
  <2>1. 0 \in Nat /\ a \in Nat /\ d \in Nat \ {0} /\ a \in 0 .. d - 1 /\ 0 * d + a = a
    BY <1>1, <1>4
  <2> QED  BY <2>1, DivideIs
<1>5. CASE a = 0
  <2>1. Clz(a, n) = n  BY <1>5 DEF Clz
  <2>2. sr = -j  BY <1>1, <1>2, <2>1 DEF sr
  <2> QED  BY <1>1, <1>3, <1>4, <1>5, <2>2
<1>6. CASE a # 0
  <2>1. a \in 1 .. Two[n] - 1 /\ a \in 1 .. w - 1  BY <1>1, <1>6
  <2>2. PICK i \in 1 .. n : HasLength(a, i) /\ Clz(a, n) = n - i  BY <1>1, <2>1, ClzIs
  <2>3. sr = i - j  BY <1>1, <1>2, <2>2 DEF sr
  <2>4. CASE i < j
    <3>1. a < d
      <4>1. a \in Nat /\ d \in Nat /\ i \in 1 .. WIDEST /\ j \in 1 .. WIDEST  BY <1>1
      <4> QED  BY <1>2, <2>2, <2>4, <4>1, ShorterIsSmaller
    <3> QED  BY <1>3, <1>4, <2>3, <2>4, <3>1
  <2>5. CASE sr = n - 1
    <3>1. j = 1  BY <1>1, <2>3, <2>5
    <3>2. d = 1
      <4>1. Two[0] = 1 /\ Two[1] = 2 * Two[0] /\ 1 - 1 = 0  BY <1>1, TwoIs
      <4> QED  BY <1>1, <1>2, <3>1, <4>1 DEF HasLength
    <3>3. Both(a, 0) = Divide(a, d)
      <4>1. a \in Nat /\ d \in Nat \ {0} /\ 0 \in 0 .. d - 1 /\ a = a * d + 0  BY <1>1, <3>2
      <4> QED  BY <4>1, DivideIs
    <3> QED  BY <1>1, <1>3, <2>5, <3>3
  <2>6. CASE i >= j /\ sr # n - 1
    <3> DEFINE t == sr + 1
    <3>1. /\ t = i - j + 1 /\ t \in 1 .. n - 1 /\ t \in 1 .. n /\ t \in 0 .. n - 1
          /\ n - sr - 1 = n - t /\ sr \in 0 .. n - 1 /\ j \in 1 .. i
      BY <1>1, <2>3, <2>6
    <3> HIDE DEF t
    <3>2. SignServes(a, d, t, h) /\ a \div Two[t] < d
      BY <1>2, <2>1, <2>2, <3>1, TurnsFor
    <3>3. LongDivision(a \div Two[t], (a % Two[t]) * Two[n - t], d, t, n) = Divide(a, d)
      BY <3>1, <3>2, LongDivides
    <3>4. Shr(a, t, n) = a \div Two[t]  BY <1>1, <3>1, ShrIs
    <3>5. Shl(a, n - t, n) = (a % Two[t]) * Two[n - t]
      <4>1. a \in 0 .. Two[n] - 1  BY <1>1
      <4> QED  BY <1>1, <3>1, <4>1, ShlIs
    <3>6. UdivmodX(a, d, n) = LongDivision(Shr(a, t, n), Shl(a, n - t, n), d, t, n)
      BY <1>3, <2>6, <3>1 DEF t
    <3> QED  BY <3>3, <3>4, <3>5, <3>6
  <2> QED  BY <1>1, <2>4, <2>5, <2>6
<1> QED  BY <1>5, <1>6

\* The remainder from the quotient.
LEMMA UdivmodsiDivides ==
    ASSUME NEW n, NEW w, NEW h, IsSize(n, w, h), NEW a \in 0 .. w - 1, NEW d \in 1 .. w - 1
    PROVE  udivmodsi4(a, d, n) = Divide(a, d) /\ umodXi3(a, d, n) = a % d
<1>1. w = Two[n] /\ w \in Nat \ {0} /\ n \in 0 .. WIDEST  BY WIDESTAssumption DEF IsSize
<1>2. UdivmodX(a, d, n) = Divide(a, d)  BY UdivmodXDivides
<1>3. udivXi3(a, d, n) = a \div d /\ umodXi3(a, d, n) = a % d
  BY <1>2 DEF udivXi3, umodXi3, Divide, Both
<1>4. udivmodsi4(a, d, n) = Both(a \div d, Wrap(a - (a \div d) * d, n))
  BY <1>3 DEF udivmodsi4
<1>5. a \in Nat /\ d \in Nat \ {0}  BY <1>1
<1>6. PICK q \in Nat, r \in 0 .. d - 1 : q = a \div d /\ r = a % d /\ a = q * d + r
  BY <1>5, DivMod
<1>7. a - q * d = r
  <2>1. q * d \in Nat  BY <1>5, SMT
  <2> QED  BY <1>5, <1>6, <2>1
<1>8. Wrap(r, n) = r
  <2>1. r \in 0 .. Two[n] - 1  BY <1>1
  <2> QED  BY <1>1, <2>1, WordStays
<1> QED  BY <1>3, <1>4, <1>6, <1>7, <1>8 DEF Divide

-----------------------------------------------------------------------------
(* Division by halves of the word. *)

\* n bits are two halves of i bits, k the weight of the upper one.
AreHalves(n, w, h, i, k) ==
    /\ IsSize(n, w, h) /\ n % 2 = 0 /\ i = n \div 2 /\ k = Two[i]
    /\ i \in 1 .. WIDEST /\ i \in Nat /\ n = i + i /\ k \in Nat \ {0} /\ w = k * k
    /\ w = Two[n] /\ w \in Nat \ {0} /\ n \in 2 .. WIDEST /\ WIDEST \in Nat

\* Every even size has halves.
LEMMA HalvesOf ==
    ASSUME NEW n, NEW w, NEW h, IsSize(n, w, h), n % 2 = 0
    PROVE  AreHalves(n, w, h, n \div 2, Two[n \div 2])
<1>1. n \in 2 .. WIDEST /\ n \in Nat /\ w = Two[n] /\ w \in Nat \ {0} /\ WIDEST \in Nat
  BY WIDESTAssumption DEF IsSize
<1> DEFINE i == n \div 2
<1>2. i \in 1 .. WIDEST /\ i \in Nat /\ n = i + i /\ i \in 0 .. WIDEST  BY <1>1
<1> HIDE DEF i
<1>3. Two[i] \in Nat \ {0}  BY <1>2, PowerIs
<1>4. Two[i + i] = Two[i] * Two[i]  BY <1>1, <1>2, TwoTimes
<1> QED  BY <1>1, <1>2, <1>3, <1>4 DEF AreHalves, i

\* The halves of a word.
LEMMA HalvesAre ==
    ASSUME NEW n, NEW w, NEW h, NEW i, NEW k, AreHalves(n, w, h, i, k), NEW a \in 0 .. w - 1
    PROVE  /\ Low(a, n) \in 0 .. k - 1 /\ High(a, n) \in 0 .. k - 1
           /\ a = High(a, n) * k + Low(a, n)
           /\ High(a, n) = a \div k /\ Low(a, n) = a % k
<1>1. IsSize(n, w, h) /\ n % 2 = 0 /\ k \in Nat \ {0} /\ k = Two[n \div 2]  BY DEF AreHalves
<1>2. High(a, n) = a \div k /\ Low(a, n) = a % k  BY <1>1 DEF High, Low
<1>3. /\ w = k * k /\ Low(a, n) \in 0 .. k - 1 /\ High(a, n) \in 0 .. k - 1
      /\ a = High(a, n) * k + Low(a, n)
  BY <1>1, HalvesIs
<1> QED  BY <1>2, <1>3, Zenon

\* Halves make a word.
LEMMA WholeIs ==
    ASSUME NEW n, NEW w, NEW h, NEW i, NEW k, AreHalves(n, w, h, i, k),
           NEW x \in 0 .. k - 1, NEW y \in 0 .. k - 1
    PROVE  Whole(x, y, n) = x * k + y /\ x * k + y \in 0 .. w - 1
<1>1. i = n \div 2 /\ k = Two[i] /\ i \in 0 .. WIDEST /\ k \in Nat \ {0} /\ w = k * k
  BY DEF AreHalves
<1>2. Wrap(x, i) = x /\ Wrap(y, i) = y
  <2>1. x \in 0 .. Two[i] - 1 /\ y \in 0 .. Two[i] - 1  BY <1>1
  <2> QED  BY <1>1, <2>1, WordStays
<1>3. Whole(x, y, n) = Wrap(x, i) * k + Wrap(y, i)  BY <1>1 DEF Whole
<1>4. x * k + y \in 0 .. k * k - 1
  <2>1. x \in Nat /\ x < k /\ k \in Nat  BY <1>1
  <2> QED  BY <1>1, <2>1, WordsBelow
<1> QED  BY <1>1, <1>2, <1>3, <1>4

\* A half taken apart at bit j, the parts x and y shifted to where they go.
Apart(z, j, t, u, x, y, i) ==
    /\ t \in Nat \ {0} /\ u \in Nat \ {0} /\ t = Two[j] /\ u = Two[i - j]
    /\ x \in 0 .. u - 1 /\ y \in 0 .. t - 1 /\ z = x * t + y
    /\ Shr(z, j, i) = x /\ Shl(z, i - j, i) = y * u

\* Every half can be, at every bit.
LEMMA TakenApart ==
    ASSUME NEW i \in 1 .. WIDEST, NEW j \in 1 .. i - 1, NEW z \in 0 .. Two[i] - 1
    PROVE  Apart(z, j, Two[j], Two[i - j], z \div Two[j], z % Two[j], i)
<1>1. /\ j \in 0 .. i /\ j \in 1 .. i /\ j \in 0 .. i - 1 /\ j \in 0 .. WIDEST
      /\ i - j \in 0 .. WIDEST
  BY WIDESTAssumption
<1>2. Two[j] \in Nat \ {0} /\ Two[i - j] \in Nat \ {0}  BY <1>1, PowerIs
<1>3. /\ z \div Two[j] \in 0 .. Two[i - j] - 1
      /\ z % Two[j] \in 0 .. Two[j] - 1
      /\ z = (z \div Two[j]) * Two[j] + (z % Two[j])
  BY <1>1, PartsAre
<1>4. Shr(z, j, i) = z \div Two[j]  BY <1>1, ShrIs
<1>5. Shl(z, i - j, i) = (z % Two[j]) * Two[i - j]  BY <1>1, ShlIs
<1> QED  BY <1>2, <1>3, <1>4, <1>5 DEF Apart

\* A part shifted up, and another one below it, fit a half.
LEMMA PartsFit ==
    ASSUME NEW t \in Nat \ {0}, NEW u \in Nat \ {0}, NEW y \in 0 .. t - 1, NEW x \in 0 .. u - 1
    PROVE  y * u \in Nat /\ y * u + x \in 0 .. t * u - 1 /\ y * u \in 0 .. t * u - 1
<1>1. y \in Nat /\ y < t /\ t \in Nat /\ 0 \in 0 .. u - 1  OBVIOUS
<1>2. y * u + x \in 0 .. t * u - 1 /\ y * u + 0 \in 0 .. t * u - 1  BY <1>1, WordsBelow
<1>3. y * u \in Nat  BY <1>1, SMT
<1> QED  BY <1>2, <1>3

\* Below half a word, bits move from the upper half to the lower.
LEMMA ShiftDown ==
    ASSUME NEW n, NEW w, NEW h, NEW i, NEW k, AreHalves(n, w, h, i, k), NEW a \in 0 .. w - 1,
           NEW j \in 1 .. i - 1
    PROVE  /\ Whole(Shr(High(a, n), j, i), Shl(High(a, n), i - j, i) + Shr(Low(a, n), j, i), n)
                  = a \div Two[j]
           /\ a % Two[j] = Low(a, n) % Two[j]
<1>1. i \in 1 .. WIDEST /\ i \in Nat /\ WIDEST \in Nat /\ k = Two[i] /\ k \in Nat \ {0}
  BY DEF AreHalves
<1> DEFINE nh == High(a, n)
           nl == Low(a, n)
<1>2. nh \in 0 .. Two[i] - 1 /\ nl \in 0 .. Two[i] - 1 /\ a = nh * k + nl
  BY <1>1, HalvesAre
<1> HIDE DEF nh, nl
<1> DEFINE t == Two[j]
           u == Two[i - j]
           xh == nh \div Two[j]
           yh == nh % Two[j]
           xl == nl \div Two[j]
           yl == nl % Two[j]
<1>3. Apart(nh, j, t, u, xh, yh, i) /\ Apart(nl, j, t, u, xl, yl, i)  BY <1>1, <1>2, TakenApart
<1>4. k = t * u
  <2>1. j \in Nat /\ i - j \in Nat /\ j + (i - j) = i /\ i <= WIDEST  BY <1>1
  <2>2. Two[j + (i - j)] = Two[j] * Two[i - j]  BY <2>1, TwoTimes
  <2> QED  BY <1>1, <2>1, <2>2
<1>5. yl = nl % t  OBVIOUS
<1> HIDE DEF t, u, xh, yh, xl, yl
<1>6. /\ t \in Nat \ {0} /\ u \in Nat \ {0} /\ xh \in 0 .. u - 1 /\ yh \in 0 .. t - 1
      /\ xl \in 0 .. u - 1 /\ yl \in 0 .. t - 1 /\ nh = xh * t + yh /\ nl = xl * t + yl
      /\ Shr(nh, j, i) = xh /\ Shl(nh, i - j, i) = yh * u /\ Shr(nl, j, i) = xl
  BY <1>3 DEF Apart
<1>7. yh * u \in Nat /\ yh * u + xl \in 0 .. k - 1  BY <1>4, <1>6, PartsFit
<1>8. xh \in 0 .. k - 1
  <2>1. u * 1 <= u * t
    <3>1. 1 \in Nat /\ t \in Nat /\ 1 <= t  BY <1>6
    <3>2. 1 * u <= t * u  BY <1>6, <3>1, TimesMonotone
    <3>3. 1 * u = u * 1 /\ t * u = u * t  BY <1>6, SMT
    <3> QED  BY <3>2, <3>3
  <2>2. u * t = t * u /\ u * 1 = u  BY <1>6, SMT
  <2> QED  BY <1>1, <1>4, <1>6, <2>1, <2>2
<1>9. Whole(xh, yh * u + xl, n) = xh * k + (yh * u + xl)
  <2>1. PICK z \in 0 .. k - 1 : z = yh * u + xl  BY <1>7
  <2> QED  BY <1>8, <2>1, WholeIs
<1>10. a = (xh * k + (yh * u + xl)) * t + yl
  <2>1. (xh * t + yh) * (t * u) + (xl * t + yl) = (xh * (t * u) + (yh * u + xl)) * t + yl
    <3>1. xh \in Int /\ yh \in Int /\ xl \in Int /\ yl \in Int /\ t \in Int /\ u \in Int
      BY <1>6
    <3> QED  BY <3>1, SMT
  <2> QED  BY <1>2, <1>4, <1>6, <2>1
<1>11. a \div t = xh * k + (yh * u + xl) /\ a % t = yl
  <2>1. PICK z \in Nat : z = xh * k + (yh * u + xl)
    <3>1. xh * k \in Nat  BY <1>1, <1>8, SMT
    <3>2. xh * k + (yh * u + xl) \in Nat  BY <1>7, <3>1
    <3> QED  BY <3>2
  <2>2. (z * t + yl) \div t = z /\ (z * t + yl) % t = yl  BY <1>6, <2>1, DivModUnique
  <2> QED  BY <1>10, <2>1, <2>2
<1> QED  BY <1>5, <1>6, <1>9, <1>11 DEF t, nh, nl

\* The long division starts from r and q, the dividend taken apart at bit sr.
StartsFrom(e, a, b, sr, n) ==
    e = LongDivision(a \div Two[sr], (a % Two[sr]) * Two[n - sr], b, sr, n)

\* It does if sr is half the word, ...
LEMMA StartsAtHalf ==
    ASSUME NEW n, NEW w, NEW h, NEW i, NEW k, AreHalves(n, w, h, i, k), NEW a \in 0 .. w - 1,
           NEW b
    PROVE  StartsFrom(FromHalves(a, b, i, n), a, b, i, n)
<1>1. i \in Nat /\ n = i + i /\ i = n \div 2 /\ k = Two[i] /\ k \in Nat \ {0} /\ n - i = i
  BY DEF AreHalves
<1>2. /\ Low(a, n) \in 0 .. k - 1 /\ High(a, n) = a \div k /\ Low(a, n) = a % k
  BY HalvesAre
<1>3. Whole(Low(a, n), 0, n) = (a % Two[i]) * Two[n - i]
  <2>1. 0 \in 0 .. k - 1  BY <1>1
  <2>2. Whole(Low(a, n), 0, n) = Low(a, n) * k + 0  BY <1>2, <2>1, WholeIs
  <2>3. Low(a, n) * k \in Nat
    <3>1. PICK x \in Nat : x = Low(a, n)  BY <1>2
    <3>2. x * k \in Nat  BY <1>1, SMT
    <3> QED  BY <3>1, <3>2
  <2> QED  BY <1>1, <1>2, <2>2, <2>3
<1>4. FromHalves(a, b, i, n) = LongDivision(High(a, n), Whole(Low(a, n), 0, n), b, i, n)
  BY <1>1 DEF FromHalves
<1> QED  BY <1>1, <1>2, <1>3, <1>4 DEF StartsFrom

\* ... less, ...
LEMMA StartsBelowHalf ==
    ASSUME NEW n, NEW w, NEW h, NEW i, NEW k, AreHalves(n, w, h, i, k), NEW a \in 0 .. w - 1,
           NEW b, NEW sr \in 1 .. i - 1
    PROVE  StartsFrom(FromHalves(a, b, sr, n), a, b, sr, n)
<1>1. /\ i \in Nat /\ n = i + i /\ i = n \div 2 /\ k = Two[i] /\ k \in Nat \ {0}
      /\ i \in 1 .. WIDEST /\ n \in 2 .. WIDEST /\ WIDEST \in Nat
  BY DEF AreHalves
<1> DEFINE nh == High(a, n)
           nl == Low(a, n)
<1>2. /\ Whole(Shr(nh, sr, i), Shl(nh, i - sr, i) + Shr(nl, sr, i), n) = a \div Two[sr]
      /\ a % Two[sr] = nl % Two[sr]
  BY ShiftDown
<1>3. FromHalves(a, b, sr, n) =
          LongDivision(Whole(Shr(nh, sr, i), Shl(nh, i - sr, i) + Shr(nl, sr, i), n),
                       Whole(Shl(nl, i - sr, i), 0, n), b, sr, n)
  <2>1. sr # i /\ sr < i  BY <1>1
  <2> QED  BY <1>1, <2>1 DEF FromHalves
<1>4. nl \in 0 .. k - 1  BY HalvesAre
<1> HIDE DEF nh, nl
<1>5. Whole(Shl(nl, i - sr, i), 0, n) = (a % Two[sr]) * Two[n - sr]
  <2> DEFINE t == Two[sr]
             u == Two[i - sr]
             x == nl \div Two[sr]
             y == nl % Two[sr]
  <2>1. Apart(nl, sr, t, u, x, y, i)
    <3>1. nl \in 0 .. Two[i] - 1  BY <1>1, <1>4
    <3> QED  BY <1>1, <3>1, TakenApart
  <2>2. k = t * u
    <3>1. sr \in Nat /\ i - sr \in Nat /\ sr + (i - sr) = i /\ i <= WIDEST  BY <1>1
    <3>2. Two[sr + (i - sr)] = Two[sr] * Two[i - sr]  BY <3>1, TwoTimes
    <3> QED  BY <1>1, <3>1, <3>2
  <2>3. Two[n - sr] = u * k
    <3>1. i - sr \in Nat /\ (i - sr) + i = n - sr /\ (i - sr) + i <= WIDEST  BY <1>1
    <3>2. Two[(i - sr) + i] = Two[i - sr] * Two[i]  BY <1>1, <3>1, TwoTimes
    <3> QED  BY <1>1, <3>1, <3>2
  <2>4. y = a % Two[sr]  BY <1>2
  <2> HIDE DEF t, u, x, y
  <2>5. /\ t \in Nat \ {0} /\ u \in Nat \ {0} /\ x \in 0 .. u - 1 /\ y \in 0 .. t - 1
        /\ Shl(nl, i - sr, i) = y * u
    BY <2>1 DEF Apart
  <2>6. y * u \in 0 .. k - 1 /\ y * u \in Nat  BY <2>2, <2>5, PartsFit
  <2>7. PICK z \in 0 .. k - 1 : z = y * u  BY <2>6
  <2>8. 0 \in 0 .. k - 1  BY <1>1
  <2>9. Whole(z, 0, n) = z * k + 0  BY <2>8, WholeIs
  <2>10. z * k + 0 = y * (u * k)
    <3>1. (y * u) * k = y * (u * k) /\ z * k \in Nat  BY <1>1, <2>5, SMT
    <3> QED  BY <2>7, <3>1
  <2> QED  BY <2>3, <2>4, <2>5, <2>7, <2>9, <2>10
<1> QED  BY <1>2, <1>3, <1>5 DEF StartsFrom, nh, nl

\* ... or more.
LEMMA StartsAboveHalf ==
    ASSUME NEW n, NEW w, NEW h, NEW i, NEW k, AreHalves(n, w, h, i, k), NEW a \in 0 .. w - 1,
           NEW b, NEW sr \in i + 1 .. n - 1
    PROVE  StartsFrom(FromHalves(a, b, sr, n), a, b, sr, n)
<1>1. /\ i \in Nat /\ n = i + i /\ i = n \div 2 /\ k = Two[i] /\ k \in Nat \ {0}
      /\ i \in 1 .. WIDEST /\ n \in 2 .. WIDEST /\ WIDEST \in Nat
  BY DEF AreHalves
<1> DEFINE nh == High(a, n)
           nl == Low(a, n)
           j == sr - i
<1>2. j \in 1 .. i - 1 /\ n - sr = i - j /\ j \in Nat /\ i - j \in Nat /\ sr = i + j
  BY <1>1
<1>3. FromHalves(a, b, sr, n) =
          LongDivision(Shr(nh, j, i), Whole(Shl(nh, n - sr, i) + Shr(nl, j, i),
                                            Shl(nl, n - sr, i), n), b, sr, n)
  <2>1. sr # i /\ ~(sr < i)  BY <1>1
  <2> QED  BY <1>1, <2>1 DEF FromHalves
<1>4. nh \in 0 .. k - 1 /\ nl \in 0 .. k - 1 /\ a = nh * k + nl  BY HalvesAre
<1> HIDE DEF nh, nl, j
<1> DEFINE t == Two[j]
           u == Two[i - j]
           xh == nh \div Two[j]
           yh == nh % Two[j]
           xl == nl \div Two[j]
           yl == nl % Two[j]
<1>5. Apart(nh, j, t, u, xh, yh, i) /\ Apart(nl, j, t, u, xl, yl, i)
  <2>1. nh \in 0 .. Two[i] - 1 /\ nl \in 0 .. Two[i] - 1  BY <1>1, <1>4
  <2> QED  BY <1>1, <1>2, <2>1, TakenApart
<1>6. k = t * u
  <2>1. j + (i - j) = i /\ i <= WIDEST  BY <1>1, <1>2
  <2>2. Two[j + (i - j)] = Two[j] * Two[i - j]  BY <1>2, <2>1, TwoTimes
  <2> QED  BY <1>1, <2>1, <2>2
<1>7. Two[sr] = k * t
  <2>1. i + j <= WIDEST  BY <1>1, <1>2
  <2>2. Two[i + j] = Two[i] * Two[j]  BY <1>1, <1>2, <2>1, TwoTimes
  <2> QED  BY <1>1, <1>2, <2>2
<1>8. Two[n - sr] = u  BY <1>2
<1> HIDE DEF t, u, xh, yh, xl, yl
<1>9. /\ t \in Nat \ {0} /\ u \in Nat \ {0} /\ xh \in 0 .. u - 1 /\ yh \in 0 .. t - 1
      /\ xl \in 0 .. u - 1 /\ yl \in 0 .. t - 1 /\ nh = xh * t + yh /\ nl = xl * t + yl
      /\ Shr(nh, j, i) = xh /\ Shl(nh, n - sr, i) = yh * u /\ Shr(nl, j, i) = xl
      /\ Shl(nl, n - sr, i) = yl * u
  BY <1>2, <1>5 DEF Apart
<1>10. /\ yh * u + xl \in 0 .. k - 1 /\ yl * u \in 0 .. k - 1
  BY <1>6, <1>9, PartsFit
<1>11. Whole(yh * u + xl, yl * u, n) = (yh * u + xl) * k + yl * u
  <2>1. PICK x \in 0 .. k - 1, y \in 0 .. k - 1 : x = yh * u + xl /\ y = yl * u  BY <1>10
  <2>2. Whole(x, y, n) = x * k + y  BY WholeIs
  <2> QED  BY <2>1, <2>2
<1>12. a = xh * (k * t) + (yh * k + nl)
  <2>1. (xh * t + yh) * k + nl = xh * (k * t) + (yh * k + nl)
    <3>1. xh \in Int /\ yh \in Int /\ nl \in Int /\ k \in Int /\ t \in Int
      BY <1>1, <1>4, <1>9
    <3> QED  BY <3>1, SMT
  <2> QED  BY <1>4, <1>9, <2>1
<1>13. yh * k + nl \in 0 .. t * k - 1 /\ t * k = k * t /\ k * t \in Nat \ {0}
  <2>1. yh * k + nl \in 0 .. t * k - 1
    <3>1. yh \in Nat /\ yh < t /\ t \in Nat  BY <1>9
    <3> QED  BY <1>1, <1>4, <3>1, WordsBelow
  <2>2. t * k = k * t /\ k * t \in Nat /\ k * t # 0  BY <1>1, <1>9, SMT
  <2> QED  BY <2>1, <2>2
<1>14. a \div Two[sr] = xh /\ a % Two[sr] = yh * k + nl
  <2>1. PICK v \in Nat \ {0} : v = k * t  BY <1>13
  <2>2. PICK z \in 0 .. v - 1 : z = yh * k + nl  BY <1>13, <2>1
  <2>3. xh \in Nat  BY <1>9
  <2>4. (xh * v + z) \div v = xh /\ (xh * v + z) % v = z  BY <2>3, DivModUnique
  <2> QED  BY <1>7, <1>12, <2>1, <2>2, <2>4
<1>15. (yh * k + nl) * u = (yh * u + xl) * k + yl * u
  <2>1. (yh * (t * u) + (xl * t + yl)) * u = (yh * u + xl) * (t * u) + yl * u
    <3>1. yh \in Int /\ t \in Int /\ u \in Int /\ xl \in Int /\ yl \in Int  BY <1>9
    <3> QED  BY <3>1, SMT
  <2> QED  BY <1>6, <1>9, <2>1
<1> QED  BY <1>3, <1>8, <1>9, <1>11, <1>14, <1>15 DEF StartsFrom

\* So the long division divides, if there are turns enough.
LEMMA FromHalvesDivides ==
    ASSUME NEW n, NEW w, NEW h, NEW i, NEW k, AreHalves(n, w, h, i, k), NEW a \in 0 .. w - 1,
           NEW b \in 1 .. w - 1, NEW sr \in 1 .. n - 1, SignServes(a, b, sr, h),
           a \div Two[sr] < b
    PROVE  FromHalves(a, b, sr, n) = Divide(a, b)
<1>1. i \in Nat /\ n = i + i /\ IsSize(n, w, h)  BY DEF AreHalves
<1>2. StartsFrom(FromHalves(a, b, sr, n), a, b, sr, n)
  <2>1. CASE sr = i  BY <2>1, StartsAtHalf
  <2>2. CASE sr \in 1 .. i - 1  BY <2>2, StartsBelowHalf
  <2>3. CASE sr \in i + 1 .. n - 1  BY <2>3, StartsAboveHalf
  <2> QED  BY <1>1, <2>1, <2>2, <2>3
<1>3. sr \in 1 .. n  BY <1>1
<1>4. LongDivision(a \div Two[sr], (a % Two[sr]) * Two[n - sr], b, sr, n) = Divide(a, b)
  BY <1>1, <1>3, LongDivides
<1> QED  BY <1>2, <1>4 DEF StartsFrom

\* A word with an upper half is half a word longer than that.
LEMMA UpperLength ==
    ASSUME NEW n, NEW w, NEW h, NEW i, NEW k, AreHalves(n, w, h, i, k), NEW a \in 0 .. w - 1,
           NEW l \in 1 .. i, HasLength(High(a, n), l)
    PROVE  HasLength(a, i + l)
<1>1. /\ i \in Nat /\ n = i + i /\ k = Two[i] /\ k \in Nat \ {0}
      /\ n \in 2 .. WIDEST /\ WIDEST \in Nat
  BY DEF AreHalves
<1>2. PICK x \in 0 .. k - 1, y \in 0 .. k - 1 : x = High(a, n) /\ a = x * k + y
  BY HalvesAre
<1>3. /\ l \in Nat /\ l - 1 \in Nat /\ l \in 0 .. WIDEST /\ l - 1 \in 0 .. WIDEST
      /\ l + i = i + l /\ (l - 1) + i = (i + l) - 1 /\ l + i <= WIDEST /\ (l - 1) + i <= WIDEST
  BY <1>1
<1>4. Two[l + i] = Two[l] * k /\ Two[(l - 1) + i] = Two[l - 1] * k  BY <1>1, <1>3, TwoTimes
<1>5. PICK u \in Nat \ {0}, v \in Nat \ {0} : u = Two[l - 1] /\ v = Two[l]  BY <1>3, PowerIs
<1>6. u <= x /\ x < v  BY <1>2, <1>5 DEF HasLength
<1>7. u * k <= x * k /\ (x + 1) * k <= v * k
  <2>1. u \in Nat /\ x \in Nat /\ x + 1 \in Nat /\ v \in Nat /\ x + 1 <= v  BY <1>6
  <2> QED  BY <1>1, <1>6, <2>1, TimesMonotone
<1>8. (x + 1) * k = x * k + k /\ x * k \in Nat /\ u * k \in Nat /\ v * k \in Nat  BY <1>1, SMT
<1>9. u * k <= a /\ a < v * k  BY <1>1, <1>2, <1>7, <1>8
<1> QED  BY <1>3, <1>4, <1>5, <1>9 DEF HasLength

\* Division by a multiple of half the word leaves the lower half alone.
LEMMA UpperDivides ==
    ASSUME NEW k \in Nat \ {0}, NEW nh \in 0 .. k - 1, NEW nl \in 0 .. k - 1,
           NEW dh \in 1 .. k - 1
    PROVE  Both(nh \div dh, (nh % dh) * k + nl) = Divide(nh * k + nl, dh * k)
<1>1. PICK q \in Nat, r \in 0 .. dh - 1 : q = nh \div dh /\ r = nh % dh /\ nh = q * dh + r
  <2>1. nh \in Nat /\ dh \in Nat \ {0}  OBVIOUS
  <2> QED  BY <2>1, DivMod
<1>2. r * k + nl \in 0 .. dh * k - 1
  <2>1. r \in Nat /\ r < dh /\ dh \in Nat  OBVIOUS
  <2> QED  BY <2>1, WordsBelow
<1>3. PICK d \in Nat \ {0} : d = dh * k
  <2>1. dh \in Nat \ {0}  OBVIOUS
  <2>2. dh * k \in Nat /\ dh * k # 0  BY <2>1, SMT
  <2> QED  BY <2>2
<1>4. PICK y \in 0 .. d - 1 : y = r * k + nl  BY <1>2, <1>3
<1>5. nh * k + nl = q * d + y
  <2>1. (q * dh + r) * k + nl = q * (dh * k) + (r * k + nl)
    <3>1. q \in Int /\ dh \in Int /\ r \in Int /\ k \in Int /\ nl \in Int  OBVIOUS
    <3> QED  BY <3>1, SMT
  <2> QED  BY <1>1, <1>3, <1>4, <2>1
<1>6. nh * k + nl \in Nat
  <2>1. nh \in Nat  OBVIOUS
  <2>2. nh * k \in Nat  BY <2>1, SMT
  <2> QED  BY <2>2
<1>7. PICK a \in Nat : a = nh * k + nl  BY <1>6
<1>8. Both(q, y) = Divide(a, d)
  <2>1. a = q * d + y  BY <1>5, <1>7
  <2> QED  BY <2>1, DivideIs
<1> QED  BY <1>1, <1>3, <1>4, <1>7, <1>8

\* The divisor has an upper half of its own: as many turns as the lengths differ.
LEMMA WideDivisor ==
    ASSUME NEW n, NEW w, NEW h, NEW i, NEW k, AreHalves(n, w, h, i, k), NEW a \in 0 .. w - 1,
           NEW b \in 1 .. w - 1, High(a, n) # 0, High(b, n) # 0
    PROVE  LET sr == Clz(High(b, n), i) - Clz(High(a, n), i)
           IN  /\ sr \in -i .. i - 1
               /\ sr < 0 => Both(0, a) = Divide(a, b)
               /\ sr >= 0 => FromHalves(a, b, sr + 1, n) = Divide(a, b)
               /\ sr = i - 1 => High(b, n) = 1
<1>1. /\ i \in Nat /\ i \in 1 .. WIDEST /\ n = i + i /\ k = Two[i] /\ k \in Nat \ {0}
      /\ n \in 2 .. WIDEST /\ WIDEST \in Nat /\ w \in Nat \ {0} /\ IsSize(n, w, h)
  BY DEF AreHalves
<1>2. High(a, n) \in 1 .. Two[i] - 1 /\ High(b, n) \in 1 .. Two[i] - 1
  <2>1. b \in 0 .. w - 1  BY <1>1
  <2>2. High(a, n) \in 0 .. k - 1 /\ High(b, n) \in 0 .. k - 1  BY <2>1, HalvesAre
  <2> QED  BY <1>1, <2>2
<1>3. PICK la \in 1 .. i : HasLength(High(a, n), la) /\ Clz(High(a, n), i) = i - la
  BY <1>1, <1>2, ClzIs
<1>4. PICK lb \in 1 .. i : HasLength(High(b, n), lb) /\ Clz(High(b, n), i) = i - lb
  BY <1>1, <1>2, ClzIs
<1> DEFINE sr == Clz(High(b, n), i) - Clz(High(a, n), i)
<1>5. sr = la - lb  BY <1>1, <1>3, <1>4
<1> HIDE DEF sr
<1>6. HasLength(a, i + la) /\ HasLength(b, i + lb)
  <2>1. b \in 0 .. w - 1  BY <1>1
  <2> QED  BY <1>3, <1>4, <2>1, UpperLength
<1>7. sr \in -i .. i - 1  BY <1>1, <1>5
<1>8. ASSUME sr < 0 PROVE Both(0, a) = Divide(a, b)
  <2>1. /\ i + la \in 1 .. WIDEST /\ i + lb \in 1 .. WIDEST /\ i + la < i + lb
        /\ a \in Nat /\ b \in Nat
    BY <1>1, <1>5, <1>8
  <2>2. a < b  BY <1>6, <2>1, ShorterIsSmaller
  <2>3. 0 \in Nat /\ b \in Nat \ {0} /\ a \in 0 .. b - 1 /\ a = 0 * b + a  BY <1>1, <2>1, <2>2
  <2> QED  BY <2>1, <2>3, DivideIs
<1>9. a \in 1 .. w - 1
  <2>1. a # 0
    <3>1. a = High(a, n) * k + Low(a, n) /\ Low(a, n) \in 0 .. k - 1  BY HalvesAre
    <3>2. PICK x \in Nat \ {0}, y \in Nat : x = High(a, n) /\ y = Low(a, n)
      BY <1>1, <1>2, <3>1
    <3>3. x * k # 0 /\ x * k \in Nat  BY <1>1, SMT
    <3> QED  BY <3>1, <3>2, <3>3
  <2> QED  BY <1>1, <2>1
<1>10. ASSUME sr >= 0 PROVE FromHalves(a, b, sr + 1, n) = Divide(a, b)
  <2>1. /\ i + la \in 1 .. n /\ i + lb \in 1 .. i + la
        /\ (i + la) - (i + lb) + 1 = sr + 1 /\ sr + 1 \in 1 .. n - 1
    BY <1>1, <1>5, <1>10
  <2>2. SignServes(a, b, (i + la) - (i + lb) + 1, h)
        /\ a \div Two[(i + la) - (i + lb) + 1] < b
    BY <1>1, <1>6, <1>9, <2>1, TurnsFor
  <2>3. SignServes(a, b, sr + 1, h) /\ a \div Two[sr + 1] < b  BY <2>1, <2>2
  <2> QED  BY <2>1, <2>3, FromHalvesDivides
<1>11. ASSUME sr = i - 1 PROVE High(b, n) = 1
  <2>1. lb = 1  BY <1>1, <1>5, <1>11
  <2>2. Two[0] = 1 /\ Two[1] = 2 * Two[0] /\ 1 - 1 = 0  BY <1>1, TwoIs
  <2> QED  BY <1>1, <1>2, <1>4, <2>1, <2>2 DEF HasLength
<1> QED  BY <1>7, <1>8, <1>10, <1>11 DEF sr

\* The divisor has no upper half, and is no power of two.
LEMMA NarrowDivisor ==
    ASSUME NEW n, NEW w, NEW h, NEW i, NEW k, AreHalves(n, w, h, i, k), NEW a \in 0 .. w - 1,
           NEW b \in 2 .. k - 1, High(a, n) # 0
    PROVE  FromHalves(a, b, 1 + i + Clz(b, i) - Clz(High(a, n), i), n) = Divide(a, b)
<1>1. /\ i \in Nat /\ i \in 1 .. WIDEST /\ n = i + i /\ k = Two[i] /\ k \in Nat \ {0}
      /\ n \in 2 .. WIDEST /\ WIDEST \in Nat /\ w \in Nat \ {0} /\ IsSize(n, w, h) /\ w = k * k
  BY DEF AreHalves
<1>2. High(a, n) \in 1 .. Two[i] - 1 /\ b \in 1 .. Two[i] - 1
  <2>1. High(a, n) \in 0 .. k - 1  BY HalvesAre
  <2> QED  BY <1>1, <2>1
<1>3. PICK la \in 1 .. i : HasLength(High(a, n), la) /\ Clz(High(a, n), i) = i - la
  BY <1>1, <1>2, ClzIs
<1>4. PICK lb \in 1 .. i : HasLength(b, lb) /\ Clz(b, i) = i - lb
  BY <1>1, <1>2, ClzIs
<1>5. lb # 1
  <2>1. Two[0] = 1 /\ Two[1] = 2 * Two[0] /\ 1 - 1 = 0  BY <1>1, TwoIs
  <2> QED  BY <1>1, <1>4, <2>1 DEF HasLength
<1> DEFINE sr == 1 + i + Clz(b, i) - Clz(High(a, n), i)
<1>6. sr = (i + la) - lb + 1  BY <1>1, <1>3, <1>4
<1> HIDE DEF sr
<1>7. HasLength(a, i + la)  BY <1>3, UpperLength
<1>8. a \in 1 .. w - 1 /\ b \in 1 .. w - 1
  <2>1. a # 0
    <3>1. a = High(a, n) * k + Low(a, n) /\ Low(a, n) \in 0 .. k - 1  BY HalvesAre
    <3>2. PICK x \in Nat \ {0}, y \in Nat : x = High(a, n) /\ y = Low(a, n)
      BY <1>1, <1>2, <3>1
    <3>3. x * k # 0 /\ x * k \in Nat  BY <1>1, SMT
    <3> QED  BY <3>1, <3>2, <3>3
  <2>2. 1 * k <= k * k
    <3>1. 1 \in Nat /\ k \in Nat /\ 1 <= k  BY <1>1
    <3> QED  BY <1>1, <3>1, TimesMonotone
  <2>3. 1 * k = k /\ k * k \in Nat  BY <1>1, SMT
  <2> QED  BY <1>1, <2>1, <2>2, <2>3
<1>9. /\ i + la \in 1 .. n /\ lb \in 1 .. i + la
      /\ (i + la) - lb + 1 = sr /\ sr \in 1 .. n - 1
  BY <1>1, <1>5, <1>6
<1>10. SignServes(a, b, (i + la) - lb + 1, h) /\ a \div Two[(i + la) - lb + 1] < b
  BY <1>1, <1>4, <1>7, <1>8, <1>9, TurnsFor
<1>11. SignServes(a, b, sr, h) /\ a \div Two[sr] < b  BY <1>9, <1>10
<1>12. FromHalves(a, b, sr, n) = Divide(a, b)  BY <1>8, <1>9, <1>11, FromHalvesDivides
<1> QED  BY <1>12 DEF sr

\* A divisor of a lower half only, a power of two: the dividend is shifted.
LEMMA PowerDivides ==
    ASSUME NEW n, NEW w, NEW h, NEW i, NEW k, AreHalves(n, w, h, i, k), NEW a \in 0 .. w - 1,
           NEW b \in 2 .. k - 1, PowerOfTwo(b, i)
    PROVE  Both(Whole(Shr(High(a, n), Ctz(b, i), i),
                      Shl(High(a, n), i - Ctz(b, i), i) + Shr(Low(a, n), Ctz(b, i), i), n),
                Low(a, n) % b) = Divide(a, b)
<1>1. /\ i \in Nat /\ i \in 1 .. WIDEST /\ k = Two[i] /\ k \in Nat \ {0}
      /\ w \in Nat \ {0} /\ WIDEST \in Nat
  BY DEF AreHalves
<1>2. b \in 1 .. Two[i] - 1  BY <1>1
<1> DEFINE j == Ctz(b, i)
<1>3. j \in 0 .. i - 1 /\ b = Two[j]  BY <1>1, <1>2, CtzIs
<1> HIDE DEF j
<1>4. j \in 1 .. i - 1
  <2>1. j # 0  BY <1>1, <1>3, TwoIs
  <2> QED  BY <1>1, <1>3, <2>1
<1>5. /\ Whole(Shr(High(a, n), j, i), Shl(High(a, n), i - j, i) + Shr(Low(a, n), j, i), n)
             = a \div b
      /\ a % b = Low(a, n) % b
  BY <1>3, <1>4, ShiftDown
<1> QED  BY <1>5 DEF Divide, j

\* __udivmoddi4 divides, whichever of its cases takes it.
LEMMA UdivmoddiDivides ==
    ASSUME NEW n, NEW w, NEW h, IsSize(n, w, h), n % 2 = 0,
           NEW a \in 0 .. w - 1, NEW b \in 1 .. w - 1
    PROVE  udivmoddi4(a, b, n) = Divide(a, b)
<1> DEFINE i == n \div 2
           k == Two[i]
<1>1. AreHalves(n, w, h, i, k)  BY HalvesOf
<1> HIDE DEF k
<1> DEFINE nh == High(a, n)
           nl == Low(a, n)
           dh == High(b, n)
           dl == Low(b, n)
           sr == Clz(dh, i) - Clz(nh, i)
<1>2. udivmoddi4(a, b, n) =
          IF nh = 0 THEN IF dh = 0 THEN Divide(nl, dl) ELSE Both(0, nl)
          ELSE IF dl = 0 THEN
              IF nl = 0 THEN Both(nh \div dh, Whole(nh % dh, 0, n))
              ELSE IF PowerOfTwo(dh, i)
              THEN Both(Shr(nh, Ctz(dh, i), i), Whole(nh % dh, nl, n))
              ELSE IF sr \notin 0 .. i - 2 THEN Both(0, a)
              ELSE FromHalves(a, b, sr + 1, n)
          ELSE IF dh = 0 THEN
              IF dl = 1 THEN Both(a, 0)
              ELSE IF PowerOfTwo(dl, i)
              THEN Both(Whole(Shr(nh, Ctz(dl, i), i),
                              Shl(nh, i - Ctz(dl, i), i) + Shr(nl, Ctz(dl, i), i), n), nl % dl)
              ELSE FromHalves(a, b, 1 + i + Clz(dl, i) - Clz(nh, i), n)
          ELSE IF sr \notin 0 .. i - 1 THEN Both(0, a)
          ELSE FromHalves(a, b, sr + 1, n)
  BY Zenon DEF udivmoddi4
<1>3. /\ i \in Nat /\ i \in 1 .. WIDEST /\ k = Two[i] /\ k \in Nat \ {0} /\ w \in Nat \ {0}
      /\ b \in 0 .. w - 1 /\ WIDEST \in Nat
  <2>1. i \in Nat /\ i \in 1 .. WIDEST /\ k \in Nat \ {0} /\ w \in Nat \ {0} /\ WIDEST \in Nat
    BY <1>1 DEF AreHalves
  <2>2. k = Two[i]  BY <1>1, Zenon DEF AreHalves
  <2> QED  BY <2>1, <2>2
<1>4. /\ nh \in 0 .. k - 1 /\ nl \in 0 .. k - 1 /\ a = nh * k + nl
      /\ dh \in 0 .. k - 1 /\ dl \in 0 .. k - 1 /\ b = dh * k + dl
  BY <1>1, <1>3, HalvesAre
<1>5. nh # 0 /\ dh # 0 =>
          /\ sr \in -i .. i - 1
          /\ sr < 0 => Both(0, a) = Divide(a, b)
          /\ sr >= 0 => FromHalves(a, b, sr + 1, n) = Divide(a, b)
          /\ sr = i - 1 => dh = 1
  BY <1>1, WideDivisor
<1>6. nh # 0 /\ b \in 2 .. k - 1 =>
          FromHalves(a, b, 1 + i + Clz(b, i) - Clz(nh, i), n) = Divide(a, b)
  BY <1>1, NarrowDivisor
<1>7. b \in 2 .. k - 1 /\ PowerOfTwo(b, i) =>
          Both(Whole(Shr(nh, Ctz(b, i), i),
                     Shl(nh, i - Ctz(b, i), i) + Shr(nl, Ctz(b, i), i), n),
               nl % b) = Divide(a, b)
  BY <1>1, PowerDivides
<1>8. dh # 0 => Both(nh \div dh, (nh % dh) * k + nl) = Divide(nh * k + nl, dh * k)
  <2> HIDE DEF nh, nl, dh
  <2> SUFFICES ASSUME dh # 0
               PROVE  Both(nh \div dh, (nh % dh) * k + nl) = Divide(nh * k + nl, dh * k)
    OBVIOUS
  <2>1. dh \in 1 .. k - 1  BY <1>3, <1>4
  <2>2. k \in Nat \ {0} /\ nh \in 0 .. k - 1 /\ nl \in 0 .. k - 1  BY <1>3, <1>4
  <2> QED  BY <2>1, <2>2, UpperDivides
<1>9. ASSUME dh # 0, NEW z \in 0 .. k - 1 PROVE Whole(nh % dh, z, n) = (nh % dh) * k + z
  <2> HIDE DEF nh, nl, dh, i
  <2>1. nh % dh \in 0 .. k - 1
    <3>1. nh \in Nat /\ dh \in Nat \ {0} /\ dh < k  BY <1>3, <1>4, <1>9
    <3>2. nh % dh \in 0 .. dh - 1  BY <3>1, DivMod
    <3> QED  BY <1>3, <3>1, <3>2
  <2>2. PICK x \in 0 .. k - 1 : x = nh % dh  BY <2>1
  <2>3. Whole(x, z, n) = x * k + z  BY <1>1, WholeIs
  <2> QED  BY <2>2, <2>3
<1>10. ASSUME dh # 0, PowerOfTwo(dh, i) PROVE Shr(nh, Ctz(dh, i), i) = nh \div dh
  <2> HIDE DEF nh, nl, dh, i
  <2>1. dh \in 1 .. Two[i] - 1  BY <1>3, <1>4, <1>10
  <2>2. Ctz(dh, i) \in 0 .. i - 1 /\ dh = Two[Ctz(dh, i)]  BY <1>3, <1>10, <2>1, CtzIs
  <2> QED  BY <1>3, <2>2, ShrIs
<1>11. ~PowerOfTwo(dh, i) => dh # 1
  <2> HIDE DEF nh, nl, dh, i
  <2> SUFFICES ASSUME dh = 1 PROVE PowerOfTwo(dh, i)  OBVIOUS
  <2>1. dh \in 1 .. Two[i] - 1  BY <1>3, <1>4
  <2> QED  BY <1>3, <2>1, CtzIs
<1> HIDE DEF i, nh, nl, dh, dl, sr
<1>12. dh = 0 => b = dl
  <2>1. 0 * k = 0  BY <1>3
  <2> QED  BY <1>3, <1>4, <2>1
<1>13. dl = 0 => b = dh * k
  <2>1. PICK x \in Nat : x = dh  BY <1>4
  <2>2. x * k \in Nat  BY <1>3, SMT
  <2> QED  BY <1>4, <2>1, <2>2
<1>14. CASE nh = 0
  <2>1. a = nl
    <3>1. 0 * k = 0  BY <1>3
    <3> QED  BY <1>3, <1>4, <1>14, <3>1
  <2>2. CASE dh = 0  BY <1>2, <1>12, <1>14, <2>1, <2>2
  <2>3. CASE dh # 0
    <3>1. a < b
      <4>1. PICK x \in Nat \ {0} : x = dh  BY <1>3, <1>4, <2>3
      <4>2. 1 * k <= x * k
        <5>1. 1 \in Nat /\ x \in Nat /\ 1 <= x  OBVIOUS
        <5> QED  BY <1>3, <5>1, TimesMonotone
      <4>3. 1 * k = k /\ x * k \in Nat  BY <1>3, SMT
      <4> QED  BY <1>3, <1>4, <2>1, <4>1, <4>2, <4>3
    <3>2. a \in Nat /\ 0 \in Nat /\ b \in Nat \ {0} /\ a \in 0 .. b - 1 /\ a = 0 * b + a
      BY <1>3, <3>1
    <3>3. Both(0, a) = Divide(a, b)  BY <3>2, DivideIs
    <3> QED  BY <1>2, <1>14, <2>1, <2>3, <3>3
  <2> QED  BY <2>2, <2>3
<1>15. CASE nh # 0 /\ dl = 0
  <2>1. dh # 0  BY <1>3, <1>12, <1>15
  <2>2. Both(nh \div dh, (nh % dh) * k + nl) = Divide(a, b)  BY <1>4, <1>8, <1>13, <1>15, <2>1
  <2>3. Whole(nh % dh, nl, n) = (nh % dh) * k + nl  BY <1>4, <1>9, <2>1
  <2>4. CASE nl = 0  BY <1>2, <1>15, <2>2, <2>3, <2>4
  <2>5. CASE nl # 0 /\ PowerOfTwo(dh, i)
    BY <1>2, <1>10, <1>15, <2>1, <2>2, <2>3, <2>5
  <2>6. CASE nl # 0 /\ ~PowerOfTwo(dh, i)
    <3>1. sr \in -i .. i - 1 /\ sr # i - 1  BY <1>5, <1>11, <1>15, <2>1, <2>6
    <3>2. CASE sr < 0
      <4>1. sr \notin 0 .. i - 2  BY <1>3, <3>2
      <4> QED  BY <1>2, <1>5, <1>15, <2>1, <2>6, <3>2, <4>1
    <3>3. CASE sr >= 0
      <4>1. sr \in 0 .. i - 2  BY <1>3, <3>1, <3>3
      <4> QED  BY <1>2, <1>5, <1>15, <2>1, <2>6, <3>3, <4>1
    <3> QED  BY <1>3, <3>1, <3>2, <3>3
  <2> QED  BY <2>4, <2>5, <2>6
<1>16. CASE nh # 0 /\ dl # 0 /\ dh = 0
  <2>1. b = dl  BY <1>12, <1>16
  <2>2. CASE dl = 1
    <3>1. a \in Nat /\ b \in Nat \ {0} /\ 0 \in 0 .. b - 1 /\ a = a * b + 0  BY <1>3, <2>1, <2>2
    <3>2. Both(a, 0) = Divide(a, b)  BY <3>1, DivideIs
    <3> QED  BY <1>2, <1>16, <2>2, <3>2
  <2>3. CASE dl # 1
    <3>1. b \in 2 .. k - 1  BY <1>3, <1>4, <1>16, <2>1, <2>3
    <3> QED  BY <1>2, <1>6, <1>7, <1>16, <2>1, <2>3, <3>1
  <2> QED  BY <2>2, <2>3
<1>17. CASE nh # 0 /\ dl # 0 /\ dh # 0
  <2>1. sr \in -i .. i - 1  BY <1>5, <1>17
  <2>2. CASE sr < 0
    <3>1. sr \notin 0 .. i - 1  BY <1>3, <2>2
    <3> QED  BY <1>2, <1>5, <1>17, <2>2, <3>1
  <2>3. CASE sr >= 0
    <3>1. sr \in 0 .. i - 1  BY <1>3, <2>1, <2>3
    <3> QED  BY <1>2, <1>5, <1>17, <2>3, <3>1
  <2> QED  BY <1>3, <2>1, <2>2, <2>3
<1> QED  BY <1>14, <1>15, <1>16, <1>17

-----------------------------------------------------------------------------
(* Algorithm D, a digit at a time. *)

\* A dividend u:un and a normalised divisor vn1:vn0, by digits below b, and
\* their quotient q, a digit.
DigitDivision(u, un, vn1, vn0, b, q) ==
    /\ b \in Nat \ {0} /\ u \in Nat /\ un \in 0 .. b - 1
    /\ vn1 \in 1 .. b - 1 /\ vn0 \in 0 .. b - 1 /\ 2 * vn1 >= b
    /\ u < vn1 * b + vn0
    /\ q = (u * b + un) \div (vn1 * b + vn0)

\* What the test compares, by what is left of u: whether y exceeds the quotient.
LEMMA TestTells ==
    ASSUME NEW u, NEW un, NEW vn1, NEW vn0, NEW b, NEW q, DigitDivision(u, un, vn1, vn0, b, q),
           NEW y \in Nat
    PROVE  /\ q \in Nat /\ q < b
           /\ y * vn0 > b * (u - y * vn1) + un <=> y > q
<1>1. /\ b \in Nat \ {0} /\ u \in Nat /\ un \in 0 .. b - 1 /\ b \in Nat /\ un \in Nat
      /\ vn1 \in Nat /\ vn0 \in Nat /\ vn1 # 0
  BY DEF DigitDivision
<1>2. vn1 * b \in Nat /\ vn1 * b # 0  BY <1>1, SMT
<1>3. PICK v \in Nat \ {0} : v = vn1 * b + vn0  BY <1>1, <1>2
<1>4. u * b \in Nat  BY <1>1, SMT
<1>5. PICK m \in Nat : m = u * b + un  BY <1>1, <1>4
<1>6. q = m \div v  BY <1>3, <1>5 DEF DigitDivision
<1>7. q \in Nat  BY <1>6, DivMod
<1>8. q < b
  <2>1. m < b * v
    <3>1. u + 1 <= v  BY <1>1, <1>3 DEF DigitDivision
    <3>2. (u + 1) * b <= v * b
      <4>1. u + 1 \in Nat /\ v \in Nat  BY <1>1
      <4> QED  BY <1>1, <3>1, <4>1, TimesMonotone
    <3>3. (u + 1) * b = u * b + b /\ v * b = b * v /\ b * v \in Nat  BY <1>1, SMT
    <3> QED  BY <1>1, <1>4, <1>5, <3>2, <3>3
  <2> QED  BY <1>1, <1>6, <2>1, DivBelow
<1>9. y > q <=> y * v > m  BY <1>6, ExceedsQuotient
<1>10. y * v - m = y * vn0 - (b * (u - y * vn1) + un)
  <2>1. y * (vn1 * b + vn0) - (u * b + un) = y * vn0 - (b * (u - y * vn1) + un)
    <3>1. y \in Int /\ vn1 \in Int /\ b \in Int /\ vn0 \in Int /\ u \in Int /\ un \in Int
      BY <1>1
    <3> QED  BY <3>1, SMT
  <2> QED  BY <1>3, <1>5, <2>1
<1>11. PICK e \in Int, f \in Int, g \in Int :
          e = y * v /\ f = y * vn0 /\ g = b * (u - y * vn1) + un
  <2>1. y * v \in Int /\ y * vn0 \in Int /\ y * vn1 \in Int  BY <1>1, SMT
  <2>2. u - y * vn1 \in Int  BY <1>1, <2>1
  <2>3. PICK z \in Int : z = u - y * vn1  BY <2>2
  <2>4. b * z \in Int  BY <1>1, SMT
  <2> QED  BY <1>1, <2>1, <2>3, <2>4
<1>12. e > m <=> f > g  BY <1>10, <1>11
<1> QED  BY <1>7, <1>8, <1>9, <1>11, <1>12

\* With a digit or more of u left, the quotient is not exceeded.
LEMMA EnoughLeft ==
    ASSUME NEW u, NEW un, NEW vn1, NEW vn0, NEW b, NEW q, DigitDivision(u, un, vn1, vn0, b, q),
           NEW y \in Nat, y <= b, u - y * vn1 >= b
    PROVE  y <= q
<1>1. b \in Nat \ {0} /\ b \in Nat /\ vn0 \in 0 .. b - 1 /\ u \in Nat /\ un \in Nat /\ vn1 \in Nat
      /\ vn0 \in Nat
  BY DEF DigitDivision
<1>2. PICK z \in Nat : z = u - y * vn1 /\ z >= b
  <2>1. y * vn1 \in Int  BY <1>1, SMT
  <2> QED  BY <1>1, <2>1
<1>3. y * vn0 <= b * z + un
  <2>1. CASE vn0 = 0
    <3>1. y * vn0 = 0 /\ b * z \in Nat  BY <1>1, <2>1, SMT
    <3> QED  BY <1>1, <3>1
  <2>2. CASE vn0 # 0
    <3>1. y * vn0 <= b * vn0
      <4>1. vn0 \in Nat \ {0}  BY <1>1, <2>2
      <4> QED  BY <1>1, <4>1, TimesMonotone
    <3>2. vn0 * b <= z * b
      <4>1. vn0 <= z  BY <1>1, <1>2
      <4> QED  BY <1>1, <4>1, TimesMonotone
    <3>3. b * vn0 = vn0 * b /\ z * b = b * z /\ b * z \in Nat /\ y * vn0 \in Nat
          /\ b * vn0 \in Nat
      BY <1>1, SMT
    <3> QED  BY <1>1, <3>1, <3>2, <3>3
  <2> QED  BY <2>1, <2>2
<1>4. y * vn0 \in Nat /\ b * z \in Nat  BY <1>1, SMT
<1>5. q \in Nat /\ (y * vn0 > b * z + un <=> y > q)  BY <1>2, TestTells
<1> QED  BY <1>1, <1>3, <1>4, <1>5

\* The estimate is the digit of the quotient, once what is too large is taken off.
LEMMA DigitIs ==
    ASSUME NEW u, NEW un, NEW vn1, NEW vn0, NEW b, NEW q, DigitDivision(u, un, vn1, vn0, b, q),
           NEW i \in 0 .. WIDEST, b = Two[i]
    PROVE  QuotientDigit(u, un, vn1, vn0, i) = q
<1> DEFINE TooLarge(y, rhat) == y >= b \/ y * vn0 > b * rhat + un
           q0 == u \div vn1
           r0 == u - q0 * vn1
<1>1. QuotientDigit(u, un, vn1, vn0, i) =
          IF ~TooLarge(q0, r0) THEN q0
          ELSE IF r0 + vn1 >= b \/ ~TooLarge(q0 - 1, r0 + vn1) THEN q0 - 1
          ELSE q0 - 2
  BY DEF QuotientDigit
<1>2. /\ b \in Nat \ {0} /\ b \in Nat /\ u \in Nat /\ un \in 0 .. b - 1 /\ un \in Nat
      /\ vn1 \in Nat \ {0} /\ vn0 \in 0 .. b - 1 /\ vn0 \in Nat /\ 2 * vn1 >= b
      /\ u < vn1 * b + vn0
  BY DEF DigitDivision
<1>3. q \in Nat /\ q < b
  <2>1. 0 \in Nat  OBVIOUS
  <2> QED  BY <2>1, TestTells
<1>4. ASSUME NEW y \in Nat PROVE TooLarge(y, u - y * vn1) <=> y > q
  <2>1. y * vn0 > b * (u - y * vn1) + un <=> y > q  BY TestTells
  <2> QED  BY <1>2, <1>3, <2>1
<1> HIDE DEF TooLarge
<1>5. q0 \in Nat /\ r0 \in Nat /\ r0 = u - q0 * vn1
  <2>1. u \div vn1 \in Nat /\ u % vn1 \in 0 .. vn1 - 1 /\ u = (u \div vn1) * vn1 + (u % vn1)
    BY <1>2, DivMod
  <2>2. PICK y \in Nat, z \in Nat : y = q0 /\ u = y * vn1 + z  BY <2>1
  <2>3. y * vn1 \in Nat  BY <1>2, SMT
  <2> QED  BY <2>2, <2>3
<1>6. q <= q0
  <2>1. ~(q * vn1 > u)
    <3> SUFFICES ASSUME q * vn1 > u PROVE FALSE  OBVIOUS
    <3>1. b * (u - q * vn1) + un < 0
      <4>1. PICK z \in Nat : z = q * vn1 - u - 1
        <5>1. q * vn1 \in Nat  BY <1>2, <1>3, SMT
        <5> QED  BY <1>2, <5>1
      <4>2. b * z \in Nat  BY <1>2, SMT
      <4>3. b * (u - q * vn1) = -(b * z) - b
        <5>1. u - q * vn1 = -z - 1
          <6>1. q * vn1 \in Nat  BY <1>2, <1>3, SMT
          <6> QED  BY <1>2, <4>1, <6>1
        <5>2. b * (-z - 1) = -(b * z) - b  BY <1>2, SMT
        <5> QED  BY <5>1, <5>2
      <4> QED  BY <1>2, <4>2, <4>3
    <3>2. q * vn0 \in Nat  BY <1>2, <1>3, SMT
    <3>3. b * (u - q * vn1) + un \in Int
      <4>1. q * vn1 \in Int  BY <1>2, <1>3, SMT
      <4>2. PICK z \in Int : z = u - q * vn1  BY <1>2, <4>1
      <4>3. b * z \in Int  BY <1>2, SMT
      <4> QED  BY <1>2, <4>2, <4>3
    <3>4. q * vn0 > b * (u - q * vn1) + un  BY <3>1, <3>2, <3>3
    <3>5. q > q  BY <1>3, <3>4, TestTells
    <3> QED  BY <1>3, <3>5
  <2>2. q > u \div vn1 <=> q * vn1 > u  BY <1>2, <1>3, ExceedsQuotient
  <2> QED  BY <1>3, <1>5, <2>1, <2>2
<1>7. q0 <= b + 1
  <2>1. u < (b + 2) * vn1
    <3>1. (b + 2) * vn1 = vn1 * b + 2 * vn1 /\ vn1 * b \in Nat  BY <1>2, SMT
    <3> QED  BY <1>2, <3>1
  <2>2. b + 2 \in Nat  BY <1>2
  <2>3. u \div vn1 < b + 2  BY <1>2, <2>1, <2>2, DivBelow
  <2> QED  BY <1>2, <1>5, <2>3
<1> HIDE DEF q0, r0
<1>8. TooLarge(q0, r0) <=> q0 > q  BY <1>4, <1>5
<1>9. CASE ~(q0 > q)
  <2>1. q0 = q  BY <1>3, <1>5, <1>6, <1>9
  <2> QED  BY <1>1, <1>8, <1>9, <2>1
<1>10. CASE q0 > q
  <2>1. q0 - 1 \in Nat /\ q0 - 1 <= b /\ q <= q0 - 1  BY <1>2, <1>3, <1>5, <1>7, <1>10
  <2>2. r0 + vn1 = u - (q0 - 1) * vn1
    <3>1. (q0 - 1) * vn1 = q0 * vn1 - vn1 /\ q0 * vn1 \in Nat  BY <1>2, <1>5, SMT
    <3> QED  BY <1>2, <1>5, <3>1
  <2>3. TooLarge(q0 - 1, r0 + vn1) <=> q0 - 1 > q  BY <1>4, <2>1, <2>2
  <2>4. r0 + vn1 >= b => q0 - 1 <= q  BY <2>1, <2>2, EnoughLeft
  <2>5. CASE q0 - 1 <= q
    <3>1. q0 - 1 = q  BY <1>3, <2>1, <2>5
    <3>2. ~TooLarge(q0 - 1, r0 + vn1)  BY <1>3, <2>3, <3>1
    <3> QED  BY <1>1, <1>8, <1>10, <3>1, <3>2
  <2>6. CASE q0 - 1 > q
    <3>1. q0 - 2 \in Nat /\ q0 - 2 <= b /\ q <= q0 - 2  BY <1>2, <1>3, <1>5, <2>1, <2>6
    <3>2. u - (q0 - 2) * vn1 >= b
      <4>1. (q0 - 2) * vn1 = q0 * vn1 - 2 * vn1 /\ q0 * vn1 \in Nat  BY <1>2, <1>5, SMT
      <4> QED  BY <1>2, <1>5, <4>1
    <3>3. q0 - 2 <= q  BY <3>1, <3>2, EnoughLeft
    <3>4. q0 - 2 = q  BY <1>3, <3>1, <3>3
    <3>5. ~(r0 + vn1 >= b)  BY <1>3, <2>1, <2>4, <2>6
    <3> QED  BY <1>1, <1>8, <1>10, <2>3, <2>6, <3>4, <3>5
  <2> QED  BY <1>3, <2>1, <2>5, <2>6
<1> QED  BY <1>3, <1>5, <1>9, <1>10

\* One digit, the next digit un of the dividend, the normalised divisor in two
\* digits: the quotient, and what remains as a word.
GivesDigit(n, i, k, vs, u, un) ==
    \E q \in 0 .. k - 1, r \in 0 .. vs - 1 :
        /\ QuotientDigit(u, un, High(vs, n), Low(vs, n), i) = q
        /\ Wrap(u * k + un - q * vs, n) = r
        /\ u * k + un = q * vs + r

\* That is what comes of a dividend below the divisor.
LEMMA DigitStep ==
    ASSUME NEW n, NEW w, NEW h, NEW i, NEW k, AreHalves(n, w, h, i, k),
           NEW vs \in 0 .. w - 1, vs >= h, NEW u \in 0 .. vs - 1, NEW un \in 0 .. k - 1
    PROVE  GivesDigit(n, i, k, vs, u, un)
<1>1. /\ i \in Nat /\ i \in 1 .. WIDEST /\ n = i + i /\ k = Two[i] /\ k \in Nat \ {0}
      /\ n \in 2 .. WIDEST /\ WIDEST \in Nat /\ w = k * k /\ w = Two[n]
  BY DEF AreHalves
<1>2. w = 2 * h /\ h \in Nat /\ h >= 2 /\ w \in Nat \ {0}
  BY DEF AreHalves, IsSize
<1>3. PICK v1 \in 0 .. k - 1, v0 \in 0 .. k - 1 :
          v1 = High(vs, n) /\ v0 = Low(vs, n) /\ vs = v1 * k + v0 /\ v1 = vs \div k
  BY HalvesAre
<1>4. 2 * v1 >= k
  <2>1. PICK c \in Nat : k = 2 * c /\ h = c * k
    <3>1. i \in 0 .. WIDEST /\ i - 1 \in 0 .. WIDEST  BY <1>1
    <3>2. k = 2 * Two[i - 1] /\ Two[i - 1] \in Nat  BY <1>1, <3>1, TwoIs
    <3>3. PICK c \in Nat : c = Two[i - 1]  BY <3>2
    <3>4. k * k = 2 * (c * k) /\ c * k \in Nat
      <4>1. (2 * c) * k = 2 * (c * k) /\ c * k \in Nat  BY <1>1, SMT
      <4> QED  BY <3>2, <3>3, <4>1
    <3>5. h = c * k  BY <1>1, <1>2, <3>4
    <3> QED  BY <3>2, <3>3, <3>5
  <2>2. vs \in Nat  BY <1>2
  <2>3. c > vs \div k <=> c * k > vs  BY <1>1, <2>2, ExceedsQuotient
  <2>4. c <= v1  BY <1>2, <1>3, <2>1, <2>2, <2>3
  <2> QED  BY <1>3, <2>1, <2>4
<1>5. vs \in Nat \ {0} /\ vs \in Nat /\ u \in Nat /\ un \in Nat /\ k \in Nat  BY <1>1, <1>2
<1>6. u * k \in Nat  BY <1>5, SMT
<1>7. PICK m \in Nat : m = u * k + un  BY <1>5, <1>6
<1>8. PICK q \in Nat, r \in 0 .. vs - 1 : q = m \div vs /\ m = q * vs + r
  BY <1>5, <1>7, DivMod
<1>9. DigitDivision(u, un, v1, v0, k, q)
  <2>1. v1 \in 1 .. k - 1  BY <1>1, <1>3, <1>4
  <2>2. u < v1 * k + v0  BY <1>3, <1>5
  <2>3. q = (u * k + un) \div (v1 * k + v0)  BY <1>3, <1>7, <1>8
  <2> QED  BY <1>1, <1>3, <1>4, <1>5, <2>1, <2>2, <2>3 DEF DigitDivision
<1>10. QuotientDigit(u, un, v1, v0, i) = q
  <2>1. i \in 0 .. WIDEST  BY <1>1
  <2> QED  BY <1>1, <1>9, <2>1, DigitIs
<1>11. q \in 0 .. k - 1
  <2>1. 0 \in Nat  OBVIOUS
  <2>2. q < k  BY <1>9, <2>1, TestTells
  <2> QED  BY <1>5, <2>2
<1>12. u * k + un - q * vs = r
  <2>1. PICK e \in Nat : e = q * vs  BY <1>5, SMT
  <2>2. PICK f \in Nat : f = u * k  BY <1>6
  <2>3. f + un - e = r  BY <1>5, <1>7, <1>8, <2>1, <2>2
  <2> QED  BY <2>1, <2>2, <2>3, Zenon
<1>13. Wrap(r, n) = r
  <2>1. r \in 0 .. Two[n] - 1 /\ n \in 0 .. WIDEST  BY <1>1, <1>2
  <2> QED  BY <2>1, WordStays
<1>14. /\ QuotientDigit(u, un, High(vs, n), Low(vs, n), i) = q
       /\ Wrap(u * k + un - q * vs, n) = r
       /\ u * k + un = q * vs + r
  BY <1>3, <1>7, <1>8, <1>10, <1>12, <1>13
<1> QED  BY <1>8, <1>11, <1>14, Zenon DEF GivesDigit

\* A dividend u1:u0 and its divisor v, shifted up by s bits until the divisor
\* has its top bit set.
Normalised(u1, u0, v, n, w, h, s, vs, un64, un10) ==
    /\ Two[s] \in Nat \ {0} /\ s \in 0 .. n - 1
    /\ vs \in 0 .. w - 1 /\ vs >= h /\ vs = v * Two[s]
    /\ un64 \in 0 .. vs - 1 /\ un10 \in 0 .. w - 1
    /\ un64 * w + un10 = (u1 * w + u0) * Two[s]

\* What the code computes is that.
LEMMA Normalising ==
    ASSUME NEW n, NEW w, NEW h, IsSize(n, w, h), NEW v \in 1 .. w - 1, NEW u1 \in 0 .. v - 1,
           NEW u0 \in 0 .. w - 1, NEW s, s = Clz(v, n)
    PROVE  Normalised(u1, u0, v, n, w, h, s, Shl(v, s, n),
                      IF s > 0 THEN Wrap(Shl(u1, s, n) + Shr(u0, n - s, n), n) ELSE u1,
                      Shl(u0, s, n))
<1>1. /\ w = Two[n] /\ h = Two[n - 1] /\ w \in Nat \ {0} /\ h \in Nat
      /\ n \in 2 .. WIDEST /\ n \in 1 .. WIDEST /\ WIDEST \in Nat /\ n \in 0 .. WIDEST
  BY WIDESTAssumption DEF IsSize
<1>2. PICK l \in 1 .. n : HasLength(v, l) /\ s = n - l
  <2>1. v \in 1 .. Two[n] - 1  BY <1>1
  <2> QED  BY <1>1, <2>1, ClzIs
<1>3. /\ s \in 0 .. n - 1 /\ s \in Nat /\ l = n - s /\ l + s = n /\ l - 1 \in Nat
      /\ (l - 1) + s = n - 1 /\ l \in Nat /\ n <= WIDEST /\ n - 1 <= WIDEST
      /\ l \in 0 .. WIDEST /\ l - 1 \in 0 .. WIDEST /\ s \in 0 .. WIDEST /\ n - l = s
      /\ l \in 1 .. n
  BY <1>1, <1>2
<1>4. PICK t \in Nat \ {0}, y \in Nat \ {0}, x \in Nat \ {0} :
          t = Two[s] /\ y = Two[l] /\ x = Two[l - 1]
  BY <1>3, PowerIs
<1>5. w = y * t /\ h = x * t
  <2>1. Two[l + s] = Two[l] * Two[s] /\ Two[(l - 1) + s] = Two[l - 1] * Two[s]
    BY <1>3, TwoTimes
  <2> QED  BY <1>1, <1>3, <1>4, <2>1
<1>6. x <= v /\ v < y  BY <1>2, <1>4 DEF HasLength
<1>7. v \in Nat /\ u1 \in Nat /\ u0 \in Nat /\ t \in Nat /\ x \in Nat /\ y \in Nat /\ u1 + 1 \in Nat
      /\ u1 + 1 <= v
  BY <1>1
<1>8. PICK vs \in Nat : vs = v * t /\ vs >= h /\ vs < w
  <2>1. x * t <= v * t  BY <1>6, <1>7, TimesMonotone
  <2>2. ~(y * t <= v * t)  BY <1>6, <1>7, TimesMonotone
  <2>3. v * t \in Nat /\ y * t \in Nat /\ x * t \in Nat  BY <1>7, SMT
  <2> QED  BY <1>5, <2>1, <2>2, <2>3
<1>9. PICK z \in Nat : z = u1 * t /\ z + t <= vs
  <2>1. (u1 + 1) * t <= v * t  BY <1>7, TimesMonotone
  <2>2. (u1 + 1) * t = u1 * t + t /\ u1 * t \in Nat  BY <1>7, SMT
  <2> QED  BY <1>8, <2>1, <2>2
<1>10. ASSUME NEW a \in Nat, a * t < w PROVE Shl(a, s, n) = a * t
  <2>1. s % n = s
    <3>1. n \in Nat \ {0}  BY <1>1
    <3>2. s \in 0 .. n - 1  BY <1>3
    <3> QED  BY <3>1, <3>2
  <2>2. PICK e \in Nat : e = a * t  BY <1>7, SMT
  <2>3. e \in 0 .. Two[n] - 1  BY <1>1, <1>10, <2>2
  <2>4. Wrap(e, n) = e  BY <1>1, <2>3, WordStays
  <2> QED  BY <1>4, <2>1, <2>2, <2>4 DEF Shl
<1>11. Shl(v, s, n) = vs  BY <1>7, <1>8, <1>10
<1>12. Shl(u1, s, n) = z
  <2>1. u1 * t < w  BY <1>1, <1>7, <1>8, <1>9
  <2> QED  BY <1>7, <1>9, <1>10, <2>1
<1>13. PICK top \in 0 .. t - 1, rest \in 0 .. y - 1 :
           top = u0 \div y /\ rest = u0 % y /\ u0 = top * y + rest
  <2>1. u0 \in 0 .. Two[n] - 1 /\ l \in 0 .. n  BY <1>1, <1>3
  <2>2. /\ u0 \div Two[l] \in 0 .. Two[n - l] - 1 /\ u0 % Two[l] \in 0 .. Two[l] - 1
        /\ u0 = (u0 \div Two[l]) * Two[l] + (u0 % Two[l])
    BY <1>1, <2>1, PartsAre
  <2> QED  BY <1>3, <1>4, <2>2
<1>14. PICK low \in 0 .. w - 1 : low = rest * t /\ Shl(u0, s, n) = low
  <2>1. u0 \in 0 .. Two[n] - 1  BY <1>1
  <2>2. Shl(u0, n - l, n) = (u0 % Two[l]) * Two[n - l]  BY <1>1, <1>3, <2>1, ShlIs
  <2>3. Shl(u0, s, n) = rest * t  BY <1>3, <1>4, <1>13, <2>2
  <2>4. rest * t + 0 \in 0 .. y * t - 1
    <3>1. rest \in Nat /\ rest < y /\ 0 \in 0 .. t - 1  BY <1>7
    <3> QED  BY <1>7, <3>1, WordsBelow
  <2>5. rest * t \in Nat
    <3>1. rest \in Nat  OBVIOUS
    <3> QED  BY <1>7, <3>1, SMT
  <2> QED  BY <1>5, <2>3, <2>4, <2>5
<1> DEFINE un64 == IF s > 0 THEN Wrap(Shl(u1, s, n) + Shr(u0, n - s, n), n) ELSE u1
<1>15. un64 = z + top
  <2>1. CASE s > 0
    <3>1. l \in 0 .. n - 1  BY <1>1, <1>3, <2>1
    <3>2. Shr(u0, n - s, n) = top
      <4>1. Shr(u0, l, n) = u0 \div Two[l]  BY <1>1, <3>1, ShrIs
      <4> QED  BY <1>3, <1>4, <1>13, <4>1
    <3>3. z + top \in 0 .. Two[n] - 1  BY <1>1, <1>8, <1>9
    <3>4. Wrap(z + top, n) = z + top
      <4>1. PICK e \in 0 .. Two[n] - 1 : e = z + top  BY <3>3
      <4> QED  BY <1>1, <4>1, WordStays
    <3> QED  BY <1>12, <2>1, <3>2, <3>4
  <2>2. CASE s = 0
    <3>1. t = 1  BY <1>4, <2>2, TwoIs
    <3>2. top = 0 /\ z = u1 * 1 /\ u1 * 1 = u1  BY <1>7, <1>9, <3>1
    <3> QED  BY <1>7, <2>2, <3>2
  <2> QED  BY <1>3, <2>1, <2>2
<1>16. un64 \in 0 .. vs - 1  BY <1>7, <1>8, <1>9, <1>15
<1>17. un64 * w + low = (u1 * w + u0) * t
  <2>1. (u1 * t + top) * (y * t) + rest * t = (u1 * (y * t) + (top * y + rest)) * t
    <3>1. u1 \in Int /\ t \in Int /\ top \in Int /\ y \in Int /\ rest \in Int  BY <1>7
    <3> QED  BY <3>1, SMT
  <2> HIDE DEF un64
  <2> QED  BY <1>5, <1>9, <1>13, <1>14, <1>15, <2>1
<1> HIDE DEF un64
<1>18. Normalised(u1, u0, v, n, w, h, s, vs, un64, low)
  <2>1. vs \in 0 .. w - 1 /\ vs = v * Two[s]  BY <1>1, <1>4, <1>8
  <2>2. un64 * w + low = (u1 * w + u0) * Two[s]  BY <1>4, <1>17, Zenon
  <2>3. Two[s] \in Nat \ {0} /\ s \in 0 .. n - 1 /\ vs >= h /\ un64 \in 0 .. vs - 1
        /\ low \in 0 .. w - 1
    BY <1>3, <1>4, <1>8, <1>16
  <2> QED  BY <2>1, <2>2, <2>3, Zenon DEF Normalised
<1> QED  BY <1>11, <1>14, <1>18 DEF un64

\* Two digits, one after the other, are the quotient; what remains is shifted back.
InTwoDigits(w, k, t, v, vs, un64, d1, d0, q1, q0, r1, r0, u) ==
    /\ w \in Nat \ {0} /\ k \in Nat \ {0} /\ w = k * k /\ t \in Nat \ {0}
    /\ v \in Nat \ {0} /\ vs \in Nat \ {0} /\ vs = v * t
    /\ un64 \in Nat /\ d1 \in Nat /\ d0 \in Nat /\ q1 \in Nat /\ q0 \in Nat
    /\ r1 \in Nat /\ r0 \in 0 .. vs - 1 /\ u \in Nat
    /\ un64 * w + (d1 * k + d0) = u * t
    /\ un64 * k + d1 = q1 * vs + r1 /\ r1 * k + d0 = q0 * vs + r0

\* The quotient of both is that of the dividend as it was.
LEMMA TwoDigits ==
    ASSUME NEW w, NEW k, NEW t, NEW v, NEW vs, NEW un64, NEW d1, NEW d0, NEW q1, NEW q0,
           NEW r1, NEW r0, NEW u, InTwoDigits(w, k, t, v, vs, un64, d1, d0, q1, q0, r1, r0, u)
    PROVE  Both(q1 * k + q0, r0 \div t) = Divide(u, v)
<1> SUFFICES ASSUME w \in Nat \ {0}, k \in Nat \ {0}, w = k * k, t \in Nat \ {0},
                    v \in Nat \ {0}, vs \in Nat \ {0}, vs = v * t,
                    un64 \in Nat, d1 \in Nat, d0 \in Nat, q1 \in Nat, q0 \in Nat,
                    r1 \in Nat, r0 \in 0 .. vs - 1, u \in Nat,
                    un64 * w + (d1 * k + d0) = u * t,
                    un64 * k + d1 = q1 * vs + r1, r1 * k + d0 = q0 * vs + r0
             PROVE  Both(q1 * k + q0, r0 \div t) = Divide(u, v)
  BY Zenon DEF InTwoDigits
<1> DEFINE q == q1 * k + q0
<1>1. u * t = (q * v) * t + r0
  <2>1. un64 * (k * k) + (d1 * k + d0) = (un64 * k + d1) * k + d0
    <3>1. un64 \in Int /\ k \in Int /\ d1 \in Int /\ d0 \in Int  OBVIOUS
    <3> QED  BY <3>1, SMT
  <2>2. (q1 * vs + r1) * k + d0 = (q1 * k) * vs + (r1 * k + d0)
    <3>1. q1 \in Int /\ vs \in Int /\ r1 \in Int /\ k \in Int /\ d0 \in Int  OBVIOUS
    <3> QED  BY <3>1, SMT
  <2>3. (q1 * k) * (v * t) + (q0 * (v * t) + r0) = ((q1 * k + q0) * v) * t + r0
    <3>1. q1 \in Int /\ v \in Int /\ t \in Int /\ k \in Int /\ q0 \in Int /\ r0 \in Int  OBVIOUS
    <3> QED  BY <3>1, SMT
  <2>4. u * t = (q1 * vs + r1) * k + d0  BY <2>1, Zenon
  <2>5. u * t = (q1 * k) * vs + (r1 * k + d0)  BY <2>2, <2>4, Zenon
  <2>6. u * t = (q1 * k) * (v * t) + (q0 * (v * t) + r0)  BY <2>5, Zenon
  <2> QED  BY <2>3, <2>6, Zenon
<1>2. q \in Nat
  <2>1. q1 * k \in Nat  BY SMT
  <2> QED  BY <2>1
<1> HIDE DEF q
<1>3. PICK e \in Nat : e = q * v  BY <1>2, SMT
<1>4. e <= u
  <2>1. e * t <= u * t
    <3>1. e * t \in Nat  BY SMT
    <3> QED  BY <1>1, <1>3, <3>1
  <2> QED  BY <2>1, TimesMonotone
<1>5. PICK r \in Nat : u = e + r
  <2>1. u - e \in Nat /\ u = e + (u - e)  BY <1>4
  <2> QED  BY <2>1
<1>6. r0 = r * t
  <2>1. (e + r) * t = e * t + r * t /\ e * t \in Nat /\ r * t \in Nat  BY SMT
  <2> QED  BY <1>1, <1>3, <1>5, <2>1
<1>7. r < v
  <2>1. r0 < v * t  OBVIOUS
  <2>2. v \in Nat  OBVIOUS
  <2>3. v <= r => v * t <= r * t  BY <2>2, TimesMonotone
  <2>4. v * t \in Nat /\ r * t \in Nat  BY <2>2, SMT
  <2> QED  BY <1>6, <2>1, <2>2, <2>3, <2>4
<1>8. r0 \div t = r
  <2>1. 0 \in 0 .. t - 1 /\ r * t + 0 = r * t
    <3>1. r * t \in Nat  BY SMT
    <3> QED  BY <3>1
  <2>2. (r * t + 0) \div t = r  BY <2>1, DivModUnique
  <2> QED  BY <1>6, <2>1, <2>2
<1>9. Both(q, r) = Divide(u, v)
  <2>1. r \in 0 .. v - 1 /\ u = q * v + r  BY <1>3, <1>5, <1>7
  <2> QED  BY <1>2, <2>1, DivideIs
<1> QED  BY <1>8, <1>9 DEF q

\* A word and its upper half, digit by digit, by a divisor above that half.
LEMMA TwoDigitsDivide ==
    ASSUME NEW n, NEW w, NEW h, IsSize(n, w, h), n % 2 = 0,
           NEW v \in 1 .. w - 1, NEW u1 \in 0 .. v - 1, NEW u0 \in 0 .. w - 1
    PROVE  udiv128by64to64default(u1, u0, v, n) = Divide(u1 * Two[n] + u0, v)
<1> DEFINE i == n \div 2
           k == Two[i]
           s == Clz(v, n)
           vs == Shl(v, s, n)
           un64 == IF s > 0 THEN Wrap(Shl(u1, s, n) + Shr(u0, n - s, n), n) ELSE u1
           un10 == Shl(u0, s, n)
           d1 == High(un10, n)
           d0 == Low(un10, n)
           q1 == QuotientDigit(un64, d1, High(vs, n), Low(vs, n), i)
           un21 == Wrap(un64 * k + d1 - q1 * vs, n)
           q0 == QuotientDigit(un21, d0, High(vs, n), Low(vs, n), i)
           end == Wrap(un21 * k + d0 - q0 * vs, n)
<1>2. udiv128by64to64default(u1, u0, v, n) = Both(q1 * k + q0, Shr(end, s, n))
  BY Zenon DEF udiv128by64to64default
<1> HIDE DEF s, vs, un64, un10, d1, d0, q1, un21, q0, end
<1>0. AreHalves(n, w, h, i, k)  BY HalvesOf
<1> HIDE DEF i, k
<1>1. /\ AreHalves(n, w, h, i, k) /\ k \in Nat \ {0} /\ w = k * k /\ w = Two[n]
      /\ w \in Nat \ {0} /\ n \in 2 .. WIDEST /\ n \in 1 .. WIDEST /\ WIDEST \in Nat /\ h \in Nat
  BY <1>0 DEF AreHalves, IsSize
<1>3. Normalised(u1, u0, v, n, w, h, s, vs, un64, un10)  BY Normalising DEF s, vs, un64, un10
<1>4. /\ Two[s] \in Nat \ {0} /\ s \in 0 .. n - 1
      /\ vs \in 0 .. w - 1 /\ vs >= h /\ vs = v * Two[s]
      /\ un64 \in 0 .. vs - 1 /\ un10 \in 0 .. w - 1
      /\ un64 * w + un10 = (u1 * w + u0) * Two[s]
  BY <1>3, Zenon DEF Normalised
<1>5. d1 \in 0 .. k - 1 /\ d0 \in 0 .. k - 1 /\ un10 = d1 * k + d0  BY <1>1, <1>4, HalvesAre DEF d1, d0
<1>6. /\ q1 \in Nat /\ un21 \in 0 .. vs - 1 /\ un64 * k + d1 = q1 * vs + un21
  <2>1. GivesDigit(n, i, k, vs, un64, d1)  BY <1>1, <1>4, <1>5, DigitStep
  <2>2. PICK q \in 0 .. k - 1, r \in 0 .. vs - 1 :
            q1 = q /\ un21 = r /\ un64 * k + d1 = q * vs + r
    BY <2>1, Zenon DEF GivesDigit, q1, un21
  <2>3. q \in Nat  BY <1>1
  <2> QED  BY <2>2, <2>3, Zenon
<1>7. /\ q0 \in Nat /\ end \in 0 .. vs - 1 /\ un21 * k + d0 = q0 * vs + end
  <2>1. GivesDigit(n, i, k, vs, un21, d0)  BY <1>1, <1>4, <1>5, <1>6, DigitStep
  <2>2. PICK q \in 0 .. k - 1, r \in 0 .. vs - 1 :
            q0 = q /\ end = r /\ un21 * k + d0 = q * vs + r
    BY <2>1, Zenon DEF GivesDigit, q0, end
  <2>3. q \in Nat  BY <1>1
  <2> QED  BY <2>2, <2>3, Zenon
<1>8. Shr(end, s, n) = end \div Two[s]  BY <1>1, <1>4, ShrIs
<1>9. PICK u \in Nat : u = u1 * w + u0
  <2>1. u1 \in Nat /\ u0 \in Nat  BY <1>1
  <2>2. u1 * w \in Nat  BY <1>1, <2>1, SMT
  <2> QED  BY <2>1, <2>2
<1>10. Both(q1 * k + q0, end \div Two[s]) = Divide(u, v)
  <2>1. /\ v \in Nat \ {0} /\ vs \in Nat \ {0} /\ un64 \in Nat /\ d1 \in Nat /\ d0 \in Nat
        /\ un21 \in Nat /\ end \in 0 .. vs - 1 /\ q1 \in Nat /\ q0 \in Nat
    BY <1>1, <1>4, <1>5, <1>6, <1>7
  <2>2. PICK t \in Nat \ {0} : t = Two[s]  BY <1>4
  <2>3. un64 * w + (d1 * k + d0) = u * t  BY <1>4, <1>5, <1>9, <2>2, Zenon
  <2>4. vs = v * t  BY <1>4, <2>2
  <2>5. k \in Nat \ {0} /\ w \in Nat \ {0} /\ w = k * k  BY <1>1
  <2>6. un64 * k + d1 = q1 * vs + un21 /\ un21 * k + d0 = q0 * vs + end  BY <1>6, <1>7
  <2>7. InTwoDigits(w, k, t, v, vs, un64, d1, d0, q1, q0, un21, end, u)
    BY <2>1, <2>3, <2>4, <2>5, <2>6, Zenon DEF InTwoDigits
  <2>8. Both(q1 * k + q0, end \div t) = Divide(u, v)  BY <2>7, TwoDigits
  <2> QED  BY <2>2, <2>8
<1> QED  BY <1>1, <1>2, <1>8, <1>9, <1>10

-----------------------------------------------------------------------------
(* The loop of __udivmodti4. *)

\* Once around it: the divisor is taken off if it can be, and moves down a bit.
OneTake(s, n, i) ==
    LET takes == Reaches(s.a, s.b, n)
    IN  [a |-> IF takes THEN Wrap(s.a - s.b, n) ELSE s.a, b |-> s.b \div 2,
         q |-> Wrap(2 * s.q + (IF takes THEN 1 ELSE 0), i)]

\* What it keeps from turn to turn.
Taking(n, i) == [a : 0 .. Two[n] - 1, b : 0 .. Two[n] - 1, q : 0 .. Two[i] - 1]

\* A turn leaves words.
LEMMA TakeLeavesWords ==
    ASSUME NEW n \in 0 .. WIDEST, NEW i \in 0 .. WIDEST, NEW s \in Taking(n, i)
    PROVE  OneTake(s, n, i) \in Taking(n, i)
<1>1. Two[n] \in Nat \ {0} /\ Two[i] \in Nat \ {0}  BY PowerIs
<1>2. s.a \in 0 .. Two[n] - 1 /\ s.b \in 0 .. Two[n] - 1 /\ s.q \in 0 .. Two[i] - 1
  BY DEF Taking
<1>3. s.a \in Int /\ s.b \in Nat /\ s.q \in Int  BY <1>1, <1>2
<1> DEFINE takes == Reaches(s.a, s.b, n)
           a1 == IF takes THEN Wrap(s.a - s.b, n) ELSE s.a
           b1 == s.b \div 2
           c == IF takes THEN 1 ELSE 0
           q1 == Wrap(2 * s.q + c, i)
<1>4. OneTake(s, n, i) = [a |-> a1, b |-> b1, q |-> q1]  BY DEF OneTake
<1>5. c \in {0, 1}  OBVIOUS
<1> HIDE DEF takes
<1>6. a1 \in 0 .. Two[n] - 1
  <2>1. s.a - s.b \in Int  BY <1>3
  <2>2. Wrap(s.a - s.b, n) \in 0 .. Two[n] - 1  BY <2>1, WrapIsWord
  <2> QED  BY <1>2, <2>2
<1>7. b1 \in 0 .. Two[n] - 1
  <2>1. PICK x \in Nat : x = s.b  BY <1>3
  <2>2. x \div 2 \in 0 .. x  BY SMT
  <2> QED  BY <1>1, <1>2, <2>1, <2>2
<1>8. q1 \in 0 .. Two[i] - 1
  <2>1. 2 * s.q + c \in Int  BY <1>3, <1>5
  <2> QED  BY <2>1, WrapIsWord
<1> HIDE DEF a1, b1, q1
<1> QED  BY <1>4, <1>6, <1>7, <1>8 DEF Taking

\* k turns of the loop, from start.
TakesGo(f, start, n, i, k) ==
    /\ f[0] = start
    /\ \A j \in 1 .. k : f[j] = OneTake(f[j - 1], n, i)

\* A loop that starts from words goes turn by turn.
LEMMA TakingGoes ==
    ASSUME NEW n \in 0 .. WIDEST, NEW i \in 0 .. WIDEST, NEW start \in Taking(n, i), NEW k \in Nat
    PROVE  TakesGo(CHOOSE g : g = [j \in 0 .. k |-> IF j = 0 THEN start
                                                     ELSE OneTake(g[j - 1], n, i)],
                   start, n, i, k)
<1> DEFINE S == Taking(n, i)
           step == [j \in 1 .. k |-> [s \in S |-> OneTake(s, n, i)]]
           IsAfter(g) == g = [j \in 0 .. k |-> IF j = 0 THEN start ELSE OneTake(g[j - 1], n, i)]
           after == CHOOSE g : IsAfter(g)
<1>1. step \in [1 .. k -> [S -> S]]
  <2>1. \A s \in S : OneTake(s, n, i) \in S  BY TakeLeavesWords
  <2> HIDE DEF S
  <2> QED  BY <2>1
<1> HIDE DEF S
<1>2. PICK f \in Walks(k, S, start, step) : TRUE
  <2>1. start \in S  BY DEF S
  <2> HIDE DEF step
  <2> QED  BY <1>1, <2>1, RecursionExists
<1>3. f \in [0 .. k -> S] /\ f[0] = start /\ \A j \in 1 .. k : f[j] = OneTake(f[j - 1], n, i)
  <2>1. f \in [0 .. k -> S] /\ f[0] = start /\ \A j \in 1 .. k : f[j] = step[j][f[j - 1]]
    <3> HIDE DEF step
    <3> QED  BY <1>2 DEF Walks
  <2>2. ASSUME NEW j \in 1 .. k PROVE f[j] = OneTake(f[j - 1], n, i)
    <3>1. j - 1 \in 0 .. k  OBVIOUS
    <3>2. f[j - 1] \in S /\ f[j] = step[j][f[j - 1]]  BY <2>1, <3>1
    <3> QED  BY <3>2
  <2> QED  BY <2>1, <2>2
<1>4. IsAfter(f)
  <2>1. \A j \in 0 .. k : f[j] = IF j = 0 THEN start ELSE OneTake(f[j - 1], n, i)  BY <1>3
  <2> QED  BY <1>3, <2>1
<1>5. IsAfter(after)  BY <1>4, Zenon
<1>6. TakesGo(after, start, n, i, k)
  <2> HIDE DEF after
  <2>1. \A j \in 0 .. k : after[j] = IF j = 0 THEN start ELSE OneTake(after[j - 1], n, i)
    BY <1>5
  <2>2. after[0] = start /\ \A j \in 1 .. k : after[j] = OneTake(after[j - 1], n, i)  BY <2>1
  <2> QED  BY <2>2 DEF TakesGo
<1> QED  BY <1>6, Zenon

\* A turn with room for it takes the divisor off just when it is not the larger.
LEMMA TakeIs ==
    ASSUME NEW n, NEW w, NEW h, IsSize(n, w, h), NEW i \in 1 .. WIDEST, NEW s \in Taking(n, i),
           s.b \in 1 .. w - 1, s.b - s.a - 1 \in -h .. h - 1, 2 * s.q + 1 < Two[i]
    PROVE  \/ /\ s.a < s.b
              /\ OneTake(s, n, i) = [a |-> s.a, b |-> s.b \div 2, q |-> 2 * s.q]
           \/ /\ s.a >= s.b
              /\ OneTake(s, n, i) = [a |-> s.a - s.b, b |-> s.b \div 2, q |-> 2 * s.q + 1]
<1>1. w = Two[n] /\ n \in 1 .. WIDEST /\ w \in Nat  BY PowerIs DEF IsSize
<1>2. s.a \in 0 .. w - 1 /\ s.b \in 1 .. w - 1 /\ s.q \in Nat  BY <1>1 DEF Taking
<1>3. s.a \in Nat /\ s.b \in Nat  BY <1>1, <1>2
<1>4. i \in 0 .. WIDEST /\ n \in 0 .. WIDEST /\ Two[i] \in Nat  BY <1>1, PowerIs
<1>5. Reaches(s.a, s.b, n) <=> s.a >= s.b
  <2>1. s.b \in 0 .. w - 1  BY <1>1, <1>2
  <2> QED  BY <1>2, <2>1, ReachesTells
<1>6. CASE s.a < s.b
  <2>1. Wrap(2 * s.q + 0, i) = 2 * s.q
    <3>1. 2 * s.q + 0 \in 0 .. Two[i] - 1 /\ 2 * s.q + 0 = 2 * s.q  BY <1>2, <1>4
    <3> QED  BY <1>4, <3>1, WordStays
  <2>2. ~Reaches(s.a, s.b, n)  BY <1>3, <1>5, <1>6
  <2>3. OneTake(s, n, i) = [a |-> s.a, b |-> s.b \div 2, q |-> 2 * s.q]
    BY <2>1, <2>2, Zenon DEF OneTake
  <2> QED  BY <1>6, <2>3
<1>7. CASE s.a >= s.b
  <2>1. Wrap(2 * s.q + 1, i) = 2 * s.q + 1
    <3>1. 2 * s.q + 1 \in 0 .. Two[i] - 1  BY <1>2, <1>4
    <3> QED  BY <1>4, <3>1, WordStays
  <2>2. Wrap(s.a - s.b, n) = s.a - s.b
    <3>1. s.a - s.b \in 0 .. Two[n] - 1  BY <1>1, <1>2, <1>3, <1>7
    <3> QED  BY <1>4, <3>1, WordStays
  <2>3. Reaches(s.a, s.b, n)  BY <1>5, <1>7
  <2>4. OneTake(s, n, i) = [a |-> s.a - s.b, b |-> s.b \div 2, q |-> 2 * s.q + 1]
    BY <2>1, <2>2, <2>3, Zenon DEF OneTake
  <2> QED  BY <1>7, <2>4
<1> QED  BY <1>3, <1>6, <1>7

\* After j turns of sh + 1: q and a are quotient and remainder by twice the
\* divisor of the turn to come, b moved up to where that turn has it.
AtTake(s, a, b, sh, j, n, i) ==
    /\ s \in Taking(n, i) /\ s.q < Two[j]
    /\ a = s.q * (b * Two[sh + 1 - j]) + s.a /\ s.a < b * Two[sh + 1 - j]
    /\ j <= sh => s.b = b * Two[sh - j]

\* What a turn does to the numbers.
LEMMA TakeInNumbers ==
    ASSUME NEW a \in Nat, NEW q \in Nat, NEW d \in Nat, NEW x \in Nat, a = q * (2 * d) + x
    PROVE  a = (2 * q) * d + x /\ a = (2 * q + 1) * d + (x - d)
<1>1. q * (2 * d) = (2 * q) * d /\ (2 * q + 1) * d = (2 * q) * d + d  BY SMT
<1>2. (2 * q) * d \in Nat  OBVIOUS
<1> QED  BY <1>1, <1>2

\* A turn goes from there to there, if its test can tell.
LEMMA TakeDivides ==
    ASSUME NEW n, NEW w, NEW h, IsSize(n, w, h), NEW i \in 1 .. n, NEW a \in 0 .. w - 1,
           NEW b \in 1 .. w - 1, NEW sh \in 0 .. i - 1, b * Two[sh] < w,
           b * Two[sh] - a - 1 \in -h .. h - 1,
           NEW j \in 0 .. sh, NEW s, AtTake(s, a, b, sh, j, n, i)
    PROVE  AtTake(OneTake(s, n, i), a, b, sh, j + 1, n, i)
<1>1. /\ n \in 1 .. WIDEST /\ w = Two[n] /\ w \in Nat /\ h \in Nat /\ w = 2 * h /\ n \in 0 .. WIDEST
      /\ WIDEST \in Nat
  <2>1. n \in 1 .. WIDEST /\ w = Two[n] /\ h \in Nat /\ w = 2 * h  BY DEF IsSize
  <2>2. WIDEST \in Nat  BY WIDESTAssumption
  <2> QED  BY <2>1, <2>2
<1>2. i \in 1 .. WIDEST /\ sh - j \in 0 .. i - 1 /\ sh + 1 - j \in 1 .. i /\ j + 1 \in 1 .. i
  BY <1>1
<1>3. /\ sh - j \in 0 .. WIDEST /\ sh + 1 - j \in 0 .. WIDEST /\ j \in 0 .. WIDEST
      /\ j + 1 \in 0 .. WIDEST /\ i \in 0 .. WIDEST /\ sh \in 0 .. WIDEST
  BY <1>1, <1>2
<1>4. PICK t \in Nat \ {0} : t = Two[sh - j]  BY <1>3, PowerIs
<1>5. Two[sh + 1 - j] = 2 * t
  <2>1. sh + 1 - j \in 1 .. WIDEST /\ (sh + 1 - j) - 1 = sh - j  BY <1>1, <1>2
  <2> QED  BY <1>4, <2>1, TwoIs
<1>6. PICK d \in Nat \ {0} : d = b * t /\ b * Two[sh + 1 - j] = 2 * d
  <2>1. b \in Nat \ {0}  BY <1>1
  <2>2. b * t \in Nat \ {0} /\ b * (2 * t) = 2 * (b * t)  BY <2>1, SMT
  <2> QED  BY <1>5, <2>2
<1>7. s \in Taking(n, i) /\ s.q < Two[j] /\ a = s.q * (2 * d) + s.a /\ s.a < 2 * d /\ s.b = d
  BY <1>4, <1>6 DEF AtTake
<1>8. s.a \in Nat /\ s.q \in Nat /\ a \in Nat /\ s.a \in 0 .. w - 1
  BY <1>1, <1>3, <1>7, PowerIs DEF Taking
<1>9. Two[j + 1] = 2 * Two[j] /\ Two[j] \in Nat /\ Two[j + 1] <= Two[i] /\ Two[i] \in Nat
  <2>1. j + 1 \in 1 .. WIDEST /\ (j + 1) - 1 = j  BY <1>1, <1>2
  <2>2. j + 1 \in 0 .. i  BY <1>2
  <2> QED  BY <1>3, <2>1, <2>2, TwoIs, PowerIs, PowersGrow
<1>10. 2 * s.q + 1 < Two[i]  BY <1>7, <1>8, <1>9
<1>11. s.b \in 1 .. w - 1 /\ s.b - s.a - 1 \in -h .. h - 1
  <2>1. CASE j = 0
    <3>1. sh - j = sh /\ Two[j] = 1  BY <1>3, <2>1, TwoIs
    <3>2. s.q = 0  BY <1>7, <1>8, <3>1
    <3>3. s.q * (2 * d) = 0  BY <3>2
    <3>4. s.a = a  BY <1>7, <1>8, <3>3
    <3>5. b * Two[sh] = d  BY <1>4, <1>6, <3>1
    <3> QED  BY <1>1, <1>7, <3>4, <3>5
  <2>2. CASE j # 0
    <3>1. sh - j + 1 \in 0 .. sh /\ sh - j + 1 = sh + 1 - j  BY <1>1, <2>2
    <3>2. Two[sh + 1 - j] <= Two[sh] /\ Two[sh] \in Nat  BY <1>3, <3>1, PowersGrow, PowerIs
    <3>3. 2 * d <= b * Two[sh]
      <4>1. PICK y \in Nat : y = Two[sh]  BY <3>2
      <4>2. b \in Nat /\ 2 * t \in Nat /\ 2 * t <= y  BY <1>1, <1>5, <3>2, <4>1
      <4>3. b * (2 * t) <= b * y  BY <4>1, <4>2, TimesMonotone
      <4> QED  BY <1>5, <1>6, <4>1, <4>3
    <3>4. b * Two[sh] \in Nat  BY <1>1, <3>2
    <3>5. 2 * d < w  BY <1>1, <3>3, <3>4
    <3> QED  BY <1>1, <1>7, <1>8, <3>5
  <2> QED  BY <2>1, <2>2
<1>12. j + 1 <= sh => s.b \div 2 = b * Two[sh - (j + 1)]
  <2> SUFFICES ASSUME j + 1 <= sh PROVE s.b \div 2 = b * Two[sh - (j + 1)]  OBVIOUS
  <2>1. sh - j \in 1 .. WIDEST /\ (sh - j) - 1 = sh - (j + 1)  BY <1>1, <1>3
  <2>2. PICK y \in Nat : y = Two[sh - (j + 1)] /\ t = 2 * y
    <3>1. sh - (j + 1) \in 0 .. WIDEST  BY <1>1, <2>1
    <3> QED  BY <1>4, <2>1, <3>1, TwoIs, PowerIs
  <2>3. d = 2 * (b * y) /\ b * y \in Nat
    <3>1. b \in Nat  BY <1>1
    <3>2. b * (2 * y) = 2 * (b * y) /\ b * y \in Nat  BY <3>1, SMT
    <3> QED  BY <1>6, <2>2, <3>2
  <2>4. PICK z \in Nat : z = b * y  BY <2>3
  <2>5. (2 * z) \div 2 = z  BY SMT
  <2> QED  BY <1>7, <2>2, <2>3, <2>4, <2>5
<1>13. b * Two[sh + 1 - (j + 1)] = d
  <2>1. sh + 1 - (j + 1) = sh - j  BY <1>1
  <2> QED  BY <1>4, <1>6, <2>1
<1>14. OneTake(s, n, i) \in Taking(n, i)  BY <1>1, <1>3, <1>7, TakeLeavesWords
<1>15. a = (2 * s.q) * d + s.a /\ a = (2 * s.q + 1) * d + (s.a - d)
  BY <1>7, <1>8, TakeInNumbers
<1> DEFINE e == OneTake(s, n, i)
<1>16. /\ e.q < Two[j + 1] /\ a = e.q * d + e.a /\ e.a < d /\ e.b = s.b \div 2
  <2>1. \/ s.a < d /\ e = [a |-> s.a, b |-> s.b \div 2, q |-> 2 * s.q]
        \/ s.a >= d /\ e = [a |-> s.a - d, b |-> s.b \div 2, q |-> 2 * s.q + 1]
    <3>1. s.b = d  BY <1>7
    <3> QED  BY <1>2, <1>7, <1>10, <1>11, <3>1, TakeIs
  <2> HIDE DEF e
  <2>2. CASE s.a < d /\ e = [a |-> s.a, b |-> s.b \div 2, q |-> 2 * s.q]
    <3>1. e.q = 2 * s.q /\ e.a = s.a /\ e.b = s.b \div 2  BY <2>2
    <3>2. 2 * s.q < Two[j + 1]  BY <1>7, <1>8, <1>9
    <3>3. a = e.q * d + e.a  BY <1>15, <3>1, Zenon
    <3> QED  BY <2>2, <3>1, <3>2, <3>3
  <2>3. CASE s.a >= d /\ e = [a |-> s.a - d, b |-> s.b \div 2, q |-> 2 * s.q + 1]
    <3>1. e.q = 2 * s.q + 1 /\ e.a = s.a - d /\ e.b = s.b \div 2  BY <2>3
    <3>2. 2 * s.q + 1 < Two[j + 1]  BY <1>7, <1>8, <1>9
    <3>3. a = e.q * d + e.a  BY <1>15, <3>1, Zenon
    <3>4. s.a - d < d  BY <1>7, <1>8
    <3> QED  BY <3>1, <3>2, <3>3, <3>4
  <2> QED  BY <2>1, <2>2, <2>3
<1> HIDE DEF e
<1>17. e \in Taking(n, i)  BY <1>14 DEF e
<1>18. AtTake(e, a, b, sh, j + 1, n, i)
  BY <1>12, <1>13, <1>16, <1>17 DEF AtTake
<1> QED  BY <1>18 DEF e

\* So the loop gives quotient and remainder.
LEMMA TakesDivide ==
    ASSUME NEW n, NEW w, NEW h, IsSize(n, w, h), NEW i \in 1 .. n, NEW a \in 0 .. w - 1,
           NEW b \in 1 .. w - 1, NEW sh \in 0 .. i - 1, b * Two[sh] < w,
           b * Two[sh] - a - 1 \in -h .. h - 1, a < b * Two[sh + 1],
           NEW f, TakesGo(f, [a |-> a, b |-> b * Two[sh], q |-> 0], n, i, sh + 1)
    PROVE  Both(f[sh + 1].q, f[sh + 1].a) = Divide(a, b)
<1>1. /\ n \in 1 .. WIDEST /\ w = Two[n] /\ w \in Nat /\ n \in 0 .. WIDEST /\ WIDEST \in Nat
      /\ i \in 0 .. WIDEST /\ sh \in 0 .. WIDEST /\ sh + 1 \in 0 .. WIDEST
  <2>1. n \in 1 .. WIDEST /\ w = Two[n] /\ w \in Nat  BY DEF IsSize
  <2>2. WIDEST \in Nat  BY WIDESTAssumption
  <2> QED  BY <2>1, <2>2
<1>2. a \in Nat /\ b \in Nat \ {0}  BY <1>1
<1>3. f[0] = [a |-> a, b |-> b * Two[sh], q |-> 0]
      /\ \A j \in 1 .. sh + 1 : f[j] = OneTake(f[j - 1], n, i)
  BY DEF TakesGo
<1> DEFINE Good == {j \in 0 .. sh + 1 : AtTake(f[j], a, b, sh, j, n, i)}
<1>4. 0 \in Good
  <2>1. f[0].a = a /\ f[0].b = b * Two[sh] /\ f[0].q = 0  BY <1>3
  <2>2. Two[sh] \in Nat /\ Two[sh + 1] \in Nat /\ Two[i] \in Nat \ {0} /\ Two[0] = 1
    BY <1>1, PowerIs, TwoIs
  <2>3. b * Two[sh] \in 0 .. Two[n] - 1  BY <1>1, <1>2, <2>2
  <2>4. f[0] \in Taking(n, i)
    <3>1. a \in 0 .. Two[n] - 1 /\ 0 \in 0 .. Two[i] - 1  BY <1>1, <2>2
    <3> QED  BY <1>3, <2>3, <3>1 DEF Taking
  <2>5. sh + 1 - 0 = sh + 1 /\ sh - 0 = sh  BY <1>1
  <2>6. 0 * (b * Two[sh + 1]) + a = a
    <3>1. b * Two[sh + 1] \in Int  BY <1>2, <2>2
    <3> QED  BY <1>2, <3>1, SMT
  <2>7. AtTake(f[0], a, b, sh, 0, n, i)
    <3>1. f[0].q < Two[0]  BY <2>1, <2>2
    <3>2. a = f[0].q * (b * Two[sh + 1 - 0]) + f[0].a  BY <2>1, <2>5, <2>6
    <3>3. f[0].a < b * Two[sh + 1 - 0]  BY <2>1, <2>5
    <3>4. f[0].b = b * Two[sh - 0]  BY <2>1, <2>5
    <3> QED  BY <2>4, <3>1, <3>2, <3>3, <3>4 DEF AtTake
  <2>8. 0 \in 0 .. sh + 1  BY <1>1
  <2> QED  BY <2>7, <2>8
<1>5. \A j \in 0 .. (sh + 1) - 1 : j \in Good => j + 1 \in Good
  <2> SUFFICES ASSUME NEW j \in 0 .. (sh + 1) - 1, AtTake(f[j], a, b, sh, j, n, i)
               PROVE  AtTake(f[j + 1], a, b, sh, j + 1, n, i) /\ j + 1 \in 0 .. sh + 1
    BY <1>1
  <2>1. j \in 0 .. sh /\ j + 1 \in 1 .. sh + 1 /\ (j + 1) - 1 = j  BY <1>1
  <2>2. f[j + 1] = OneTake(f[j], n, i)
    <3>1. f[j + 1] = OneTake(f[(j + 1) - 1], n, i)  BY <1>3, <2>1
    <3> QED  BY <2>1, <3>1, Zenon
  <2>3. AtTake(OneTake(f[j], n, i), a, b, sh, j + 1, n, i)  BY <2>1, TakeDivides
  <2> QED  BY <2>1, <2>2, <2>3
<1> HIDE DEF Good
<1>6. 0 .. sh + 1 \subseteq Good
  <2>1. sh + 1 \in Nat  BY <1>1
  <2> QED  BY <1>4, <1>5, <2>1, InductionUpTo
<1>7. AtTake(f[sh + 1], a, b, sh, sh + 1, n, i)
  <2>1. sh + 1 \in 0 .. sh + 1  BY <1>1
  <2> QED  BY <1>6, <2>1 DEF Good
<1> DEFINE q == f[sh + 1].q
           r == f[sh + 1].a
<1>8. q \in Nat /\ r \in 0 .. b - 1 /\ a = q * b + r
  <2>1. sh + 1 - (sh + 1) = 0 /\ Two[0] = 1  BY <1>1, TwoIs
  <2>2. b * Two[sh + 1 - (sh + 1)] = b  BY <1>2, <2>1
  <2>3. f[sh + 1] \in Taking(n, i) /\ a = q * b + r /\ r < b  BY <1>7, <2>2, Zenon DEF AtTake
  <2>4. q \in Nat /\ r \in Nat  BY <1>1, <2>3, PowerIs DEF Taking
  <2> QED  BY <1>2, <2>3, <2>4
<1> HIDE DEF q, r
<1>9. Both(q, r) = Divide(a, b)  BY <1>2, <1>8, DivideIs
<1> QED  BY <1>9 DEF q, r

\* Lined up with the dividend by sh bits, the divisor fits its word, and the sign
\* of the difference can tell which is the larger.
LinedUp(n, w, h, i, a, b, sh) ==
    /\ sh \in 0 .. i - 1 /\ b * Two[sh] < w /\ Shl(b, sh, n) = b * Two[sh]
    /\ b * Two[sh] - a - 1 \in -h .. h - 1 /\ a < b * Two[sh + 1]

\* The leading zeros of the upper halves line it up.
LEMMA LiningUp ==
    ASSUME NEW n, NEW w, NEW h, NEW i, NEW k, AreHalves(n, w, h, i, k), NEW a \in 0 .. w - 1,
           NEW b \in 1 .. w - 1, High(b, n) # 0, b <= a
    PROVE  LinedUp(n, w, h, i, a, b, Clz(High(b, n), i) - Clz(High(a, n), i))
<1>1. /\ IsSize(n, w, h) /\ n \in 1 .. WIDEST /\ w = Two[n] /\ w \in Nat \ {0} /\ n = i + i
      /\ i \in Nat /\ i \in 1 .. WIDEST /\ k = Two[i] /\ k \in Nat \ {0} /\ WIDEST \in Nat
      /\ h = Two[n - 1] /\ h \in Nat /\ w = 2 * h
  BY DEF AreHalves, IsSize
<1>2. b \in 0 .. w - 1 /\ a \in Nat /\ b \in Nat  BY <1>1
<1> DEFINE ah == High(a, n)
           bh == High(b, n)
<1>3. ah \in 0 .. k - 1 /\ bh \in 1 .. k - 1
  BY <1>1, <1>2, HalvesAre
<1>4. PICK lb \in 1 .. i : HasLength(bh, lb) /\ Clz(bh, i) = i - lb
  <2> HIDE DEF bh
  <2> QED  BY <1>1, <1>3, ClzIs
<1>5. HasLength(b, i + lb)  BY <1>1, <1>2, <1>4, UpperLength
<1>6. Two[i + lb - 1] \in Nat /\ k <= Two[i + lb - 1]
  <2>1. i + lb - 1 \in 0 .. WIDEST /\ i \in 0 .. i + lb - 1  BY <1>1
  <2> QED  BY <1>1, <2>1, PowerIs, PowersGrow
<1>7. k <= a
  <2>1. (i + lb) - 1 = i + lb - 1  BY <1>1
  <2>2. Two[i + lb - 1] <= b  BY <1>5, <2>1 DEF HasLength
  <2> QED  BY <1>1, <1>2, <1>6, <2>2
<1>8. ah \in 1 .. k - 1
  <2>1. Low(a, n) \in 0 .. k - 1 /\ a = ah * k + Low(a, n)  BY <1>1, HalvesAre
  <2> HIDE DEF ah
  <2>2. CASE ah = 0
    <3>1. ah * k = 0  BY <1>1, <2>2
    <3>2. a = Low(a, n)  BY <1>1, <2>1, <3>1
    <3> QED  BY <1>1, <1>7, <2>1, <3>2
  <2> QED  BY <1>1, <1>3, <2>2
<1>9. PICK la \in 1 .. i : HasLength(ah, la) /\ Clz(ah, i) = i - la
  <2> HIDE DEF ah
  <2> QED  BY <1>1, <1>8, ClzIs
<1>10. HasLength(a, i + la)  BY <1>1, <1>9, UpperLength
<1>11. lb <= la
  <2> SUFFICES ASSUME la < lb PROVE FALSE  BY <1>1
  <2>1. i + la \in 1 .. WIDEST /\ i + lb \in 1 .. WIDEST /\ i + la < i + lb  BY <1>1
  <2>2. a < b  BY <1>2, <1>5, <1>10, <2>1, ShorterIsSmaller
  <2> QED  BY <1>2, <2>2
<1> DEFINE sh == Clz(bh, i) - Clz(ah, i)
<1>12. sh = la - lb /\ sh \in 0 .. i - 1  BY <1>1, <1>4, <1>9, <1>11
<1> HIDE DEF sh
<1> DEFINE t == Two[i + la - 1]
<1>13. /\ i + la - 1 \in 0 .. n - 1 /\ i + la - 1 \in 0 .. WIDEST /\ n - 1 \in 0 .. WIDEST
       /\ i + la \in 1 .. WIDEST /\ i + la - 1 = (i + lb - 1) + sh /\ i + lb - 1 \in Nat
       /\ sh + 1 \in 1 .. WIDEST /\ sh \in 0 .. WIDEST /\ (i + la) - 1 = i + la - 1
       /\ i + lb - 1 + sh <= WIDEST /\ (sh + 1) - 1 = sh /\ sh \in Nat
       /\ i + lb + sh = i + la /\ i + lb \in Nat
  BY <1>1, <1>12
<1>14. t \in Nat \ {0} /\ t <= h /\ Two[i + la] = 2 * t
  <2>1. t \in Nat \ {0} /\ t <= h  BY <1>1, <1>13, PowerIs, PowersGrow
  <2>2. Two[i + la] = 2 * t  BY <1>13, TwoIs
  <2> QED  BY <2>1, <2>2
<1>15. t <= a /\ a < 2 * t
  BY <1>10, <1>13, <1>14 DEF HasLength
<1>16. PICK y \in Nat \ {0} : y = Two[sh]  BY <1>13, PowerIs
<1>17. b * y \in Nat /\ t <= b * y /\ b * y < 2 * t
  <2>1. t = Two[i + lb - 1] * y
    <3>1. Two[(i + lb - 1) + sh] = Two[i + lb - 1] * Two[sh]  BY <1>13, TwoTimes
    <3> QED  BY <1>13, <1>16, <3>1
  <2>2. 2 * t = Two[i + lb] * y
    <3>1. i + lb + sh <= WIDEST  BY <1>13
    <3>2. Two[(i + lb) + sh] = Two[i + lb] * Two[sh]  BY <1>13, <3>1, TwoTimes
    <3> QED  BY <1>13, <1>14, <1>16, <3>2
  <2>3. Two[i + lb] \in Nat
    <3>1. i + lb \in 0 .. WIDEST  BY <1>1
    <3> QED  BY <3>1, PowerIs
  <2>4. Two[i + lb - 1] <= b /\ b < Two[i + lb]
    <3>1. (i + lb) - 1 = i + lb - 1  BY <1>1
    <3> QED  BY <1>5, <3>1 DEF HasLength
  <2>5. Two[i + lb - 1] * y <= b * y  BY <1>2, <1>6, <2>4, TimesMonotone
  <2>6. PICK u \in Nat : u = Two[i + lb]  BY <2>3
  <2>7. b + 1 <= u /\ b + 1 \in Nat  BY <1>2, <2>4, <2>6
  <2>8. (b + 1) * y <= u * y  BY <2>6, <2>7, TimesMonotone
  <2>9. (b + 1) * y = b * y + y /\ b * y \in Nat  BY <1>2, SMT
  <2>10. PICK z \in Nat : z = b * y  BY <2>9
  <2>11. t <= z  BY <2>1, <2>5, <2>10
  <2>12. z + y <= 2 * t  BY <2>2, <2>6, <2>8, <2>9, <2>10
  <2> QED  BY <1>14, <2>10, <2>11, <2>12
<1> HIDE DEF t
<1>18. b * y < w /\ b * y - a - 1 \in -h .. h - 1
  <2>1. PICK z \in Nat : z = b * y  BY <1>17
  <2>2. z < w /\ z - a - 1 \in -h .. h - 1  BY <1>1, <1>2, <1>14, <1>15, <1>17, <2>1
  <2> QED  BY <2>1, <2>2
<1>19. a < b * Two[sh + 1]
  <2>1. Two[sh + 1] = 2 * y  BY <1>13, <1>16, TwoIs
  <2>2. b * (2 * y) = 2 * (b * y)  BY <1>2, SMT
  <2>3. a < 2 * (b * y)  BY <1>2, <1>14, <1>15, <1>17
  <2> QED  BY <2>1, <2>2, <2>3
<1>20. Shl(b, sh, n) = b * Two[sh]
  <2>1. sh % n = sh
    <3>1. n \in Nat \ {0} /\ sh \in 0 .. n - 1  BY <1>1, <1>12
    <3> QED  BY <3>1
  <2>2. Wrap(b * Two[sh], n) = b * Two[sh]
    <3>1. b * Two[sh] \in 0 .. Two[n] - 1  BY <1>1, <1>16, <1>17, <1>18
    <3>2. n \in 0 .. WIDEST  BY <1>1
    <3> QED  BY <3>1, <3>2, WordStays
  <2> QED  BY <2>1, <2>2 DEF Shl
<1>21. LinedUp(n, w, h, i, a, b, sh)
  BY <1>12, <1>16, <1>18, <1>19, <1>20 DEF LinedUp
<1> QED  BY <1>21 DEF sh

\* The processor's division, or the two digits that stand for it elsewhere.
LEMMA EitherDivides ==
    ASSUME NEW n, NEW w, NEW h, NEW i, NEW k, AreHalves(n, w, h, i, k), i % 2 = 0,
           NEW v \in 1 .. k - 1, NEW u1 \in 0 .. v - 1, NEW u0 \in 0 .. k - 1, NEW x86_64 \in BOOLEAN
    PROVE  udiv128by64to64(u1, u0, v, i, x86_64) = Divide(u1 * k + u0, v)
<1>1. i \in 1 .. WIDEST /\ k = Two[i] /\ WIDEST \in Nat  BY DEF AreHalves
<1>2. i \in 2 .. WIDEST
  <2>1. i # 1  OBVIOUS
  <2> QED  BY <1>1, <2>1
<1>3. IsSize(i, k, Two[i - 1])  BY <1>1, <1>2, SizeIs
<1>4. udiv128by64to64default(u1, u0, v, i) = Divide(u1 * Two[i] + u0, v)
  BY <1>3, TwoDigitsDivide
<1> QED  BY <1>1, <1>4, Zenon DEF udiv128by64to64

\* Two digits in a larger base: the first of the upper half, the second of its
\* remainder and the lower half.
SchoolDivision(k, b, ah, al, q1, r1, q0, r0) ==
    /\ k \in Nat \ {0} /\ b \in Nat \ {0} /\ ah \in Nat /\ al \in Nat
    /\ q1 \in Nat /\ r1 \in Nat /\ q0 \in Nat /\ r0 \in 0 .. b - 1
    /\ ah = q1 * b + r1 /\ r1 * k + al = q0 * b + r0

\* They are the quotient of both halves.
LEMMA SchoolDivides ==
    ASSUME NEW k, NEW b, NEW ah, NEW al, NEW q1, NEW r1, NEW q0, NEW r0,
           SchoolDivision(k, b, ah, al, q1, r1, q0, r0)
    PROVE  Both(q1 * k + q0, r0) = Divide(ah * k + al, b)
<1>1. /\ k \in Nat \ {0} /\ b \in Nat \ {0} /\ ah \in Nat /\ al \in Nat
      /\ q1 \in Nat /\ r1 \in Nat /\ q0 \in Nat /\ r0 \in 0 .. b - 1
      /\ ah = q1 * b + r1 /\ r1 * k + al = q0 * b + r0
  BY DEF SchoolDivision
<1>2. k \in Int /\ b \in Int /\ q1 \in Int /\ r1 \in Int /\ q0 \in Int /\ r0 \in Nat  BY <1>1
<1>3. (q1 * b + r1) * k = (q1 * k) * b + r1 * k /\ (q1 * k + q0) * b = (q1 * k) * b + q0 * b
  BY <1>2, SMT
<1>4. (q1 * k) * b \in Int /\ r1 * k \in Int /\ q0 * b \in Int  BY <1>2, SMT
<1>5. ah * k + al = (q1 * k + q0) * b + r0
  <2>1. ah * k = (q1 * k) * b + r1 * k  BY <1>1, <1>3, Zenon
  <2>2. PICK e \in Int, f \in Int, g \in Int :
            e = (q1 * k) * b /\ f = r1 * k /\ g = q0 * b
    BY <1>4
  <2>3. ah * k = e + f /\ f + al = g + r0 /\ (q1 * k + q0) * b = e + g
    BY <1>1, <1>3, <2>1, <2>2
  <2> QED  BY <1>1, <1>2, <2>2, <2>3
<1>6. q1 * k + q0 \in Nat /\ ah * k + al \in Nat  BY <1>1, SMT
<1>7. PICK m \in Nat, q \in Nat : m = ah * k + al /\ q = q1 * k + q0  BY <1>6
<1>8. m = q * b + r0  BY <1>5, <1>7
<1>9. Both(q, r0) = Divide(m, b)
  <2>1. b \in Nat \ {0} /\ r0 \in 0 .. b - 1  BY <1>1
  <2> QED  BY <1>8, <2>1, DivideIs
<1> QED  BY <1>7, <1>9

\* __udivmodti4 by a divisor of one half.
LEMMA HalfDivisor ==
    ASSUME NEW n, NEW w, NEW h, NEW i, NEW k, AreHalves(n, w, h, i, k), i % 2 = 0,
           NEW a \in 0 .. w - 1, NEW b \in 1 .. k - 1, NEW x86_64 \in BOOLEAN
    PROVE  LET low == udiv128by64to64(High(a, n) % b, Low(a, n), b, i, x86_64)
           IN  Both(Whole(High(a, n) \div b, low.q, n), low.r) = Divide(a, b)
<1> DEFINE ah == High(a, n)
           al == Low(a, n)
           q1 == ah \div b
           r1 == ah % b
           m == r1 * k + al
           q0 == m \div b
           r0 == m % b
           low == udiv128by64to64(r1, al, b, i, x86_64)
<1>1. k \in Nat \ {0} /\ w \in Nat \ {0}  BY DEF AreHalves
<1>2. ah \in 0 .. k - 1 /\ al \in 0 .. k - 1 /\ a = ah * k + al  BY HalvesAre
<1> HIDE DEF ah, al
<1>3. b \in Nat \ {0} /\ ah \in Nat /\ al \in Nat /\ b \in Nat  BY <1>1, <1>2
<1>4. q1 \in Nat /\ r1 \in 0 .. b - 1 /\ ah = q1 * b + r1  BY <1>3, DivMod
<1>5. q1 \in 0 .. k - 1
  <2>1. 1 * ah <= b * ah
    <3>1. CASE ah = 0  BY <1>3, <3>1
    <3>2. CASE ah # 0
      <4>1. ah \in Nat \ {0} /\ 1 \in Nat /\ 1 <= b  BY <1>3, <3>2
      <4> QED  BY <1>3, <4>1, TimesMonotone
    <3> QED  BY <3>1, <3>2
  <2>2. ah < k * b
    <3>1. ah + 1 <= k /\ ah + 1 \in Nat  BY <1>1, <1>2
    <3>2. (ah + 1) * b <= k * b  BY <1>1, <1>3, <3>1, TimesMonotone
    <3>3. (ah + 1) * b = b * ah + b /\ b * ah \in Nat /\ k * b \in Nat  BY <1>1, <1>3, SMT
    <3> QED  BY <1>3, <2>1, <3>2, <3>3
  <2>3. q1 < k  BY <1>1, <1>3, <2>2, DivBelow
  <2> QED  BY <1>1, <1>4, <2>3
<1> HIDE DEF q1, r1
<1>6. m \in 0 .. b * k - 1
  <2>1. r1 \in Nat /\ r1 < b  BY <1>3, <1>4
  <2> QED  BY <1>1, <1>2, <1>3, <2>1, WordsBelow
<1>7. m \in Nat /\ m < k * b
  <2>1. b * k = k * b /\ b * k \in Nat  BY <1>1, <1>3, SMT
  <2> HIDE DEF m
  <2> QED  BY <1>6, <2>1
<1>8. q0 \in Nat /\ r0 \in 0 .. b - 1 /\ m = q0 * b + r0 /\ q0 < k
  <2> HIDE DEF m
  <2> QED  BY <1>1, <1>3, <1>7, DivMod, DivBelow
<1>9. low = Divide(m, b)  BY <1>2, <1>4, EitherDivides
<1>10. low.q = q0 /\ low.r = r0
  <2> HIDE DEF low, m
  <2> QED  BY <1>9 DEF Divide, Both
<1> HIDE DEF q0, r0, low
<1>11. Whole(q1, q0, n) = q1 * k + q0
  <2>1. q0 \in 0 .. k - 1  BY <1>1, <1>8
  <2> QED  BY <1>5, <2>1, WholeIs
<1>12. SchoolDivision(k, b, ah, al, q1, r1, q0, r0)
  <2>1. r1 \in Nat  BY <1>3, <1>4
  <2>2. r1 * k + al = q0 * b + r0  BY <1>8
  <2> HIDE DEF m
  <2> QED  BY <1>1, <1>3, <1>4, <1>8, <2>1, <2>2 DEF SchoolDivision
<1>13. Both(q1 * k + q0, r0) = Divide(a, b)
  <2>1. Both(q1 * k + q0, r0) = Divide(ah * k + al, b)  BY <1>12, SchoolDivides
  <2> QED  BY <1>2, <2>1, Zenon
<1> QED  BY <1>10, <1>11, <1>13, Zenon DEF low, q1, r1, ah, al

\* __udivmodti4 gives quotient and remainder.
LEMMA UdivmodtiDivides ==
    ASSUME NEW n, NEW w, NEW h, IsSize(n, w, h), n % 4 = 0,
           NEW a \in 0 .. w - 1, NEW b \in 1 .. w - 1, NEW x86_64 \in BOOLEAN
    PROVE  udivmodti4(a, b, n, x86_64) = Divide(a, b)
<1> DEFINE i == n \div 2
           k == Two[i]
<1>1. n % 2 = 0 /\ i % 2 = 0
  <2>1. n \in Nat  BY DEF IsSize
  <2> QED  BY <2>1, SMT
<1>2. AreHalves(n, w, h, i, k)  BY <1>1, HalvesOf
<1> DEFINE ah == High(a, n)
           bh == High(b, n)
           sh == Clz(bh, i) - Clz(ah, i)
           start == [a |-> a, b |-> Shl(b, sh, n), q |-> 0]
           from == CHOOSE g : g = [j \in 0 .. sh + 1 |->
                                      IF j = 0 THEN start ELSE OneTake(g[j - 1], n, i)]
           low == udiv128by64to64(ah % b, Low(a, n), b, i, x86_64)
<1>3. udivmodti4(a, b, n, x86_64) =
          IF b > a THEN Both(0, a)
          ELSE IF bh = 0 THEN Both(Whole(ah \div b, low.q, n), low.r)
          ELSE Both(from[sh + 1].q, from[sh + 1].a)
  BY Zenon DEF udivmodti4, OneTake
<1> HIDE DEF k, low, from
<1>4. /\ k \in Nat \ {0} /\ w \in Nat \ {0} /\ n \in 0 .. WIDEST /\ i \in 0 .. WIDEST
      /\ i \in 1 .. n /\ w = Two[n] /\ WIDEST \in Nat /\ a \in Nat /\ b \in Nat \ {0} /\ k = Two[i]
  <2>1. /\ k \in Nat \ {0} /\ w \in Nat \ {0} /\ n \in 2 .. WIDEST /\ i \in 1 .. WIDEST
        /\ w = Two[n] /\ WIDEST \in Nat /\ n = i + i
    BY <1>2 DEF AreHalves
  <2> HIDE DEF i
  <2> QED  BY <2>1 DEF k
<1> HIDE DEF i
<1>5. CASE b > a
  <2>1. Both(0, a) = Divide(a, b)
    <3>1. a = 0 * b + a /\ a \in 0 .. b - 1 /\ 0 \in Nat  BY <1>4, <1>5
    <3> QED  BY <1>4, <3>1, DivideIs
  <2> QED  BY <1>3, <1>5, <2>1
<1>6. CASE ~(b > a) /\ bh = 0
  <2>1. b \in 1 .. k - 1
    <3>1. b \in 0 .. w - 1  BY <1>4
    <3>2. Low(b, n) \in 0 .. k - 1 /\ b = bh * k + Low(b, n)  BY <1>2, <3>1, HalvesAre
    <3> HIDE DEF bh
    <3>3. bh * k = 0  BY <1>4, <1>6
    <3> QED  BY <1>4, <3>2, <3>3
  <2>2. Both(Whole(ah \div b, low.q, n), low.r) = Divide(a, b)
    BY <1>1, <1>2, <2>1, HalfDivisor DEF low
  <2> QED  BY <1>3, <1>6, <2>2, Zenon
<1>7. CASE ~(b > a) /\ bh # 0
  <2>1. LinedUp(n, w, h, i, a, b, sh)
    <3>1. b <= a  BY <1>4, <1>7
    <3> QED  BY <1>2, <1>7, <3>1, LiningUp
  <2> HIDE DEF ah, bh, sh
  <2>2. /\ sh \in 0 .. i - 1 /\ b * Two[sh] < w /\ Shl(b, sh, n) = b * Two[sh]
        /\ b * Two[sh] - a - 1 \in -h .. h - 1 /\ a < b * Two[sh + 1]
    BY <2>1 DEF LinedUp
  <2>3. start \in Taking(n, i) /\ sh + 1 \in Nat
    <3>1. Two[i] \in Nat \ {0}  BY <1>4
    <3>2. Two[sh] \in Nat
      <4>1. sh \in 0 .. WIDEST  BY <1>4, <2>2
      <4> QED  BY <4>1, PowerIs
    <3>3. b * Two[sh] \in Nat  BY <1>4, <3>2
    <3>4. Shl(b, sh, n) \in 0 .. Two[n] - 1  BY <1>4, <2>2, <3>3
    <3>5. a \in 0 .. Two[n] - 1 /\ 0 \in 0 .. Two[i] - 1 /\ sh + 1 \in Nat  BY <1>4, <2>2, <3>1
    <3> QED  BY <3>4, <3>5 DEF Taking
  <2>4. TakesGo(from, start, n, i, sh + 1)
    <3> HIDE DEF start
    <3> QED  BY <1>4, <2>3, TakingGoes DEF from
  <2>5. start = [a |-> a, b |-> b * Two[sh], q |-> 0]  BY <2>2, Zenon
  <2>6. TakesGo(from, [a |-> a, b |-> b * Two[sh], q |-> 0], n, i, sh + 1)  BY <2>4, <2>5, Zenon
  <2>7. Both(from[sh + 1].q, from[sh + 1].a) = Divide(a, b)
    BY <1>4, <2>2, <2>6, TakesDivide
  <2> QED  BY <1>3, <1>7, <2>7, Zenon
<1> QED  BY <1>5, <1>6, <1>7

-----------------------------------------------------------------------------
(* The signed divisions. *)

\* Two signed numbers, their magnitudes and the quotient and remainder of these.
Magnitudes(x, y, u, v, q, r) ==
    /\ x \in Int /\ y \in Int /\ u \in Nat /\ v \in Nat \ {0}
    /\ u = (IF x < 0 THEN -x ELSE x) /\ v = (IF y < 0 THEN -y ELSE y)
    /\ q \in Nat /\ r \in Nat /\ u = q * v + r /\ q = u \div v

\* The quotient towards zero has the sign of both, and leaves a remainder with
\* that of the dividend.
LEMMA RoundsTowards0 ==
    ASSUME NEW x, NEW y, NEW u, NEW v, NEW q, NEW r, Magnitudes(x, y, u, v, q, r)
    PROVE  /\ Towards0(x, y) = IF (x < 0) <=> (y < 0) THEN q ELSE -q
           /\ x - Towards0(x, y) * y = IF x < 0 THEN -r ELSE r
<1>1. /\ x \in Int /\ y \in Int /\ u \in Nat /\ v \in Nat \ {0}
      /\ u = (IF x < 0 THEN -x ELSE x) /\ v = (IF y < 0 THEN -y ELSE y)
      /\ q \in Nat /\ r \in Nat /\ u = q * v + r /\ q = u \div v
  BY DEF Magnitudes
<1>2. Towards0(x, y) = IF (x < 0) <=> (y < 0) THEN u \div v ELSE -(u \div v)
  <2>1. CASE x < 0 /\ y < 0
    <3>1. u = -x /\ v = -y /\ (x < 0) = TRUE /\ (y < 0) = TRUE  BY <1>1, <2>1
    <3> QED  BY <3>1, <2>1, Zenon DEF Towards0
  <2>2. CASE x < 0 /\ ~(y < 0)
    <3>1. u = -x /\ v = y /\ (x < 0) = TRUE /\ (y < 0) = FALSE  BY <1>1, <2>2
    <3> QED  BY <3>1, <2>2, Zenon DEF Towards0
  <2>3. CASE ~(x < 0) /\ y < 0
    <3>1. u = x /\ v = -y /\ (x < 0) = FALSE /\ (y < 0) = TRUE  BY <1>1, <2>3
    <3> QED  BY <3>1, <2>3, Zenon DEF Towards0
  <2>4. CASE ~(x < 0) /\ ~(y < 0)
    <3>1. u = x /\ v = y /\ (x < 0) = FALSE /\ (y < 0) = FALSE  BY <1>1, <2>4
    <3> QED  BY <3>1, <2>4, Zenon DEF Towards0
  <2> QED  BY <2>1, <2>2, <2>3, <2>4
<1>3. Towards0(x, y) = IF (x < 0) <=> (y < 0) THEN q ELSE -q  BY <1>1, <1>2
<1>4. PICK e \in Nat : e = q * v  BY <1>1, SMT
<1>5. q * (-v) = -e /\ (-q) * v = -e /\ (-q) * (-v) = e
  <2>1. q \in Int /\ v \in Int  BY <1>1
  <2> QED  BY <1>4, <2>1, SignsOut
<1>6. Towards0(x, y) * y = IF x < 0 THEN -e ELSE e
  <2>1. CASE x < 0 /\ y < 0
    <3>1. Towards0(x, y) = q /\ y = -v  BY <1>1, <1>3, <2>1
    <3> QED  BY <1>5, <2>1, <3>1
  <2>2. CASE x < 0 /\ ~(y < 0)
    <3>1. Towards0(x, y) = -q /\ y = v  BY <1>1, <1>3, <2>2
    <3> QED  BY <1>5, <2>2, <3>1
  <2>3. CASE ~(x < 0) /\ y < 0
    <3>1. Towards0(x, y) = -q /\ y = -v  BY <1>1, <1>3, <2>3
    <3> QED  BY <1>5, <2>3, <3>1
  <2>4. CASE ~(x < 0) /\ ~(y < 0)
    <3>1. Towards0(x, y) = q /\ y = v  BY <1>1, <1>3, <2>4
    <3> QED  BY <1>4, <2>4, <3>1
  <2> QED  BY <2>1, <2>2, <2>3, <2>4
<1>7. x - Towards0(x, y) * y = IF x < 0 THEN -r ELSE r
  <2>1. PICK z : z = Towards0(x, y) * y  OBVIOUS
  <2>2. z = IF x < 0 THEN -e ELSE e  BY <1>6, <2>1, Zenon
  <2>3. u = e + r  BY <1>1, <1>4
  <2>4. x - z = IF x < 0 THEN -r ELSE r
    <3>1. /\ x \in Int /\ r \in Nat /\ e \in Nat /\ u = (IF x < 0 THEN -x ELSE x)  BY <1>1
    <3> QED  BY <2>2, <2>3, <3>1
  <2> QED  BY <2>1, <2>4, Zenon
<1> QED  BY <1>3, <1>7

\* The signed quotient and remainder of two words, as words.
SignedDivide(a, b, n) ==
    LET x == Signed2(a, n)
        y == Signed2(b, n)
    IN  Both(Wrap(Towards0(x, y), n), Wrap(x - Towards0(x, y) * y, n))

\* The magnitudes of words are words.
LEMMA MagnitudesAre ==
    ASSUME NEW n, NEW w, NEW h, IsSize(n, w, h), NEW a \in 0 .. w - 1, NEW b \in 1 .. w - 1
    PROVE  /\ Magnitude(a, n) \in 0 .. w - 1 /\ Magnitude(b, n) \in 1 .. w - 1
           /\ Magnitudes(Signed2(a, n), Signed2(b, n), Magnitude(a, n), Magnitude(b, n),
                         Magnitude(a, n) \div Magnitude(b, n),
                         Magnitude(a, n) % Magnitude(b, n))
<1>1. w \in Nat \ {0} /\ h \in Nat /\ h >= 2 /\ w = 2 * h /\ b \in 0 .. w - 1  BY DEF IsSize
<1> DEFINE x == Signed2(a, n)
           y == Signed2(b, n)
           u == Magnitude(a, n)
           v == Magnitude(b, n)
<1>2. x \in -h .. h - 1 /\ u = IF x < 0 THEN -x ELSE x  BY SignedIs
<1>3. /\ y \in -h .. h - 1 /\ v = (IF y < 0 THEN -y ELSE y)
      /\ y = IF b < h THEN b ELSE b - w
  BY <1>1, SignedIs
<1> HIDE DEF x, y, u, v
<1>4. u \in 0 .. w - 1 /\ v \in 1 .. w - 1 /\ u \in Nat /\ v \in Nat \ {0} /\ x \in Int /\ y \in Int
  BY <1>1, <1>2, <1>3
<1>5. u \div v \in Nat /\ u % v \in Nat /\ u = (u \div v) * v + (u % v)
  <2>1. u % v \in 0 .. v - 1 /\ u \div v \in Nat /\ u = (u \div v) * v + (u % v)
    BY <1>4, DivMod
  <2> QED  BY <1>4, <2>1
<1>6. Magnitudes(x, y, u, v, u \div v, u % v)  BY <1>2, <1>3, <1>4, <1>5 DEF Magnitudes
<1> QED  BY <1>4, <1>6 DEF x, y, u, v

\* With the signs put back, the division of the magnitudes is that of the numbers.
LEMMA SignsDivide ==
    ASSUME NEW n, NEW w, NEW h, IsSize(n, w, h), NEW a \in 0 .. w - 1, NEW b \in 1 .. w - 1
    PROVE  WithSigns(Divide(Magnitude(a, n), Magnitude(b, n)), a, b, n) = SignedDivide(a, b, n)
<1>1. /\ w \in Nat \ {0} /\ h \in Nat /\ h >= 2 /\ w = 2 * h /\ b \in 0 .. w - 1
      /\ n \in 0 .. WIDEST /\ w = Two[n]
  BY PowerIs DEF IsSize
<1> DEFINE x == Signed2(a, n)
           y == Signed2(b, n)
           u == Magnitude(a, n)
           v == Magnitude(b, n)
           q == u \div v
           r == u % v
<1>2. Negative(a, n) <=> x < 0  BY SignedIs
<1>3. Negative(b, n) <=> y < 0  BY <1>1, SignedIs
<1>4. Negative(a, n) \in BOOLEAN /\ Negative(b, n) \in BOOLEAN
  BY <1>1, SMT DEF Negative, IsSize
<1>5. Magnitudes(x, y, u, v, q, r) /\ u \in 0 .. w - 1 /\ v \in 1 .. w - 1  BY MagnitudesAre
<1>6. Divide(u, v) = [q |-> q, r |-> r]  BY Zenon DEF Divide, Both
<1> HIDE DEF x, y, q, r, u, v
<1>7. Towards0(x, y) = IF (x < 0) <=> (y < 0) THEN q ELSE -q  BY <1>5, RoundsTowards0
<1>8. x - Towards0(x, y) * y = IF x < 0 THEN -r ELSE r  BY <1>5, RoundsTowards0
<1>9. q \in 0 .. Two[n] - 1 /\ r \in 0 .. Two[n] - 1
  <2>1. /\ u \in Nat /\ v \in Nat \ {0} /\ v < w /\ u < w /\ q \in Nat /\ u = q * v + r
        /\ r \in Nat
    BY <1>1, <1>5 DEF Magnitudes
  <2>2. q <= u /\ r <= u
    <3>1. PICK e \in Nat : e = q * v  BY <2>1, SMT
    <3>2. q <= e
      <4>1. CASE q = 0  BY <3>1, <4>1
      <4>2. CASE q # 0
        <5>1. q \in Nat \ {0} /\ 1 \in Nat /\ v \in Nat /\ 1 <= v  BY <2>1, <4>2
        <5>2. 1 * q <= v * q  BY <5>1, TimesMonotone
        <5>3. v * q = q * v /\ 1 * q = q  BY <2>1, SMT
        <5> QED  BY <3>1, <5>2, <5>3
      <4> QED  BY <4>1, <4>2
    <3> QED  BY <2>1, <3>1, <3>2
  <2> QED  BY <1>1, <2>1, <2>2
<1>10. Wrap(q, n) = q /\ Wrap(r, n) = r  BY <1>1, <1>9, WordStays
<1> DEFINE e == [q |-> q, r |-> r]
<1>11. e.q = q /\ e.r = r  OBVIOUS
<1> HIDE DEF e
<1>12. (IF Negative(a, n) # Negative(b, n) THEN Negate(e.q, n) ELSE e.q) = Wrap(Towards0(x, y), n)
  <2>1. CASE (x < 0) <=> (y < 0)
    <3>1. Negative(a, n) = Negative(b, n)  BY <1>2, <1>3, <1>4, <2>1
    <3>2. Towards0(x, y) = q  BY <1>7, <2>1
    <3> QED  BY <1>10, <1>11, <3>1, <3>2, Zenon
  <2>2. CASE ~((x < 0) <=> (y < 0))
    <3>1. Negative(a, n) # Negative(b, n)  BY <1>2, <1>3, <1>4, <2>2
    <3>2. Towards0(x, y) = -q  BY <1>7, <2>2
    <3> QED  BY <1>11, <3>1, <3>2, Zenon DEF Negate
  <2> QED  BY <2>1, <2>2
<1>13. (IF Negative(a, n) THEN Negate(e.r, n) ELSE e.r) = Wrap(x - Towards0(x, y) * y, n)
  <2>1. CASE x < 0
    <3>1. x - Towards0(x, y) * y = -r  BY <1>8, <2>1
    <3> QED  BY <1>2, <1>11, <2>1, <3>1, Zenon DEF Negate
  <2>2. CASE ~(x < 0)
    <3>1. x - Towards0(x, y) * y = r  BY <1>8, <2>2
    <3> QED  BY <1>2, <1>10, <1>11, <2>2, <3>1, Zenon
  <2> QED  BY <2>1, <2>2
<1>14. WithSigns(e, a, b, n) = Both(Wrap(Towards0(x, y), n), Wrap(x - Towards0(x, y) * y, n))
  BY <1>12, <1>13, Zenon DEF WithSigns
<1> QED  BY <1>6, <1>14, Zenon DEF SignedDivide, e, x, y, u, v

\* __divsi3, and __modsi3 that takes its product off the dividend.
LEMMA DivsiDivides ==
    ASSUME NEW n, NEW w, NEW h, IsSize(n, w, h), NEW a \in 0 .. w - 1, NEW b \in 1 .. w - 1
    PROVE  /\ divsi3(a, b, n) = SignedDivide(a, b, n).q
           /\ modsi3(a, b, n) = SignedDivide(a, b, n).r
<1> DEFINE x == Signed2(a, n)
           y == Signed2(b, n)
           s == Towards0(x, y)
           d == Wrap(s, n)
<1>1. divsi3(a, b, n) = SignedDivide(a, b, n).q  BY SignsDivide, Zenon DEF divsi3
<1>2. SignedDivide(a, b, n) = [q |-> d, r |-> Wrap(x - s * y, n)]  BY Zenon DEF SignedDivide, Both
<1>3. /\ w \in Nat \ {0} /\ h \in Nat /\ w = 2 * h /\ w = Two[n] /\ b \in 0 .. w - 1
  BY DEF IsSize
<1>4. x \in Int /\ y \in Int /\ (a = x \/ a = x + w) /\ (b = y \/ b = y + w)
  <2>1. x = IF a < h THEN a ELSE a - w  BY SignedIs
  <2>2. y = IF b < h THEN b ELSE b - w  BY <1>3, SignedIs
  <2> HIDE DEF x, y
  <2> QED  BY <1>3, <2>1, <2>2
<1> DEFINE u == Magnitude(a, n)
           v == Magnitude(b, n)
<1>5. s \in Int
  <2>1. Magnitudes(x, y, u, v, u \div v, u % v)  BY MagnitudesAre
  <2> HIDE DEF x, y, s, u, v
  <2>2. s = IF (x < 0) <=> (y < 0) THEN u \div v ELSE -(u \div v)
    BY <2>1, RoundsTowards0 DEF s
  <2>3. u \div v \in Nat  BY <2>1, Zenon DEF Magnitudes
  <2> QED  BY <2>2, <2>3
<1> HIDE DEF x, y, s
<1>6. PICK k \in Int : s = k * w + d
  <2>1. s \div w \in Int /\ s = (s \div w) * w + (s % w)  BY <1>3, <1>5, IntDivMod
  <2>2. d = s % w  BY <1>3 DEF Wrap
  <2> QED  BY <2>1, <2>2
<1>7. d \in Int
  <2>1. s % w \in 0 .. w - 1  BY <1>3, <1>5, IntDivMod
  <2>2. d = s % w  BY <1>3 DEF Wrap
  <2> HIDE DEF d
  <2> QED  BY <1>3, <2>1, <2>2
<1>8. PICK i \in {0, 1} : a = x + i * w  BY <1>3, <1>4
<1>9. PICK j \in {0, 1} : b = y + j * w  BY <1>3, <1>4
<1> HIDE DEF d
<1>10. PICK m \in Int : a - d * b = (x - s * y) + m * w
  <2>1. /\ k \in Int /\ s \in Int /\ d \in Int /\ w \in Int /\ x \in Int /\ y \in Int /\ i \in Int
        /\ j \in Int /\ d = s - k * w
    BY <1>3, <1>4, <1>5, <1>6, <1>7
  <2>2. (x + i * w) - (s - k * w) * (y + j * w)
            = (x - s * y) + (i - s * j + (k * y + k * j * w)) * w
    BY <2>1, SMT
  <2>3. i - s * j + (k * y + k * j * w) \in Int  BY <2>1, SMT
  <2> QED  BY <1>8, <1>9, <2>1, <2>2, <2>3
<1>11. Wrap(a - d * b, n) = Wrap(x - s * y, n)
  <2>1. x - s * y \in Int  BY <1>4, <1>5, SMT
  <2>2. Wrap((x - s * y) + m * w, n) = Wrap(x - s * y, n)  BY <2>1, WrapSame
  <2> QED  BY <1>10, <2>2, Zenon
<1>12. modsi3(a, b, n) = Wrap(x - s * y, n)
  <2>1. divsi3(a, b, n) = d  BY <1>1, <1>2
  <2> QED  BY <1>11, <2>1, Zenon DEF modsi3
<1> QED  BY <1>1, <1>2, <1>12

-----------------------------------------------------------------------------
(* Every division. *)

\* cc-runtime.c:1216-1308, 1331-1401 and 3380-3729: for words of every even size, each
\* division gives the quotient and the remainder of every dividend by every divisor but
\* 0, whichever of its special cases takes it, and the signed ones round towards zero.
THEOREM DivisionIsAlwaysExact == Spec => []DivisionIsExact
<1>1. OperandIsWord => DivisionIsExact
  <2> SUFFICES ASSUME OperandIsWord PROVE DivisionIsExact  OBVIOUS
  <2> DEFINE a == operand.a
             n == operand.bits
             w == Two[n]
             h == Two[n - 1]
  <2>1. n \in 2 .. WIDEST /\ n % 2 = 0 /\ a \in Words(n)  BY DEF OperandIsWord
  <2> HIDE DEF a, n
  <2>2. IsSize(n, w, h) /\ a \in 0 .. w - 1 /\ w \in Nat \ {0}
    <3>1. IsSize(n, w, h) /\ a \in 0 .. w - 1  BY <2>1, SizeIs DEF Words
    <3> QED  BY <3>1 DEF IsSize
  <2>3. ASSUME NEW b \in Words(n) \ {0}
        PROVE  LET signed == SignedDivide(a, b, n)
               IN  /\ udivmoddi4(a, b, n) = Divide(a, b)
                   /\ udivmodsi4(a, b, n) = Divide(a, b) /\ umodXi3(a, b, n) = a % b
                   /\ divmodsi4(a, b, n) = signed /\ divmoddi4(a, b, n) = signed
                   /\ divsi3(a, b, n) = signed.q /\ modsi3(a, b, n) = signed.r
                   /\ n % 4 = 0 =>
                       /\ udivmodti4(a, b, n, TRUE) = Divide(a, b)
                       /\ udivmodti4(a, b, n, FALSE) = Divide(a, b)
                       /\ divmodti4(a, b, n) = signed
    <3> DEFINE u == Magnitude(a, n)
               v == Magnitude(b, n)
    <3>1. b \in 1 .. w - 1  BY <2>2 DEF Words
    <3>2. u \in 0 .. w - 1 /\ v \in 1 .. w - 1  BY <2>2, <3>1, MagnitudesAre
    <3>3. WithSigns(Divide(u, v), a, b, n) = SignedDivide(a, b, n)  BY <2>2, <3>1, SignsDivide
    <3> HIDE DEF u, v
    <3>4. udivmoddi4(a, b, n) = Divide(a, b) /\ udivmoddi4(u, v, n) = Divide(u, v)
      BY <2>1, <2>2, <3>1, <3>2, UdivmoddiDivides
    <3>5. /\ udivmodsi4(a, b, n) = Divide(a, b) /\ umodXi3(a, b, n) = a % b
          /\ udivmodsi4(u, v, n) = Divide(u, v)
      BY <2>2, <3>1, <3>2, UdivmodsiDivides
    <3>6. n % 4 = 0 =>
              /\ udivmodti4(a, b, n, TRUE) = Divide(a, b)
              /\ udivmodti4(a, b, n, FALSE) = Divide(a, b)
              /\ udivmodti4(u, v, n, TRUE) = Divide(u, v)
      BY <2>2, <3>1, <3>2, UdivmodtiDivides
    <3>7. divmodsi4(a, b, n) = SignedDivide(a, b, n)
      BY <3>3, <3>5, Zenon DEF divmodsi4, u, v
    <3>8. divmoddi4(a, b, n) = SignedDivide(a, b, n)
      BY <3>3, <3>4, Zenon DEF divmoddi4, u, v
    <3>9. n % 4 = 0 => divmodti4(a, b, n) = SignedDivide(a, b, n)
      BY <3>3, <3>6, Zenon DEF divmodti4, u, v
    <3>10. divsi3(a, b, n) = SignedDivide(a, b, n).q /\ modsi3(a, b, n) = SignedDivide(a, b, n).r
      BY <2>2, <3>1, DivsiDivides
    <3> QED  BY <3>4, <3>5, <3>6, <3>7, <3>8, <3>9, <3>10
  <2> HIDE DEF w, h
  <2> QED  BY <2>3, Zenon DEF DivisionIsExact, SignedDivide, a, n
<1> QED  BY <1>1, OperandsAreWords, PTL
=============================================================================
