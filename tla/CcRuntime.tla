----------------------------- MODULE CcRuntime -----------------------------
(***************************************************************************)
(* The integer arithmetic the compiler calls for, in cc-runtime.c.         *)
(*                                                                         *)
(* A word of n bits is a number below 2^n, whether the code reads it as    *)
(* signed or not.  The code has a copy of most algorithms for each of its  *)
(* three sizes; here the size is a parameter, so that one definition may   *)
(* stand for several copies: si, di and ti differ in n, and half of the    *)
(* n bits of a di_int is an su_int.  Every result is wrapped to its size,  *)
(* and a shift takes its count modulo the size, as the processor does.     *)
(***************************************************************************)
EXTENDS Integers, FiniteSetsExt

CONSTANT
    WIDEST          \* bits of the widest word

ASSUME WIDESTAssumption == WIDEST \in Nat \ {0, 1}

VARIABLE
    operand         \* the size and the left operand of the operations of this state

\* The powers of two.
Two[k \in 0 .. WIDEST] == IF k = 0 THEN 1 ELSE 2 * Two[k - 1]

Wrap(x, n) == x % Two[n]
Signed2(x, n) == IF x < Two[n - 1] THEN x ELSE x - Two[n]
Negative(x, n) == x >= Two[n - 1]
Negate(x, n) == Wrap(-x, n)
Magnitude(x, n) == IF Negative(x, n) THEN Negate(x, n) ELSE x
MIN(n) == Two[n - 1]

Shl(x, k, n) == Wrap(x * Two[k % n], n)
Shr(x, k, n) == x \div Two[k % n]

\* A word of n bits and its halves.
High(x, n) == x \div Two[n \div 2]
Low(x, n) == x % Two[n \div 2]
Whole(high, low, n) == Wrap(high, n \div 2) * Two[n \div 2] + Wrap(low, n \div 2)

Clz(x, n) == IF x = 0 THEN n ELSE n - 1 - Max({k \in 0 .. n - 1 : x >= Two[k]})
Ctz(x, n) == Max({k \in 0 .. n - 1 : x % Two[k] = 0})
PowerOfTwo(x, n) == x # 0 /\ x = Two[Ctz(x, n)]

\* Quotient and remainder, and what the processor's own division gives.
Both(q, r) == [q |-> q, r |-> r]
Divide(a, b) == Both(a \div b, a % b)

\* The branch-free test for r >= d, by the sign of d - r - 1; or of d - r.
Exceeds(r, d, n) == Negative(Wrap(d - r, n), n)
Reaches(r, d, n) == Negative(Wrap(d - r - 1, n), n)

\* k turns of the loop that shifts r:q to the left and takes d off r.
Turns(start, d, k, n) ==
    LET after[i \in 0 .. k] ==
            IF i = 0 THEN start
            ELSE LET s == after[i - 1]
                     r == Wrap(2 * s.r + Shr(s.q, n - 1, n), n)
                     takes == Reaches(r, d, n)
                 IN  [r |-> IF takes THEN Wrap(r - d, n) ELSE r,
                      q |-> Wrap(2 * s.q + s.carry, n),
                      carry |-> IF takes THEN 1 ELSE 0]
    IN  after[k]

\* r and q as they enter the loop, sr turns from its end.
LongDivision(r, q, d, sr, n) ==
    LET end == Turns([r |-> r, q |-> q, carry |-> 0], d, sr, n)
    IN  Both(Wrap(2 * end.q + end.carry, n), end.r)

\* __udivXi3 and __umodXi3, which differ in what they return.
UdivmodX(a, d, n) ==
    LET sr == Clz(d, n) - Clz(a, n)
    IN  IF sr \notin 0 .. n - 1 THEN Both(0, a)
        ELSE IF sr = n - 1 THEN Both(a, 0)
        ELSE LongDivision(Shr(a, sr + 1, n), Shl(a, n - sr - 1, n), d, sr + 1, n)
udivXi3(a, d, n) == UdivmodX(a, d, n).q
umodXi3(a, d, n) == UdivmodX(a, d, n).r
udivmodsi4(a, b, n) == LET d == udivXi3(a, b, n) IN Both(d, Wrap(a - d * b, n))

\* The long division of __udivmoddi4, r:q put together from halves of w bits.
FromHalves(a, b, sr, n) ==
    LET w == n \div 2
        nh == High(a, n)
        nl == Low(a, n)
    IN  IF sr = w THEN LongDivision(nh, Whole(nl, 0, n), b, sr, n)
        ELSE IF sr < w
        THEN LongDivision(Whole(Shr(nh, sr, w), Shl(nh, w - sr, w) + Shr(nl, sr, w), n),
                          Whole(Shl(nl, w - sr, w), 0, n), b, sr, n)
        ELSE LongDivision(Shr(nh, sr - w, w),
                          Whole(Shl(nh, n - sr, w) + Shr(nl, sr - w, w), Shl(nl, n - sr, w), n),
                          b, sr, n)

udivmoddi4(a, b, n) ==
    LET w == n \div 2
        nh == High(a, n)
        nl == Low(a, n)
        dh == High(b, n)
        dl == Low(b, n)
        sr == Clz(dh, w) - Clz(nh, w)
    IN  IF nh = 0 THEN IF dh = 0 THEN Divide(nl, dl) ELSE Both(0, nl)
        ELSE IF dl = 0 THEN
            IF nl = 0 THEN Both(nh \div dh, Whole(nh % dh, 0, n))
            ELSE IF PowerOfTwo(dh, w)
            THEN Both(Shr(nh, Ctz(dh, w), w), Whole(nh % dh, nl, n))
            ELSE IF sr \notin 0 .. w - 2 THEN Both(0, a)
            ELSE FromHalves(a, b, sr + 1, n)
        ELSE IF dh = 0 THEN
            IF dl = 1 THEN Both(a, 0)
            ELSE IF PowerOfTwo(dl, w)
            THEN LET k == Ctz(dl, w)
                 IN  Both(Whole(Shr(nh, k, w), Shl(nh, w - k, w) + Shr(nl, k, w), n), nl % dl)
            ELSE FromHalves(a, b, 1 + w + Clz(dl, w) - Clz(nh, w), n)
        ELSE IF sr \notin 0 .. w - 1 THEN Both(0, a)
        ELSE FromHalves(a, b, sr + 1, n)

\* One digit of Knuth's Algorithm D in base 2^h: the estimate q of u / vn1 is
\* one or two too large at most.
QuotientDigit(u, un, vn1, vn0, h) ==
    LET base == Two[h]
        TooLarge(q, rhat) == q >= base \/ q * vn0 > base * rhat + un
        q0 == u \div vn1
        r0 == u - q0 * vn1
    IN  IF ~TooLarge(q0, r0) THEN q0
        ELSE IF r0 + vn1 >= base \/ ~TooLarge(q0 - 1, r0 + vn1) THEN q0 - 1
        ELSE q0 - 2

\* The quotient of u1:u0 by v, u1 < v, by two digits of n / 2 bits; on x86_64
\* the code leaves it to divq.
udiv128by64to64default(u1, u0, v, n) ==
    LET h == n \div 2
        s == Clz(v, n)
        vs == Shl(v, s, n)
        un64 == IF s > 0 THEN Wrap(Shl(u1, s, n) + Shr(u0, n - s, n), n) ELSE u1
        un10 == Shl(u0, s, n)
        q1 == QuotientDigit(un64, High(un10, n), High(vs, n), Low(vs, n), h)
        un21 == Wrap(un64 * Two[h] + High(un10, n) - q1 * vs, n)
        q0 == QuotientDigit(un21, Low(un10, n), High(vs, n), Low(vs, n), h)
    IN  Both(q1 * Two[h] + q0, Shr(Wrap(un21 * Two[h] + Low(un10, n) - q0 * vs, n), s, n))
udiv128by64to64(u1, u0, v, n, x86_64) ==
    IF x86_64 THEN Divide(u1 * Two[n] + u0, v) ELSE udiv128by64to64default(u1, u0, v, n)

udivmodti4(a, b, n, x86_64) ==
    LET w == n \div 2
        ah == High(a, n)
        shift == Clz(High(b, n), w) - Clz(ah, w)
        from[k \in 0 .. shift + 1] ==       \* after k turns of the loop
            IF k = 0 THEN [a |-> a, b |-> Shl(b, shift, n), q |-> 0]
            ELSE LET s == from[k - 1]
                     takes == Reaches(s.a, s.b, n)
                 IN  [a |-> IF takes THEN Wrap(s.a - s.b, n) ELSE s.a, b |-> s.b \div 2,
                      q |-> Wrap(2 * s.q + (IF takes THEN 1 ELSE 0), w)]
    IN  IF b > a THEN Both(0, a)
        ELSE IF High(b, n) = 0
        THEN LET low == udiv128by64to64(ah % b, Low(a, n), b, w, x86_64)
             IN  Both(Whole(ah \div b, low.q, n), low.r)
        ELSE Both(from[shift + 1].q, from[shift + 1].a)

\* The signed divisions divide the magnitudes, then give the quotient the sign
\* of both and the remainder that of the dividend.
WithSigns(e, a, b, n) ==
    Both(IF Negative(a, n) # Negative(b, n) THEN Negate(e.q, n) ELSE e.q,
         IF Negative(a, n) THEN Negate(e.r, n) ELSE e.r)

divsi3(a, b, n) == WithSigns(Divide(Magnitude(a, n), Magnitude(b, n)), a, b, n).q
modsi3(a, b, n) == Wrap(a - divsi3(a, b, n) * b, n)
divmodsi4(a, b, n) == WithSigns(udivmodsi4(Magnitude(a, n), Magnitude(b, n), n), a, b, n)
divmoddi4(a, b, n) == WithSigns(udivmoddi4(Magnitude(a, n), Magnitude(b, n), n), a, b, n)
divmodti4(a, b, n) == WithSigns(udivmodti4(Magnitude(a, n), Magnitude(b, n), n, TRUE), a, b, n)

\* The product of two words, from those of their halves, as a word of 2n bits.
mulddi3(a, b, n) ==
    LET h == n \div 2
        low0 == Wrap(Low(a, n) * Low(b, n), n)
        t1 == Wrap(High(low0, n) + High(a, n) * Low(b, n), n)
        low1 == Wrap(Low(low0, n) + Shl(Low(t1, n), h, n), n)
        t2 == Wrap(High(low1, n) + High(b, n) * Low(a, n), n)
        low2 == Wrap(Low(low1, n) + Shl(Low(t2, n), h, n), n)
    IN  Whole(High(t1, n) + High(t2, n) + High(a, n) * High(b, n), low2, 2 * n)

\* __muldi3 and __multi3: n bits from halves.
multi3(a, b, n) ==
    LET low == mulddi3(Low(a, n), Low(b, n), n \div 2)
    IN  Whole(High(low, n) + High(a, n) * Low(b, n) + Low(a, n) * High(b, n), Low(low, n), n)

\* Division of signed words, towards zero.
Towards0(x, y) ==
    IF (x < 0) # (y < 0) THEN -((IF x < 0 THEN -x ELSE x) \div (IF y < 0 THEN -y ELSE y))
    ELSE (IF x < 0 THEN -x ELSE x) \div (IF y < 0 THEN -y ELSE y)

\* When __muloXi4 sets *overflow and __mulvXi3 aborts, with one bound for both
\* signs and with two.
OneBound(a, b, n) ==
    Magnitude(a, n) > Towards0(MIN(n) - 1, Magnitude(b, n))
BoundOfSign(a, b, n) ==
    Magnitude(a, n) > IF Negative(a, n) = Negative(b, n)
                      THEN Towards0(MIN(n) - 1, Magnitude(b, n))
                      ELSE Towards0(-MIN(n), -Magnitude(b, n))
muloXi4(a, b, n) ==
    [result |-> Wrap(a * b, n),
     overflow |-> IF a = MIN(n) THEN b \notin {0, 1}
                  ELSE IF b = MIN(n) THEN a \notin {0, 1}
                  ELSE /\ Magnitude(a, n) >= 2 /\ Magnitude(b, n) >= 2
                       /\ BoundOfSign(a, b, n)]

\* __addvXi3, __subvXi3, __negvXi2 and __absvXi2: the result, or an abort.
addvXi3(a, b, n) ==
    LET s == Wrap(a + b, n)
    IN  [result |-> s,
         overflow |-> IF Negative(b, n) THEN Signed2(s, n) >= Signed2(a, n)
                      ELSE Signed2(s, n) < Signed2(a, n)]
subvXi3(a, b, n) ==
    LET s == Wrap(a - b, n)
    IN  [result |-> s,
         overflow |-> IF Negative(b, n) THEN Signed2(s, n) <= Signed2(a, n)
                      ELSE Signed2(s, n) > Signed2(a, n)]
negvXi2(a, n) == [result |-> Negate(a, n), overflow |-> a = MIN(n)]
absvXi2(a, n) == [result |-> Magnitude(a, n), overflow |-> a = MIN(n)]

----------------------------------------------------------------------------
CcRuntimeInit == operand = [a |-> 0, bits |-> 2]
Operand(a, n) == operand' = [a |-> a, bits |-> n]

----------------------------------------------------------------------------
Words(n) == 0 .. Two[n] - 1

\* cc-runtime.c:1216-1308, 1331-1401, 3380-3729: every division gives quotient
\* and remainder for every dividend and every divisor but 0, whichever of the
\* special cases takes it; signed ones round towards zero, and the least number
\* by -1 wraps.
DivisionIsExact ==
    LET a == operand.a
        n == operand.bits
        x == Signed2(a, n)
    IN  \A b \in Words(n) \ {0} :
        LET y == Signed2(b, n)
            quotient == Wrap(Towards0(x, y), n)
            signed == Both(quotient, Wrap(x - Towards0(x, y) * y, n))
        IN  /\ udivmoddi4(a, b, n) = Divide(a, b)
            /\ udivmodsi4(a, b, n) = Divide(a, b) /\ umodXi3(a, b, n) = a % b
            /\ divmodsi4(a, b, n) = signed /\ divmoddi4(a, b, n) = signed
            /\ divsi3(a, b, n) = signed.q /\ modsi3(a, b, n) = signed.r
            /\ n % 4 = 0 =>
                /\ udivmodti4(a, b, n, TRUE) = Divide(a, b)
                /\ udivmodti4(a, b, n, FALSE) = Divide(a, b)
                /\ divmodti4(a, b, n) = signed

\* cc-runtime.c:521-665, 2198-2303, 2566-2596, 2820-2879, 3072-3144: the products
\* made from halves are the products, and an overflow is told, or the kernel
\* aborted, just when the result does not fit its type.
OverflowIsTold ==
    LET a == operand.a
        n == operand.bits
        Tells(outcome, exact) ==
            /\ outcome.overflow <=> exact \notin -MIN(n) .. MIN(n) - 1
            /\ outcome.result = Wrap(exact, n)
        x == Signed2(a, n)
    IN  /\ Tells(negvXi2(a, n), -x)
        /\ Tells(absvXi2(a, n), IF x < 0 THEN -x ELSE x)
        /\ \A b \in Words(n) :
            LET y == Signed2(b, n)
            IN  /\ Tells(muloXi4(a, b, n), x * y)
                /\ Tells(addvXi3(a, b, n), x + y)
                /\ Tells(subvXi3(a, b, n), x - y)
                /\ mulddi3(a, b, n) = a * b
                /\ n % 4 = 0 => multi3(a, b, n) = Wrap(a * b, n)
=============================================================================
