----------------------------- MODULE BootProofs -----------------------------
(***************************************************************************)
(* The invariants of Boot, for every machine, every number of calls after  *)
(* the boot and every size of the tables.                                  *)
(*                                                                         *)
(* A step is first told by what it does to the code's own state: CodeStep. *)
(* The invariants of the serial port, the panic and the symbols look at    *)
(* nothing else; those of a later part look at the steps of that part.     *)
(*                                                                         *)
(* What the operators of Symbols return comes first: the loader reads back *)
(* the numbers that the build wrote, the walk ends, and addr2symbol finds  *)
(* the symbol.                                                             *)
(***************************************************************************)
EXTENDS Boot, Arithmetic, FiniteSetTheorems, SequenceTheorems

-----------------------------------------------------------------------------
(* Powers *)

\* Powers are positive, and each is the base times the one before.
LEMMA PowerIs ==
    /\ Power[0] = 1
    /\ \A n \in 0 .. AddressDigits : Power[n] \in Nat \ {0}
    /\ \A n \in 1 .. AddressDigits : Power[n] = HexBase * Power[n - 1]
<1> DEFINE IsPower(g) == g = [n \in 0 .. AddressDigits |-> IF n = 0 THEN 1 ELSE HexBase * g[n - 1]]
           S == Nat \ {0}
           step == [k \in 1 .. AddressDigits |-> [x \in S |-> HexBase * x]]
<1>1. AddressDigits \in Nat /\ HexBase \in Nat \ {0}  BY SymbolsConstants
<1>2. step \in [1 .. AddressDigits -> [S -> S]]
  <2>1. \A x \in S : HexBase * x \in S  BY <1>1, SMT
  <2> QED  BY <2>1
<1>3. PICK f \in Walks(AddressDigits, S, 1, step) : TRUE
  <2>1. 1 \in S  OBVIOUS
  <2> HIDE DEF step, S
  <2>2. AddressDigits \in Nat  BY <1>1
  <2> QED  BY <1>2, <2>1, <2>2, RecursionExists
<1>4. /\ f \in [0 .. AddressDigits -> S] /\ f[0] = 1
      /\ \A k \in 1 .. AddressDigits : f[k] = HexBase * f[k - 1]
  <2> HIDE DEF S, step
  <2>1. f \in [0 .. AddressDigits -> S] /\ f[0] = 1
        /\ \A k \in 1 .. AddressDigits : f[k] = step[k][f[k - 1]]
    BY <1>3 DEF Walks
  <2>2. ASSUME NEW k \in 1 .. AddressDigits PROVE f[k] = HexBase * f[k - 1]
    <3>1. k - 1 \in 0 .. AddressDigits  BY <1>1
    <3>2. f[k - 1] \in S /\ f[k] = step[k][f[k - 1]]  BY <2>1, <3>1
    <3> QED  BY <3>2 DEF step
  <2> QED  BY <2>1, <2>2
<1>5. IsPower(f)
  <2> HIDE DEF S, step
  <2>1. \A k \in 0 .. AddressDigits : f[k] = IF k = 0 THEN 1 ELSE HexBase * f[k - 1]
    BY <1>1, <1>4
  <2> QED  BY <1>4, <2>1
<1>6. IsPower(Power)
  <2>1. Power = CHOOSE g : IsPower(g)  BY DEF Power
  <2> HIDE DEF IsPower
  <2> QED  BY <1>5, <2>1
<1>7. /\ Power[0] = 1
      /\ \A n \in 1 .. AddressDigits : Power[n] = HexBase * Power[n - 1]
  BY <1>1, <1>6, SMTT(40)
<1>8. \A n \in 0 .. AddressDigits : Power[n] \in S
  <2>1. \A n \in 1 .. AddressDigits : Power[n - 1] \in S => Power[n] \in S
    <3> TAKE n \in 1 .. AddressDigits
    <3>1. \A x \in S : HexBase * x \in S  BY <1>1, SMT
    <3> QED  BY <1>7, <3>1
  <2>2. Power[0] \in S  BY <1>7
  <2> HIDE DEF S
  <2> QED  BY <1>1, <2>1, <2>2, StaysIn
<1> QED  BY <1>7, <1>8

\* The numbers of a u64 are counted by a positive power.
LEMMA ModulusIs == Modulus \in Nat \ {0} /\ 0 \in Addresses /\ Addresses \subseteq Nat
<1>1. Modulus \in Nat \ {0}
  BY PowerIs, SymbolsConstants DEF Modulus
<1> QED  BY <1>1 DEF Addresses

\* A shorter number is smaller.
LEMMA PowerBelowModulus == \A n \in 0 .. AddressDigits : Power[n] <= Modulus
<1> DEFINE f == [n \in 0 .. AddressDigits |-> Power[AddressDigits - n]]
           S == {x \in Nat \ {0} : x <= Modulus}
<1>1. AddressDigits \in Nat /\ HexBase \in Nat \ {0}  BY SymbolsConstants
<1>2. f[0] \in S  BY <1>1, ModulusIs DEF Modulus
<1>3. \A k \in 1 .. AddressDigits : f[k - 1] \in S => f[k] \in S
  <2> SUFFICES ASSUME NEW k \in 1 .. AddressDigits, f[k - 1] \in S PROVE f[k] \in S
    OBVIOUS
  <2> DEFINE n == AddressDigits - k
             p == Power[n]
  <2>1. n \in 0 .. AddressDigits /\ n + 1 \in 1 .. AddressDigits
        /\ f[k] = p /\ f[k - 1] = Power[n + 1]
    BY <1>1
  <2>2. p \in Nat \ {0} /\ Power[n + 1] = HexBase * p  BY <2>1, PowerIs
  <2> HIDE DEF p, f
  <2>3. p <= HexBase * p  BY <1>1, <2>2, SMT
  <2>4. HexBase * p \in Nat  BY <1>1, <2>2, SMT
  <2> QED  BY <2>1, <2>2, <2>3, <2>4, ModulusIs
<1>4. \A k \in 0 .. AddressDigits : f[k] \in S
  <2> HIDE DEF f, S
  <2> QED  BY <1>1, <1>2, <1>3, StaysIn
<1>5. \A n \in 0 .. AddressDigits : AddressDigits - n \in 0 .. AddressDigits
                                    /\ f[AddressDigits - n] = Power[n]
  BY <1>1
<1> HIDE DEF f
<1> QED  BY <1>4, <1>5

-----------------------------------------------------------------------------
(* Reading numbers *)

\* A digit more leaves the number within a u64.
LEMMA ShiftedType ==
    ASSUME NEW number \in Nat, NEW digit \in Nat
    PROVE  Shifted(number, digit) \in Addresses
<1>1. HexBase \in Nat  BY SymbolsConstants
<1>2. number * HexBase + digit \in Nat
  <2>1. number * HexBase \in Nat  BY <1>1, SMT
  <2> QED  BY <2>1
<1> DEFINE v == number * HexBase + digit
<1> HIDE DEF v
<1>3. v % Modulus \in 0 .. Modulus - 1  BY <1>2, ModulusIs, DivMod DEF v
<1> QED  BY <1>3 DEF Shifted, Addresses, v

\* The values a number has after each digit.
Readings(start, digits) ==
    {f \in [0 .. Len(digits) -> Addresses] :
        /\ f[0] = start
        /\ \A k \in 1 .. Len(digits) : f[k] = Shifted(f[k - 1], digits[k])}

\* Number goes through the digits, one by one.
LEMMA NumberGoes ==
    ASSUME NEW start \in Addresses, NEW digits \in Seq(Nat)
    PROVE  \E f \in Readings(start, digits) : Number(start, digits) = f[Len(digits)]
<1> DEFINE n == Len(digits)
           Reads(g) == g = [k \in 0 .. n |-> IF k = 0 THEN start ELSE Shifted(g[k - 1], digits[k])]
           step == [k \in 1 .. n |-> [x \in Addresses |-> Shifted(x, digits[k])]]
           G == CHOOSE g : Reads(g)
<1>1. n \in Nat /\ \A k \in 1 .. n : digits[k] \in Nat  OBVIOUS
<1>2. \A k \in 1 .. n : \A x \in Addresses : Shifted(x, digits[k]) \in Addresses
  BY <1>1, ModulusIs, ShiftedType
<1> HIDE DEF n
<1>3. step \in [1 .. n -> [Addresses -> Addresses]]  BY <1>2
<1>4. PICK f \in Walks(n, Addresses, start, step) : TRUE
  <2> HIDE DEF step
  <2> QED  BY <1>1, <1>3, RecursionExists
<1>5. /\ f \in [0 .. n -> Addresses] /\ f[0] = start
      /\ \A k \in 1 .. n : f[k] = Shifted(f[k - 1], digits[k])
  <2> HIDE DEF step
  <2>1. f \in [0 .. n -> Addresses] /\ f[0] = start
        /\ \A k \in 1 .. n : f[k] = step[k][f[k - 1]]
    BY <1>4 DEF Walks
  <2>2. ASSUME NEW k \in 1 .. n PROVE f[k] = Shifted(f[k - 1], digits[k])
    <3>1. k - 1 \in 0 .. n  BY <1>1
    <3>2. f[k - 1] \in Addresses /\ f[k] = step[k][f[k - 1]]  BY <2>1, <3>1
    <3> QED  BY <3>2 DEF step
  <2> QED  BY <2>1, <2>2
<1>6. Reads(f)
  <2>1. \A k \in 0 .. n : f[k] = IF k = 0 THEN start ELSE Shifted(f[k - 1], digits[k])
    BY <1>1, <1>5
  <2> QED  BY <1>5, <2>1
<1>7. Reads(G)
  <2> HIDE DEF Reads
  <2> QED  BY <1>6
<1>8. Number(start, digits) = G[n]  BY DEF Number, n
<1> HIDE DEF G
<1>9. G[0] = start /\ \A k \in 1 .. n : G[k] = Shifted(G[k - 1], digits[k])
  BY <1>1, <1>7
<1>10. \A k \in 0 .. n : G[k] \in Addresses
  <2>1. \A k \in 1 .. n : G[k - 1] \in Addresses => G[k] \in Addresses
    BY <1>2, <1>9
  <2> QED  BY <1>1, <1>9, <2>1, StaysIn
<1>11. G \in [0 .. n -> Addresses]  BY <1>7, <1>10
<1>12. G \in Readings(start, digits)  BY <1>9, <1>11 DEF Readings, n
<1> QED  BY <1>8, <1>12 DEF n

\* The digits of a number are digits.
LEMMA DigitsType ==
    ASSUME NEW a \in Nat, NEW count \in 1 .. AddressDigits
    PROVE  Digits(a, count) \in Seq(Nat) /\ Len(Digits(a, count)) = count
<1>1. \A i \in 1 .. count : (a \div Power[count - i]) % HexBase \in Nat
  <2> TAKE i \in 1 .. count
  <2> DEFINE p == Power[count - i]
  <2>1. count - i \in 0 .. AddressDigits /\ HexBase \in Nat \ {0}  BY SymbolsConstants
  <2>2. p \in Nat \ {0}  BY <2>1, PowerIs
  <2> HIDE DEF p
  <2>3. a \div p \in Nat  BY <2>2, DivMod
  <2> DEFINE q == a \div p
  <2> HIDE DEF q
  <2>4. q % HexBase \in 0 .. HexBase - 1  BY <2>1, <2>3, DivMod DEF q
  <2>5. q % HexBase \in Nat  BY <2>1, <2>4
  <2> QED  BY <2>5 DEF q, p
<1>2. count \in Nat  BY SymbolsConstants
<1> QED  BY <1>1, <1>2 DEF Digits

\* After i of a number's digits, what was read is the start moved up by i places
\* with the number's first digits behind it, but for whole moduli.
LEMMA ReadSoFar ==
    ASSUME NEW start \in Addresses, NEW a \in Nat, NEW count \in 1 .. AddressDigits,
           a < Power[count],
           NEW f \in Readings(start, Digits(a, count))
    PROVE  \A i \in 0 .. count :
              \E t \in Nat : f[i] + t * Modulus = start * Power[i] + a \div Power[count - i]
<1> DEFINE Good(i) == \E t \in Nat : f[i] + t * Modulus = start * Power[i] + a \div Power[count - i]
           S == {i \in 0 .. count : Good(i)}
<1>1. /\ count \in Nat /\ Len(Digits(a, count)) = count /\ start \in Nat
      /\ f \in [0 .. count -> Addresses] /\ f[0] = start
      /\ \A k \in 1 .. count : f[k] = Shifted(f[k - 1], Digits(a, count)[k])
  <2>1. count \in Nat /\ start \in Nat  BY SymbolsConstants, ModulusIs
  <2>2. Len(Digits(a, count)) = count  BY DigitsType
  <2> DEFINE ds == Digits(a, count)
  <2> HIDE DEF ds
  <2>3. /\ f \in [0 .. Len(ds) -> Addresses] /\ f[0] = start
        /\ \A k \in 1 .. Len(ds) : f[k] = Shifted(f[k - 1], ds[k])
    BY DEF Readings, ds
  <2> QED  BY <2>1, <2>2, <2>3 DEF ds
<1>2. 0 \in S
  <2>1. a \div Power[count] = 0
    <3> DEFINE p == Power[count]
    <3>1. p \in Nat \ {0} /\ a < p  BY PowerIs
    <3> HIDE DEF p
    <3>2. 0 \in Nat /\ a \in 0 .. p - 1  BY <3>1
    <3>3. (0 * p + a) \div p = 0  BY <3>1, <3>2, DivModUnique
    <3>4. 0 * p + a = a  BY <3>1, SMT
    <3> QED  BY <3>3, <3>4 DEF p
  <2>2. start + 0 * Modulus = start * 1 + 0  BY <1>1, ModulusIs
  <2> QED  BY <1>1, <2>1, <2>2, PowerIs
<1>3. \A i \in 0 .. count - 1 : i \in S => i + 1 \in S
  <2> SUFFICES ASSUME NEW i \in 0 .. count - 1, NEW t \in Nat,
                      f[i] + t * Modulus = start * Power[i] + a \div Power[count - i]
               PROVE  i + 1 \in S
    OBVIOUS
  <2> DEFINE b == HexBase
             M == Modulus
             p == Power[count - (i + 1)]
             q == a \div p
             d == Digits(a, count)[i + 1]
             n == f[i]
             w == Power[i]
             v == n * b + d
             u == v \div M
  <2>1. count - (i + 1) \in 0 .. AddressDigits /\ i \in 0 .. AddressDigits
        /\ i + 1 \in 1 .. AddressDigits /\ count - i \in 1 .. AddressDigits
        /\ (count - i) - 1 = count - (i + 1) /\ i + 1 \in 1 .. count /\ (i + 1) - 1 = i
        /\ i + 1 \in 0 .. count /\ i \in 0 .. count
    BY <1>1, SymbolsConstants
  <2>2. p \in Nat \ {0} /\ w \in Nat /\ Power[i + 1] = b * w /\ Power[count - i] = b * p
        /\ b \in Nat \ {0} /\ M \in Nat \ {0}
    BY <2>1, PowerIs, ModulusIs, SymbolsConstants
  <2>3. n \in Nat /\ f[i + 1] = Shifted(n, d)
    BY <1>1, <2>1, ModulusIs
  <2>4. d = q % b  BY <2>1 DEF Digits
  <2>5. a \div Power[count - i] = q \div b
    <3> HIDE DEF p
    <3> QED  BY <2>2, DivDiv DEF q
  <2>6. q \in Nat
    <3> HIDE DEF p
    <3> QED  BY <2>2, DivMod DEF q
  <2> HIDE DEF q
  <2> DEFINE h == q \div b
  <2>7. h \in Nat /\ d \in Nat /\ q = h * b + d
    <3> HIDE DEF b, d
    <3>1. h \in Nat /\ q % b \in 0 .. b - 1 /\ q = h * b + (q % b)  BY <2>2, <2>6, DivMod
    <3> QED  BY <2>2, <2>4, <3>1
  <2>8. n + t * M = start * w + h  BY <2>5 DEF q
  <2> HIDE DEF p, h, d, n, w, b, M
  <2>9. v \in Nat
    <3>1. n * b \in Nat  BY <2>2, <2>3, SMT
    <3> QED  BY <2>7, <3>1
  <2>10. f[i + 1] = v % M  BY <2>3 DEF Shifted, b, M
  <2> HIDE DEF v
  <2>11. u \in Nat /\ v % M \in 0 .. M - 1 /\ v = u * M + (v % M)  BY <2>2, <2>9, DivMod
  <2> HIDE DEF u
  <2>12. f[i + 1] + (u + t * b) * M = start * (b * w) + q
    <3> DEFINE r == v % M
    <3>1. r \in Nat /\ v = u * M + r  BY <2>2, <2>11
    <3> HIDE DEF r
    <3>2. (n + t * M) * b = n * b + t * b * M  BY <2>2, <2>3, <2>11, SMT
    <3>3. (start * w + h) * b = start * (b * w) + h * b  BY <1>1, <2>2, <2>7, SMT
    <3>4. (u + t * b) * M = u * M + t * b * M  BY <2>2, <2>11, SMT
    <3>5. n * b \in Nat /\ t * b * M \in Nat /\ u * M \in Nat /\ start * (b * w) \in Nat /\ h * b \in Nat
      BY <1>1, <2>2, <2>3, <2>7, <2>11, SMT
    <3>6. n * b + t * b * M = start * (b * w) + h * b  BY <2>8, <3>2, <3>3
    <3>7. u * M + r = n * b + d  BY <3>1 DEF v
    <3>8. r + (u * M + t * b * M) = start * (b * w) + q
      <4> DEFINE A == n * b  B == t * b * M  C == u * M  D == start * (b * w)  E == h * b
      <4>1. A \in Nat /\ B \in Nat /\ C \in Nat /\ D \in Nat /\ E \in Nat  BY <3>5
      <4>2. A + B = D + E /\ C + r = A + d /\ q = E + d  BY <2>7, <3>6, <3>7
      <4> HIDE DEF A, B, C, D, E
      <4>3. r + (C + B) = D + q  BY <2>7, <3>1, <4>1, <4>2
      <4> QED  BY <4>3 DEF B, C, D
    <3> QED  BY <2>10, <3>4, <3>8 DEF r
  <2>13. u + t * b \in Nat  BY <2>2, <2>11, SMT
  <2>14. Good(i + 1)  BY <2>2, <2>12, <2>13 DEF q, M, p
  <2> HIDE DEF Good
  <2> QED  BY <2>1, <2>14
<1> HIDE DEF S
<1>4. 0 .. count \subseteq S  BY <1>1, <1>2, <1>3, InductionUpTo
<1> QED  BY <1>4 DEF S

\* A full address replaces all that was read before it.
LEMMA AddressReadBack ==
    ASSUME NEW start \in Addresses, NEW a \in Addresses
    PROVE  Number(start, Digits(a, AddressDigits)) = a
<1> DEFINE c == AddressDigits
           M == Modulus
<1>1. /\ c \in Nat \ {0} /\ c \in 1 .. AddressDigits /\ a \in Nat /\ start \in Nat
      /\ M \in Nat \ {0} /\ Power[c] = M /\ a < M
  BY SymbolsConstants, ModulusIs DEF Addresses, Modulus
<1>2. Digits(a, c) \in Seq(Nat) /\ Len(Digits(a, c)) = c  BY <1>1, DigitsType
<1>3. PICK f \in Readings(start, Digits(a, c)) :
        Number(start, Digits(a, c)) = f[Len(Digits(a, c))]
  BY <1>2, NumberGoes
<1>4. \A i \in 0 .. c : \E t \in Nat : f[i] + t * M = start * Power[i] + a \div Power[c - i]
  BY <1>1, <1>3, ReadSoFar
<1>5. c \in 0 .. c /\ c - c = 0  BY <1>1
<1>6. PICK t \in Nat : f[c] + t * M = start * Power[c] + a \div Power[0]
  BY <1>4, <1>5
<1>7. Power[0] = 1  BY PowerIs
<1>8. f[c] \in Addresses  BY <1>2, <1>3, <1>5 DEF Readings
<1> DEFINE n == f[c]
<1> HIDE DEF M, n
<1>9. n \in 0 .. M - 1 /\ a \in 0 .. M - 1 /\ n \in Nat
  BY <1>1, <1>8, ModulusIs DEF Addresses, n, M
<1>10. n + t * M = start * M + a
  <2>1. a \div 1 = a  BY <1>1, SMT
  <2> QED  BY <1>1, <1>6, <1>7, <2>1 DEF n
<1>11. (t * M + n) % M = n /\ (start * M + a) % M = a  BY <1>1, <1>9, DivModUnique
<1>12. t * M + n = start * M + a
  <2>1. t * M \in Nat /\ start * M \in Nat  BY <1>1, SMT
  <2> QED  BY <1>9, <1>10, <2>1
<1>13. n = a  BY <1>11, <1>12
<1> QED  BY <1>2, <1>3, <1>13 DEF n

\* The number in the first line is read as it is.
LEMMA CountReadBack ==
    ASSUME NEW a \in Nat, a < Power[CountDigits]
    PROVE  Number(0, Digits(a, CountDigits)) = a
<1> DEFINE c == CountDigits
           M == Modulus
<1>1. c \in Nat \ {0} /\ c \in 1 .. AddressDigits /\ M \in Nat \ {0} /\ a < M /\ 0 \in Addresses
  <2>1. c \in 0 .. AddressDigits /\ c \in 1 .. AddressDigits /\ c \in Nat \ {0}
    BY SymbolsConstants
  <2>2. Power[c] <= M /\ Power[c] \in Nat /\ M \in Nat \ {0}
    BY <2>1, PowerIs, PowerBelowModulus, ModulusIs
  <2> QED  BY <2>1, <2>2, ModulusIs
<1>2. Digits(a, c) \in Seq(Nat) /\ Len(Digits(a, c)) = c  BY <1>1, DigitsType
<1>3. PICK f \in Readings(0, Digits(a, c)) :
        Number(0, Digits(a, c)) = f[Len(Digits(a, c))]
  BY <1>1, <1>2, NumberGoes
<1>4. \A i \in 0 .. c : \E t \in Nat : f[i] + t * M = 0 * Power[i] + a \div Power[c - i]
  BY <1>1, <1>3, ReadSoFar
<1>5. c \in 0 .. c /\ c - c = 0  BY <1>1
<1>6. PICK t \in Nat : f[c] + t * M = 0 * Power[c] + a \div Power[0]
  BY <1>4, <1>5
<1>7. Power[0] = 1 /\ Power[c] \in Nat
  BY <1>1, PowerIs, SymbolsConstants
<1>8. f[c] \in Addresses  BY <1>2, <1>3, <1>5 DEF Readings
<1> DEFINE n == f[c]
           p == Power[c]
<1> HIDE DEF M, n, p
<1>9. n \in 0 .. M - 1 /\ a \in 0 .. M - 1 /\ n \in Nat
  BY <1>1, <1>8, ModulusIs DEF Addresses, n, M
<1>10. n + t * M = a
  <2>1. a \div 1 = a /\ 0 * p = 0  BY <1>1, <1>7, SMT DEF p
  <2> QED  BY <1>6, <1>7, <1>9, <2>1 DEF n, p
<1>11. (t * M + n) % M = n /\ (0 * M + a) % M = a  BY <1>1, <1>9, DivModUnique
<1>12. t * M + n = 0 * M + a
  <2>1. t * M \in Nat /\ 0 * M = 0  BY <1>1, SMT
  <2> QED  BY <1>9, <1>10, <2>1
<1>13. n = a  BY <1>11, <1>12
<1> QED  BY <1>2, <1>3, <1>13 DEF n

-----------------------------------------------------------------------------
(* Loading the map *)

\* The lines are read as nm listed them.
LEMMA LinesReadBack ==
    ASSUME NEW nm \in SymbolList
    PROVE  ReadLines(MapFile(nm).lines) = nm
<1> DEFINE lines == MapFile(nm).lines
           n == Len(lines)
           Reads(g) == g = [i \in 0 .. n |-> IF i = 0 THEN 0 ELSE Number(g[i - 1], lines[i].digits)]
           f == [i \in 0 .. n |-> IF i = 0 THEN 0 ELSE nm[i].address]
           G == CHOOSE g : Reads(g)
<1>1. /\ nm \in Seq([address : Addresses, name : STRING])
      /\ Len(nm) \in Nat /\ DOMAIN nm = 1 .. Len(nm)
      /\ \A i \in 1 .. Len(nm) : nm[i] \in [address : Addresses, name : STRING]
  <2> DEFINE R == [address : Addresses, name : STRING]
  <2>1. nm \in Seq(R)  BY DEF SymbolList
  <2> HIDE DEF R
  <2>2. Len(nm) \in Nat /\ DOMAIN nm = 1 .. Len(nm) /\ \A i \in 1 .. Len(nm) : nm[i] \in R
    BY <2>1
  <2> QED  BY <2>1, <2>2 DEF R
<1>2. lines = [i \in DOMAIN nm |-> [digits |-> Digits(nm[i].address, AddressDigits),
                                    name |-> nm[i].name]]
  BY DEF MapFile
<1> HIDE DEF lines
<1>3. n = Len(nm) /\ DOMAIN lines = 1 .. n
      /\ \A i \in 1 .. n : /\ lines[i].digits = Digits(nm[i].address, AddressDigits)
                           /\ lines[i].name = nm[i].name
                           /\ nm[i].address \in Addresses
  BY <1>1, <1>2
<1> HIDE DEF n
<1>4. \A i \in 1 .. n : \A start \in Addresses : Number(start, lines[i].digits) = nm[i].address
  BY <1>3, AddressReadBack
<1>5. n \in Nat /\ 0 \in Addresses  BY <1>1, <1>3, ModulusIs
<1>6. Reads(f)
  <2>1. \A i \in 0 .. n : f[i] \in Addresses
    <3> TAKE i \in 0 .. n
    <3>1. i = 0 \/ i \in 1 .. n  BY <1>5
    <3> QED  BY <1>3, <1>5, <3>1
  <2>2. \A i \in 0 .. n : f[i] = IF i = 0 THEN 0 ELSE Number(f[i - 1], lines[i].digits)
    <3> TAKE i \in 0 .. n
    <3>1. CASE i = 0  BY <3>1
    <3>2. CASE i # 0
      <4>1. i \in 1 .. n /\ i - 1 \in 0 .. n  BY <1>5, <3>2
      <4>2. f[i] = nm[i].address  BY <3>2
      <4> HIDE DEF f
      <4>3. Number(f[i - 1], lines[i].digits) = nm[i].address  BY <1>4, <2>1, <4>1
      <4> QED  BY <3>2, <4>2, <4>3
    <3> QED  BY <3>1, <3>2
  <2> QED  BY <2>2
<1>7. Reads(G)
  <2> HIDE DEF Reads
  <2> QED  BY <1>6
<1>8. ReadLines(lines) = [i \in DOMAIN lines |-> [address |-> G[i], name |-> lines[i].name]]
  BY DEF ReadLines, n
<1> HIDE DEF G
<1>9. G[0] = 0 /\ \A i \in 1 .. n : G[i] = Number(G[i - 1], lines[i].digits)
  BY <1>5, <1>7
<1>10. \A i \in 0 .. n : G[i] \in Addresses
  <2>1. \A i \in 1 .. n : G[i - 1] \in Addresses => G[i] \in Addresses
    BY <1>3, <1>4, <1>9
  <2> QED  BY <1>5, <1>9, <2>1, StaysIn
<1>11. \A i \in 1 .. n : G[i] = nm[i].address
  <2> TAKE i \in 1 .. n
  <2>1. i - 1 \in 0 .. n  BY <1>5
  <2> QED  BY <1>4, <1>9, <1>10, <2>1
<1>12. \A i \in 1 .. n : nm[i] = [address |-> nm[i].address, name |-> nm[i].name]
  BY <1>1, <1>3
<1>13. ReadLines(lines) = [i \in 1 .. n |-> nm[i]]
  BY <1>3, <1>8, <1>11, <1>12
<1>14. nm = [i \in 1 .. n |-> nm[i]]  BY <1>1, <1>3
<1> QED  BY <1>13, <1>14 DEF lines

\* After load, the table is what nm listed, its range runs from the least
\* address to the greatest.
LEMMA LoadIs ==
    ASSUME NEW nm \in SymbolList, Load(MapFile(nm))
    PROVE  /\ symbols' = nm /\ loaded' = TRUE
           /\ symbolRange' = [low |-> Min({nm[i].address : i \in DOMAIN nm} \cup {UINTPTR_MAX}),
                              high |-> Max({nm[i].address : i \in DOMAIN nm} \cup {0})]
<1> DEFINE R == [address : Addresses, name : STRING]
<1>1. ReadLines(MapFile(nm).lines) = nm  BY LinesReadBack
<1>2. nm \in Seq(R) /\ Len(nm) < Power[CountDigits]  BY DEF SymbolList
<1> HIDE DEF R
<1>3. Len(nm) \in Nat /\ DOMAIN nm = 1 .. Len(nm)  BY <1>2
<1>4. Number(0, MapFile(nm).count) = Len(nm)
  BY <1>2, <1>3, CountReadBack DEF MapFile
<1>5. SubSeq(nm, 1, Len(nm)) = nm  BY <1>2, <1>3
<1> QED  BY <1>1, <1>4, <1>5 DEF Load

-----------------------------------------------------------------------------
(* Walking the stack *)

\* The walk is a sequence of addresses, and not longer than it may be.
LEMMA FramesAre ==
    ASSUME NEW stack \in Stack
    PROVE  Frames(stack) \in Seq(Addresses)
<1> DEFINE n == Len(stack)
           last == MaxSymbolTrace
           Follows(g) == g = [frame \in 0 .. last |->
              IF frame = 0 THEN 1 ELSE IF g[frame - 1] = 0 THEN 0 ELSE stack[g[frame - 1]].rbp]
           step == [k \in 1 .. last |-> [x \in 0 .. n |-> IF x = 0 THEN 0 ELSE stack[x].rbp]]
           at == CHOOSE g : Follows(g)
           ends == {frame \in 0 .. last - 1 : at[frame] = 0 \/ stack[at[frame]].rip = 0}
           shown == Min(ends \cup {last})
<1>1. last \in Nat /\ n \in Nat /\ 1 \in 0 .. n
      /\ \A k \in 1 .. n : stack[k].rip \in Addresses /\ stack[k].rbp \in 0 .. n
  <2> DEFINE R == [rip : Addresses, rbp : Nat]
  <2>1. stack \in Seq(R) /\ n >= 1 /\ \A k \in 1 .. n : stack[k].rbp <= n  BY DEF Stack
  <2>2. \A r \in R : r.rip \in Addresses /\ r.rbp \in Nat  OBVIOUS
  <2> HIDE DEF R
  <2>3. n \in Nat /\ \A k \in 1 .. n : stack[k] \in R  BY <2>1
  <2> QED  BY <2>1, <2>2, <2>3, SymbolsConstants
<1> HIDE DEF n, last
<1>2. step \in [1 .. last -> [0 .. n -> 0 .. n]]
  <2>1. \A x \in 0 .. n : (IF x = 0 THEN 0 ELSE stack[x].rbp) \in 0 .. n  BY <1>1
  <2> QED  BY <2>1
<1>3. PICK f \in Walks(last, 0 .. n, 1, step) : TRUE
  <2> DEFINE Z == 0 .. n
  <2>1. last \in Nat /\ 1 \in Z /\ step \in [1 .. last -> [Z -> Z]]  BY <1>1, <1>2
  <2> HIDE DEF step, Z
  <2>2. Walks(last, Z, 1, step) # {}  BY <2>1, RecursionExists
  <2> QED  BY <2>2 DEF Z
<1>4. /\ f \in [0 .. last -> 0 .. n] /\ f[0] = 1
      /\ \A k \in 1 .. last : f[k] = IF f[k - 1] = 0 THEN 0 ELSE stack[f[k - 1]].rbp
  <2>1. f \in [0 .. last -> 0 .. n] /\ f[0] = 1
        /\ \A k \in 1 .. last : f[k] = step[k][f[k - 1]]
    <3> HIDE DEF step
    <3> QED  BY <1>3 DEF Walks
  <2>2. ASSUME NEW k \in 1 .. last
        PROVE  f[k] = IF f[k - 1] = 0 THEN 0 ELSE stack[f[k - 1]].rbp
    <3>1. k - 1 \in 0 .. last  BY <1>1
    <3>2. f[k - 1] \in 0 .. n  BY <2>1, <3>1
    <3> QED  BY <2>1, <3>2
  <2> QED  BY <2>1, <2>2
<1>5. Follows(f)
  <2>1. \A k \in 0 .. last :
           f[k] = IF k = 0 THEN 1 ELSE IF f[k - 1] = 0 THEN 0 ELSE stack[f[k - 1]].rbp
    BY <1>1, <1>4
  <2> QED  BY <1>4, <2>1
<1>6. Follows(at)
  <2> HIDE DEF Follows
  <2> QED  BY <1>5
<1>7. Frames(stack) = [k \in 1 .. shown |-> stack[at[k - 1]].rip]
  BY DEF Frames, last
<1> HIDE DEF at
<1>8. \A k \in 0 .. last : at[k] \in 0 .. n
  <2>1. at[0] = 1 /\ \A k \in 1 .. last :
           at[k] = IF at[k - 1] = 0 THEN 0 ELSE stack[at[k - 1]].rbp
    BY <1>1, <1>6
  <2>2. \A k \in 1 .. last : at[k - 1] \in 0 .. n => at[k] \in 0 .. n
    <3> SUFFICES ASSUME NEW k \in 1 .. last, at[k - 1] \in 0 .. n PROVE at[k] \in 0 .. n
      OBVIOUS
    <3> DEFINE x == at[k - 1]
    <3>1. at[k] = IF x = 0 THEN 0 ELSE stack[x].rbp  BY <2>1
    <3>2. x = 0 \/ x \in 1 .. n  BY <1>1
    <3> HIDE DEF x
    <3> QED  BY <1>1, <3>1, <3>2
  <2> QED  BY <1>1, <2>1, <2>2, StaysIn
<1>9. shown \in ends \cup {last} /\ \A y \in ends \cup {last} : shown <= y
  <2>1. ends \cup {last} \in SUBSET Nat /\ ends \cup {last} # {}  BY <1>1
  <2> HIDE DEF ends
  <2> QED  BY <2>1, MinIsLeast
<1>10. shown \in 0 .. last /\ \A k \in 1 .. shown : k - 1 \notin ends
  <2>1. shown \in 0 .. last  BY <1>1, <1>9
  <2> HIDE DEF shown, ends
  <2> QED  BY <1>1, <1>9, <2>1
<1>11. \A k \in 1 .. shown : stack[at[k - 1]].rip \in Addresses
  <2> TAKE k \in 1 .. shown
  <2>1. k - 1 \in 0 .. last - 1 /\ k - 1 \notin ends
    <3> HIDE DEF shown, ends
    <3> QED  BY <1>1, <1>10
  <2>2. k - 1 \in 0 .. last  BY <1>1, <2>1
  <2> HIDE DEF shown
  <2>3. at[k - 1] # 0  BY <2>1
  <2>4. at[k - 1] \in 1 .. n  BY <1>1, <1>8, <2>2, <2>3
  <2> QED  BY <1>1, <2>4
<1> HIDE DEF shown
<1>12. shown \in Nat  BY <1>1, <1>10
<1> QED  BY <1>7, <1>11, <1>12

-----------------------------------------------------------------------------
(* Finding the symbol *)

\* What load leaves behind, once it has run.
Holds(nm) ==
    /\ symbols = nm
    /\ symbolRange = [low |-> Min({nm[i].address : i \in DOMAIN nm} \cup {UINTPTR_MAX}),
                      high |-> Max({nm[i].address : i \in DOMAIN nm} \cup {0})]

\* addr2symbol finds the symbol an address lies in, or none outside them all.
LEMMA LineIsRight ==
    ASSUME NEW nm \in SymbolList, Sorted(nm), Holds(nm),
           NEW rip \in Addresses, NEW behind \in Addresses
    PROVE  LineNamesItsSymbol(TraceLine(rip, behind), nm)
<1> DEFINE n == Len(nm)
           at(i) == nm[i].address
           all == {nm[i].address : i \in DOMAIN nm}
           low == Min(all \cup {UINTPTR_MAX})
           high == Max(all \cup {0})
           above == FirstAbove(rip, behind)
           of == SymbolOf(rip, behind)
           within == {i \in DOMAIN nm : at(i) <= rip /\ (i < n => rip < at(i + 1))}
<1>1. /\ n \in Nat /\ DOMAIN nm = 1 .. n
      /\ \A i \in 1 .. n : at(i) \in Addresses
      /\ Addresses \subseteq Nat /\ UINTPTR_MAX \in Nat
      /\ \A a \in Addresses : a <= UINTPTR_MAX
  <2> DEFINE R == [address : Addresses, name : STRING]
  <2>1. nm \in Seq(R)  BY DEF SymbolList
  <2>2. \A r \in R : r.address \in Addresses  OBVIOUS
  <2> HIDE DEF R
  <2>3. n \in Nat /\ DOMAIN nm = 1 .. n /\ \A i \in 1 .. n : at(i) \in Addresses
    BY <2>1, <2>2
  <2> QED  BY <2>3, ModulusIs DEF Addresses, UINTPTR_MAX
<1>2. \A i, j \in 1 .. n : i <= j => at(i) <= at(j)
  BY <1>1 DEF Sorted
<1>3. \A i \in 1 .. n : at(i) \in all
  BY <1>1
<1>4. \A a \in all : \E i \in 1 .. n : a = at(i)
  BY <1>1
<1>5. low \in all \cup {UINTPTR_MAX} /\ \A a \in all \cup {UINTPTR_MAX} : low <= a
  <2>1. all \cup {UINTPTR_MAX} \in SUBSET Nat /\ all \cup {UINTPTR_MAX} # {}
    BY <1>1, <1>4
  <2> HIDE DEF all
  <2> QED  BY <2>1, MinIsLeast
<1>6. high \in Nat /\ \A a \in all : a <= high
  <2>1. \A a \in all : a \in Nat /\ a <= UINTPTR_MAX
    <3> TAKE a \in all
    <3>1. PICK i \in 1 .. n : a = at(i)  BY <1>4
    <3>2. at(i) \in Addresses  BY <1>1
    <3> QED  BY <1>1, <3>1, <3>2
  <2> DEFINE S == all \cup {0}
  <2> HIDE DEF all
  <2>2. S \in SUBSET Nat /\ S # {} /\ \A a \in S : a <= UINTPTR_MAX
    BY <1>1, <2>1
  <2>3. \A a \in all : a \in S  OBVIOUS
  <2> HIDE DEF S
  <2>4. Max(S) \in S /\ \A a \in S : a <= Max(S)  BY <1>1, <2>2, MaxIsGreatest
  <2>5. Max(S) \in Nat /\ \A a \in all : a <= Max(S)  BY <2>2, <2>3, <2>4
  <2> QED  BY <2>5 DEF S
<1>7. high \in Nat  BY <1>6
<1>8. rip \in Nat /\ rip <= UINTPTR_MAX  BY <1>1
<1>9. low \in Nat /\ \A i \in 1 .. n : i <= 1 => (low <= rip => at(i) <= rip)
  <2>1. low \in Nat  BY <1>1, <1>4, <1>5
  <2>2. ASSUME NEW i \in 1 .. n, i <= 1, low <= rip PROVE at(i) <= rip
    <3>1. \A j \in 1 .. n : at(i) <= at(j)  BY <1>1, <1>2, <2>2
    <3>2. at(i) \in Nat /\ at(i) <= UINTPTR_MAX  BY <1>1
    <3>3. at(i) <= low
      <4> HIDE DEF low, all
      <4> QED  BY <1>4, <1>5, <3>1, <3>2
    <3> HIDE DEF low
    <3> QED  BY <1>8, <2>1, <2>2, <3>2, <3>3
  <2> QED  BY <2>1, <2>2
<1>10. symbols = nm /\ symbolRange.low = low /\ symbolRange.high = high
  BY DEF Holds
<1> HIDE DEF low, high, all
<1>11. above = {i \in 1 .. n : rip < (IF i + 1 \in 1 .. n THEN at(i + 1) ELSE behind)}
  BY <1>1, <1>10 DEF FirstAbove, AddressOf
<1>12. of = IF rip < low \/ rip > high \/ above = {} THEN 0 ELSE Min(above)
  BY <1>10 DEF SymbolOf
<1> HIDE DEF above, of
<1>13. /\ TraceLine(rip, behind).rip = rip /\ TraceLine(rip, behind).of = of
       /\ TraceLine(rip, behind).name = IF of = 0 THEN "none" ELSE nm[of].name
  BY <1>10 DEF TraceLine, of
<1>14. of # 0 => of \in within
  <2> SUFFICES ASSUME of # 0 PROVE of \in within  OBVIOUS
  <2>1. low <= rip /\ above # {} /\ of = Min(above)
    BY <1>8, <1>9, <1>12
  <2>2. above \in SUBSET Nat  BY <1>11
  <2>3. of \in above /\ \A i \in above : of <= i
    BY <2>1, <2>2, MinIsLeast
  <2>4. of \in 1 .. n /\ rip < (IF of + 1 \in 1 .. n THEN at(of + 1) ELSE behind)
    BY <1>11, <2>3
  <2>5. of < n => rip < at(of + 1)
    <3>1. of < n => of + 1 \in 1 .. n  BY <1>1, <2>4
    <3> QED  BY <2>4, <3>1
  <2>6. at(of) <= rip
    <3>1. CASE of = 1  BY <1>9, <2>1, <2>4, <3>1
    <3>2. CASE of # 1
      <4>1. of - 1 \in 1 .. n /\ (of - 1) + 1 = of /\ ~(of <= of - 1)  BY <1>1, <2>4, <3>2
      <4>2. of - 1 \notin above  BY <2>3, <4>1
      <4>3. ~(rip < at(of))  BY <1>11, <2>4, <4>1, <4>2
      <4>4. at(of) \in Nat  BY <1>1, <2>4
      <4> DEFINE a == at(of)
      <4> HIDE DEF a
      <4>5. a <= rip  BY <1>8, <4>3, <4>4 DEF a
      <4> QED  BY <4>5 DEF a
    <3> QED  BY <3>1, <3>2
  <2> QED  BY <1>1, <2>4, <2>5, <2>6
<1>15. of = 0 => within = {} \/ rip >= at(n)
  <2> SUFFICES ASSUME of = 0, NEW i \in 1 .. n, at(i) <= rip PROVE rip >= at(n)
    BY <1>1
  <2>1. n \in 1 .. n /\ n >= 1 /\ at(n) \in Nat /\ at(i) \in Nat  BY <1>1
  <2>2. CASE rip < low
    <3>1. low <= at(i)  BY <1>3, <1>5
    <3> QED  BY <1>8, <1>9, <2>1, <2>2, <3>1
  <2>3. CASE rip > high
    <3>1. at(n) <= high  BY <1>3, <1>6, <2>1
    <3> QED  BY <1>7, <1>8, <2>1, <2>3, <3>1
  <2>4. CASE low <= rip /\ above = {}
    <3>1. CASE n = 1  BY <1>8, <1>9, <2>1, <2>4, <3>1
    <3>2. CASE n # 1
      <4>1. n - 1 \in 1 .. n /\ (n - 1) + 1 = n  BY <1>1, <2>1, <3>2
      <4>2. ~(rip < at(n))  BY <1>11, <2>1, <2>4, <4>1
      <4> QED  BY <1>8, <2>1, <4>2
    <3> QED  BY <3>1, <3>2
  <2>5. above # {} => rip < low \/ rip > high
    <3> SUFFICES ASSUME above # {}, ~(rip < low \/ rip > high) PROVE FALSE  OBVIOUS
    <3>1. of = Min(above)  BY <1>12
    <3>2. above \in SUBSET Nat /\ 0 \notin above  BY <1>11
    <3>3. Min(above) \in above  BY <3>2, MinIsLeast
    <3> QED  BY <3>1, <3>2, <3>3
  <2> QED  BY <1>8, <1>9, <2>2, <2>3, <2>4, <2>5
<1> QED  BY <1>1, <1>13, <1>14, <1>15 DEF LineNamesItsSymbol

\* A backtrace has one line for each frame of the walk, each with its symbol.
LEMMA BacktraceIs ==
    ASSUME NEW nm \in SymbolList, Sorted(nm), Holds(nm), loaded,
           NEW stack \in Stack, NEW behind \in Addresses
    PROVE  /\ Backtrace(stack, behind) = [k \in DOMAIN Frames(stack) |->
                                            TraceLine(Frames(stack)[k], behind)]
           /\ \A k \in DOMAIN Frames(stack) :
                LineNamesItsSymbol(TraceLine(Frames(stack)[k], behind), nm)
<1>1. \A k \in DOMAIN Frames(stack) : Frames(stack)[k] \in Addresses
  BY FramesAre
<1> QED  BY <1>1, LineIsRight DEF Backtrace

-----------------------------------------------------------------------------
(* Control                                                                   *)

\* Where kmain goes from each step, and the code after it.
Follows ==
    {<<"verify", "uart">>, <<"cpu", "memory">>, <<"memory", "symbols">>, <<"symbols", "ctors">>,
     <<"ctors", "gdt">>, <<"gdt", "idt">>, <<"idt", "rsdt">>, <<"rsdt", "madt">>,
     <<"madt", "madt">>, <<"madt", "lapic">>, <<"lapic", "ioapic">>, <<"ioapic", "hpet">>,
     <<"hpet", "start">>, <<"start", "sleep">>, <<"sleep", "calibrate">>, <<"calibrate", "map">>,
     <<"map", "map_high">>, <<"map_high", "handler">>, <<"map_high", "done">>,
     <<"handler", "done">>, <<"done", "map_high">>, <<"done", "set_counter">>,
     <<"set_counter", "wait">>, <<"set_counter", "done">>, <<"wait", "done">>}

\* What panics say, and what lines of the log.
Reasons ==
    {"no frames", "no room for symbols", "no sse", "control bit", "no fsgs", "segment",
     "table checksum", "page fault", "madt not found", "too many i/o apics",
     "apic not supported", "i/o apic id", "hpet not found", "divide error",
     "no i/o apic"}
LogWords ==
    {"loaded", "memory", "symbols", "constructors", "gdt", "idt", "rsdt", "lapic", "ioapic",
     "hpet", "calibrated", "mapped", "done"}
Words == Reasons \cup LogWords \cup {"header"}

\* What is handed to the chip: words, and lines of a trace.
Tokens == [says : Words] \cup [rip : Addresses, of : Nat, name : STRING \cup {"none"}]
IsLine(line) == line = << >> \/ \E word \in LogWords : line = <<[says |-> word]>>

\* The code goes on to a step that follows, with at most a line to write.
Goes ==
    /\ status = "up" /\ todo = << >>
    /\ <<pc, pc'>> \in Follows
    /\ IsLine(todo')
    /\ idt' = (IF pc = "idt" THEN TRUE ELSE idt)
    /\ enabled' = (IF pc = "lapic" THEN TRUE ELSE enabled)
    /\ IF pc = "symbols" THEN Load(MapFile(machine.nm)) ELSE UNCHANGED symbolVars
    /\ pc' = "map_high" => mapping'.next \in {"handler", "done"}
    /\ UNCHANGED <<machine, status, reason, aborted, chip, ready, said, wire>>

Panics ==
    /\ status = "up" /\ todo = << >>
    /\ \E why \in Reasons : Panic(why)
    /\ UNCHANGED symbolVars

Resets ==
    /\ status = "up" /\ todo = << >> /\ pc \in {"cpu", "gdt"}
    /\ status' = "reset"
    /\ UNCHANGED <<machine, pc, reason, idt, enabled, aborted>>
    /\ UNCHANGED serialVars /\ UNCHANGED symbolVars

Stops ==
    /\ status = "up" /\ todo = << >> /\ pc \in {"verify", "done"}
    /\ HaltAndNeverReturn /\ UNCHANGED symbolVars

\* What a step does to the state of the code.
CodeStep ==
    \/ Goes
    \/ InitUart
    \/ /\ UNCHANGED mapping
       /\ \/ UNCHANGED codeVars
          \/ WriteOut \/ PortSends \/ EndPanic
          \/ Panics \/ Resets \/ Stops

BeforeIdt == {"verify", "uart", "cpu", "memory", "symbols", "ctors", "gdt", "idt"}
BeforeLapic == BeforeIdt \cup {"rsdt", "madt", "lapic"}

\* Where the code can be, and what it has set up by then.
Control ==
    /\ machine \in Machines
    /\ pc \in Steps
    /\ status \in {"up", "panic", "halted", "reset"}
    /\ idt \in BOOLEAN /\ (idt <=> pc \notin BeforeIdt)
    /\ enabled \in BOOLEAN /\ (enabled <=> pc \notin BeforeLapic)
    /\ pc = "map_high" => mapping.next \in {"handler", "done"}

\* Every step is one of these for the code.
LEMMA CodeSteps == Control /\ [Next]_vars => CodeStep
<1> SUFFICES ASSUME Control, [Next]_vars PROVE CodeStep
  OBVIOUS
<1> USE DEF Goes, Stops, Resets, Panics, At, CodeStep, Follows, LogWords, Reasons, IsLine
<1>1. CASE Simple(VerifyBoot)
  BY <1>1 DEF Simple, VerifyBoot, Proceed, routeVars
<1>2. CASE Simple(InitUart)
  BY <1>2 DEF Simple
<1>3. CASE OfProcessor(InitCpu)
  <2>1. \/ Panic("no sse") \/ Fault("control bit") \/ Panic("no fsgs") \/ Proceed("memory")
    BY <1>3 DEF OfProcessor, InitCpu
  <2>2. pc = "cpu" /\ UNCHANGED mapping /\ UNCHANGED symbolVars
    BY <1>3 DEF OfProcessor, InitCpu, routeVars
  <2>3. CASE Proceed("memory")
    BY <1>3, <2>2, <2>3 DEF OfProcessor, InitCpu, Proceed
  <2> QED  BY <1>3, <2>1, <2>2, <2>3 DEF OfProcessor, InitCpu, Fault
<1>4. CASE Simple(InitMemory)
  BY <1>4 DEF Simple, InitMemory, ProceedSaying, LogLine, routeVars
<1>5. CASE Simple(LoadSymbols)
  BY <1>5 DEF Simple, LoadSymbols, ProceedSaying, LogLine, routeVars
<1>6. CASE Simple(CallConstructors)
  BY <1>6 DEF Simple, CallConstructors, ProceedSaying, LogLine, routeVars
<1>7. CASE OfProcessor(LoadGdt)
  BY <1>7 DEF OfProcessor, LoadGdt, ProceedSaying, LogLine, Fault, routeVars
<1>8. CASE OfProcessor(LoadIdt)
  BY <1>8 DEF OfProcessor, LoadIdt, LogLine, routeVars
<1>9. CASE OfAcpi(InitRsdt)
  BY <1>9 DEF OfAcpi, InitRsdt, ProceedSaying, LogLine, Fault, routeVars, Control, BeforeIdt
<1>10. CASE OfAcpi(InitMadt)
  BY <1>10 DEF OfAcpi, InitMadt, Proceed, routeVars
<1>11. CASE OfAcpi(ReadRecord)
  BY <1>11 DEF OfAcpi, ReadRecord, Proceed, routeVars
<1>12. CASE OfAcpi(InitLapic)
  BY <1>12 DEF OfAcpi, InitLapic, LogLine, Fault, routeVars, Control, BeforeIdt
<1>13. CASE OfRouting(InitIoapic)
  BY <1>13 DEF OfRouting, InitIoapic, ProceedSaying, LogLine
<1>14. CASE InitHpet
  BY <1>14 DEF InitHpet, ProceedSaying, LogLine, Fault, Control, BeforeIdt, routeVars, restVars
<1>15. CASE StartCalibration
  BY <1>15 DEF StartCalibration, Proceed, routeVars, restVars
<1>16. CASE SleepOnHpet
  BY <1>16 DEF SleepOnHpet, Proceed, routeVars, restVars
<1>17. CASE Calibrate
  BY <1>17 DEF Calibrate, ProceedSaying, LogLine, routeVars, restVars
<1>18. CASE MapTimer
  <2>1. CASE FindIoapic(0) = 0
    BY <1>18, <2>1 DEF MapTimer, MapLow, routeVars, restVars
  <2>2. CASE FindIoapic(0) # 0
    <3>1. Proceed("map_high") /\ mapping'.next = "handler" /\ At("map") /\ UNCHANGED symbolVars
      BY <1>18, <2>2 DEF MapTimer, MapLow, restVars
    <3> QED  BY <3>1 DEF Proceed
  <2> QED  BY <2>1, <2>2
<1>19. CASE OfRouting(MapHigh)
  BY <1>19 DEF OfRouting, MapHigh, ProceedSaying, LogLine, Control
<1>20. CASE RegisterTimer
  BY <1>20 DEF RegisterTimer, ProceedSaying, LogLine, routeVars, restVars
<1>21. CASE CallHal
  BY <1>21 DEF CallHal, Proceed, routeVars, restVars
<1>22. CASE SetCounter
  BY <1>22 DEF SetCounter, Proceed, routeVars, restVars
<1>23. CASE WakeUp
  BY <1>23 DEF WakeUp, Proceed, routeVars, restVars
<1>24. CASE CallMap
  <2>0. PICK irq \in Irqs : MapLow(irq, machine.apicid, "done")
    BY <1>24 DEF CallMap
  <2>1. CASE FindIoapic(irq) = 0
    BY <1>24, <2>0, <2>1 DEF CallMap, MapLow, routeVars, restVars
  <2>2. CASE FindIoapic(irq) # 0
    <3>1. MapLow(irq, machine.apicid, "done") /\ At("done") /\ UNCHANGED symbolVars
      BY <1>24, <2>0 DEF CallMap, restVars
    <3>2. Proceed("map_high") /\ mapping'.next = "done"
      BY <2>2, <3>1 DEF MapLow
    <3> QED  BY <3>1, <3>2 DEF Proceed
  <2> QED  BY <2>1, <2>2
<1>25. CASE Finish
  BY <1>25 DEF Finish, routeVars, restVars
<1>26. CASE Simple(WriteOut)
  BY <1>26 DEF Simple, routeVars
<1>27. CASE Simple(EndPanic)
  BY <1>27 DEF Simple, routeVars
<1>28. CASE Simple(PortSends)
  BY <1>28 DEF Simple, routeVars
<1>29. CASE OfRouting(RaiseLine)
  BY <1>29 DEF OfRouting, RaiseLine
<1>30. CASE TimePasses
  BY <1>30 DEF TimePasses, routeVars
<1>31. CASE UNCHANGED vars
  BY <1>31 DEF vars, routeVars
<1> QED  BY <1>1, <1>2, <1>3, <1>4, <1>5, <1>6, <1>7, <1>8, <1>9, <1>10, <1>11, <1>12, <1>13, <1>14, <1>15, <1>16, <1>17, <1>18, <1>19, <1>20, <1>21, <1>22, <1>23, <1>24, <1>25, <1>26, <1>27, <1>28, <1>29, <1>30, <1>31 DEF Next, Code, Kmain

\* Control holds in every reachable state.
LEMMA ControlHolds ==
    /\ Init => Control
    /\ Control /\ [Next]_vars => Control'
<1>1. Init => Control
  BY DEF Init, MachineInit, Control, Steps, BeforeIdt, BeforeLapic
<1>2. ASSUME Control, [Next]_vars PROVE Control'
  <2>1. CodeStep  BY <1>2, CodeSteps
  <2>2. CASE Goes
    BY <1>2, <2>2 DEF Goes, Control, Follows, Steps, BeforeIdt, BeforeLapic
  <2>3. CASE InitUart
    BY <1>2, <2>3 DEF InitUart, At, Control, Steps, BeforeIdt, BeforeLapic
  <2>4. UNCHANGED <<machine, pc, idt, enabled, mapping>> /\ status' \in {"up", "panic", "halted", "reset"}
        => Control'
    BY <1>2 DEF Control
  <2>5. CASE UNCHANGED mapping /\ (UNCHANGED codeVars \/ WriteOut \/ PortSends)
    BY <1>2, <2>4, <2>5 DEF codeVars, WriteOut, PortSends, machineVars, Control
  <2>6. CASE UNCHANGED mapping /\ (EndPanic \/ Panics \/ Resets \/ Stops)
    BY <2>4, <2>6 DEF EndPanic, Panics, Panic, Resets, Stops, HaltAndNeverReturn
  <2> QED  BY <2>1, <2>2, <2>3, <2>5, <2>6 DEF CodeStep
<1> QED  BY <1>1, <1>2

-----------------------------------------------------------------------------
(* The serial port                                                           *)

\* The registers of a chip whose divisor is low.
Regs(dlab, low, loop, rx, thr) ==
    [dlab |-> dlab, divisor |-> <<Byte(low), Byte(0)>>, loop |-> loop, rx |-> rx, thr |-> thr]

\* What a write to each of the registers changes.
LEMMA Out8On ==
    ASSUME NEW kind \in {"sound", "garbles"}, NEW c, NEW value
    PROVE  /\ Out8(c, FifoControl, value, kind) = c
           /\ Out8(c, LineControl, value, kind) = [c EXCEPT !.dlab = Bit(value, 128)]
           /\ Out8(c, ModemControl, value, kind) = [c EXCEPT !.loop = Bit(value, 16)]
           /\ ~c.dlab => Out8(c, InterruptEnable, value, kind) = c
           /\ c.dlab => /\ Out8(c, InterruptEnable, value, kind) = [c EXCEPT !.divisor[2] = value]
                        /\ Out8(c, Data, value, kind) = [c EXCEPT !.divisor[1] = value]
           /\ ~c.dlab /\ ~c.loop => Out8(c, Data, value, kind) = [c EXCEPT !.thr = value]
           /\ ~c.dlab /\ c.loop => Out8(c, Data, value, kind) =
                                     [c EXCEPT !.rx = IF kind = "sound" THEN value ELSE None]
  BY DEF Out8, Data, InterruptEnable, FifoControl, LineControl, ModemControl

\* What the writes of UART::init leave in a chip, sound or not: it echoes.
LEMMA SetUpIs ==
    ASSUME NEW kind \in {"sound", "garbles"}
    PROVE  AfterSetUp[kind] =
             Regs(FALSE, 3, TRUE, IF kind = "sound" THEN Byte(Probe) ELSE None, None)
<1> DEFINE on == TRUE
           off == FALSE
<1>t. on \in BOOLEAN /\ off \in BOOLEAN  OBVIOUS
<1>v. on /\ ~off  OBVIOUS
<1>b. /\ Bit(Byte(3), 128) = off /\ Bit(Byte(11), 16) = off
      /\ Bit(Byte(128), 128) = on /\ Bit(Byte(30), 16) = on
  BY DEF Bit, Byte
<1>p. PowerOn = Regs(off, 1, off, None, None)  BY DEF PowerOn, Regs
<1>q. Regs(off, 3, on, IF kind = "sound" THEN Byte(Probe) ELSE None, None) =
        Regs(FALSE, 3, TRUE, IF kind = "sound" THEN Byte(Probe) ELSE None, None)
  OBVIOUS
<1> HIDE DEF on, off
<1> DEFINE latched == Regs(on, 1, off, None, None)
           divided == Regs(on, 3, off, None, None)
           speaks == Regs(off, 3, off, None, None)
           loops == Regs(off, 3, on, None, None)
           last == Regs(off, 3, on, IF kind = "sound" THEN Byte(Probe) ELSE None, None)
           out(c, n) == Out8(c, SetUp[n][1], Byte(SetUp[n][2]), kind)
           f == [n \in 0 .. 9 |-> IF n < 2 THEN PowerOn
                                  ELSE IF n = 2 THEN latched
                                  ELSE IF n < 5 THEN divided
                                  ELSE IF n < 8 THEN speaks
                                  ELSE IF n = 8 THEN loops ELSE last]
           Writes9(g) == g = [n \in 0 .. 9 |-> IF n = 0 THEN PowerOn ELSE out(g[n - 1], n)]
           G == CHOOSE g : Writes9(g)
<1>0. Len(SetUp) = 9  BY DEF SetUp
<1>1. AfterSetUp[kind] = G[9]
  BY <1>0 DEF AfterSetUp, Kinds
<1>s. /\ SetUp[1] = <<InterruptEnable, 0>> /\ SetUp[2] = <<LineControl, 128>>
      /\ SetUp[3] = <<Data, 3>> /\ SetUp[4] = <<InterruptEnable, 0>>
      /\ SetUp[5] = <<LineControl, 3>> /\ SetUp[6] = <<FifoControl, 199>>
      /\ SetUp[7] = <<ModemControl, 11>> /\ SetUp[8] = <<ModemControl, 30>>
      /\ SetUp[9] = <<Data, Probe>>
  BY DEF SetUp
<1>f. /\ ~PowerOn.dlab /\ latched.dlab /\ divided.dlab
      /\ ~speaks.dlab /\ ~speaks.loop /\ ~loops.dlab /\ loops.loop
  BY <1>p, <1>t, <1>v DEF Regs
<1>e1. [PowerOn EXCEPT !.dlab = Bit(Byte(128), 128)] = latched  BY <1>p, <1>b, <1>t DEF Regs
<1>e2. [latched EXCEPT !.divisor[1] = Byte(3)] = divided  BY <1>t DEF Regs
<1>e3. [divided EXCEPT !.divisor[2] = Byte(0)] = divided  BY <1>t DEF Regs
<1>e4. [divided EXCEPT !.dlab = Bit(Byte(3), 128)] = speaks  BY <1>b, <1>t DEF Regs
<1>e5. [speaks EXCEPT !.loop = Bit(Byte(11), 16)] = speaks  BY <1>b, <1>t DEF Regs
<1>e6. [speaks EXCEPT !.loop = Bit(Byte(30), 16)] = loops  BY <1>b, <1>t DEF Regs
<1>e7. [loops EXCEPT !.rx = IF kind = "sound" THEN Byte(Probe) ELSE None] = last
  BY <1>t DEF Regs
<1> HIDE DEF latched, divided, speaks, loops, last
<1>2. out(PowerOn, 1) = PowerOn  BY <1>s, <1>f, Out8On
<1>3. out(PowerOn, 2) = latched  BY <1>s, <1>e1, Out8On
<1>4. out(latched, 3) = divided  BY <1>s, <1>e2, <1>f, Out8On
<1>5. out(divided, 4) = divided  BY <1>s, <1>e3, <1>f, Out8On
<1>6. out(divided, 5) = speaks  BY <1>s, <1>e4, Out8On
<1>7. out(speaks, 6) = speaks  BY <1>s, Out8On
<1>8. out(speaks, 7) = speaks  BY <1>s, <1>e5, Out8On
<1>9. out(speaks, 8) = loops  BY <1>s, <1>e6, Out8On
<1>10. out(loops, 9) = last  BY <1>s, <1>e7, <1>f, Out8On
<1> HIDE DEF out
<1>11. /\ f[0] = PowerOn /\ f[1] = PowerOn /\ f[2] = latched /\ f[3] = divided /\ f[4] = divided
       /\ f[5] = speaks /\ f[6] = speaks /\ f[7] = speaks /\ f[8] = loops /\ f[9] = last
  OBVIOUS
<1>12. \A n \in 0 .. 9 : f[n] = IF n = 0 THEN PowerOn ELSE out(f[n - 1], n)
  <2> HIDE DEF f
  <2> SUFFICES ASSUME NEW n \in 1 .. 9 PROVE f[n] = out(f[n - 1], n)
    BY <1>11
  <2>1. CASE n <= 3  BY <1>2, <1>3, <1>4, <1>11, <2>1
  <2>2. CASE n \in 4 .. 6  BY <1>5, <1>6, <1>7, <1>11, <2>2
  <2>3. CASE n \in 7 .. 9  BY <1>8, <1>9, <1>10, <1>11, <2>3
  <2> QED  BY <2>1, <2>2, <2>3
<1>13. Writes9(f)  BY <1>12
<1>14. Writes9(G)
  <2> HIDE DEF Writes9, f
  <2> QED  BY <1>13
<1> HIDE DEF G
<1>15. G[0] = PowerOn /\ \A n \in 1 .. 9 : G[n] = out(G[n - 1], n)
  BY <1>14
<1>16. G[9] = last
  <2>1. G[1] = PowerOn  BY <1>2, <1>15
  <2>2. G[2] = latched  BY <1>3, <1>15, <2>1
  <2>3. G[3] = divided  BY <1>4, <1>15, <2>2
  <2>4. G[4] = divided  BY <1>5, <1>15, <2>3
  <2>5. G[5] = speaks  BY <1>6, <1>15, <2>4
  <2>6. G[6] = speaks  BY <1>7, <1>15, <2>5
  <2>7. G[7] = speaks  BY <1>8, <1>15, <2>6
  <2>8. G[8] = loops  BY <1>9, <1>15, <2>7
  <2> QED  BY <1>10, <1>15, <2>8
<1> QED  BY <1>1, <1>16, <1>q DEF last

\* Writes to a port without a chip do nothing.
LEMMA SetUpOfNothing == AfterSetUp["absent"] = PowerOn
<1> DEFINE Writes9(g) == g = [n \in 0 .. 9 |->
                IF n = 0 THEN PowerOn
                ELSE Out8(g[n - 1], SetUp[n][1], Byte(SetUp[n][2]), "absent")]
           f == [n \in 0 .. 9 |-> PowerOn]
           G == CHOOSE g : Writes9(g)
<1>0. Len(SetUp) = 9  BY DEF SetUp
<1>1. AfterSetUp["absent"] = G[9]
  BY <1>0 DEF AfterSetUp, Kinds
<1>2. \A c, r, v : Out8(c, r, v, "absent") = c
  BY DEF Out8
<1>3. Writes9(f)
  <2>1. \A n \in 0 .. 9 : f[n] = IF n = 0 THEN PowerOn
                                 ELSE Out8(f[n - 1], SetUp[n][1], Byte(SetUp[n][2]), "absent")
    BY <1>2
  <2> QED  BY <2>1
<1>4. Writes9(G)
  <2> HIDE DEF Writes9, f
  <2> QED  BY <1>3
<1> HIDE DEF G
<1>5. G[0] = PowerOn /\ \A n \in 1 .. 9 : G[n] = G[n - 1]
  BY <1>2, <1>4
<1>6. \A n \in 1 .. 9 : G[n - 1] \in {PowerOn} => G[n] \in {PowerOn}
  BY <1>5
<1>7. G[9] = PowerOn
  BY <1>5, <1>6, StaysIn
<1> QED  BY <1>1, <1>7
-----------------------------------------------------------------------------
(* The symbols                                                               *)

\* The table is empty until it is loaded, and the one of the machine from then on.
SymbolsHold ==
    /\ loaded \in BOOLEAN
    /\ IF loaded THEN Holds(machine.nm) ELSE symbols = << >>

\* What a machine's symbols and stack are.
LEMMA MachineHasSymbols ==
    ASSUME Control
    PROVE  /\ machine.nm \in SymbolList /\ Sorted(machine.nm)
           /\ machine.stack \in Stack /\ machine.behind \in Addresses
  BY MachinesAre DEF Control, WellFormed

\* The table is that of the machine once it is loaded.
LEMMA SymbolsHoldHolds ==
    /\ Init => SymbolsHold
    /\ Control /\ SymbolsHold /\ [Next]_vars => SymbolsHold'
<1>1. Init => SymbolsHold
  BY DEF Init, SymbolsInit, SymbolsHold
<1>2. ASSUME Control, SymbolsHold, [Next]_vars PROVE SymbolsHold'
  <2>1. CodeStep  BY <1>2, CodeSteps
  <2>2. UNCHANGED symbolVars \/ Load(MapFile(machine.nm))
    BY <2>1 DEF CodeStep, Goes, InitUart, codeVars, WriteOut, PortSends, EndPanic, Panics, Resets,
                Stops
  <2>3. machine' = machine
    BY <2>1 DEF CodeStep, Goes, InitUart, codeVars, WriteOut, PortSends, EndPanic, Panics, Resets,
                Stops, machineVars, HaltAndNeverReturn, Panic
  <2>4. CASE UNCHANGED symbolVars
    BY <1>2, <2>3, <2>4 DEF SymbolsHold, symbolVars, Holds
  <2>5. CASE Load(MapFile(machine.nm))
    <3>1. /\ symbols' = machine.nm /\ loaded' = TRUE
          /\ symbolRange' = [low |-> Min({machine.nm[i].address : i \in DOMAIN machine.nm}
                                           \cup {UINTPTR_MAX}),
                             high |-> Max({machine.nm[i].address : i \in DOMAIN machine.nm}
                                           \cup {0})]
      BY <1>2, <2>5, MachineHasSymbols, LoadIs
    <3> QED  BY <2>3, <3>1 DEF SymbolsHold, Holds
  <2> QED  BY <2>2, <2>4, <2>5
<1> QED  BY <1>1, <1>2

\* A panic writes its header, what it is about, and a line for each frame.
LEMMA ReportIs ==
    ASSUME Control, SymbolsHold, NEW why \in Reasons
    PROVE  /\ Report(why) \in Seq(Tokens)
           /\ Backtrace(machine.stack, machine.behind) \in Seq(Tokens)
           /\ \A i \in DOMAIN Backtrace(machine.stack, machine.behind) :
                LineNamesItsSymbol(Backtrace(machine.stack, machine.behind)[i], machine.nm)
           /\ loaded => [i \in DOMAIN Backtrace(machine.stack, machine.behind) |->
                            Backtrace(machine.stack, machine.behind)[i].rip] =
                        Frames(machine.stack)
<1> DEFINE nm == machine.nm
           stack == machine.stack
           behind == machine.behind
           frames == Frames(stack)
           trace == Backtrace(stack, behind)
<1>1. nm \in SymbolList /\ Sorted(nm) /\ stack \in Stack /\ behind \in Addresses
  BY MachineHasSymbols
<1>2. CASE ~loaded
  <2>1. trace = << >>  BY <1>2 DEF Backtrace
  <2>2. /\ [says |-> "header"] \in Tokens /\ [says |-> why] \in Tokens
    BY DEF Tokens, Words
  <2> HIDE DEF trace
  <2>3. Report(why) = <<[says |-> "header"], [says |-> why]>>
    BY <2>1 DEF Report, trace
  <2> HIDE DEF nm, stack, behind
  <2> QED  BY <1>2, <2>1, <2>2, <2>3 DEF trace, nm, stack, behind
<1>3. CASE loaded
  <2>1. Holds(nm)  BY <1>3 DEF SymbolsHold
  <2>2. frames \in Seq(Addresses)  BY <1>1, FramesAre
  <2> HIDE DEF nm, stack, behind, frames, trace
  <2>3. /\ trace = [k \in DOMAIN frames |-> TraceLine(frames[k], behind)]
        /\ \A k \in DOMAIN frames : LineNamesItsSymbol(TraceLine(frames[k], behind), nm)
    BY <1>1, <1>3, <2>1, BacktraceIs DEF frames, trace
  <2>4. ASSUME NEW k \in DOMAIN frames
        PROVE  TraceLine(frames[k], behind) \in Tokens /\ TraceLine(frames[k], behind).rip = frames[k]
    <3> DEFINE line == TraceLine(frames[k], behind)
               of == SymbolOf(frames[k], behind)
               name == IF of = 0 THEN "none" ELSE symbols[of].name
    <3>1. line = [rip |-> frames[k], of |-> of, name |-> name]
      BY DEF TraceLine
    <3>2. LineNamesItsSymbol(line, nm)  BY <2>3
    <3> HIDE DEF line, of
    <3>3. of # 0 => of \in DOMAIN nm
      BY <3>1, <3>2 DEF LineNamesItsSymbol
    <3>4. \A i \in DOMAIN nm : i \in Nat /\ nm[i].name \in STRING
      <4> DEFINE R == [address : Addresses, name : STRING]
      <4>1. nm \in Seq(R)  BY <1>1 DEF SymbolList
      <4>2. \A r \in R : r.name \in STRING  OBVIOUS
      <4> HIDE DEF R
      <4>3. \A i \in DOMAIN nm : i \in Nat /\ nm[i] \in R  BY <4>1
      <4> QED  BY <4>2, <4>3
    <3>5. of \in Nat /\ name \in STRING \cup {"none"}
      BY <2>1, <3>3, <3>4 DEF Holds
    <3>6. frames[k] \in Addresses  BY <2>2
    <3> HIDE DEF name
    <3> QED  BY <3>1, <3>5, <3>6 DEF Tokens, line
  <2>5. trace \in Seq(Tokens)
    <3>1. DOMAIN frames = 1 .. Len(frames) /\ Len(frames) \in Nat  BY <2>2
    <3> HIDE DEF Tokens
    <3> QED  BY <2>3, <2>4, <3>1
  <2>6. /\ [says |-> "header"] \in Tokens /\ [says |-> why] \in Tokens
    BY DEF Tokens, Words
  <2>7. Report(why) \in Seq(Tokens)
    <3>1. Report(why) = <<[says |-> "header"], [says |-> why]>> \o trace
      BY DEF Report, trace, stack, behind
    <3> HIDE DEF Tokens
    <3> QED  BY <2>5, <2>6, <3>1
  <2>8. [i \in DOMAIN trace |-> trace[i].rip] = frames
    <3>1. frames = [k \in DOMAIN frames |-> frames[k]]  BY <2>2
    <3> QED  BY <2>3, <2>4, <3>1
  <2>9. \A i \in DOMAIN trace : LineNamesItsSymbol(trace[i], nm)  BY <2>3
  <2> QED  BY <2>5, <2>7, <2>8, <2>9 DEF trace, nm, stack, behind, frames
<1> QED  BY <1>2, <1>3
-----------------------------------------------------------------------------
(* Writing                                                                   *)

\* What the chip still holds.
Pending == IF chip.thr = None THEN << >> ELSE <<chip.thr>>

\* A port that is written to is tuned, out of loopback, and has sent all that it
\* does not hold; one that is not has nothing to send.
PortHolds ==
    /\ ready \in BOOLEAN
    /\ said \in Seq(Tokens) /\ wire \in Seq(Tokens) /\ todo \in Seq(Tokens)
    /\ pc \in {"verify", "uart"} => ~ready
    /\ ~ready => chip.thr = None /\ said = << >> /\ wire = << >>
    /\ ready => /\ ~chip.dlab /\ ~chip.loop /\ "thr" \in DOMAIN chip
                /\ chip.divisor = <<Byte(3), Byte(0)>>
                /\ chip.thr \in Tokens \cup {None}
                /\ said = wire \o Pending

\* Nothing is not a token.
LEMMA NothingIsNoToken == None \notin Tokens
  BY DEF None, Tokens, Words, Reasons, LogWords

\* A line of the log is tokens.
LEMMA LineIsTokens == \A line : IsLine(line) => line \in Seq(Tokens)
<1>1. \A word \in LogWords : [says |-> word] \in Tokens  BY DEF Tokens, Words
<1>2. \A t \in Tokens : <<t>> \in Seq(Tokens)  OBVIOUS
<1>3. \A word \in LogWords : <<[says |-> word]>> \in Seq(Tokens)
  <2> HIDE DEF Tokens
  <2> QED  BY <1>1, <1>2
<1>4. << >> \in Seq(Tokens)  OBVIOUS
<1> QED  BY <1>3, <1>4 DEF IsLine

\* UART::init leaves the port tuned, or does not use it.
LEMMA InitUartTunes ==
    ASSUME Control, PortHolds, InitUart
    PROVE  PortHolds'
<1>1. /\ ~ready /\ chip.thr = None /\ said = << >> /\ wire = << >>
      /\ UNCHANGED <<said, wire>> /\ pc' = "cpu" /\ UartInit(machine.build, machine.port)
  BY DEF InitUart, At, PortHolds
<1>2. todo' \in Seq(Tokens)
  <2>1. IsLine(todo')  BY DEF InitUart, LogLine, IsLine, LogWords
  <2> QED  BY <2>1, LineIsTokens
<1>3. machine.port \in Kinds  BY MachinesAre DEF Control, WellFormed
<1>4. CASE UNCHANGED <<chip, ready>>
  BY <1>1, <1>2, <1>4 DEF PortHolds
<1>5. CASE machine.port = "absent" /\ ~UNCHANGED <<chip, ready>>
  <2>1. chip' = PowerOn /\ ready' = ready
    BY <1>1, <1>5, SetUpOfNothing DEF UartInit, Absent, Byte, Probe
  <2>2. chip'.thr = None  BY <2>1 DEF PowerOn
  <2> QED  BY <1>1, <1>2, <2>1, <2>2 DEF PortHolds
<1>6. CASE machine.port = "garbles" /\ ~UNCHANGED <<chip, ready>>
  <2>1. AfterSetUp["garbles"] = Regs(FALSE, 3, TRUE, None, None)
    BY SetUpIs
  <2>2. AfterSetUp["garbles"].rx # Byte(Probe) /\ AfterSetUp["garbles"].thr = None
    BY <2>1 DEF Regs, None, Byte
  <2>3. chip' = AfterSetUp["garbles"] /\ ready' = ready
    BY <1>1, <1>6, <2>2 DEF UartInit
  <2> QED  BY <1>1, <1>2, <2>2, <2>3 DEF PortHolds
<1>7. CASE machine.port = "sound" /\ ~UNCHANGED <<chip, ready>>
  <2> DEFINE c == AfterSetUp["sound"]
  <2>1. c = Regs(FALSE, 3, TRUE, Byte(Probe), None)
    BY SetUpIs
  <2>2. /\ c.rx = Byte(Probe) /\ c.thr = None /\ ~c.dlab /\ c.divisor = <<Byte(3), Byte(0)>>
        /\ {"thr", "loop"} \subseteq DOMAIN c
    BY <2>1 DEF Regs
  <2> HIDE DEF c
  <2>3. chip' = Out8(c, ModemControl, Byte(15), "sound") /\ ready' = TRUE
    BY <1>1, <1>7, <2>2 DEF UartInit, c
  <2>4. chip' = [c EXCEPT !.loop = Bit(Byte(15), 16)]
    BY <2>3, Out8On
  <2>5. ~Bit(Byte(15), 16)  BY DEF Bit, Byte
  <2>6. /\ ~chip'.loop /\ chip'.thr = None /\ ~chip'.dlab
        /\ chip'.divisor = <<Byte(3), Byte(0)>> /\ "thr" \in DOMAIN chip'
    BY <2>2, <2>4, <2>5
  <2>7. Pending' = << >>  BY <2>6 DEF Pending
  <2>8. said' = << >> \o << >> /\ wire' = << >>
    BY <1>1
  <2> QED  BY <1>1, <1>2, <2>3, <2>6, <2>7, <2>8 DEF PortHolds
<1> QED  BY <1>3, <1>4, <1>5, <1>6, <1>7 DEF Kinds

\* A token that is written waits in the chip.
LEMMA WriteOutWaits ==
    ASSUME PortHolds, WriteOut
    PROVE  PortHolds' /\ said' \o todo' = (IF ready THEN said \o todo ELSE todo')
<1>1. /\ todo # << >> /\ todo' = Tail(todo) /\ UNCHANGED <<ready, wire, pc>>
      /\ todo \in Seq(Tokens) /\ said \in Seq(Tokens) /\ wire \in Seq(Tokens) /\ ready \in BOOLEAN
  BY DEF WriteOut, Write, machineVars, PortHolds
<1> DEFINE T == Tokens
<1> HIDE DEF T
<1>2. Head(todo) \in T /\ todo' \in Seq(T)  BY <1>1 DEF T
<1>3. CASE ~ready
  <2>1. UNCHANGED <<chip, said>>  BY <1>3 DEF WriteOut, Write
  <2>2. PortHolds'  BY <1>1, <1>2, <1>3, <2>1 DEF PortHolds, T
  <2>3. said' = << >>  BY <1>3, <2>1 DEF PortHolds
  <2>4. said' \o todo' = todo'  BY <1>2, <2>3
  <2> QED  BY <1>3, <2>2, <2>4
<1>4. CASE ready
  <2>1. /\ chip.thr = None /\ chip' = Out8(chip, Data, Head(todo), "sound")
        /\ said' = Append(said, Head(todo))
    BY <1>4 DEF WriteOut, Write, HoldingEmpty
  <2>2. ~chip.dlab /\ ~chip.loop /\ "thr" \in DOMAIN chip /\ chip.divisor = <<Byte(3), Byte(0)>>
    BY <1>4 DEF PortHolds
  <2>3. chip' = [chip EXCEPT !.thr = Head(todo)]
    BY <2>1, <2>2, Out8On
  <2>4. /\ ~chip'.dlab /\ ~chip'.loop /\ "thr" \in DOMAIN chip'
        /\ chip'.divisor = <<Byte(3), Byte(0)>> /\ chip'.thr = Head(todo)
    BY <2>2, <2>3
  <2>5. Pending' = <<Head(todo)>>
    BY <1>2, <2>4, NothingIsNoToken DEF Pending, T
  <2>6. said = wire
    <3>1. said = wire \o << >>  BY <1>4, <2>1 DEF PortHolds, Pending
    <3> QED  BY <1>1, <3>1, ConcatEmptySeq
  <2>7. said' \in Seq(T) /\ said' = wire' \o Pending'
    <3>1. said \in Seq(T)  BY <1>1 DEF T
    <3> QED  BY <1>1, <1>2, <2>1, <2>5, <2>6, <3>1
  <2>8. said' \o todo' = said \o todo
    <3>1. todo = <<Head(todo)>> \o Tail(todo) /\ Tail(todo) \in Seq(T) /\ <<Head(todo)>> \in Seq(T)
      BY <1>1, <1>2 DEF T
    <3>2. said \in Seq(T) /\ said' = said \o <<Head(todo)>>  BY <1>1, <1>2, <2>1 DEF T
    <3>3. (said \o <<Head(todo)>>) \o Tail(todo) = said \o (<<Head(todo)>> \o Tail(todo))
      BY <3>1, <3>2, ConcatAssociative
    <3> QED  BY <1>1, <3>1, <3>2, <3>3
  <2>9. PortHolds'
    BY <1>1, <1>2, <1>4, <2>4, <2>7 DEF PortHolds, T
  <2> QED  BY <1>4, <2>8, <2>9
<1> QED  BY <1>1, <1>3, <1>4

\* What the chip sends is what it held.
LEMMA PortSendsIt ==
    ASSUME PortHolds, PortSends
    PROVE  PortHolds'
<1>1. /\ chip.thr # None /\ chip' = [chip EXCEPT !.thr = None] /\ UNCHANGED <<ready, todo, said, pc>>
      /\ wire' = Append(wire, IF chip.divisor = <<Byte(3), Byte(0)>> THEN chip.thr
                               ELSE [says |-> "garbled"])
  BY DEF PortSends, Transmit, machineVars
<1>2. /\ ready /\ ~chip.dlab /\ ~chip.loop /\ "thr" \in DOMAIN chip
      /\ chip.divisor = <<Byte(3), Byte(0)>> /\ chip.thr \in Tokens
      /\ said = wire \o <<chip.thr>> /\ wire \in Seq(Tokens)
  BY <1>1 DEF PortHolds, Pending
<1>3. /\ ~chip'.dlab /\ ~chip'.loop /\ "thr" \in DOMAIN chip'
      /\ chip'.divisor = <<Byte(3), Byte(0)>> /\ chip'.thr = None
  BY <1>1, <1>2
<1> DEFINE T == Tokens
<1> HIDE DEF T
<1>4. wire' \in Seq(T) /\ said = wire' /\ wire' \o << >> = wire'
  BY <1>1, <1>2 DEF T
<1>5. Pending' = << >>  BY <1>3 DEF Pending
<1> QED  BY <1>1, <1>2, <1>3, <1>4, <1>5 DEF PortHolds, T

\* The port is written to only when it is tuned, and nothing is lost on the way.
LEMMA PortHoldsHolds ==
    /\ Init => PortHolds
    /\ Control /\ SymbolsHold /\ PortHolds /\ [Next]_vars => PortHolds'
<1>1. ASSUME Init PROVE PortHolds
  <2>1. chip.thr = None /\ ready = FALSE /\ todo = << >> /\ said = << >> /\ wire = << >>
    BY <1>1 DEF Init, SerialInit, PowerOn
  <2>2. << >> \in Seq(Tokens)  OBVIOUS
  <2> QED  BY <2>1, <2>2 DEF PortHolds
<1>2. ASSUME Control, SymbolsHold, PortHolds, [Next]_vars PROVE PortHolds'
  <2>1. CodeStep  BY <1>2, CodeSteps
  <2>2. UNCHANGED <<chip, ready, said, wire, pc>> /\ todo' \in Seq(Tokens) => PortHolds'
    BY <1>2 DEF PortHolds, Pending
  <2>3. CASE Goes
    <3>1. UNCHANGED <<chip, ready, said, wire>> /\ IsLine(todo') /\ <<pc, pc'>> \in Follows
      BY <2>3 DEF Goes
    <3>2. todo' \in Seq(Tokens)  BY <3>1, LineIsTokens
    <3>3. pc' \in {"verify", "uart"} => pc = "verify"  BY <3>1 DEF Follows
    <3> QED  BY <1>2, <3>1, <3>2, <3>3 DEF PortHolds, Pending
  <2>4. CASE InitUart
    BY <1>2, <2>4, InitUartTunes
  <2>5. CASE WriteOut
    BY <1>2, <2>5, WriteOutWaits
  <2>6. CASE PortSends
    BY <1>2, <2>6, PortSendsIt
  <2>7. CASE UNCHANGED codeVars \/ EndPanic \/ Resets \/ Stops
    <3>1. UNCHANGED <<chip, ready, said, wire, pc, todo>>
      BY <2>7 DEF codeVars, serialVars, machineVars, EndPanic, Resets, Stops, HaltAndNeverReturn
    <3> QED  BY <1>2, <2>2, <3>1 DEF PortHolds
  <2>8. CASE Panics
    <3>1. PICK why \in Reasons : Panic(why)  BY <2>8 DEF Panics
    <3>2. todo' = Report(why) /\ UNCHANGED <<chip, ready, said, wire, pc>>
      BY <3>1 DEF Panic
    <3> QED  BY <1>2, <2>2, <3>2, ReportIs
  <2> QED  BY <2>1, <2>3, <2>4, <2>5, <2>6, <2>7, <2>8 DEF CodeStep
<1> QED  BY <1>1, <1>2

\* Whatever is handed to the chip goes out, whole, in order and at the speed
\* that was promised (uart.cpp): a chip that is written to has passed the probe,
\* left loopback and has its divisor, and the writer waits for it.
THEOREM SerialLosesNothingTheorem == Spec => []SerialLosesNothing
<1> DEFINE IInv == Control /\ SymbolsHold /\ PortHolds
<1>1. Init => IInv
  BY ControlHolds, SymbolsHoldHolds, PortHoldsHolds
<1>2. IInv /\ [Next]_vars => IInv'
  BY ControlHolds, SymbolsHoldHolds, PortHoldsHolds
<1>3. IInv => SerialLosesNothing
  BY DEF PortHolds, Pending, SerialLosesNothing
<1> HIDE DEF IInv
<1> QED  BY <1>1, <1>2, <1>3, PTL DEF Spec
-----------------------------------------------------------------------------
(* Panics                                                                    *)

\* A panic has told the others to stop, and what it has written and has still to
\* write ends in its report.
PanicHolds ==
    /\ status = "panic" => reason # "none"
    /\ status \in {"up", "reset"} => reason = "none"
    /\ reason # "none" =>
          /\ reason \in Reasons
          /\ enabled => aborted
          /\ status = "halted" => todo = << >>
          /\ ready => \E before \in Seq(Tokens) : said \o todo = before \o Report(reason)

\* A panic writes its report and nothing after it.
LEMMA PanicHoldsHolds ==
    /\ Init => PanicHolds
    /\ Control /\ SymbolsHold /\ PortHolds /\ PanicHolds /\ [Next]_vars => PanicHolds'
<1>1. Init => PanicHolds
  BY DEF Init, MachineInit, PanicHolds
<1>2. ASSUME Control, SymbolsHold, PortHolds, PanicHolds, [Next]_vars PROVE PanicHolds'
  <2>1. CodeStep  BY <1>2, CodeSteps
  <2>2. CASE Goes \/ InitUart \/ Resets \/ Stops
    <3>1. status = "up" /\ reason' = reason /\ status' \in {"up", "reset", "halted"}
      BY <2>2 DEF Goes, InitUart, At, Resets, Stops, HaltAndNeverReturn
    <3> QED  BY <1>2, <3>1 DEF PanicHolds
  <2>3. ASSUME UNCHANGED <<symbolVars, machine>> PROVE Report(reason)' = Report(reason')
    BY <2>3 DEF Report, Backtrace, symbolVars, Frames, TraceLine, SymbolOf, FirstAbove, AddressOf
  <2>4. CASE UNCHANGED codeVars \/ WriteOut \/ PortSends \/ EndPanic
    <3>1. /\ UNCHANGED <<symbolVars, machine, reason, enabled, aborted, ready>>
          /\ \/ UNCHANGED status
             \/ status = "panic" /\ status' = "halted" /\ todo = << >> /\ UNCHANGED todo
      BY <2>4 DEF codeVars, WriteOut, Write, PortSends, Transmit, EndPanic, HaltAndNeverReturn,
                  machineVars, serialVars
    <3>2. Report(reason)' = Report(reason)  BY <2>3, <3>1
    <3>3. ready => said' \o todo' = said \o todo
      <4>1. CASE WriteOut  BY <1>2, <4>1, WriteOutWaits
      <4>2. CASE UNCHANGED codeVars \/ PortSends \/ EndPanic
        BY <4>2 DEF codeVars, serialVars, PortSends, Transmit, EndPanic, HaltAndNeverReturn
      <4> QED  BY <2>4, <4>1, <4>2
    <3>4. todo = << >> /\ status = "halted" => todo' = << >>
      BY <2>4 DEF codeVars, serialVars, WriteOut, PortSends, Transmit, EndPanic
    <3> QED  BY <1>2, <3>1, <3>2, <3>3, <3>4 DEF PanicHolds
  <2>5. CASE Panics
    <3>1. PICK why \in Reasons : Panic(why)  BY <2>5 DEF Panics
    <3>2. /\ status' = "panic" /\ reason' = why /\ aborted' = (aborted \/ enabled)
          /\ todo' = Report(why) /\ UNCHANGED <<machine, enabled, ready, said>>
      BY <3>1 DEF Panic, Broadcast
    <3>3. Report(reason)' = Report(why)  BY <2>3, <2>5, <3>2 DEF Panics
    <3>4. said \in Seq(Tokens)  BY <1>2 DEF PortHolds
    <3>5. why # "none"  BY DEF Reasons
    <3> QED  BY <3>2, <3>3, <3>4, <3>5 DEF PanicHolds
  <2> QED  BY <2>1, <2>2, <2>4, <2>5 DEF CodeStep
<1> QED  BY <1>1, <1>2

\* A panic over a working port is heard to its end: header and message come out
\* together, then, if the symbols were loaded, the trace, each line with the symbol
\* its address lies in, which the last symbol may lack; and the other processors
\* were told to stop if there was an APIC (panic.cpp, ksyms.cpp).
THEOREM PanicIsHeardTheorem == Spec => []PanicIsHeard
<1> DEFINE IInv == Control /\ SymbolsHold /\ PortHolds /\ PanicHolds
<1>1. Init => IInv
  BY ControlHolds, SymbolsHoldHolds, PortHoldsHolds, PanicHoldsHolds
<1>2. IInv /\ [Next]_vars => IInv'
  BY ControlHolds, SymbolsHoldHolds, PortHoldsHolds, PanicHoldsHolds
<1>3. ASSUME IInv, reason # "none", status = "halted"
      PROVE  PanicIsHeard
  <2>1. /\ Control /\ SymbolsHold /\ reason \in Reasons /\ (enabled => aborted) /\ todo = << >>
        /\ said \in Seq(Tokens)
    BY <1>3 DEF PanicHolds, PortHolds
  <2>2. ASSUME ready
        PROVE  \E k \in DOMAIN said :
                  /\ said[k] = [says |-> "header"]
                  /\ said[k + 1] = [says |-> reason]
                  /\ SubSeq(said, k + 2, Len(said)) = Backtrace(machine.stack, machine.behind)
    <3> DEFINE T == Tokens
               trace == Backtrace(machine.stack, machine.behind)
               report == Report(reason)
    <3>1. report \in Seq(T) /\ trace \in Seq(T)  BY <2>1, ReportIs
    <3>2. report = <<[says |-> "header"], [says |-> reason]>> \o trace  BY DEF Report
    <3>3. [says |-> "header"] \in T /\ [says |-> reason] \in T
      BY <2>1 DEF Tokens, Words
    <3> HIDE DEF T, trace, report
    <3>4. PICK before \in Seq(T) : said \o todo = before \o report
      BY <1>3, <2>2 DEF PanicHolds, T, report
    <3>5. said = before \o report /\ said \in Seq(T)
      BY <2>1, <3>4 DEF T
    <3>6. /\ Len(report) = 2 + Len(trace) /\ Len(trace) \in Nat
          /\ report[1] = [says |-> "header"] /\ report[2] = [says |-> reason]
          /\ \A i \in 1 .. Len(trace) : report[i + 2] = trace[i]
      BY <3>1, <3>2, <3>3
    <3> DEFINE k == Len(before) + 1
    <3>7. /\ k \in Nat /\ Len(said) = k + 1 + Len(trace) /\ DOMAIN said = 1 .. Len(said)
          /\ \A i \in 1 .. Len(report) : said[Len(before) + i] = report[i]
      <4>1. Len(before) \in Nat  BY <3>4
      <4>2. Len(before \o report) = Len(before) + Len(report)
        BY <3>1, <3>4, ConcatProperties
      <4>3. \A i \in 1 .. Len(before) + Len(report) :
              (before \o report)[i] = IF i <= Len(before) THEN before[i] ELSE report[i - Len(before)]
        BY <3>1, <3>4, ConcatProperties
      <4>4. \A i \in 1 .. Len(report) : said[Len(before) + i] = report[i]
        <5> TAKE i \in 1 .. Len(report)
        <5>1. /\ Len(before) + i \in 1 .. Len(before) + Len(report) /\ Len(report) \in Nat
              /\ ~(Len(before) + i <= Len(before)) /\ (Len(before) + i) - Len(before) = i
          BY <3>6, <4>1
        <5> QED  BY <3>5, <4>3, <5>1
      <4>5. Len(said) \in Nat /\ DOMAIN said = 1 .. Len(said)  BY <3>5
      <4> QED  BY <3>5, <3>6, <4>1, <4>2, <4>4, <4>5
    <3>8. k \in DOMAIN said /\ said[k] = [says |-> "header"] /\ said[k + 1] = [says |-> reason]
      BY <3>4, <3>6, <3>7
    <3>9. SubSeq(said, k + 2, Len(said)) = trace
      <4> DEFINE rest == SubSeq(said, k + 2, Len(said))
      <4>1. \A i \in k + 2 .. Len(said) : said[i] \in T  BY <3>5, <3>7
      <4>2. k + 2 \in Int /\ Len(said) \in Int  BY <3>7
      <4>3. /\ rest \in Seq(T)
            /\ Len(rest) = IF k + 2 <= Len(said) THEN Len(said) - (k + 2) + 1 ELSE 0
            /\ \A i \in 1 .. Len(said) - (k + 2) + 1 : rest[i] = said[k + 2 + i - 1]
        BY <4>1, <4>2, SubSeqProperties
      <4> HIDE DEF rest
      <4>4. Len(rest) = Len(trace)  BY <3>6, <3>7, <4>3
      <4>5. ASSUME NEW i \in 1 .. Len(trace) PROVE rest[i] = trace[i]
        <5>1. rest[i] = said[k + 2 + i - 1]  BY <3>6, <3>7, <4>3, <4>5
        <5>2. k + 2 + i - 1 = Len(before) + (i + 2) /\ i + 2 \in 1 .. Len(report)
          <6>1. Len(before) \in Nat  BY <3>4
          <6> QED  BY <3>6, <6>1
        <5> QED  BY <3>6, <3>7, <5>1, <5>2
      <4> QED  BY <3>1, <4>3, <4>4, <4>5, SeqEqual DEF rest
    <3> QED  BY <3>8, <3>9 DEF trace
  <2>3. /\ \A i \in DOMAIN Backtrace(machine.stack, machine.behind) :
             LineNamesItsSymbol(Backtrace(machine.stack, machine.behind)[i], machine.nm)
        /\ loaded => [i \in DOMAIN Backtrace(machine.stack, machine.behind) |->
                        Backtrace(machine.stack, machine.behind)[i].rip] = Frames(machine.stack)
        /\ ~loaded => Backtrace(machine.stack, machine.behind) = << >>
    <3>1. ~loaded => Backtrace(machine.stack, machine.behind) = << >>  BY DEF Backtrace
    <3> QED  BY <2>1, <3>1, ReportIs
  <2> DEFINE trace == Backtrace(machine.stack, machine.behind)
  <2> HIDE DEF trace
  <2> QED  BY <2>1, <2>2, <2>3 DEF PanicIsHeard
<1>4. IInv => PanicIsHeard
  BY <1>3 DEF PanicIsHeard
<1> HIDE DEF IInv
<1> QED  BY <1>1, <1>2, <1>4, PTL DEF Spec
-----------------------------------------------------------------------------
(* The processor                                                             *)

\* Each step of kmain has its place.
LEMMA StepsAt ==
    /\ VerifyBoot => At("verify")
    /\ InitUart => At("uart")
    /\ InitMemory => At("memory")
    /\ LoadSymbols => At("symbols")
    /\ CallConstructors => At("ctors")
    /\ LoadIdt => At("idt")
    /\ InitRsdt => At("rsdt")
    /\ InitMadt => At("madt")
    /\ ReadRecord => At("madt")
    /\ InitLapic => At("lapic")
    /\ InitIoapic => At("ioapic")
    /\ InitHpet => At("hpet")
    /\ StartCalibration => At("start")
    /\ SleepOnHpet => At("sleep")
    /\ Calibrate => At("calibrate")
    /\ MapTimer => At("map")
    /\ MapHigh => At("map_high")
    /\ RegisterTimer => At("handler")
    /\ SetCounter => At("set_counter")
    /\ WakeUp => At("wait")
    /\ CallHal \/ CallMap \/ Finish => At("done")
  BY DEF VerifyBoot, InitUart, InitMemory, LoadSymbols, CallConstructors, LoadIdt, InitRsdt,
         InitMadt, ReadRecord, InitLapic, InitIoapic, InitHpet, StartCalibration, SleepOnHpet,
         Calibrate, MapTimer, MapHigh, RegisterTimer, SetCounter, WakeUp, CallHal, CallMap, Finish

\* CPU::init and the GDT write the registers, and nobody else resets the machine.
LEMMA CpuSteps ==
    ASSUME [Next]_vars
    PROVE  \/ InitCpu \/ LoadGdt
           \/ UNCHANGED cpuVars /\ (At("cpu") \/ At("gdt") => UNCHANGED <<status, pc>>)
<1> USE StepsAt DEF At
<1>1. CASE \/ Simple(VerifyBoot) \/ Simple(InitUart) \/ Simple(InitMemory) \/ Simple(LoadSymbols)
           \/ Simple(CallConstructors)
  BY <1>1 DEF Simple
<1>2. CASE OfProcessor(InitCpu) \/ OfProcessor(LoadGdt)
  BY <1>2 DEF OfProcessor
<1>3. CASE OfProcessor(LoadIdt)
  BY <1>3 DEF OfProcessor, LoadIdt
<1>4. CASE OfAcpi(InitRsdt) \/ OfAcpi(InitMadt) \/ OfAcpi(ReadRecord) \/ OfAcpi(InitLapic)
  BY <1>4 DEF OfAcpi, InitRsdt, InitMadt, ReadRecord, InitLapic
<1>5. CASE OfRouting(InitIoapic) \/ OfRouting(MapHigh)
  BY <1>5 DEF OfRouting, InitIoapic, MapHigh
<1>6. CASE InitHpet \/ StartCalibration \/ SleepOnHpet \/ Calibrate \/ MapTimer \/ RegisterTimer
  BY <1>6 DEF InitHpet, StartCalibration, SleepOnHpet, Calibrate, MapTimer, RegisterTimer, restVars
<1>7. CASE SetCounter \/ WakeUp \/ Finish \/ CallHal \/ CallMap
  BY <1>7 DEF SetCounter, WakeUp, Finish, CallHal, CallMap, restVars
<1>8. CASE Simple(WriteOut) \/ Simple(PortSends) \/ Simple(EndPanic)
  BY <1>8 DEF Simple, WriteOut, PortSends, EndPanic, machineVars
<1>9. CASE OfRouting(RaiseLine) \/ TimePasses \/ UNCHANGED vars
  BY <1>9 DEF OfRouting, RaiseLine, TimePasses, vars, codeVars, machineVars
<1> QED  BY <1>1, <1>2, <1>3, <1>4, <1>5, <1>6, <1>7, <1>8, <1>9 DEF Next, Code, Kmain

\* The nine writes of CPU::init, one by one.
LEMMA WritesAre ==
    ASSUME NEW cpu
    PROVE  LET ws == Writes(cpu)
           IN  /\ Len(ws) = 9 /\ DOMAIN ws = 1 .. 9
               /\ ws[1] = Add(TRUE, "cr4", {"OSFXSR", "OSXMMEXCPT"})
               /\ ws[2] = Add("PGE" \in Leaf1(cpu), "cr4", {"PGE"})
               /\ ws[3] = Add("XSAVE" \in Leaf1(cpu), "cr4", {"OSXSAVE"})
               /\ ws[4] = Put("XSAVE" \in Leaf1(cpu), "xcr0", {"X87"})
               /\ ws[5] = Add({"XSAVE", "AVX"} \subseteq Leaf1(cpu), "xcr0", {"X87", "SSE", "AVX"})
               /\ ws[6] = Add("SMAP" \in Leaf7(cpu), "cr4", {"SMAP"})
               /\ ws[7] = Add("SMEP" \in Leaf7(cpu), "cr4", {"SMEP"})
               /\ ws[8] = Add("UMIP" \in Leaf7(cpu), "cr4", {"UMIP"})
               /\ ws[9] = Add("FSGS" \in Leaf7(cpu), "cr4", {"FSGSBASE"})
<1> DEFINE w1 == Add(TRUE, "cr4", {"OSFXSR", "OSXMMEXCPT"})
           w2 == Add("PGE" \in Leaf1(cpu), "cr4", {"PGE"})
           w3 == Add("XSAVE" \in Leaf1(cpu), "cr4", {"OSXSAVE"})
           w4 == Put("XSAVE" \in Leaf1(cpu), "xcr0", {"X87"})
           w5 == Add({"XSAVE", "AVX"} \subseteq Leaf1(cpu), "xcr0", {"X87", "SSE", "AVX"})
           w6 == Add("SMAP" \in Leaf7(cpu), "cr4", {"SMAP"})
           w7 == Add("SMEP" \in Leaf7(cpu), "cr4", {"SMEP"})
           w8 == Add("UMIP" \in Leaf7(cpu), "cr4", {"UMIP"})
           w9 == Add("FSGS" \in Leaf7(cpu), "cr4", {"FSGSBASE"})
           all == {w1, w2, w3, w4, w5, w6, w7, w8, w9}
<1>1. Writes(cpu) = <<w1, w2, w3, w4, w5>> \o <<w6, w7, w8, w9>>
  BY DEF Writes, Leaf1Writes, Leaf7Writes
<1>2. w1 \in all /\ w2 \in all /\ w3 \in all /\ w4 \in all /\ w5 \in all /\ w6 \in all
      /\ w7 \in all /\ w8 \in all /\ w9 \in all
  OBVIOUS
<1> HIDE DEF w1, w2, w3, w4, w5, w6, w7, w8, w9, all
<1> DEFINE s == <<w1, w2, w3, w4, w5>>
           t == <<w6, w7, w8, w9>>
<1>3. s \in Seq(all) /\ t \in Seq(all) /\ Len(s) = 5 /\ Len(t) = 4  BY <1>2
<1>4. /\ s[1] = w1 /\ s[2] = w2 /\ s[3] = w3 /\ s[4] = w4 /\ s[5] = w5
      /\ t[1] = w6 /\ t[2] = w7 /\ t[3] = w8 /\ t[4] = w9
  OBVIOUS
<1> HIDE DEF s, t
<1>5. /\ s \o t \in Seq(all) /\ Len(s \o t) = Len(s) + Len(t)
      /\ \A i \in 1 .. Len(s) + Len(t) : (s \o t)[i] = IF i <= Len(s) THEN s[i] ELSE t[i - Len(s)]
  BY <1>3, ConcatProperties
<1> DEFINE ws == s \o t
<1>6. ws = Writes(cpu)  BY <1>1 DEF s, t
<1> HIDE DEF ws
<1>7. /\ ws \in Seq(all) /\ Len(ws) = 9
      /\ \A i \in 1 .. 9 : ws[i] = IF i <= 5 THEN s[i] ELSE t[i - 5]
  BY <1>3, <1>5 DEF ws
<1>8. DOMAIN ws = 1 .. 9  BY <1>7
<1>9. /\ ws[1] = w1 /\ ws[2] = w2 /\ ws[3] = w3 /\ ws[4] = w4 /\ ws[5] = w5
      /\ ws[6] = w6 /\ ws[7] = w7 /\ ws[8] = w8 /\ ws[9] = w9
  BY <1>4, <1>7
<1> QED  BY <1>6, <1>7, <1>8, <1>9 DEF w1, w2, w3, w4, w5, w6, w7, w8, w9

\* Whether CPU::init makes its i-th write.
Made(cpu, i) ==
    \/ i = 1
    \/ i = 2 /\ "PGE" \in cpu.has
    \/ i \in {3, 4} /\ "XSAVE" \in cpu.has
    \/ i = 5 /\ {"XSAVE", "AVX"} \subseteq cpu.has
    \/ i = 6 /\ "SMAP" \in cpu.has
    \/ i = 7 /\ "SMEP" \in cpu.has
    \/ i = 8 /\ "UMIP" \in cpu.has
    \/ i = 9 /\ "FSGS" \in cpu.has

\* Which write sets a bit of CR4.
Sets(i) ==
    IF i = 1 THEN {"OSFXSR", "OSXMMEXCPT"} ELSE IF i = 2 THEN {"PGE"}
    ELSE IF i = 3 THEN {"OSXSAVE"} ELSE IF i = 6 THEN {"SMAP"} ELSE IF i = 7 THEN {"SMEP"}
    ELSE IF i = 8 THEN {"UMIP"} ELSE IF i = 9 THEN {"FSGSBASE"} ELSE {}

\* On a processor with leaf 7, each write is made if its feature is there.
LEMMA MadeIs ==
    ASSUME NEW cpu, cpu.leaf7, NEW i \in 1 .. 9
    PROVE  /\ Writes(cpu)[i].when <=> Made(cpu, i)
           /\ Writes(cpu)[i].reg = (IF i \in {4, 5} THEN "xcr0" ELSE "cr4")
           /\ Writes(cpu)[i].keep <=> i # 4
           /\ i \notin {4, 5} => Writes(cpu)[i].bits = Sets(i)
           /\ i = 4 => Writes(cpu)[i].bits = {"X87"}
           /\ i = 5 => Writes(cpu)[i].bits = {"X87", "SSE", "AVX"}
<1>0. i = 1 \/ i = 2 \/ i = 3 \/ i = 4 \/ i = 5 \/ i = 6 \/ i = 7 \/ i = 8 \/ i = 9
  OBVIOUS
<1> DEFINE w == Writes(cpu)[i]
<1> HIDE DEF w
<1>1. CASE i = 1
  <2>1. w = Add(TRUE, "cr4", {"OSFXSR", "OSXMMEXCPT"})  BY <1>1, WritesAre DEF w
  <2>2. /\ (w.when <=> TRUE) /\ w.reg = "cr4" /\ w.bits = {"OSFXSR", "OSXMMEXCPT"}
        /\ w.keep
    BY <2>1 DEF Add
  <2>3. w.when <=> Made(cpu, i)  BY <1>1, <2>2 DEF Made
  <2> QED  BY <1>1, <2>2, <2>3 DEF w, Sets
<1>2. CASE i = 2
  <2>1. w = Add("PGE" \in Leaf1(cpu), "cr4", {"PGE"})  BY <1>2, WritesAre DEF w
  <2>2. /\ (w.when <=> "PGE" \in Leaf1(cpu)) /\ w.reg = "cr4" /\ w.bits = {"PGE"}
        /\ w.keep
    BY <2>1 DEF Add
  <2>3. w.when <=> Made(cpu, i)  BY <1>2, <2>2 DEF Made, Leaf1
  <2> QED  BY <1>2, <2>2, <2>3 DEF w, Sets
<1>3. CASE i = 3
  <2>1. w = Add("XSAVE" \in Leaf1(cpu), "cr4", {"OSXSAVE"})  BY <1>3, WritesAre DEF w
  <2>2. /\ (w.when <=> "XSAVE" \in Leaf1(cpu)) /\ w.reg = "cr4" /\ w.bits = {"OSXSAVE"}
        /\ w.keep
    BY <2>1 DEF Add
  <2>3. w.when <=> Made(cpu, i)  BY <1>3, <2>2 DEF Made, Leaf1
  <2> QED  BY <1>3, <2>2, <2>3 DEF w, Sets
<1>4. CASE i = 4
  <2>1. w = Put("XSAVE" \in Leaf1(cpu), "xcr0", {"X87"})  BY <1>4, WritesAre DEF w
  <2>2. /\ (w.when <=> "XSAVE" \in Leaf1(cpu)) /\ w.reg = "xcr0" /\ w.bits = {"X87"}
        /\ ~w.keep
    BY <2>1 DEF Put
  <2>3. w.when <=> Made(cpu, i)  BY <1>4, <2>2 DEF Made, Leaf1
  <2> QED  BY <1>4, <2>2, <2>3 DEF w, Sets
<1>5. CASE i = 5
  <2>1. w = Add({"XSAVE", "AVX"} \subseteq Leaf1(cpu), "xcr0", {"X87", "SSE", "AVX"})  BY <1>5, WritesAre DEF w
  <2>2. /\ (w.when <=> {"XSAVE", "AVX"} \subseteq Leaf1(cpu)) /\ w.reg = "xcr0" /\ w.bits = {"X87", "SSE", "AVX"}
        /\ w.keep
    BY <2>1 DEF Add
  <2>3. w.when <=> Made(cpu, i)  BY <1>5, <2>2 DEF Made, Leaf1
  <2> QED  BY <1>5, <2>2, <2>3 DEF w, Sets
<1>6. CASE i = 6
  <2>1. w = Add("SMAP" \in Leaf7(cpu), "cr4", {"SMAP"})  BY <1>6, WritesAre DEF w
  <2>2. /\ (w.when <=> "SMAP" \in Leaf7(cpu)) /\ w.reg = "cr4" /\ w.bits = {"SMAP"}
        /\ w.keep
    BY <2>1 DEF Add
  <2>3. w.when <=> Made(cpu, i)  BY <1>6, <2>2 DEF Made, Leaf7
  <2> QED  BY <1>6, <2>2, <2>3 DEF w, Sets
<1>7. CASE i = 7
  <2>1. w = Add("SMEP" \in Leaf7(cpu), "cr4", {"SMEP"})  BY <1>7, WritesAre DEF w
  <2>2. /\ (w.when <=> "SMEP" \in Leaf7(cpu)) /\ w.reg = "cr4" /\ w.bits = {"SMEP"}
        /\ w.keep
    BY <2>1 DEF Add
  <2>3. w.when <=> Made(cpu, i)  BY <1>7, <2>2 DEF Made, Leaf7
  <2> QED  BY <1>7, <2>2, <2>3 DEF w, Sets
<1>8. CASE i = 8
  <2>1. w = Add("UMIP" \in Leaf7(cpu), "cr4", {"UMIP"})  BY <1>8, WritesAre DEF w
  <2>2. /\ (w.when <=> "UMIP" \in Leaf7(cpu)) /\ w.reg = "cr4" /\ w.bits = {"UMIP"}
        /\ w.keep
    BY <2>1 DEF Add
  <2>3. w.when <=> Made(cpu, i)  BY <1>8, <2>2 DEF Made, Leaf7
  <2> QED  BY <1>8, <2>2, <2>3 DEF w, Sets
<1>9. CASE i = 9
  <2>1. w = Add("FSGS" \in Leaf7(cpu), "cr4", {"FSGSBASE"})  BY <1>9, WritesAre DEF w
  <2>2. /\ (w.when <=> "FSGS" \in Leaf7(cpu)) /\ w.reg = "cr4" /\ w.bits = {"FSGSBASE"}
        /\ w.keep
    BY <2>1 DEF Add
  <2>3. w.when <=> Made(cpu, i)  BY <1>9, <2>2 DEF Made, Leaf7
  <2> QED  BY <1>9, <2>2, <2>3 DEF w, Sets
<1> QED  BY <1>0, <1>1, <1>2, <1>3, <1>4, <1>5, <1>6, <1>7, <1>8, <1>9

\* What CR4 holds after n writes: what it held, and the bits of the writes made.
LEMMA HeldInCr4 ==
    ASSUME NEW cpu, cpu.leaf7, NEW n \in 0 .. 9
    PROVE  \A bit : bit \in Held(Writes(cpu), "cr4", n) <=>
                      bit \in cr4 \/ \E i \in 1 .. n : Made(cpu, i) /\ bit \in Sets(i)
<1> DEFINE ws == Writes(cpu)
           done == {i \in 1 .. n : ws[i].when /\ ws[i].reg = "cr4"}
           from == Max({i \in done : ~ws[i].keep} \cup {0})
<1>1. \A i \in 1 .. n : /\ i \in done <=> Made(cpu, i) /\ i \notin {4, 5}
                        /\ i \in done => ws[i].bits = Sets(i) /\ ws[i].keep
  BY MadeIs
<1>2. {i \in done : ~ws[i].keep} = {}  BY <1>1
<1>3. from = 0
  <2>1. {i \in done : ~ws[i].keep} \cup {0} = {0, 0}  BY <1>2
  <2> QED  BY <2>1, MaxOfTwo
<1>4. Held(ws, "cr4", n) = cr4 \cup UNION {ws[i].bits : i \in {j \in done : j >= from}}
  BY <1>3 DEF Held
<1>5. {j \in done : j >= from} = done
  <2>1. \A j \in done : j \in Nat  OBVIOUS
  <2> HIDE DEF done, from
  <2>2. \A j \in done : j >= from  BY <1>3, <2>1
  <2> QED  BY <2>2
<1> HIDE DEF done, from, ws
<1>6. \A bit : bit \in UNION {ws[i].bits : i \in done} <=> \E i \in done : bit \in ws[i].bits
  OBVIOUS
<1>7. done \subseteq 1 .. n  BY DEF done
<1>8. \A i \in 1 .. n : i \in {4, 5} => Sets(i) = {}  BY DEF Sets
<1>9. \A bit : (\E i \in done : bit \in ws[i].bits) <=>
                 \E i \in 1 .. n : Made(cpu, i) /\ bit \in Sets(i)
  BY <1>1, <1>7, <1>8
<1>10. \A bit : bit \in Held(ws, "cr4", n) <=> bit \in cr4 \/ \E i \in done : bit \in ws[i].bits
  BY <1>4, <1>5, <1>6
<1> QED  BY <1>9, <1>10 DEF ws

\* What XCR0 holds once it is written to.
LEMMA HeldInXcr0 ==
    ASSUME NEW cpu, cpu.leaf7, "XSAVE" \in cpu.has, NEW n \in 4 .. 9
    PROVE  Held(Writes(cpu), "xcr0", n) =
             {"X87"} \cup (IF n >= 5 /\ "AVX" \in cpu.has THEN {"SSE", "AVX"} ELSE {})
<1> DEFINE ws == Writes(cpu)
           done == {i \in 1 .. n : ws[i].when /\ ws[i].reg = "xcr0"}
           from == Max({i \in done : ~ws[i].keep} \cup {0})
           avx == n >= 5 /\ "AVX" \in cpu.has
<1>0. done \subseteq 1 .. n  OBVIOUS
<1>1. done = IF avx THEN {4, 5} ELSE {4}
  <2>1. \A i \in 1 .. n : i \in done <=> Made(cpu, i) /\ i \in {4, 5}  BY MadeIs
  <2>2. Made(cpu, 4) /\ (Made(cpu, 5) <=> "AVX" \in cpu.has)  BY DEF Made
  <2>3. 4 \in 1 .. n /\ (5 \in 1 .. n <=> n >= 5)  OBVIOUS
  <2> HIDE DEF done
  <2> QED  BY <1>0, <2>1, <2>2, <2>3
<1>2. /\ ws[4].bits = {"X87"} /\ ~ws[4].keep
      /\ n >= 5 => ws[5].bits = {"X87", "SSE", "AVX"} /\ ws[5].keep
  BY MadeIs
<1>3. from = 4
  <2> HIDE DEF done
  <2>0. ~ws[4].keep /\ (avx => ws[5].keep)  BY <1>2
  <2> HIDE DEF ws
  <2>1. {i \in done : ~ws[i].keep} = {4}  BY <1>1, <2>0
  <2>2. {i \in done : ~ws[i].keep} \cup {0} = {4, 0}  BY <2>1
  <2> QED  BY <2>2, MaxOfTwo
<1>4. Held(ws, "xcr0", n) = UNION {ws[i].bits : i \in done}
  <2>1. Held(ws, "xcr0", n) = (IF from # 0 THEN {} ELSE xcr0)
                                \cup UNION {ws[i].bits : i \in {j \in done : j >= from}}
    BY DEF Held
  <2> HIDE DEF done, from
  <2>2. {j \in done : j >= from} = done  BY <1>1, <1>3
  <2> HIDE DEF ws
  <2> QED  BY <1>3, <2>1, <2>2
<1> HIDE DEF done, from, ws
<1>6. CASE avx
  <2>1. UNION {ws[i].bits : i \in {4, 5}} = ws[4].bits \cup ws[5].bits  OBVIOUS
  <2> QED  BY <1>1, <1>2, <1>4, <1>6, <2>1 DEF ws
<1>7. CASE ~avx
  <2>1. UNION {ws[i].bits : i \in {4}} = ws[4].bits  OBVIOUS
  <2> QED  BY <1>1, <1>2, <1>4, <1>7, <2>1 DEF ws
<1> QED  BY <1>6, <1>7

\* A bit is set by a write that is made for the bit's feature.
LEMMA SetsForFeature ==
    ASSUME NEW cpu, "SSE" \in cpu.has, NEW i \in 1 .. 9, Made(cpu, i), NEW bit \in Sets(i)
    PROVE  FeatureOf(bit) \in cpu.has /\ bit \notin Always
  BY DEF Made, Sets, FeatureOf, Always

\* A processor with leaf 7 refuses no write.
LEMMA NothingRefused ==
    ASSUME NEW cpu, cpu.leaf7, "SSE" \in cpu.has, cr4 = {"PAE"}
    PROVE  Refused(cpu, Writes(cpu)) = 0
<1> DEFINE ws == Writes(cpu)
<1> SUFFICES ASSUME NEW i \in 1 .. 9, Refuses(cpu, ws, i) PROVE FALSE
  BY WritesAre DEF Refused
<1>1. Made(cpu, i) /\ ws[i].reg = (IF i \in {4, 5} THEN "xcr0" ELSE "cr4")
  BY MadeIs DEF Refuses
<1>2. CASE i \notin {4, 5}
  <2>1. PICK bit \in Held(ws, "cr4", i) \ Always : FeatureOf(bit) \notin cpu.has
    BY <1>1, <1>2 DEF Refuses
  <2>2. bit \notin cr4  BY <2>1 DEF Always
  <2>3. PICK j \in 1 .. i : Made(cpu, j) /\ bit \in Sets(j)
    BY <2>1, <2>2, HeldInCr4
  <2> QED  BY <2>1, <2>3, SetsForFeature
<1>3. CASE i \in {4, 5}
  <2>1. "XSAVE" \in cpu.has /\ (i = 5 => "AVX" \in cpu.has)  BY <1>1, <1>3 DEF Made
  <2>2. "OSXSAVE" \in Held(ws, "cr4", i)
    <3>1. 3 \in 1 .. i /\ Made(cpu, 3) /\ "OSXSAVE" \in Sets(3)
      BY <1>3, <2>1 DEF Made, Sets
    <3> QED  BY <3>1, HeldInCr4
  <2>3. Held(ws, "xcr0", i) = {"X87"} \cup (IF i >= 5 /\ "AVX" \in cpu.has THEN {"SSE", "AVX"} ELSE {})
    BY <1>3, <2>1, HeldInXcr0
  <2> QED  BY <1>1, <1>3, <2>1, <2>2, <2>3 DEF Refuses
<1> QED  BY <1>2, <1>3

\* Until CPU::init the registers are as the machine starts; afterwards they hold
\* what the processor has.
CpuHolds ==
    /\ pc \in {"verify", "uart", "cpu"} /\ status = "up" =>
          cr4 = {"PAE"} /\ xcr0 = {"X87", "MPX"} /\ pat = "WB"
    /\ ProcessorIsSetUp

\* CPU::init sets up a processor with leaf 7, and goes on.
LEMMA InitCpuSetsUp ==
    ASSUME Control, CpuHolds, InitCpu
    PROVE  CpuHolds'
<1> DEFINE cpu == machine.cpu
           ws == Writes(cpu)
           through == IF Refused(cpu, ws) = 0 THEN Len(ws) ELSE Refused(cpu, ws) - 1
<1>1. /\ pc = "cpu" /\ status = "up" /\ ~idt
      /\ cr4 = {"PAE"} /\ xcr0 = {"X87", "MPX"} /\ pat = "WB"
  BY DEF InitCpu, At, CpuHolds, Control, BeforeIdt
<1>2. CASE "SSE" \notin Leaf1(cpu)
  <2>1. Panic("no sse")  BY <1>2 DEF InitCpu
  <2>2. pc' = "cpu" /\ status' = "panic"  BY <1>1, <2>1 DEF Panic
  <2> QED  BY <2>2 DEF CpuHolds, ProcessorIsSetUp
<1>3. CASE "SSE" \in Leaf1(cpu)
  <2>1. /\ cr4' = Held(ws, "cr4", through) /\ xcr0' = Held(ws, "xcr0", through)
        /\ pat' = IF "PAT" \in Leaf1(cpu) THEN "WC" ELSE pat
        /\ IF Refused(cpu, ws) # 0 THEN Fault("control bit")
           ELSE Panic("no fsgs") \/ Proceed("memory")
    BY <1>3 DEF InitCpu
  <2>2. machine' = machine
    BY <2>1 DEF Fault, Panic, Proceed
  <2>3. "SSE" \in cpu.has  BY <1>3 DEF Leaf1
  <2>4. CASE Refused(cpu, ws) # 0
    <3>1. ~cpu.leaf7  BY <1>1, <2>3, <2>4, NothingRefused
    <3>2. status' = "reset" /\ pc' = "cpu"  BY <1>1, <2>1, <2>4 DEF Fault
    <3> QED  BY <2>2, <3>1, <3>2 DEF CpuHolds, ProcessorIsSetUp
  <2>5. CASE Refused(cpu, ws) = 0 /\ Panic("no fsgs")
    <3>1. pc' = "cpu" /\ status' = "panic"  BY <1>1, <2>5 DEF Panic
    <3> QED  BY <3>1 DEF CpuHolds, ProcessorIsSetUp
  <2>6. CASE Refused(cpu, ws) = 0 /\ Proceed("memory")
    <3>1. pc' = "memory" /\ status' = "up"  BY <1>1, <2>6 DEF Proceed
    <3>2. through = 9  BY <2>6, WritesAre
    <3> HIDE DEF ws, through
    <3>3. ASSUME cpu.leaf7
          PROVE  {FeatureOf(bit) : bit \in cr4' \ Always} =
                   cpu.has \cap {"SSE", "PGE", "XSAVE", "SMAP", "SMEP", "UMIP", "FSGS"}
      <4>1. \A bit : bit \in cr4' <=> \/ bit = "PAE"
                                      \/ \E i \in 1 .. 9 : Made(cpu, i) /\ bit \in Sets(i)
        <5>1. cr4' = Held(Writes(cpu), "cr4", 9)  BY <2>1, <3>2 DEF ws
        <5>2. 9 \in 0 .. 9  OBVIOUS
        <5>3. \A bit : bit \in Held(Writes(cpu), "cr4", 9) <=>
                 bit \in cr4 \/ \E i \in 1 .. 9 : Made(cpu, i) /\ bit \in Sets(i)
          <6> HIDE DEF cpu
          <6> QED  BY <3>3, <5>2, HeldInCr4
        <5> QED  BY <1>1, <5>1, <5>3
      <4>2. \A i \in 1 .. 9 : Made(cpu, i) => \A bit \in Sets(i) :
               FeatureOf(bit) \in cpu.has
                 \cap {"SSE", "PGE", "XSAVE", "SMAP", "SMEP", "UMIP", "FSGS"}
        BY <2>3 DEF Made, Sets, FeatureOf
      <4>3. \A f \in cpu.has \cap {"SSE", "PGE", "XSAVE", "SMAP", "SMEP", "UMIP", "FSGS"} :
               \E i \in 1 .. 9 : Made(cpu, i) /\ \E bit \in Sets(i) : FeatureOf(bit) = f
        <5> TAKE f \in cpu.has \cap {"SSE", "PGE", "XSAVE", "SMAP", "SMEP", "UMIP", "FSGS"}
        <5> DEFINE i == IF f = "SSE" THEN 1 ELSE IF f = "PGE" THEN 2 ELSE IF f = "XSAVE" THEN 3
                        ELSE IF f = "SMAP" THEN 6 ELSE IF f = "SMEP" THEN 7
                        ELSE IF f = "UMIP" THEN 8 ELSE 9
                   bit == IF f = "SSE" THEN "OSFXSR" ELSE IF f = "XSAVE" THEN "OSXSAVE"
                          ELSE IF f = "FSGS" THEN "FSGSBASE" ELSE f
        <5>1. i \in 1 .. 9 /\ Made(cpu, i)  BY DEF Made
        <5>2. bit \in Sets(i) /\ FeatureOf(bit) = f  BY DEF Sets, FeatureOf
        <5> HIDE DEF i, bit
        <5> QED  BY <5>1, <5>2
      <4>4. \A i \in 1 .. 9 : \A bit \in Sets(i) : bit \notin Always
        BY DEF Sets, Always
      <4>5. \A bit \in cr4' \ Always : \E i \in 1 .. 9 : Made(cpu, i) /\ bit \in Sets(i)
        BY <4>1 DEF Always
      <4>6. \A i \in 1 .. 9 : Made(cpu, i) => \A bit \in Sets(i) : bit \in cr4' \ Always
        BY <4>1, <4>4
      <4> DEFINE wanted == cpu.has \cap {"SSE", "PGE", "XSAVE", "SMAP", "SMEP", "UMIP", "FSGS"}
      <4> HIDE DEF wanted, cpu
      <4>7. \A bit \in cr4' \ Always : FeatureOf(bit) \in wanted
        BY <4>2, <4>5 DEF wanted
      <4>8. \A f \in wanted : \E bit \in cr4' \ Always : FeatureOf(bit) = f
        BY <4>3, <4>6 DEF wanted
      <4>9. {FeatureOf(bit) : bit \in cr4' \ Always} = wanted
        BY <4>7, <4>8
      <4> QED  BY <4>9 DEF wanted, cpu
    <3>4. ASSUME cpu.leaf7, "XSAVE" \in cpu.has
          PROVE  xcr0' = {"X87"} \cup (IF "AVX" \in cpu.has THEN {"SSE", "AVX"} ELSE {})
      <4>1. xcr0' = Held(Writes(cpu), "xcr0", 9)  BY <2>1, <3>2 DEF ws
      <4>2. 9 \in 4 .. 9 /\ 9 >= 5  OBVIOUS
      <4> HIDE DEF cpu
      <4>3. Held(Writes(cpu), "xcr0", 9) =
               {"X87"} \cup (IF 9 >= 5 /\ "AVX" \in cpu.has THEN {"SSE", "AVX"} ELSE {})
        BY <3>4, <4>2, HeldInXcr0
      <4> QED  BY <4>1, <4>2, <4>3
    <3>5. pat' = "WC" <=> "PAT" \in cpu.has
      BY <1>1, <2>1 DEF Leaf1
    <3> QED  BY <2>2, <3>1, <3>3, <3>4, <3>5 DEF CpuHolds, ProcessorIsSetUp
  <2> QED  BY <2>1, <2>4, <2>5, <2>6
<1> QED  BY <1>2, <1>3

\* The GDT has the kernel's two segments where load_gdt takes them from.
LEMMA SegmentsAreLoaded ==
    ASSUME LoadGdt
    PROVE  ProceedSaying("idt", "gdt")
<1>1. PopulatedSegments[1] = "kernel code" /\ PopulatedSegments[2] = "kernel data"
  <2> DEFINE entries == <<"kernel code", "kernel data", "user code", "user data">>
  <2>1. entries[1] = "kernel code" /\ entries[2] = "kernel data"  OBVIOUS
  <2>2. PopulatedSegments =
           [i \in Segments |-> IF i \in DOMAIN entries THEN entries[i] ELSE "none"]
    BY DEF PopulatedSegments
  <2>3. 1 \in Segments /\ 2 \in Segments  BY DEF Segments
  <2>4. 1 \in DOMAIN entries /\ 2 \in DOMAIN entries  OBVIOUS
  <2> HIDE DEF entries
  <2>5. \A i \in Segments : PopulatedSegments[i] =
                              IF i \in DOMAIN entries THEN entries[i] ELSE "none"
    BY <2>2
  <2> QED  BY <2>1, <2>3, <2>4, <2>5
<1>2. 8 \div 8 = 1 /\ 16 \div 8 = 2  OBVIOUS
<1>3. gdt' = PopulatedSegments  BY DEF LoadGdt
<1> QED  BY <1>1, <1>2, <1>3 DEF LoadGdt, KERNEL_CS, KERNEL_DS

\* The processor is set up, and stays so.
LEMMA CpuHoldsHolds ==
    /\ Init => CpuHolds
    /\ Control /\ CpuHolds /\ [Next]_vars => CpuHolds'
<1>1. Init => CpuHolds
  BY DEF Init, MachineInit, ProcessorInit, CpuHolds, ProcessorIsSetUp
<1>2. ASSUME Control, CpuHolds, [Next]_vars PROVE CpuHolds'
  <2>1. CodeStep  BY <1>2, CodeSteps
  <2>2. machine' = machine
    BY <2>1 DEF CodeStep, Goes, InitUart, codeVars, WriteOut, PortSends, EndPanic, Panics, Resets,
                Stops, machineVars, HaltAndNeverReturn, Panic
  <2>3. CASE InitCpu  BY <1>2, <2>3, InitCpuSetsUp
  <2>4. CASE LoadGdt
    <3>1. ProceedSaying("idt", "gdt") /\ UNCHANGED <<cr4, xcr0, pat>> /\ pc = "gdt" /\ status = "up"
      BY <2>4, SegmentsAreLoaded DEF LoadGdt, At
    <3>2. pc' = "idt" /\ status' = "up"  BY <3>1 DEF ProceedSaying
    <3> QED  BY <1>2, <2>2, <3>1, <3>2 DEF CpuHolds, ProcessorIsSetUp
  <2>5. CASE UNCHANGED cpuVars /\ (At("cpu") \/ At("gdt") => UNCHANGED <<status, pc>>)
    <3>1. status' = "reset" => status = "reset"
      <4>1. CASE Resets  BY <2>5, <4>1 DEF Resets, At
      <4>2. CASE CodeStep /\ ~Resets
        BY <4>2 DEF CodeStep, Goes, InitUart, At, codeVars, machineVars, WriteOut, PortSends,
                    EndPanic, HaltAndNeverReturn, Panics, Panic, Stops
      <4> QED  BY <2>1, <4>1, <4>2
    <3>2. pc \in {"verify", "uart", "cpu"} => pc' \in {"verify", "uart", "cpu"}
      <4>1. CASE Goes  BY <2>5, <4>1 DEF Goes, At, Follows
      <4>2. CASE CodeStep /\ ~Goes
        BY <4>2 DEF CodeStep, InitUart, At, codeVars, machineVars, WriteOut, PortSends,
                    EndPanic, HaltAndNeverReturn, Panics, Panic, Stops, Resets
      <4> QED  BY <2>1, <4>1, <4>2
    <3>3. pc' \in {"verify", "uart", "cpu"} /\ status' = "up" =>
             pc \in {"verify", "uart", "cpu"} /\ status = "up"
      BY <2>1 DEF CodeStep, Goes, Follows, InitUart, At, codeVars, machineVars, WriteOut, PortSends,
                  EndPanic, HaltAndNeverReturn, Panics, Panic, Stops, Resets
    <3> QED  BY <1>2, <2>2, <2>5, <3>1, <3>2, <3>3 DEF CpuHolds, ProcessorIsSetUp, cpuVars
  <2> QED  BY <1>2, <2>3, <2>4, <2>5, CpuSteps
<1> QED  BY <1>1, <1>2

\* The processor refuses no step of the set-up if it has leaf 7 of CPUID, and
\* when CPU::init is done, what the processor has is on and nothing else.
THEOREM ProcessorIsSetUpTheorem == Spec => []ProcessorIsSetUp
<1> DEFINE IInv == Control /\ CpuHolds
<1>1. Init => IInv  BY ControlHolds, CpuHoldsHolds
<1>2. IInv /\ [Next]_vars => IInv'  BY ControlHolds, CpuHoldsHolds
<1>3. IInv => ProcessorIsSetUp  BY DEF CpuHolds
<1> HIDE DEF IInv
<1> QED  BY <1>1, <1>2, <1>3, PTL DEF Spec
-----------------------------------------------------------------------------
(* The firmware                                                              *)

\* A machine is booted on from its first step to its last.
LEMMA MachineStays == Control /\ [Next]_vars => machine' = machine
  BY CodeSteps
  DEF CodeStep, Goes, InitUart, codeVars, WriteOut, PortSends, EndPanic, Panics, Resets, Stops,
      machineVars, HaltAndNeverReturn, Panic

\* A step that is not one of kmain's own stays where the code is.
LEMMA PlaceStays ==
    ASSUME Control, [Next]_vars, pc' # pc
    PROVE  status = "up" /\ todo = << >> /\ <<pc, pc'>> \in Follows \cup {<<"uart", "cpu">>}
  BY CodeSteps
  DEF CodeStep, Goes, InitUart, At, codeVars, WriteOut, PortSends, EndPanic, Panics, Resets, Stops,
      machineVars, HaltAndNeverReturn, Panic

\* Three steps read the tables, and nobody else leaves their place.
LEMMA AcpiSteps ==
    ASSUME [Next]_vars
    PROVE  \/ InitRsdt \/ InitMadt \/ ReadRecord
           \/ UNCHANGED acpiVars /\ (At("rsdt") \/ At("madt") => UNCHANGED pc)
<1> USE StepsAt DEF At
<1>1. CASE \/ Simple(VerifyBoot) \/ Simple(InitUart) \/ Simple(InitMemory) \/ Simple(LoadSymbols)
           \/ Simple(CallConstructors)
  BY <1>1 DEF Simple
<1>2. CASE OfProcessor(InitCpu) \/ OfProcessor(LoadGdt) \/ OfProcessor(LoadIdt)
  BY <1>2 DEF OfProcessor, InitCpu, LoadGdt
<1>4. CASE OfAcpi(InitRsdt) \/ OfAcpi(InitMadt) \/ OfAcpi(ReadRecord) \/ OfAcpi(InitLapic)
  BY <1>4 DEF OfAcpi, InitLapic
<1>5. CASE OfRouting(InitIoapic) \/ OfRouting(MapHigh)
  BY <1>5 DEF OfRouting, InitIoapic, MapHigh
<1>6. CASE InitHpet \/ StartCalibration \/ SleepOnHpet \/ Calibrate \/ MapTimer \/ RegisterTimer
  BY <1>6 DEF InitHpet, StartCalibration, SleepOnHpet, Calibrate, MapTimer, RegisterTimer, restVars
<1>7. CASE SetCounter \/ WakeUp \/ Finish \/ CallHal \/ CallMap
  BY <1>7 DEF SetCounter, WakeUp, Finish, CallHal, CallMap, restVars
<1>8. CASE Simple(WriteOut) \/ Simple(PortSends) \/ Simple(EndPanic)
  BY <1>8 DEF Simple, WriteOut, PortSends, EndPanic, HaltAndNeverReturn, machineVars
<1>9. CASE OfRouting(RaiseLine) \/ TimePasses \/ UNCHANGED vars
  BY <1>9 DEF OfRouting, RaiseLine, TimePasses, vars, codeVars, machineVars
<1> QED  BY <1>1, <1>2, <1>4, <1>5, <1>6, <1>7, <1>8, <1>9 DEF Next, Code, Kmain

\* What the firmware is.
LEMMA FirmwareIs ==
    ASSUME Control
    PROVE  /\ firmware.root \in Seq([sig : STRING, sum : Nat, far : BOOLEAN])
           /\ firmware.records \in
                Seq([type : Nat, id : Nat, gsib : Nat, at : STRING, empty : BOOLEAN])
  BY MachinesAre DEF Control, WellFormed, firmware

\* Counting in pieces of four bytes is right for both versions of the root table.
LEMMA TableCountIs ==
    ASSUME Control
    PROVE  TableCount = Len(firmware.root) /\ TableCount \in Nat
<1> DEFINE n == Len(firmware.root)
<1>1. n \in Nat  BY FirmwareIs
<1>2. /\ IsV1 => TableCount = ((n * 4) \div 4) \div 1
      /\ ~IsV1 => TableCount = ((n * 8) \div 4) \div 2
  BY DEF TableCount, RootBytes
<1> HIDE DEF n
<1>3. (n * 4) \div 4 = n /\ n \div 1 = n /\ (n * 8) \div 4 = 2 * n /\ (2 * n) \div 2 = n
  BY <1>1
<1>4. TableCount = n  BY <1>2, <1>3
<1> QED  BY <1>1, <1>4 DEF n

\* The records of a type among the first n.
UpTo(type, n) == {i \in OfType(type) : i <= n}

\* What is known after n records.
Understood(n) ==
    /\ \E from \in [DOMAIN ioapics -> UpTo(IO_APIC, n)] : ListsInOrder(from, UpTo(IO_APIC, n))
    /\ lapic = IF UpTo(LAPIC_OVERRIDE, n) = {} THEN firmware.lapic
               ELSE firmware.records[Max(UpTo(LAPIC_OVERRIDE, n))].at

BeforeMadt == BeforeIdt \cup {"rsdt"}

\* The tables are checked before the first of them is used; the records are
\* understood one after the other.  A record of length 0 is never left.
FirmHolds ==
    /\ tables \in {0, Len(firmware.root)} /\ record \in Nat
    /\ ioapics \in Seq([id : Nat, gsib : Nat, at : STRING])
    /\ pc \notin BeforeMadt =>
          /\ tables = Len(firmware.root)
          /\ \A i \in DOMAIN firmware.root : Valid(firmware.root[i].sum) /\ ~firmware.root[i].far
    /\ pc \in BeforeMadt \/ (pc = "madt" /\ record = 0) =>
          record = 0 /\ lapic = "null" /\ ioapics = << >>
    /\ pc \notin BeforeMadt /\ (pc # "madt" \/ record # 0) => FindTable("APIC") # 0
    /\ record # 0 =>
          /\ pc = "madt" /\ record <= Len(firmware.records) + 1
          /\ \/ record <= Len(firmware.records) /\ firmware.records[record].empty
             \/ Understood(record - 1)
    /\ pc \notin BeforeMadt \cup {"madt"} => record = 0 /\ Understood(Len(firmware.records))

\* One record more.
LEMMA UpToNext ==
    ASSUME Control, NEW type, NEW k \in 1 .. Len(firmware.records)
    PROVE  UpTo(type, k) = UpTo(type, k - 1)
                             \cup (IF firmware.records[k].type = type THEN {k} ELSE {})
<1>1. DOMAIN firmware.records = 1 .. Len(firmware.records)  BY FirmwareIs
<1>2. UpTo(type, k) \subseteq 1 .. Len(firmware.records)
      /\ UpTo(type, k - 1) \subseteq 1 .. Len(firmware.records)
  BY <1>1 DEF UpTo, OfType
<1>3. \A i \in 1 .. Len(firmware.records) : i <= k <=> (i <= k - 1 \/ i = k)
  BY FirmwareIs
<1>4. \A i \in 1 .. Len(firmware.records) : \A n \in Int :
         i \in UpTo(type, n) <=> firmware.records[i].type = type /\ i <= n
  BY <1>1 DEF UpTo, OfType
<1>5. k \in Int /\ k - 1 \in Int  OBVIOUS
<1> QED  BY <1>2, <1>3, <1>4, <1>5

\* A record that is read adds what it says to what was known.
LEMMA RecordIsUnderstood ==
    ASSUME Control, FirmHolds, NEW k \in 1 .. Len(firmware.records), Understood(k - 1),
           machine' = machine,
           ioapics' = IF firmware.records[k].type # IO_APIC THEN ioapics
                      ELSE Append(ioapics, [id |-> firmware.records[k].id,
                                            gsib |-> firmware.records[k].gsib,
                                            at |-> firmware.records[k].at]),
           lapic' = IF firmware.records[k].type = LAPIC_OVERRIDE THEN firmware.records[k].at
                    ELSE lapic
    PROVE  Understood(k)'
<1> DEFINE r == firmware.records[k]
<1>a. PICK io : io = UpTo(IO_APIC, k - 1)  OBVIOUS
<1>b. PICK over : over = UpTo(LAPIC_OVERRIDE, k - 1)  OBVIOUS
<1>1. /\ UpTo(IO_APIC, k)' = UpTo(IO_APIC, k) /\ firmware' = firmware
      /\ UpTo(LAPIC_OVERRIDE, k)' = UpTo(LAPIC_OVERRIDE, k)
  BY DEF UpTo, OfType, firmware
<1>2. /\ UpTo(IO_APIC, k) = io \cup (IF r.type = IO_APIC THEN {k} ELSE {})
      /\ UpTo(LAPIC_OVERRIDE, k) = over \cup (IF r.type = LAPIC_OVERRIDE THEN {k} ELSE {})
  BY <1>a, <1>b, UpToNext
<1>3. \A i \in io \cup over : i \in 1 .. k - 1
  <2>1. DOMAIN firmware.records = 1 .. Len(firmware.records)  BY FirmwareIs
  <2>2. \A i \in 1 .. Len(firmware.records) : i <= k - 1 => i \in 1 .. k - 1  BY FirmwareIs
  <2> QED  BY <1>a, <1>b, <2>1, <2>2 DEF UpTo, OfType
<1>4. lapic' = IF UpTo(LAPIC_OVERRIDE, k) = {} THEN firmware.lapic
               ELSE firmware.records[Max(UpTo(LAPIC_OVERRIDE, k))].at
  <2>1. lapic = IF over = {} THEN firmware.lapic ELSE firmware.records[Max(over)].at
    BY <1>b DEF Understood
  <2>2. CASE r.type # LAPIC_OVERRIDE
    <3>1. UpTo(LAPIC_OVERRIDE, k) = over  BY <1>2, <2>2
    <3> QED  BY <2>1, <2>2, <3>1
  <2>3. CASE r.type = LAPIC_OVERRIDE
    <3>1. UpTo(LAPIC_OVERRIDE, k) = over \cup {k}  BY <1>2, <2>3
    <3>2. Max(over \cup {k}) = k
      <4>1. \A i \in over \cup {k} : k >= i  BY <1>3
      <4>0. \A j \in over \cup {k} : j \in Int /\ j <= k  BY <1>3
      <4>2. \A j \in over \cup {k} : (\A i \in over \cup {k} : j >= i) => j = k
        <5> TAKE j \in over \cup {k}
        <5> HAVE \A i \in over \cup {k} : j >= i
        <5>1. j >= k  OBVIOUS
        <5> QED  BY <4>0, <5>1
      <4> QED  BY <4>1, <4>2 DEF Max
    <3> QED  BY <2>3, <3>1, <3>2
  <2> QED  BY <2>2, <2>3
<1>5. PICK from \in [DOMAIN ioapics -> io] : ListsInOrder(from, io)
  BY <1>a DEF Understood
<1>6. CASE r.type # IO_APIC
  <2>1. ioapics' = ioapics /\ UpTo(IO_APIC, k) = io  BY <1>2, <1>6
  <2>2. ListsInOrder(from, io)'  BY <1>1, <1>5, <2>1 DEF ListsInOrder
  <2> QED  BY <1>1, <1>4, <1>5, <2>1, <2>2 DEF Understood
<1>7. CASE r.type = IO_APIC
  <2>n. PICK n : n = Len(ioapics)  OBVIOUS
  <2>t. PICK to : to = [i \in 1 .. n + 1 |-> IF i <= n THEN from[i] ELSE k]  OBVIOUS
  <2> DEFINE new == [id |-> r.id, gsib |-> r.gsib, at |-> r.at]
  <2>0. /\ n \in Nat /\ DOMAIN ioapics = 1 .. n /\ from \in [1 .. n -> io]
        /\ new \in [id : Nat, gsib : Nat, at : STRING]
    <3>1. ioapics \in Seq([id : Nat, gsib : Nat, at : STRING])  BY DEF FirmHolds
    <3>2. r \in [type : Nat, id : Nat, gsib : Nat, at : STRING, empty : BOOLEAN]
      <4> DEFINE R == [type : Nat, id : Nat, gsib : Nat, at : STRING, empty : BOOLEAN]
      <4>1. firmware.records \in Seq(R)  BY FirmwareIs
      <4> HIDE DEF R
      <4>2. firmware.records[k] \in R  BY <4>1
      <4> QED  BY <4>2 DEF R
    <3>3. n \in Nat /\ DOMAIN ioapics = 1 .. n  BY <2>n, <3>1
    <3>4. new \in [id : Nat, gsib : Nat, at : STRING]  BY <3>2
    <3> QED  BY <1>5, <3>3, <3>4
  <2>1. /\ ioapics' = Append(ioapics, new) /\ UpTo(IO_APIC, k) = io \cup {k}
        /\ DOMAIN ioapics' = 1 .. n + 1
        /\ ioapics'[n + 1] = new /\ \A i \in 1 .. n : ioapics'[i] = ioapics[i]
    <3>1. ioapics' = Append(ioapics, new) /\ UpTo(IO_APIC, k) = io \cup {k}  BY <1>2, <1>7
    <3>2. ioapics \in Seq([id : Nat, gsib : Nat, at : STRING])  BY DEF FirmHolds
    <3> HIDE DEF new
    <3> QED  BY <2>n, <2>0, <3>1, <3>2
  <2>2. to \in [1 .. n + 1 -> io \cup {k}]  BY <2>t, <2>0
  <2>3. Range(to) = io \cup {k}
    <3>1. Range(from) = io  BY <1>5 DEF ListsInOrder
    <3>2. \A x \in io : \E i \in 1 .. n : from[i] = x  BY <2>0, <3>1 DEF Range
    <3>3. \A x \in io : \E i \in 1 .. n + 1 : to[i] = x
      <4> TAKE x \in io
      <4>1. PICK i \in 1 .. n : from[i] = x  BY <3>2
      <4>2. i \in 1 .. n + 1 /\ i <= n  BY <2>0
      <4>3. to[i] = x  BY <2>t, <4>1, <4>2
      <4> QED  BY <4>2, <4>3
    <3>4. to[n + 1] = k /\ n + 1 \in 1 .. n + 1  BY <2>t, <2>0
    <3> QED  BY <2>2, <3>3, <3>4 DEF Range
  <2>4. \A i, j \in 1 .. n + 1 : i < j => to[i] < to[j]
    <3> TAKE i, j \in 1 .. n + 1
    <3> HAVE i < j
    <3>0. i \in 1 .. n /\ to[i] = from[i] /\ from[i] \in 1 .. k - 1  BY <2>t, <1>3, <2>0
    <3>1. CASE j <= n
      <4>1. to[j] = from[j] /\ j \in 1 .. n  BY <2>0, <2>t, <3>1
      <4>2. from[i] < from[j]  BY <1>5, <2>0, <3>0, <4>1 DEF ListsInOrder
      <4> QED  BY <3>0, <4>1, <4>2
    <3>2. CASE ~(j <= n)
      <4>1. to[j] = k  BY <2>t, <3>2
      <4> QED  BY <3>0, <4>1
    <3> QED  BY <3>1, <3>2
  <2>5. \A i \in 1 .. n + 1 :
           ioapics'[i] = [id |-> firmware.records[to[i]].id, gsib |-> firmware.records[to[i]].gsib,
                          at |-> firmware.records[to[i]].at]
    <3> TAKE i \in 1 .. n + 1
    <3>1. CASE i <= n
      <4>1. to[i] = from[i] /\ i \in 1 .. n  BY <2>t, <2>0, <3>1
      <4>2. ioapics'[i] = ioapics[i]  BY <2>1, <4>1
      <4> QED  BY <1>5, <2>0, <4>1, <4>2 DEF ListsInOrder
    <3>2. CASE ~(i <= n)
      <4>1. to[i] = k /\ i = n + 1  BY <2>t, <2>0, <3>2
      <4> QED  BY <2>1, <4>1
    <3> QED  BY <3>1, <3>2
  <2>6. ListsInOrder(to, io \cup {k})'
    <3>1. firmware' = firmware  BY <1>1
    <3> QED  BY <2>1, <2>3, <2>4, <2>5, <3>1 DEF ListsInOrder
  <2>7. to \in [DOMAIN ioapics' -> UpTo(IO_APIC, k)]  BY <2>1, <2>2
  <2> QED  BY <1>1, <1>4, <2>1, <2>6, <2>7 DEF Understood
<1> QED  BY <1>6, <1>7

\* The table that is found has the name, and is one of those that were counted.
LEMMA TableIsFound ==
    ASSUME NEW name, tables \in Nat, FindTable(name) # 0
    PROVE  FindTable(name) \in 1 .. tables /\ TableAt(FindTable(name)).sig = name
<1> DEFINE found == {i \in 1 .. tables : TableAt(i).sig = name}
<1>1. found \in SUBSET Nat  OBVIOUS
<1>2. FindTable(name) = IF found = {} THEN 0 ELSE Min(found)  BY DEF FindTable
<1>3. \A i \in found : i \in 1 .. tables /\ TableAt(i).sig = name  OBVIOUS
<1> HIDE DEF found
<1> QED  BY <1>1, <1>2, <1>3, MinIsLeast

\* When nothing stops the loop every table is in order.
LEMMA NoneIsBad ==
    ASSUME Control, FirstBad = 0
    PROVE  \A i \in DOMAIN firmware.root : Valid(firmware.root[i].sum) /\ ~firmware.root[i].far
<1> DEFINE bad == {i \in 1 .. TableCount : TableAt(i).far \/ ~Valid(TableAt(i).sum)}
<1>1. bad \in SUBSET Nat /\ \A i \in bad : i # 0  BY TableCountIs
<1>2. FirstBad = IF bad = {} THEN 0 ELSE Min(bad)  BY DEF FirstBad
<1>3. bad = {}
  <2> HIDE DEF bad
  <2> QED  BY <1>1, <1>2, MinIsLeast
<1>4. DOMAIN firmware.root = 1 .. TableCount  BY TableCountIs, FirmwareIs
<1> QED  BY <1>3, <1>4 DEF TableAt

\* The tables are checked and the records understood.
LEMMA FirmHoldsHolds ==
    /\ Init => FirmHolds
    /\ Control /\ FirmHolds /\ [Next]_vars => FirmHolds'
<1>1. Init => FirmHolds
  <2> SUFFICES ASSUME Init PROVE FirmHolds  OBVIOUS
  <2>1. tables = 0 /\ record = 0 /\ lapic = "null" /\ ioapics = << >> /\ pc = "verify"
    BY DEF Init, AcpiInit, MachineInit
  <2>2. << >> \in Seq([id : Nat, gsib : Nat, at : STRING])  OBVIOUS
  <2> QED  BY <2>1, <2>2 DEF FirmHolds, BeforeMadt, BeforeIdt
<1>2. ASSUME Control, FirmHolds, [Next]_vars PROVE FirmHolds'
  <2>1. machine' = machine /\ firmware' = firmware  BY <1>2, MachineStays DEF firmware
  <2>2. /\ TableCount = Len(firmware.root) /\ TableCount \in Nat
        /\ Len(firmware.records) \in Nat
    BY <1>2, TableCountIs, FirmwareIs
  <2>3. ASSUME UNCHANGED tables, NEW name PROVE FindTable(name)' = FindTable(name)
    BY <2>1, <2>3 DEF FindTable, TableAt
  <2>4. ASSUME UNCHANGED <<lapic, ioapics>>, NEW n PROVE Understood(n)' <=> Understood(n)
    BY <2>1, <2>4 DEF Understood, UpTo, OfType, ListsInOrder
  <2>5. CASE UNCHANGED acpiVars /\ (At("rsdt") \/ At("madt") => UNCHANGED pc)
    <3>1. /\ pc' \in BeforeMadt <=> pc \in BeforeMadt
          /\ pc' = "madt" <=> pc = "madt"
      BY <1>2, <2>5, PlaceStays DEF At, Follows, BeforeMadt, BeforeIdt
    <3>2. /\ UNCHANGED <<tables, record, lapic, ioapics>>
          /\ FindTable("APIC")' = FindTable("APIC")
      BY <2>3, <2>5 DEF acpiVars
    <3>3. Understood(record - 1)' <=> Understood(record - 1)
      BY <2>1, <3>2 DEF Understood, UpTo, OfType, ListsInOrder
    <3>4. Understood(Len(firmware.records))' <=> Understood(Len(firmware.records))
      BY <2>1, <3>2 DEF Understood, UpTo, OfType, ListsInOrder
    <3> QED  BY <1>2, <2>1, <3>1, <3>2, <3>3, <3>4 DEF FirmHolds
  <2>6. CASE InitRsdt
    <3>1. At("rsdt") /\ UNCHANGED <<record, lapic, ioapics>>  BY <2>6 DEF InitRsdt
    <3>2. record = 0 /\ lapic = "null" /\ ioapics = << >>
      BY <1>2, <3>1 DEF FirmHolds, At, BeforeMadt
    <3>3. CASE pc' = "rsdt"
      <4>1. tables' \in {tables, Len(firmware.root)}
        BY <2>2, <2>6 DEF InitRsdt
      <4> QED  BY <1>2, <2>1, <3>1, <3>2, <3>3, <4>1 DEF FirmHolds, BeforeMadt
    <3>4. CASE pc' # "rsdt"
      <4>1. pc' = "madt" /\ tables' = TableCount /\ FirstBad = 0
        BY <2>6, <3>1, <3>4 DEF InitRsdt, ProceedSaying, Panic, Fault, At
      <4>2. \A i \in DOMAIN firmware.root : Valid(firmware.root[i].sum) /\ ~firmware.root[i].far
        BY <1>2, <4>1, NoneIsBad
      <4>3. "madt" \notin BeforeMadt  BY DEF BeforeMadt, BeforeIdt
      <4> QED  BY <1>2, <2>1, <2>2, <3>1, <3>2, <4>1, <4>2, <4>3 DEF FirmHolds
    <3> QED  BY <3>3, <3>4
  <2>7. CASE InitMadt
    <3>1. /\ At("madt") /\ record = 0 /\ UNCHANGED <<tables, ioapics>>
          /\ "madt" \notin BeforeMadt
      BY <2>7 DEF InitMadt, BeforeMadt, BeforeIdt
    <3>2. lapic = "null" /\ ioapics = << >>  BY <1>2, <3>1 DEF FirmHolds, At
    <3>3. CASE FindTable("APIC") = 0
      <4>1. UNCHANGED <<record, lapic, pc>>  BY <2>7, <3>3 DEF InitMadt, Panic
      <4>2. FindTable("APIC")' = FindTable("APIC")  BY <2>3, <3>1
      <4> QED  BY <1>2, <2>1, <3>1, <3>2, <4>1, <4>2 DEF FirmHolds, At
    <3>4. CASE FindTable("APIC") # 0
      <4>1. record' = 1 /\ lapic' = firmware.lapic /\ pc' = "madt" /\ ioapics' = << >>
        BY <2>7, <3>1, <3>2, <3>4 DEF InitMadt, Proceed
      <4>2. FindTable("APIC")' # 0  BY <2>3, <3>1, <3>4
      <4>3. \A type : UpTo(type, 0)' = {}
        <5>1. DOMAIN firmware.records = 1 .. Len(firmware.records)  BY <1>2, FirmwareIs
        <5> QED  BY <2>1, <2>2, <5>1 DEF UpTo, OfType
      <4>4. Understood(0)'
        <5>1. ListsInOrder(<< >>, {})'  BY <4>1 DEF ListsInOrder, Range
        <5>2. << >> \in [DOMAIN ioapics' -> {}]  BY <4>1
        <5> QED  BY <2>1, <4>1, <4>3, <5>1, <5>2 DEF Understood
      <4>5. record' - 1 = 0 /\ record' <= Len(firmware.records) + 1  BY <2>2, <4>1
      <4>6. Understood(record - 1)'  BY <4>4, <4>5
      <4> QED  BY <1>2, <2>1, <3>1, <4>1, <4>2, <4>5, <4>6 DEF FirmHolds, At
    <3> QED  BY <3>3, <3>4
  <2>8. CASE ReadRecord
    <3> DEFINE r == firmware.records[record]
    <3>1. /\ At("madt") /\ record # 0 /\ UNCHANGED tables
          /\ "madt" \notin BeforeMadt /\ "lapic" \notin BeforeMadt
      BY <2>8 DEF ReadRecord, BeforeMadt, BeforeIdt
    <3>2. /\ pc = "madt" /\ record \in Nat /\ record <= Len(firmware.records) + 1
          /\ \/ record <= Len(firmware.records) /\ r.empty
             \/ Understood(record - 1)
          /\ FindTable("APIC") # 0 /\ FindTable("APIC")' # 0
      BY <1>2, <2>3, <3>1 DEF FirmHolds, At
    <3>3. CASE record > Len(firmware.records)
      <4>1. record' = 0 /\ pc' = "lapic" /\ UNCHANGED <<lapic, ioapics>>
        BY <2>8, <3>3 DEF ReadRecord, Proceed
      <4>2. record - 1 = Len(firmware.records) /\ ~(record <= Len(firmware.records))
        BY <2>2, <3>2, <3>3
      <4>3. Understood(Len(firmware.records))  BY <3>2, <4>2
      <4>4. Understood(Len(firmware.records))'
        BY <2>1, <4>1, <4>3 DEF Understood, UpTo, OfType, ListsInOrder
      <4> QED  BY <1>2, <2>1, <3>1, <3>2, <4>1, <4>4 DEF FirmHolds, At
    <3>7. ASSUME record <= Len(firmware.records)
          PROVE  \/ Panic("too many i/o apics") /\ UNCHANGED <<record, lapic, ioapics>>
                 \/ /\ record' = NextRecord(r) /\ Proceed("madt")
                    /\ ioapics' = IF r.type # IO_APIC THEN ioapics
                                  ELSE Append(ioapics, [id |-> r.id, gsib |-> r.gsib, at |-> r.at])
                    /\ lapic' = IF r.type = LAPIC_OVERRIDE THEN r.at ELSE lapic
      <4>1. ~(record > Len(firmware.records))  BY <2>2, <3>2, <3>7
      <4> QED  BY <2>8, <4>1 DEF ReadRecord
    <3>6. record <= Len(firmware.records) => pc' = "madt"
      BY <3>2, <3>7 DEF Proceed, Panic
    <3>4. CASE record <= Len(firmware.records) /\ pc' = "madt" /\ UNCHANGED acpiVars
      <4>1. Understood(record - 1)' <=> Understood(record - 1)
        BY <2>1, <3>4 DEF acpiVars, Understood, UpTo, OfType, ListsInOrder
      <4> QED  BY <1>2, <2>1, <3>1, <3>2, <3>4, <4>1 DEF FirmHolds, acpiVars, At
    <3>5. CASE record <= Len(firmware.records) /\ ~(UNCHANGED acpiVars)
      <4>1. /\ record' = NextRecord(r) /\ pc' = "madt"
            /\ ioapics' = IF r.type # IO_APIC THEN ioapics
                          ELSE Append(ioapics, [id |-> r.id, gsib |-> r.gsib, at |-> r.at])
            /\ lapic' = IF r.type = LAPIC_OVERRIDE THEN r.at ELSE lapic
        BY <3>1, <3>5, <3>6, <3>7 DEF acpiVars
      <4>2. ioapics' \in Seq([id : Nat, gsib : Nat, at : STRING])
        <5> DEFINE R == [type : Nat, id : Nat, gsib : Nat, at : STRING, empty : BOOLEAN]
                   T == [id : Nat, gsib : Nat, at : STRING]
                   new == [id |-> r.id, gsib |-> r.gsib, at |-> r.at]
        <5>1. ioapics \in Seq(T) /\ firmware.records \in Seq(R)  BY <1>2, FirmwareIs DEF FirmHolds
        <5>2. r \in R
          <6> HIDE DEF R
          <6>1. record \in 1 .. Len(firmware.records)  BY <2>2, <3>1, <3>2, <3>5
          <6> QED  BY <5>1, <6>1
        <5>3. new \in T  BY <5>2
        <5>4. ioapics' \in {ioapics, Append(ioapics, new)}  BY <4>1
        <5> HIDE DEF T, new
        <5>5. Append(ioapics, new) \in Seq(T)  BY <5>1, <5>3
        <5> QED  BY <5>1, <5>4, <5>5 DEF T
      <4>3. CASE r.empty
        <5>1. record' = record  BY <4>1, <4>3 DEF NextRecord
        <5> QED  BY <1>2, <2>1, <3>1, <3>2, <3>5, <4>1, <4>2, <4>3, <5>1 DEF FirmHolds, At
      <4>4. CASE ~r.empty
        <5>1. record' = record + 1  BY <4>1, <4>4 DEF NextRecord
        <5>2. Understood(record - 1)  BY <3>2, <4>4
        <5>3. PICK k : k = record  OBVIOUS
        <5>4. k \in 1 .. Len(firmware.records)  BY <2>2, <3>1, <3>2, <3>5, <5>3
        <5>5. Understood(k)'
          <6>1. Understood(k - 1)  BY <5>2, <5>3
          <6> QED  BY <1>2, <2>1, <4>1, <5>3, <5>4, <6>1, RecordIsUnderstood
        <5>6. record' - 1 = k /\ record' \in Nat /\ record' <= Len(firmware.records) + 1
              /\ record' # 0
          BY <2>2, <5>1, <5>3, <5>4
        <5>7. Understood(record - 1)'  BY <5>5, <5>6
        <5> QED  BY <1>2, <2>1, <3>1, <3>2, <4>1, <4>2, <5>6, <5>7 DEF FirmHolds, At
      <4> QED  BY <4>3, <4>4
    <3> QED  BY <2>2, <3>2, <3>3, <3>4, <3>5, <3>6
  <2> QED  BY <1>2, <2>5, <2>6, <2>7, <2>8, AcpiSteps
<1> QED  BY <1>1, <1>2

\* Every table is checked before it is used and none behind the end is; every
\* I/O APIC the firmware names is listed once, in its order, with its address
\* and base, and the local APIC is where the last override says (rsdt.cpp,
\* madt.cpp).
THEOREM FirmwareIsUnderstoodTheorem == Spec => []FirmwareIsUnderstood
<1> DEFINE IInv == Control /\ FirmHolds
<1>1. Init => IInv  BY ControlHolds, FirmHoldsHolds
<1>2. IInv /\ [Next]_vars => IInv'  BY ControlHolds, FirmHoldsHolds
<1>3. IInv => FirmwareIsUnderstood
  <2> SUFFICES ASSUME IInv PROVE FirmwareIsUnderstood  OBVIOUS
  <2>0. Len(firmware.root) \in Nat /\ DOMAIN firmware.root = 1 .. Len(firmware.root)
        /\ DOMAIN firmware.records = 1 .. Len(firmware.records)
    BY FirmwareIs
  <2>1. ASSUME lapic # "null"
        PROVE  LET table == TableAt(FindTable("APIC"))
               IN  table.sig = "APIC" /\ Valid(table.sum) /\ ~table.far
    <3>1. /\ pc \notin BeforeMadt /\ tables = Len(firmware.root) /\ FindTable("APIC") # 0
          /\ \A i \in DOMAIN firmware.root : Valid(firmware.root[i].sum) /\ ~firmware.root[i].far
      BY <2>1 DEF FirmHolds
    <3>2. /\ FindTable("APIC") \in 1 .. tables /\ TableAt(FindTable("APIC")).sig = "APIC"
      BY <2>0, <3>1, TableIsFound
    <3> QED  BY <2>0, <3>1, <3>2 DEF TableAt
  <2>2. ASSUME lapic # "null", record = 0
        PROVE  /\ \E from \in [DOMAIN ioapics -> OfType(IO_APIC)] :
                     ListsInOrder(from, OfType(IO_APIC))
               /\ lapic = IF OfType(LAPIC_OVERRIDE) = {} THEN firmware.lapic
                          ELSE firmware.records[Max(OfType(LAPIC_OVERRIDE))].at
    <3>1. Understood(Len(firmware.records))  BY <2>2 DEF FirmHolds
    <3>2. \A type : UpTo(type, Len(firmware.records)) = OfType(type)
      BY <2>0 DEF UpTo, OfType
    <3> QED  BY <3>1, <3>2 DEF Understood
  <2> QED  BY <2>1, <2>2 DEF FirmHolds, FirmwareIsUnderstood
<1> HIDE DEF IInv
<1> QED  BY <1>1, <1>2, <1>3, PTL DEF Spec
-----------------------------------------------------------------------------
(* The I/O APICs                                                             *)

\* What a redirection table may be.
LinesAt(at) == 0 .. machine.chips[at].lines - 1
Entries == [masked : BOOLEAN, vector : Nat, dest : Nat]
Tables ==
    {t \in [Bus -> UNION {[LinesAt(at) -> Entries] : at \in Bus}] :
        \A at \in Bus : t[at] \in [LinesAt(at) -> Entries]}

\* The low half of an entry.
LEMMA LowIs ==
    ASSUME NEW t \in Tables, NEW at, NEW line, NEW masked \in BOOLEAN, NEW vector \in Nat
    PROVE  /\ WriteLow(t, at, line, masked, vector) \in Tables
           /\ \A b \in Bus : \A l \in LinesAt(b) :
                 /\ b = at /\ l = line =>
                       /\ WriteLow(t, at, line, masked, vector)[b][l].masked = masked
                       /\ WriteLow(t, at, line, masked, vector)[b][l].vector = vector
                       /\ WriteLow(t, at, line, masked, vector)[b][l].dest = t[b][l].dest
                 /\ ~(b = at /\ l = line) =>
                       WriteLow(t, at, line, masked, vector)[b][l] = t[b][l]
<1>1. /\ t \in [Bus -> UNION {[LinesAt(b) -> Entries] : b \in Bus}]
      /\ \A b \in Bus : t[b] \in [LinesAt(b) -> Entries]
  BY DEF Tables
<1>2. CASE at \notin Bus \/ line \notin DOMAIN t[at]
  <2>1. WriteLow(t, at, line, masked, vector) = t
    BY <1>1, <1>2 DEF WriteLow
  <2> QED  BY <1>1, <1>2, <2>1
<1>3. CASE at \in Bus /\ line \in DOMAIN t[at]
  <2> DEFINE entry == [t[at][line] EXCEPT !.masked = masked, !.vector = vector]
             row == [t[at] EXCEPT ![line] = entry]
             new == [t EXCEPT ![at] = row]
  <2>1. WriteLow(t, at, line, masked, vector) = new
    BY <1>1, <1>3 DEF WriteLow
  <2>2. /\ entry \in Entries /\ entry.masked = masked /\ entry.vector = vector
        /\ entry.dest = t[at][line].dest
    BY <1>1, <1>3 DEF Entries
  <2> HIDE DEF entry
  <2>3. /\ row \in [LinesAt(at) -> Entries] /\ row[line] = entry
        /\ \A l \in LinesAt(at) : l # line => row[l] = t[at][l]
    BY <1>1, <1>3, <2>2
  <2> HIDE DEF row
  <2>4. /\ new \in [Bus -> UNION {[LinesAt(b) -> Entries] : b \in Bus}]
        /\ new[at] = row /\ \A b \in Bus : b # at => new[b] = t[b]
    BY <1>1, <1>3, <2>3
  <2> HIDE DEF new
  <2>5. \A b \in Bus : new[b] \in [LinesAt(b) -> Entries]  BY <1>1, <2>3, <2>4
  <2>6. new \in Tables  BY <2>4, <2>5 DEF Tables
  <2> QED  BY <1>3, <2>1, <2>2, <2>3, <2>4, <2>6
<1> QED  BY <1>2, <1>3

\* The high half.
LEMMA HighIs ==
    ASSUME NEW t \in Tables, NEW at, NEW line, NEW dest \in Nat
    PROVE  /\ WriteHigh(t, at, line, dest) \in Tables
           /\ \A b \in Bus : \A l \in LinesAt(b) :
                 /\ b = at /\ l = line =>
                       /\ WriteHigh(t, at, line, dest)[b][l].masked = t[b][l].masked
                       /\ WriteHigh(t, at, line, dest)[b][l].vector = t[b][l].vector
                       /\ WriteHigh(t, at, line, dest)[b][l].dest = dest
                 /\ ~(b = at /\ l = line) => WriteHigh(t, at, line, dest)[b][l] = t[b][l]
<1>1. /\ t \in [Bus -> UNION {[LinesAt(b) -> Entries] : b \in Bus}]
      /\ \A b \in Bus : t[b] \in [LinesAt(b) -> Entries]
  BY DEF Tables
<1>2. CASE at \notin Bus \/ line \notin DOMAIN t[at]
  <2>1. WriteHigh(t, at, line, dest) = t
    BY <1>1, <1>2 DEF WriteHigh
  <2> QED  BY <1>1, <1>2, <2>1
<1>3. CASE at \in Bus /\ line \in DOMAIN t[at]
  <2> DEFINE entry == [t[at][line] EXCEPT !.dest = dest]
             row == [t[at] EXCEPT ![line] = entry]
             new == [t EXCEPT ![at] = row]
  <2>1. WriteHigh(t, at, line, dest) = new
    BY <1>1, <1>3 DEF WriteHigh
  <2>2. /\ entry \in Entries /\ entry.dest = dest /\ entry.vector = t[at][line].vector
        /\ entry.masked = t[at][line].masked
    BY <1>1, <1>3 DEF Entries
  <2> HIDE DEF entry
  <2>3. /\ row \in [LinesAt(at) -> Entries] /\ row[line] = entry
        /\ \A l \in LinesAt(at) : l # line => row[l] = t[at][l]
    BY <1>1, <1>3, <2>2
  <2> HIDE DEF row
  <2>4. /\ new \in [Bus -> UNION {[LinesAt(b) -> Entries] : b \in Bus}]
        /\ new[at] = row /\ \A b \in Bus : b # at => new[b] = t[b]
    BY <1>1, <1>3, <2>3
  <2> HIDE DEF new
  <2>5. \A b \in Bus : new[b] \in [LinesAt(b) -> Entries]  BY <1>1, <2>3, <2>4
  <2>6. new \in Tables  BY <2>4, <2>5 DEF Tables
  <2> QED  BY <1>3, <2>1, <2>2, <2>3, <2>4, <2>6
<1> QED  BY <1>2, <1>3

\* The steps that write to the tables, and those that leave the calls of map as
\* they are.
LEMMA RouteSteps ==
    ASSUME [Next]_vars
    PROVE  \/ InitIoapic \/ MapHigh \/ RaiseLine
           \/ \E irq \in Irqs \cup {0} : \E next \in {"handler", "done"} :
                 /\ status = "up" /\ pc \in {"map", "done"}
                 /\ MapLow(irq, machine.apicid, next)
           \/ /\ UNCHANGED routeVars
              /\ At("map_high") \/ At("ioapic") => UNCHANGED pc
              /\ At("map") \/ At("done") => pc' # "map_high"
<1> USE StepsAt DEF At
<1>1. CASE \/ Simple(VerifyBoot) \/ Simple(InitUart) \/ Simple(InitMemory) \/ Simple(LoadSymbols)
           \/ Simple(CallConstructors)
  BY <1>1 DEF Simple
<1>2. CASE OfProcessor(InitCpu) \/ OfProcessor(LoadGdt) \/ OfProcessor(LoadIdt)
  BY <1>2 DEF OfProcessor, InitCpu, LoadGdt
<1>4. CASE OfAcpi(InitRsdt) \/ OfAcpi(InitMadt) \/ OfAcpi(ReadRecord) \/ OfAcpi(InitLapic)
  BY <1>4 DEF OfAcpi
<1>5. CASE OfRouting(InitIoapic) \/ OfRouting(MapHigh)
  BY <1>5 DEF OfRouting
<1>6. CASE InitHpet \/ StartCalibration \/ SleepOnHpet \/ Calibrate \/ RegisterTimer
  BY <1>6 DEF InitHpet, StartCalibration, SleepOnHpet, Calibrate, RegisterTimer
<1>7. CASE MapTimer
  BY <1>7 DEF MapTimer
<1>8. CASE SetCounter \/ WakeUp \/ Finish \/ CallHal
  BY <1>8 DEF SetCounter, WakeUp, Finish, CallHal, Proceed, HaltAndNeverReturn
<1>9. CASE CallMap
  BY <1>9 DEF CallMap
<1>10. CASE Simple(WriteOut) \/ Simple(PortSends) \/ Simple(EndPanic)
  BY <1>10 DEF Simple, WriteOut, PortSends, EndPanic, HaltAndNeverReturn, machineVars
<1>11. CASE OfRouting(RaiseLine) \/ TimePasses \/ UNCHANGED vars
  BY <1>11 DEF OfRouting, TimePasses, vars, codeVars, machineVars
<1> QED  BY <1>1, <1>2, <1>4, <1>5, <1>6, <1>7, <1>8, <1>9, <1>10, <1>11 DEF Next, Code, Kmain

\* An entry as the firmware left it; and one that passes on what was asked for.
IsLeft(entry, at, line) ==
    /\ line \in machine.chips[at].open
    /\ entry.vector = machine.chips[at].left.vector /\ entry.dest = machine.chips[at].left.dest
WasAsked(entry, at, line) ==
    /\ entry.vector = IRQ0 + line
    /\ [irq |-> line, dest |-> machine.apicid, at |-> at] \in asked
    /\ \E r \in Range(firmware.records) : r.type = IO_APIC /\ r.at = at /\ r.gsib <= line

\* The lines that IOAPIC::init masks; and where an entry may lead.
IsMasked(at, line) == \E i \in DOMAIN ioapics : ioapics[i].at = at /\ line = i - 1
Dests(at) == {0, machine.chips[at].left.dest, machine.apicid}

\* Every open entry is as it was left, or was asked for and leads to the processor
\* that asked, but for the one that is half written.
EntryHolds(entry, at, line) ==
    /\ entry.dest \in Dests(at)
    /\ HalfWritten(at, line) => WasAsked(entry, at, line)
    /\ \/ entry.masked
       \/ IsLeft(entry, at, line) /\ (Routed => ~IsMasked(at, line))
       \/ WasAsked(entry, at, line) /\ (entry.dest = machine.apicid \/ HalfWritten(at, line))
RouteHolds ==
    /\ redirect \in Tables
    /\ \A at \in Bus : \A line \in LinesAt(at) : EntryHolds(redirect[at][line], at, line)
    /\ pc = "map_high" => mapping.dest = machine.apicid
    /\ (\E d \in raised : d.routed) => Routed
    /\ LinesArriveAsAsked

\* What a machine's I/O APICs are.
LEMMA ChipsAre ==
    ASSUME Control
    PROVE  /\ machine.apicid \in Nat
           /\ \A at \in Bus :
                 /\ machine.chips[at].lines \in Nat /\ machine.chips[at].id \in Nat
                 /\ machine.chips[at].left.vector \in Nat /\ machine.chips[at].left.dest \in Nat
                 /\ \A line \in machine.chips[at].live : line \in LinesAt(at)
<1>1. WellFormed(machine)  BY MachinesAre DEF Control
<1>2. /\ machine.apicid \in Nat
      /\ \A at \in Bus :
            /\ machine.chips[at] \in [id : Nat, lines : Nat, live : SUBSET Nat, open : SUBSET Nat,
                                      left : [vector : Nat, dest : Nat]]
            /\ \A line \in machine.chips[at].live : line < machine.chips[at].lines
  BY <1>1 DEF WellFormed, Bus
<1> QED  BY <1>2 DEF LinesAt

\* Once IOAPIC::init is through it stays so, with the same list of I/O APICs.
LEMMA RoutedStays ==
    ASSUME Control, [Next]_vars
    PROVE  /\ Routed => Routed' /\ ioapics' = ioapics
           /\ Routed' => Routed \/ (pc = "ioapic" /\ pc' = "hpet")
<1>1. pc' # pc => <<pc, pc'>> \in Follows \cup {<<"uart", "cpu">>}  BY PlaceStays
<1>2. Routed => ioapics' = ioapics
  <2>1. CASE InitRsdt \/ InitMadt \/ ReadRecord
    BY <2>1, StepsAt DEF At, Routed
  <2>2. CASE UNCHANGED acpiVars
    BY <2>2 DEF acpiVars
  <2> QED  BY <2>1, <2>2, AcpiSteps
<1>3. CASE pc' = pc
  BY <1>2, <1>3 DEF Routed
<1>4. CASE pc' # pc
  BY <1>1, <1>2, <1>4 DEF Routed, Follows
<1> QED  BY <1>3, <1>4

\* What has come in stays explained.
LEMMA ArrivalsStay ==
    ASSUME LinesArriveAsAsked, machine' = machine, raised' = raised, asked \subseteq asked',
           (\E d \in raised : d.routed) => ioapics' = ioapics
    PROVE  LinesArriveAsAsked'
<1> SUFFICES ASSUME NEW d \in raised PROVE CameAsLeft(d)' \/ CameAsAsked(d)'
  BY DEF LinesArriveAsAsked
<1>1. CASE CameAsLeft(d)
  BY <1>1 DEF CameAsLeft
<1>2. CASE CameAsAsked(d)
  BY <1>2 DEF CameAsAsked, firmware
<1> QED  BY <1>1, <1>2 DEF LinesArriveAsAsked

\* Tables in which what is open was left so or was asked for.
RightEntry(entry, at, line) ==
    /\ entry.dest \in Dests(at)
    /\ \/ entry.masked
       \/ IsLeft(entry, at, line)
       \/ WasAsked(entry, at, line) /\ entry.dest = machine.apicid
RightTables ==
    {t \in Tables : \A at \in Bus : \A line \in LinesAt(at) : RightEntry(t[at][line], at, line)}

\* A turn of IOAPIC::init masks its line and opens nothing.
LEMMA MaskOneStays ==
    ASSUME NEW t \in RightTables, NEW i \in Nat
    PROVE  /\ MaskOne(t, i) \in RightTables
           /\ \A b \in Bus : \A l \in LinesAt(b) :
                 t[b][l].masked \/ (b = ioapics[i + 1].at /\ l = i) => MaskOne(t, i)[b][l].masked
<1> DEFINE at == ioapics[i + 1].at
           on == TRUE
           low == WriteLow(t, at, i, on, IRQ0 + i)
           high == WriteHigh(low, at, i, 0)
<1>1. MaskOne(t, i) = high  BY DEF MaskOne
<1>2. on \in BOOLEAN /\ IRQ0 + i \in Nat /\ 0 \in Nat /\ t \in Tables
  BY DEF IRQ0, RightTables
<1>o. on  OBVIOUS
<1>a. PICK place : place = at  OBVIOUS
<1> HIDE DEF on, at
<1>3. /\ low \in Tables
      /\ \A b \in Bus : \A l \in LinesAt(b) :
            /\ b = at /\ l = i => low[b][l].masked = on
            /\ ~(b = at /\ l = i) => low[b][l] = t[b][l]
  <2>1. PICK vector \in Nat : vector = IRQ0 + i  BY <1>2
  <2>2. low = WriteLow(t, at, i, on, vector)  BY <2>1
  <2>3. low \in Tables  BY <1>2, <2>1, <2>2, LowIs, ZenonT(40)
  <2> HIDE DEF low
  <2> QED  BY <1>2, <2>2, <2>3, LowIs
<1> HIDE DEF low
<1>4. /\ high \in Tables
      /\ \A b \in Bus : \A l \in LinesAt(b) :
            /\ b = at /\ l = i => high[b][l].masked = low[b][l].masked /\ high[b][l].dest = 0
            /\ ~(b = at /\ l = i) => high[b][l] = low[b][l]
  BY <1>2, <1>3, HighIs
<1> HIDE DEF high
<1>5. ASSUME NEW b \in Bus, NEW l \in LinesAt(b)
      PROVE  /\ RightEntry(high[b][l], b, l)
             /\ t[b][l].masked \/ (b = at /\ l = i) => high[b][l].masked
  <2>1. CASE b = at /\ l = i
    <3>1. high[b][l].masked = on /\ high[b][l].dest = 0  BY <1>3, <1>4, <2>1
    <3> QED  BY <1>o, <3>1 DEF RightEntry, Dests
  <2>2. CASE ~(b = at /\ l = i)
    <3>1. high[b][l] = t[b][l]  BY <1>3, <1>4, <2>2
    <3> QED  BY <2>2, <3>1 DEF RightTables
  <2> QED  BY <2>1, <2>2
<1> QED  BY <1>1, <1>4, <1>5 DEF RightTables, at

\* Its turns together open nothing either, and mask one line for each I/O APIC.
LEMMA InitIoapicMasks ==
    ASSUME Control, ioapics \in Seq([id : Nat, gsib : Nat, at : STRING]), redirect \in RightTables,
           InitIoapic
    PROVE  /\ redirect' \in RightTables
           /\ pc' = "hpet" => \A b \in Bus : \A l \in LinesAt(b) :
                 IsMasked(b, l) => redirect'[b][l].masked
<1> DEFINE wrong == {i \in DOMAIN ioapics : HardwareId(ioapics[i]) # ioapics[i].id}
           through == IF wrong = {} THEN Len(ioapics) ELSE Min(wrong) - 1
           Turns(g) == g = [n \in 0 .. through |->
                              IF n = 0 THEN redirect ELSE MaskOne(g[n - 1], n - 1)]
           G == CHOOSE g : Turns(g)
           step == [k \in 1 .. through |-> [t \in RightTables |-> MaskOne(t, k - 1)]]
<1>0. Len(ioapics) \in Nat /\ DOMAIN ioapics = 1 .. Len(ioapics)  OBVIOUS
<1>1. through \in Nat /\ (pc' = "hpet" => through = Len(ioapics))
  <2>2. wrong \in SUBSET Nat /\ \A i \in wrong : i >= 1  BY <1>0
  <2>1. pc' = "hpet" => wrong = {}
    BY DEF InitIoapic, At, Panic
  <2> HIDE DEF wrong
  <2>3. wrong # {} => Min(wrong) \in Nat /\ Min(wrong) >= 1  BY <2>2, MinIsLeast
  <2> QED  BY <1>0, <2>1, <2>3
<1>2. redirect' = G[through]  BY DEF InitIoapic
<1> HIDE DEF through
<1>3. \A k \in 1 .. through : \A t \in RightTables :
         /\ MaskOne(t, k - 1) \in RightTables
         /\ \A b \in Bus : \A l \in LinesAt(b) :
               t[b][l].masked \/ (b = ioapics[k].at /\ l = k - 1) =>
                  MaskOne(t, k - 1)[b][l].masked
  <2> TAKE k \in 1 .. through
  <2>1. k - 1 \in Nat /\ (k - 1) + 1 = k  BY <1>1
  <2> QED  BY <2>1, MaskOneStays
<1>4. step \in [1 .. through -> [RightTables -> RightTables]]  BY <1>3
<1>5. PICK f \in Walks(through, RightTables, redirect, step) : TRUE
  <2> HIDE DEF step
  <2> QED  BY <1>1, <1>4, RecursionExists
<1>6. /\ f \in [0 .. through -> RightTables] /\ f[0] = redirect
      /\ \A k \in 1 .. through : f[k] = MaskOne(f[k - 1], k - 1)
  <2> HIDE DEF step
  <2>1. f \in [0 .. through -> RightTables] /\ f[0] = redirect
        /\ \A k \in 1 .. through : f[k] = step[k][f[k - 1]]
    BY <1>5 DEF Walks
  <2>2. ASSUME NEW k \in 1 .. through PROVE f[k] = MaskOne(f[k - 1], k - 1)
    <3>1. k - 1 \in 0 .. through  BY <1>1
    <3>2. f[k - 1] \in RightTables /\ f[k] = step[k][f[k - 1]]  BY <2>1, <3>1
    <3> QED  BY <3>2 DEF step
  <2> QED  BY <2>1, <2>2
<1>7. Turns(f)
  <2>1. \A k \in 0 .. through : f[k] = IF k = 0 THEN redirect ELSE MaskOne(f[k - 1], k - 1)
    BY <1>1, <1>6
  <2> QED  BY <1>6, <2>1
<1>8. Turns(G)
  <2> HIDE DEF Turns
  <2> QED  BY <1>7
<1> HIDE DEF G
<1>9. G[0] = redirect /\ \A k \in 1 .. through : G[k] = MaskOne(G[k - 1], k - 1)
  BY <1>1, <1>8
<1>10. \A k \in 0 .. through : G[k] \in RightTables
  <2>1. \A k \in 1 .. through : G[k - 1] \in RightTables => G[k] \in RightTables
    BY <1>3, <1>9
  <2> QED  BY <1>1, <1>9, <2>1, StaysIn
<1>11. ASSUME through = Len(ioapics), NEW b \in Bus, NEW l \in LinesAt(b), IsMasked(b, l)
       PROVE  G[through][b][l].masked
  <2>1. PICK i \in 1 .. through : ioapics[i].at = b /\ l = i - 1
    BY <1>0, <1>11 DEF IsMasked
  <2> DEFINE Good == {k \in 0 .. through : k >= i => G[k][b][l].masked}
  <2>2. 0 \in Good  BY <1>1
  <2>3. ASSUME NEW k \in 0 .. through - 1, k \in Good PROVE k + 1 \in Good
    <3>1. /\ k + 1 \in 1 .. through /\ (k + 1) - 1 = k /\ k \in 0 .. through
          /\ k + 1 \in 0 .. through
      BY <1>1
    <3>2. G[k] \in RightTables /\ G[k + 1] = MaskOne(G[k], (k + 1) - 1)  BY <1>9, <1>10, <3>1
    <3>3. G[k][b][l].masked \/ (b = ioapics[k + 1].at /\ l = k) => G[k + 1][b][l].masked
      BY <1>3, <3>1, <3>2
    <3>4. k + 1 >= i => k >= i \/ k + 1 = i  BY <1>1, <3>1
    <3> QED  BY <2>1, <2>3, <3>1, <3>3, <3>4
  <2> HIDE DEF Good
  <2>4. 0 .. through \subseteq Good  BY <1>1, <2>2, <2>3, InductionUpTo
  <2>5. through \in Good  BY <1>1, <2>4
  <2> QED  BY <1>1, <2>1, <2>5 DEF Good
<1> QED  BY <1>1, <1>2, <1>10, <1>11

\* Where IOAPIC::map finds an I/O APIC for an irq, the firmware lists it at that
\* address with a base no higher than the irq.
LEMMA FoundIsListed ==
    ASSUME Control, FirmHolds, pc \in {"map", "done"}, NEW irq \in Nat, FindIoapic(irq) # 0
    PROVE  \E r \in Range(firmware.records) :
              r.type = IO_APIC /\ r.at = ioapics[FindIoapic(irq)].at /\ r.gsib <= irq
<1> DEFINE found == {i \in DOMAIN ioapics :
                       irq >= ioapics[i].gsib /\ irq <= ioapics[i].gsib + Lines(ioapics[i])}
           n == Len(firmware.records)
<1>1. FindIoapic(irq) \in found
  <2>1. found \in SUBSET Nat
    <3>1. DOMAIN ioapics = 1 .. Len(ioapics) /\ Len(ioapics) \in Nat  BY DEF FirmHolds
    <3> QED  BY <3>1
  <2>2. FindIoapic(irq) = IF found = {} THEN 0 ELSE Min(found)  BY DEF FindIoapic
  <2> HIDE DEF found
  <2> QED  BY <2>1, <2>2, MinIsLeast
<1>2. PICK i \in DOMAIN ioapics : i = FindIoapic(irq) /\ irq >= ioapics[i].gsib
  BY <1>1
<1>3. Understood(n)  BY DEF FirmHolds, BeforeMadt, BeforeIdt
<1>4. PICK from \in [DOMAIN ioapics -> UpTo(IO_APIC, n)] : ListsInOrder(from, UpTo(IO_APIC, n))
  BY <1>3 DEF Understood
<1> DEFINE r == firmware.records[from[i]]
<1>5. from[i] \in DOMAIN firmware.records /\ r.type = IO_APIC
  BY <1>2, <1>4 DEF UpTo, OfType
<1>6. ioapics[i].at = r.at /\ ioapics[i].gsib = r.gsib
  BY <1>2, <1>4 DEF ListsInOrder
<1>7. r \in Range(firmware.records)  BY <1>5 DEF Range
<1>8. r.gsib <= irq
  <2> DEFINE S == [type : Nat, id : Nat, gsib : Nat, at : STRING, empty : BOOLEAN]
  <2>1. \A s \in S : s.gsib \in Nat  OBVIOUS
  <2>2. firmware.records \in Seq(S)  BY FirmwareIs
  <2> HIDE DEF S
  <2>3. r \in S  BY <1>5, <2>2
  <2>4. r.gsib \in Nat  BY <2>1, <2>3
  <2> QED  BY <1>2, <1>6, <2>4
<1> QED  BY <1>2, <1>5, <1>6, <1>7, <1>8

\* The entries are what the firmware left to begin with.
LEMMA RoutesBegin == Init => RouteHolds
<1> SUFFICES ASSUME Init PROVE RouteHolds  OBVIOUS
<1>1. machine \in Machines /\ pc = "verify" /\ raised = {}
  BY DEF Init, MachineInit, RoutingInit
<1>2. redirect = [at \in Bus |-> [line \in LinesAt(at) |-> LeftBehind(at, line)]]
  BY DEF Init, RoutingInit, LinesAt
<1>3. Control  BY ControlHolds
<1>4. ASSUME NEW at \in Bus, NEW line
      PROVE  /\ LeftBehind(at, line) \in Entries
             /\ EntryHolds(LeftBehind(at, line), at, line)
  <2> DEFINE device == machine.chips[at]
             masked == line \notin device.open
  <2>1. device.left.vector \in Nat /\ device.left.dest \in Nat  BY <1>3, ChipsAre
  <2>2. masked \in BOOLEAN  OBVIOUS
  <2>3. PICK m \in BOOLEAN : m = masked  BY <2>2
  <2>4. LeftBehind(at, line) =
          [masked |-> m, vector |-> device.left.vector, dest |-> device.left.dest]
    BY <2>3 DEF LeftBehind
  <2>5. LeftBehind(at, line) \in Entries  BY <2>1, <2>4 DEF Entries
  <2>6. /\ LeftBehind(at, line).masked = m
        /\ LeftBehind(at, line).vector = device.left.vector
        /\ LeftBehind(at, line).dest = device.left.dest
    BY <2>4
  <2>7. ~Routed /\ ~HalfWritten(at, line)  BY <1>1 DEF Routed, HalfWritten
  <2>8. ~m => line \in device.open  BY <2>3
  <2> QED  BY <2>5, <2>6, <2>7, <2>8 DEF EntryHolds, IsLeft, Dests
<1>5. \A at \in Bus : redirect[at] \in [LinesAt(at) -> Entries]
  BY <1>2, <1>4
<1>6. redirect \in Tables  BY <1>2, <1>5 DEF Tables
<1>7. \A at \in Bus : \A line \in LinesAt(at) : EntryHolds(redirect[at][line], at, line)
  BY <1>2, <1>4
<1> QED  BY <1>1, <1>6, <1>7 DEF RouteHolds, LinesArriveAsAsked

\* A device finds the entry of its line as RouteHolds says.
LEMMA RaiseKeepsRoutes ==
    ASSUME Control, FirmHolds, RouteHolds, [Next]_vars, RaiseLine
    PROVE  RouteHolds'
<1>0. PICK at \in Bus : \E line \in machine.chips[at].live :
         LET entry == redirect[at][line]
         IN  /\ ~entry.masked
             /\ raised' = raised \cup {[at |-> at, line |-> line,
                                        vector |-> entry.vector, dest |-> entry.dest,
                                        half |-> HalfWritten(at, line), routed |-> Routed]}
             /\ UNCHANGED <<redirect, mapping, asked, acpiVars, codeVars>>
  BY DEF RaiseLine
<1>1. PICK line \in machine.chips[at].live :
         /\ ~redirect[at][line].masked
         /\ raised' = raised \cup {[at |-> at, line |-> line,
                                    vector |-> redirect[at][line].vector,
                                    dest |-> redirect[at][line].dest,
                                    half |-> HalfWritten(at, line), routed |-> Routed]}
         /\ UNCHANGED <<redirect, mapping, asked, acpiVars, codeVars>>
  BY <1>0
<1>2. UNCHANGED <<machine, pc, ioapics, redirect, mapping, asked>>
  BY <1>1 DEF acpiVars, codeVars, machineVars
<1>3. line \in LinesAt(at)  BY ChipsAre
<1>p. PICK half \in BOOLEAN : half <=> HalfWritten(at, line)  OBVIOUS
<1>q. PICK routed \in BOOLEAN : routed <=> Routed  OBVIOUS
<1>4. half = HalfWritten(at, line) /\ routed = Routed
  BY <1>p, <1>q DEF HalfWritten, Routed
<1>5. PICK new : /\ new.at = at /\ new.line = line
                 /\ new.vector = redirect[at][line].vector
                 /\ new.dest = redirect[at][line].dest
                 /\ new.half = half /\ new.routed = routed
                 /\ raised' = raised \cup {new}
  <2>1. raised' = raised \cup {[at |-> at, line |-> line,
                                vector |-> redirect[at][line].vector,
                                dest |-> redirect[at][line].dest,
                                half |-> half, routed |-> routed]}
    BY <1>1, <1>4, Zenon
  <2> QED  BY <2>1
<1>6. EntryHolds(redirect[at][line], at, line)  BY <1>3 DEF RouteHolds
<1>7. ASSUME IsLeft(redirect[at][line], at, line), Routed => ~IsMasked(at, line)
      PROVE  CameAsLeft(new)
  <2>1. \A i \in DOMAIN ioapics : routed /\ ioapics[i].at = at => line # i - 1
    BY <1>q, <1>7 DEF IsMasked
  <2> QED  BY <1>5, <1>7, <2>1 DEF CameAsLeft, IsLeft
<1>8. ASSUME WasAsked(redirect[at][line], at, line),
             redirect[at][line].dest = machine.apicid \/ HalfWritten(at, line)
      PROVE  CameAsAsked(new)
  <2> DEFINE a == [irq |-> line, dest |-> machine.apicid, at |-> at]
  <2>1. a \in asked /\ new.vector = IRQ0 + new.line  BY <1>5, <1>8 DEF WasAsked
  <2>2. a.irq = new.line /\ a.dest = machine.apicid /\ a.at = new.at  BY <1>5
  <2>3. \/ new.dest = machine.apicid
        \/ new.half /\ new.dest \in {0, machine.chips[new.at].left.dest}
    BY <1>p, <1>5, <1>6, <1>8 DEF EntryHolds, Dests
  <2>4. \E r \in Range(firmware.records) : r.type = IO_APIC /\ r.at = new.at /\ r.gsib <= new.line
    BY <1>5, <1>8 DEF WasAsked
  <2> HIDE DEF a
  <2> QED  BY <2>1, <2>2, <2>3, <2>4 DEF CameAsAsked
<1>9. CameAsLeft(new) \/ CameAsAsked(new)
  BY <1>1, <1>6, <1>7, <1>8 DEF EntryHolds
<1>10. ASSUME NEW d \in raised' PROVE CameAsLeft(d)' \/ CameAsAsked(d)'
  <2>1. CameAsLeft(d) \/ CameAsAsked(d)
    BY <1>5, <1>9, <1>10 DEF RouteHolds, LinesArriveAsAsked
  <2>2. CASE CameAsLeft(d)
    BY <1>2, <2>2 DEF CameAsLeft
  <2>3. CASE CameAsAsked(d)
    BY <1>2, <2>3 DEF CameAsAsked, firmware
  <2> QED  BY <2>1, <2>2, <2>3
<1>11. LinesArriveAsAsked'
  BY <1>10 DEF LinesArriveAsAsked
<1>12. Routed' <=> Routed  BY <1>2 DEF Routed
<1>13. (\E d \in raised' : d.routed) => Routed'
  BY <1>q, <1>5, <1>12 DEF RouteHolds
<1>14. Tables' = Tables /\ Bus' = Bus /\ \A b : LinesAt(b)' = LinesAt(b)
  BY <1>2 DEF Tables, Bus, LinesAt, Entries
<1>15. ASSUME NEW b \in Bus, NEW l \in LinesAt(b)
       PROVE  EntryHolds(redirect[b][l], b, l)'
  <2>1. EntryHolds(redirect[b][l], b, l)  BY DEF RouteHolds
  <2> QED  BY <1>2, <1>12, <2>1
           DEF EntryHolds, IsLeft, WasAsked, IsMasked, Dests, HalfWritten, firmware
<1> QED  BY <1>2, <1>11, <1>13, <1>14, <1>15 DEF RouteHolds

\* The low half of map opens the entry of the line that was asked for.
LEMMA MapKeepsRoutes ==
    ASSUME Control, FirmHolds, RouteHolds, [Next]_vars, status = "up", pc \in {"map", "done"},
           NEW irq \in Irqs \cup {0}, NEW next, MapLow(irq, machine.apicid, next)
    PROVE  RouteHolds'
<1>1. machine' = machine  BY MachineStays
<1>2. Tables' = Tables /\ Bus' = Bus /\ \A at : LinesAt(at)' = LinesAt(at)
  BY <1>1 DEF Tables, Bus, LinesAt, Entries
<1>3. irq \in Nat /\ IRQ0 + irq \in Nat  BY IrqsHaveEntries DEF IRQ0
<1>4. Routed /\ Routed' /\ ioapics' = ioapics
  BY RoutedStays DEF Routed
<1>5. CASE FindIoapic(irq) = 0
  <2>1. UNCHANGED routeVars /\ pc' = pc  BY <1>5 DEF MapLow, Panic
  <2>2. LinesArriveAsAsked'  BY <1>1, <1>4, <2>1, ArrivalsStay DEF RouteHolds, routeVars
  <2>3. ASSUME NEW at \in Bus, NEW line \in LinesAt(at)
        PROVE  EntryHolds(redirect[at][line], at, line)'
    <3>1. EntryHolds(redirect[at][line], at, line)  BY DEF RouteHolds
    <3> QED  BY <1>1, <1>4, <2>1, <3>1
             DEF EntryHolds, IsLeft, WasAsked, IsMasked, Dests, HalfWritten, firmware, routeVars
  <2> QED  BY <1>1, <1>2, <1>4, <2>1, <2>2, <2>3 DEF RouteHolds, routeVars
<1>6. CASE FindIoapic(irq) # 0
  <2> DEFINE at == ioapics[FindIoapic(irq)].at
             off == FALSE
             a == [irq |-> irq, dest |-> machine.apicid, at |-> at]
  <2>0. off \in BOOLEAN  OBVIOUS
  <2>1. /\ redirect' = WriteLow(redirect, at, irq, off, IRQ0 + irq)
        /\ mapping' = [irq |-> irq, dest |-> machine.apicid, at |-> at, next |-> next]
        /\ asked' = asked \cup {a}
        /\ UNCHANGED raised /\ pc' = "map_high"
    BY <1>6 DEF MapLow, LineOf, Proceed
  <2>2. mapping'.irq = irq /\ mapping'.dest = machine.apicid /\ mapping'.at = at
    BY <2>1
  <2>3. \E r \in Range(firmware.records) : r.type = IO_APIC /\ r.at = at /\ r.gsib <= irq
    BY <1>3, <1>6, FoundIsListed
  <2> HIDE DEF at, off
  <2>4. /\ redirect' \in Tables
        /\ \A b \in Bus : \A l \in LinesAt(b) :
              /\ b = at /\ l = irq =>
                    /\ redirect'[b][l].vector = IRQ0 + irq
                    /\ redirect'[b][l].dest = redirect[b][l].dest
              /\ ~(b = at /\ l = irq) => redirect'[b][l] = redirect[b][l]
    <3>1. PICK vector \in Nat : vector = IRQ0 + irq  BY <1>3
    <3>2. redirect' = WriteLow(redirect, at, irq, off, vector) /\ redirect \in Tables
      BY <2>1, <3>1 DEF RouteHolds
    <3>3. WriteLow(redirect, at, irq, off, vector) \in Tables
      BY <2>0, <3>1, <3>2, LowIs, ZenonT(40)
    <3>4. PICK new : new = WriteLow(redirect, at, irq, off, vector)  OBVIOUS
    <3>5. \A b \in Bus : \A l \in LinesAt(b) :
             /\ b = at /\ l = irq =>
                   new[b][l].vector = vector /\ new[b][l].dest = redirect[b][l].dest
             /\ ~(b = at /\ l = irq) => new[b][l] = redirect[b][l]
      BY <2>0, <3>1, <3>2, <3>4, LowIs
    <3> QED  BY <3>1, <3>2, <3>3, <3>4, <3>5
  <2>5. ASSUME NEW b \in Bus, NEW l \in LinesAt(b)
        PROVE  EntryHolds(redirect[b][l], b, l)'
    <3>1. EntryHolds(redirect[b][l], b, l)  BY DEF RouteHolds
    <3>2. CASE b = at /\ l = irq
      <4>1. redirect'[b][l].dest \in Dests(b)' /\ redirect'[b][l].vector = IRQ0 + l
        BY <1>1, <2>4, <3>1, <3>2 DEF EntryHolds, Dests
      <4>2. [irq |-> l, dest |-> machine.apicid, at |-> b]' \in asked'
        BY <1>1, <2>1, <3>2
      <4>3. WasAsked(redirect[b][l], b, l)'
        BY <1>1, <2>3, <3>2, <4>1, <4>2 DEF WasAsked, firmware
      <4>4. HalfWritten(b, l)'  BY <2>1, <2>2, <3>2 DEF HalfWritten, LineOf
      <4> QED  BY <4>1, <4>3, <4>4 DEF EntryHolds
    <3>3. CASE ~(b = at /\ l = irq)
      <4>1. redirect'[b][l] = redirect[b][l]  BY <2>4, <3>3
      <4>2. ~HalfWritten(b, l)  BY DEF HalfWritten
      <4>3. ~HalfWritten(b, l)'  BY <2>2, <3>3 DEF HalfWritten, LineOf
      <4> QED  BY <1>1, <1>4, <2>1, <3>1, <4>1, <4>2, <4>3
               DEF EntryHolds, IsLeft, WasAsked, IsMasked, Dests, firmware
    <3> QED  BY <3>2, <3>3
  <2>6. LinesArriveAsAsked'
    BY <1>1, <1>4, <2>1, ArrivalsStay DEF RouteHolds
  <2> QED  BY <1>1, <1>2, <1>4, <2>1, <2>2, <2>4, <2>5, <2>6 DEF RouteHolds
<1> QED  BY <1>5, <1>6

\* IOAPIC::init opens no entry, and the high half of map ends what the low half
\* began.
LEMMA RouteHoldsHolds ==
    /\ Init => RouteHolds
    /\ Control /\ FirmHolds /\ RouteHolds /\ [Next]_vars => RouteHolds'
<1>1. Init => RouteHolds  BY RoutesBegin
<1>2. ASSUME Control, FirmHolds, RouteHolds, [Next]_vars PROVE RouteHolds'
  <2>1. machine' = machine  BY <1>2, MachineStays
  <2>2. Tables' = Tables /\ Bus' = Bus /\ \A at : LinesAt(at)' = LinesAt(at)
    BY <2>1 DEF Tables, Bus, LinesAt, Entries
  <2>0. ASSUME UNCHANGED <<asked, raised>> PROVE LinesArriveAsAsked'
    <3>1. (\E d \in raised : d.routed) => ioapics' = ioapics
      BY <1>2, RoutedStays DEF RouteHolds
    <3> QED  BY <1>2, <2>0, <2>1, <3>1, ArrivalsStay DEF RouteHolds
  <2>3. CASE UNCHANGED routeVars /\ (At("map_high") \/ At("ioapic") => UNCHANGED pc)
             /\ (At("map") \/ At("done") => pc' # "map_high")
    <3>1. pc' = "map_high" <=> pc = "map_high"
      BY <1>2, <2>3, PlaceStays DEF At, Follows
    <3>2. (Routed' <=> Routed) /\ (Routed => ioapics' = ioapics)
      <4>1. ~(pc = "ioapic" /\ pc' = "hpet")  BY <1>2, <2>3, PlaceStays DEF At
      <4> QED  BY <1>2, <4>1, RoutedStays
    <3>3. ASSUME NEW at \in Bus, NEW line \in LinesAt(at)
          PROVE  EntryHolds(redirect[at][line], at, line)'
      <4>1. EntryHolds(redirect[at][line], at, line)  BY <1>2 DEF RouteHolds
      <4>2. HalfWritten(at, line)' <=> HalfWritten(at, line)
        BY <2>3, <3>1 DEF HalfWritten, routeVars
      <4> QED  BY <2>1, <2>3, <3>2, <4>1, <4>2
               DEF EntryHolds, IsLeft, WasAsked, IsMasked, Dests, firmware, routeVars
    <3> QED  BY <1>2, <2>0, <2>1, <2>2, <2>3, <3>1, <3>2, <3>3 DEF RouteHolds, routeVars
  <2>4. CASE InitIoapic
    <3>1. pc = "ioapic" /\ pc' # "map_high" /\ UNCHANGED <<mapping, asked, raised>>
      BY <2>4 DEF InitIoapic, At, Proceed, ProceedSaying, Panic
    <3>2. redirect \in RightTables
      BY <1>2, <3>1 DEF RouteHolds, RightTables, RightEntry, EntryHolds, HalfWritten
    <3>3. /\ redirect' \in RightTables
          /\ pc' = "hpet" => \A b \in Bus : \A l \in LinesAt(b) :
                IsMasked(b, l) => redirect'[b][l].masked
      BY <1>2, <2>4, <3>2, InitIoapicMasks DEF FirmHolds
    <3>4. ~Routed /\ (Routed' => pc' = "hpet") /\ ioapics' = ioapics
      BY <1>2, <2>4, <3>1, RoutedStays DEF Routed, InitIoapic, acpiVars
    <3>5. ASSUME NEW b \in Bus, NEW l \in LinesAt(b)
          PROVE  EntryHolds(redirect[b][l], b, l)'
      <4>1. RightEntry(redirect'[b][l], b, l)  BY <3>3 DEF RightTables
      <4>2. ~HalfWritten(b, l)'  BY <3>1 DEF HalfWritten
      <4> QED  BY <2>1, <3>1, <3>3, <3>4, <4>1, <4>2
               DEF EntryHolds, RightEntry, IsLeft, WasAsked, IsMasked, Dests, firmware
    <3>6. redirect' \in Tables  BY <3>3 DEF RightTables
    <3> QED  BY <1>2, <2>0, <2>2, <3>1, <3>4, <3>5, <3>6 DEF RouteHolds
  <2>5. CASE MapHigh
    <3>1. /\ pc = "map_high" /\ pc' # "map_high" /\ UNCHANGED <<mapping, asked, raised>>
          /\ redirect' = WriteHigh(redirect, mapping.at, LineOf(mapping.irq), mapping.dest)
      BY <1>2, <2>5 DEF MapHigh, At, ProceedSaying, Control
    <3>2. redirect \in Tables /\ mapping.dest = machine.apicid /\ machine.apicid \in Nat
      BY <1>2, <3>1, ChipsAre DEF RouteHolds
    <3>3. /\ redirect' \in Tables
          /\ \A b \in Bus : \A l \in LinesAt(b) :
                /\ b = mapping.at /\ l = mapping.irq =>
                      /\ redirect'[b][l].masked = redirect[b][l].masked
                      /\ redirect'[b][l].vector = redirect[b][l].vector
                      /\ redirect'[b][l].dest = machine.apicid
                /\ ~(b = mapping.at /\ l = mapping.irq) => redirect'[b][l] = redirect[b][l]
      BY <3>1, <3>2, HighIs DEF LineOf
    <3>4. Routed /\ Routed' /\ ioapics' = ioapics
      BY <1>2, <3>1, RoutedStays DEF Routed
    <3>5. ASSUME NEW b \in Bus, NEW l \in LinesAt(b)
          PROVE  EntryHolds(redirect[b][l], b, l)'
      <4>1. EntryHolds(redirect[b][l], b, l)  BY <1>2 DEF RouteHolds
      <4>2. CASE b = mapping.at /\ l = mapping.irq
        <5>1. /\ redirect'[b][l].masked = redirect[b][l].masked
              /\ redirect'[b][l].vector = redirect[b][l].vector
              /\ redirect'[b][l].dest = machine.apicid
          BY <3>3, <4>2
        <5>2. HalfWritten(b, l)  BY <3>1, <4>2 DEF HalfWritten, LineOf
        <5>3. ~HalfWritten(b, l)'  BY <3>1 DEF HalfWritten
        <5>4. WasAsked(redirect[b][l], b, l)'
          BY <2>1, <3>1, <4>1, <5>1, <5>2 DEF EntryHolds, WasAsked, firmware
        <5> QED  BY <2>1, <5>1, <5>3, <5>4 DEF EntryHolds, Dests
      <4>3. CASE ~(b = mapping.at /\ l = mapping.irq)
        <5>1. redirect'[b][l] = redirect[b][l]  BY <3>3, <4>3
        <5>2. ~HalfWritten(b, l)  BY <4>3 DEF HalfWritten, LineOf
        <5>3. ~HalfWritten(b, l)'  BY <3>1 DEF HalfWritten
        <5> QED  BY <2>1, <3>1, <3>4, <4>1, <5>1, <5>2, <5>3
                 DEF EntryHolds, IsLeft, WasAsked, IsMasked, Dests, firmware
      <4> QED  BY <4>2, <4>3
    <3> QED  BY <1>2, <2>0, <2>2, <3>1, <3>3, <3>4, <3>5 DEF RouteHolds
  <2>6. CASE RaiseLine
    BY <1>2, <2>6, RaiseKeepsRoutes
  <2>7. CASE \E irq \in Irqs \cup {0} : \E next \in {"handler", "done"} :
                /\ status = "up" /\ pc \in {"map", "done"}
                /\ MapLow(irq, machine.apicid, next)
    BY <1>2, <2>7, MapKeepsRoutes
  <2> QED  BY <1>2, <2>3, <2>4, <2>5, <2>6, <2>7, RouteSteps
<1> QED  BY <1>1, <1>2

\* A line of any I/O APIC reaches a processor only as the firmware left it, or with
\* the vector of the irq that IOAPIC::map was asked for, at the processor that
\* asked unless it is raised between the two halves of its own entry; and the one
\* line of each I/O APIC that IOAPIC::init masks only if it was asked for
\* (ioapic.cpp).
THEOREM LinesArriveAsAskedTheorem == Spec => []LinesArriveAsAsked
<1> DEFINE IInv == Control /\ FirmHolds /\ RouteHolds
<1>1. Init => IInv  BY ControlHolds, FirmHoldsHolds, RouteHoldsHolds
<1>2. IInv /\ [Next]_vars => IInv'  BY ControlHolds, FirmHoldsHolds, RouteHoldsHolds
<1>3. IInv => LinesArriveAsAsked  BY DEF RouteHolds
<1> HIDE DEF IInv
<1> QED  BY <1>1, <1>2, <1>3, PTL DEF Spec
-----------------------------------------------------------------------------
(* The timers                                                                *)

Calls == {"msleep", "oneshot", "periodic"}
Calibrated == {"map", "map_high", "handler", "done", "set_counter", "wait"}

TimersType ==
    /\ hpet \in [count : Nat, until : Nat]
    /\ counter \in [initial : 0 .. CounterMax, left : 0 .. CounterMax,
                    phase : 0 .. machine.every - 1]
    /\ lvt \in [masked : BOOLEAN, periodic : BOOLEAN]
    /\ perMs \in 0 .. CounterMax
    /\ request \in [kind : Calls \cup {"none"}, ms : Nat, since : Nat]
    /\ fired \in [kind : Calls \cup {"none", "before"}, ms : Nat, since : Nat]
    /\ lag \in 0 .. machine.lag
    /\ calls \in 0 .. machine.calls + machine.maps

\* The local counter has gone down for as long as the HPET has been waited for,
\* but for a part of a tick.
Waited ==
    \/ counter.left = 0
    \/ hpet.count + CALIBRATION_MS * Ms <=
          hpet.until + (CounterMax - counter.left) * machine.every + counter.phase

\* The same of a request: since tells at least what the counter has gone down.
Elapsed ==
    request.since + machine.every >
        (counter.initial - counter.left) * machine.every + counter.phase

\* Until the calibration is through nothing is asked of the timer.  Afterwards
\* a millisecond has ticks enough; the mode is that of the last request; and
\* unless its count did not fit the counter goes down from that count.
TimersHold ==
    /\ TimersType
    /\ pc \notin Calibrated =>
          request.kind = "none" /\ fired.kind = "none" /\ lvt.masked /\ ~lvt.periodic
    /\ pc = "calibrate" => Waited
    /\ pc \in Calibrated => perMs >= Ms \div machine.every
    /\ request.kind # "none" => /\ lvt.masked <=> request.kind = "msleep"
                                /\ lvt.periodic <=> request.kind = "periodic"
    /\ pc = "wait" => request.kind = "msleep"
    /\ pc = "set_counter" => request.kind # "none"
    /\ pc # "set_counter" /\ request.kind # "none" =>
          /\ request.kind = "msleep" => pc = "wait"
          /\ perMs * request.ms <= CounterMax =>
                /\ counter.initial = perMs * request.ms
                /\ counter.left > 0 \/ request.kind = "msleep" => Elapsed
    /\ NeverTooEarly

\* The steps of the timers, and what the others leave alone.
LEMMA TimerSteps ==
    ASSUME [Next]_vars
    PROVE  \/ InitHpet \/ StartCalibration \/ SleepOnHpet \/ Calibrate
           \/ CallHal \/ SetCounter \/ WakeUp \/ TimePasses
           \/ /\ UNCHANGED <<hpet, counter, lvt, perMs, request, lag, fired>>
              /\ calls' = calls \/ (calls < machine.maps /\ calls' = calls + 1)
              /\ At("sleep") \/ At("calibrate") \/ At("set_counter") \/ At("wait") => UNCHANGED pc
              /\ At("done") => pc' # "set_counter"
<1> USE StepsAt DEF At
<1>1. CASE \/ Simple(VerifyBoot) \/ Simple(InitUart) \/ Simple(InitMemory) \/ Simple(LoadSymbols)
           \/ Simple(CallConstructors)
  BY <1>1 DEF Simple, timerVars
<1>2. CASE OfProcessor(InitCpu) \/ OfProcessor(LoadGdt) \/ OfProcessor(LoadIdt)
  BY <1>2 DEF OfProcessor, InitCpu, LoadGdt, timerVars
<1>3. CASE OfAcpi(InitRsdt) \/ OfAcpi(InitMadt) \/ OfAcpi(ReadRecord) \/ OfAcpi(InitLapic)
  BY <1>3 DEF OfAcpi, timerVars
<1>4. CASE OfRouting(InitIoapic) \/ OfRouting(MapHigh)
  BY <1>4 DEF OfRouting, timerVars
<1>5. CASE MapTimer \/ RegisterTimer \/ Finish
  BY <1>5 DEF MapTimer, RegisterTimer, Finish, HaltAndNeverReturn, timerVars
<1>6. CASE CallMap
  <2>1. PICK irq \in Irqs : MapLow(irq, machine.apicid, "done")  BY <1>6 DEF CallMap
  <2>2. pc' # "set_counter"
    <3>1. CASE FindIoapic(irq) = 0  BY <1>6, <2>1, <3>1 DEF MapLow, Panic, CallMap
    <3>2. CASE FindIoapic(irq) # 0  BY <2>1, <3>2 DEF MapLow, Proceed
    <3> QED  BY <3>1, <3>2
  <2> QED  BY <1>6, <2>2 DEF CallMap
<1>7. CASE Simple(WriteOut) \/ Simple(PortSends) \/ Simple(EndPanic)
  BY <1>7 DEF Simple, WriteOut, PortSends, EndPanic, HaltAndNeverReturn, machineVars, timerVars
<1>8. CASE OfRouting(RaiseLine) \/ UNCHANGED vars
  BY <1>8 DEF OfRouting, RaiseLine, vars, codeVars, machineVars, timerVars
<1> QED  BY <1>1, <1>2, <1>3, <1>4, <1>5, <1>6, <1>7, <1>8 DEF Next, Code, Kmain

\* What a machine's clocks are.
LEMMA ClocksAre ==
    ASSUME Control
    PROVE  /\ machine.every \in Nat \ {0}
           /\ machine.calls \in Nat /\ machine.maps \in Nat /\ machine.lag \in Nat
           /\ {Ms, CounterMax, CALIBRATION_MS} \subseteq Nat \ {0}
           /\ CALIBRATION_MS * (Ms \div machine.every) <= CounterMax
  BY MachinesAre, TimersConstants, CounterLasts DEF Control, WellFormed

\* A count that went down for a while has ticks enough for each part of it.
LEMMA TicksEnough ==
    ASSUME NEW ms \in Nat \ {0}, NEW every \in Nat \ {0}, NEW parts \in Nat \ {0}, NEW down \in Nat,
           \/ parts * (ms \div every) <= down
           \/ \E phase \in 0 .. every - 1 : parts * ms <= down * every + phase
    PROVE  down \div parts >= ms \div every
<1> DEFINE q == ms \div every
<1>1. q \in Nat /\ q * every <= ms  BY DivMod
<1> HIDE DEF q
<1>2. parts * q <= down
  <2>1. CASE parts * q <= down  BY <2>1
  <2>2. ASSUME NEW phase \in 0 .. every - 1, parts * ms <= down * every + phase
        PROVE  parts * q <= down
    <3>1. (q * every) * parts <= ms * parts  BY <1>1, TimesMonotone
    <3>2. (parts * q) * every = (q * every) * parts /\ ms * parts = parts * ms
      BY <1>1, SMT
    <3>3. (down + 1) * every = down * every + every  BY SMT
    <3>4. parts * q \in Nat /\ (parts * q) * every \in Nat /\ down * every \in Nat
          /\ parts * ms \in Nat /\ (q * every) * parts \in Nat
      BY <1>1, SMT
    <3>5. (parts * q) * every < (down + 1) * every
      <4> DEFINE a == (parts * q) * every
                 b == down * every
                 c == parts * ms
      <4>1. a <= c /\ c <= b + phase /\ a \in Nat /\ b \in Nat /\ c \in Nat
        BY <2>2, <3>1, <3>2, <3>4
      <4>2. (down + 1) * every = b + every  BY <3>3
      <4> HIDE DEF a, b, c
      <4>3. a < b + every  BY <4>1
      <4> QED  BY <4>2, <4>3 DEF a
    <3> DEFINE x == parts * q
    <3>6. x \in Nat /\ down + 1 \in Nat /\ x * every < (down + 1) * every  BY <3>4, <3>5
    <3> HIDE DEF x
    <3>7. ~(down + 1 <= x)
      <4>1. down + 1 <= x <=> (down + 1) * every <= x * every  BY <3>6, TimesMonotone
      <4>2. x * every \in Nat /\ (down + 1) * every \in Nat  BY <3>6, SMT
      <4> QED  BY <3>6, <4>1, <4>2
    <3> QED  BY <3>6, <3>7 DEF x
  <2> QED  BY <2>1, <2>2 DEF q
<1> DEFINE d == down \div parts
           r == down % parts
<1>3. d \in Nat /\ r \in 0 .. parts - 1 /\ down = d * parts + r  BY DivMod
<1> HIDE DEF d, r
<1>4. ~(d + 1 <= q)
  <2> SUFFICES ASSUME d + 1 <= q PROVE FALSE  OBVIOUS
  <2>1. (d + 1) * parts <= q * parts  BY <1>1, <1>3, TimesMonotone
  <2>2. (d + 1) * parts = d * parts + parts /\ q * parts = parts * q  BY <1>1, <1>3, SMT
  <2>3. d * parts \in Nat /\ parts * q \in Nat  BY <1>1, <1>3, SMT
  <2> QED  BY <1>2, <1>3, <2>1, <2>2, <2>3
<1> QED  BY <1>1, <1>3, <1>4 DEF d, q

\* With ticks enough for a millisecond there are enough for many.
LEMMA LongEnough ==
    ASSUME NEW ms \in Nat, NEW every \in Nat \ {0}, NEW per \in Nat, per >= Ms \div every
    PROVE  ms * (Ms - (Ms % every)) <= (per * ms) * every
<1> DEFINE q == Ms \div every
<1>0. Ms \in Nat  BY TimersConstants
<1>1. q \in Nat /\ Ms % every \in 0 .. every - 1 /\ Ms = q * every + (Ms % every)
  BY <1>0, DivMod
<1>2. q <= per  OBVIOUS
<1> HIDE DEF q
<1>3. q * every \in Nat  BY <1>1, SMT
<1>4. Ms - (Ms % every) = q * every  BY <1>1, <1>3
<1>5. q * (ms * every) <= per * (ms * every)
  <2>1. CASE ms = 0  BY <1>1, <2>1
  <2>2. CASE ms # 0
    <3> DEFINE w == ms * every
    <3>1. w \in Nat \ {0}  BY <2>2, SMT
    <3> HIDE DEF w
    <3>2. q * w <= per * w  BY <1>1, <1>2, <3>1, TimesMonotone
    <3> QED  BY <3>2 DEF w
  <2> QED  BY <2>1, <2>2
<1>6. ms * (q * every) = q * (ms * every) /\ (per * ms) * every = per * (ms * every)
  BY <1>1, SMT
<1> QED  BY <1>4, <1>5, <1>6

\* The counter goes down by one part in machine.every of a tick.
LEMMA DownIs ==
    ASSUME Control, TimersType
    PROVE  /\ Down(counter) \in [initial : 0 .. CounterMax, left : 0 .. CounterMax,
                                 phase : 0 .. machine.every - 1]
           /\ Down(counter).initial = counter.initial
           /\ counter.left = 0 => Down(counter) = counter
           /\ Expires /\ lvt.periodic => Down(counter).left = counter.initial
                                         /\ Down(counter).phase = 0
           /\ Expires /\ ~lvt.periodic => Down(counter).left = 0
           /\ counter.left # 0 /\ ~(Expires /\ lvt.periodic) =>
                 counter.left * machine.every + Down(counter).phase
                    = Down(counter).left * machine.every + counter.phase + 1
<1> DEFINE e == machine.every
<1>1. /\ counter.left \in 0 .. CounterMax /\ counter.initial \in 0 .. CounterMax
      /\ counter.phase \in 0 .. e - 1 /\ e \in Nat \ {0} /\ CounterMax \in Nat
      /\ counter = [initial |-> counter.initial, left |-> counter.left, phase |-> counter.phase]
      /\ lvt.periodic \in BOOLEAN
  BY ClocksAre DEF TimersType
<1> HIDE DEF e
<1>2. CASE counter.left = 0
  <2>1. Down(counter) = counter  BY <1>2 DEF Down
  <2> QED  BY <1>1, <1>2, <2>1 DEF Expires, TimersType, e
<1>3. CASE counter.left # 0 /\ counter.phase + 1 < e
  <2>1. Down(counter) = [counter EXCEPT !.phase = @ + 1]  BY <1>3 DEF Down, e
  <2>2. Down(counter) = [initial |-> counter.initial, left |-> counter.left,
                         phase |-> counter.phase + 1]
    BY <1>1, <2>1
  <2>3. counter.left * e \in Nat  BY <1>1, SMT
  <2>4. ~Expires  BY <1>1, <1>3 DEF Expires, e
  <2>5. counter.phase + 1 \in 0 .. e - 1  BY <1>1, <1>3
  <2>6. counter.left * e + Down(counter).phase = Down(counter).left * e + counter.phase + 1
    BY <1>1, <2>2, <2>3
  <2> QED  BY <1>1, <1>3, <2>2, <2>4, <2>5, <2>6 DEF e
<1>4. CASE counter.left # 0 /\ ~(counter.phase + 1 < e)
  <2>1. counter.phase = e - 1 /\ counter.phase + 1 = e /\ 0 \in 0 .. e - 1  BY <1>1, <1>4
  <2>2. CASE counter.left = 1 /\ lvt.periodic
    <3>1. Down(counter) = [counter EXCEPT !.phase = 0, !.left = counter.initial]
      BY <1>4, <2>2 DEF Down, e
    <3>2. Down(counter) = [initial |-> counter.initial, left |-> counter.initial, phase |-> 0]
      BY <1>1, <3>1
    <3>3. Expires  BY <2>1, <2>2 DEF Expires, e
    <3> QED  BY <1>1, <1>4, <2>1, <2>2, <3>2, <3>3 DEF e
  <2>3. CASE ~(counter.left = 1 /\ lvt.periodic)
    <3>1. Down(counter) = [counter EXCEPT !.phase = 0, !.left = counter.left - 1]
      BY <1>4, <2>3 DEF Down, e
    <3>2. Down(counter) = [initial |-> counter.initial, left |-> counter.left - 1, phase |-> 0]
      BY <1>1, <3>1
    <3>3. counter.left - 1 \in 0 .. CounterMax  BY <1>1, <1>4
    <3>4. (counter.left - 1) * e = counter.left * e - e /\ counter.left * e \in Nat
      BY <1>1, SMT
    <3>5. counter.left * e + 0 = (counter.left - 1) * e + counter.phase + 1
      BY <1>1, <2>1, <3>4
    <3>6. Expires => counter.left = 1  BY DEF Expires
    <3> QED  BY <1>1, <1>4, <2>1, <2>3, <3>2, <3>3, <3>5, <3>6 DEF e
  <2> QED  BY <2>2, <2>3
<1> QED  BY <1>2, <1>3, <1>4

\* While the HPET is waited for, the local counter follows it.
LEMMA WaitedGoesOn ==
    ASSUME Control, TimersType, Waited, ~lvt.periodic, NEW next, next = Down(counter)
    PROVE  \/ next.left = 0
           \/ hpet.count + 1 + CALIBRATION_MS * Ms <=
                 hpet.until + (CounterMax - next.left) * machine.every + next.phase
<1> DEFINE e == machine.every
           all == CounterMax * e
           was == counter.left * e
           will == next.left * e
           ms == CALIBRATION_MS * Ms
<1>1. /\ counter.left \in 0 .. CounterMax /\ counter.phase \in Nat /\ e \in Nat \ {0}
      /\ hpet.count \in Nat /\ hpet.until \in Nat /\ CounterMax \in Nat
      /\ CALIBRATION_MS \in Nat /\ Ms \in Nat
  BY ClocksAre DEF TimersType
<1>2. /\ next.left \in 0 .. CounterMax /\ next.phase \in Nat
      /\ counter.left = 0 => next = counter
      /\ counter.left # 0 => was + next.phase = will + counter.phase + 1
  BY DownIs, ClocksAre
<1> HIDE DEF e
<1>3. all \in Nat /\ was \in Nat /\ will \in Nat /\ ms \in Nat  BY <1>1, <1>2, SMT
<1>4. (CounterMax - counter.left) * e = all - was /\ (CounterMax - next.left) * e = all - will
  BY <1>1, <1>2, SMT
<1>5. counter.left = 0 \/ hpet.count + ms <= hpet.until + (all - was) + counter.phase
  BY <1>4 DEF Waited, e
<1>6. CASE counter.left = 0  BY <1>2, <1>6
<1>7. CASE counter.left # 0
  <2>1. was + next.phase = will + counter.phase + 1  BY <1>2, <1>7
  <2>2. hpet.count + ms <= hpet.until + (all - was) + counter.phase  BY <1>5, <1>7
  <2> HIDE DEF all, was, will, ms
  <2>3. hpet.count + 1 + ms <= hpet.until + (all - will) + next.phase
    BY <1>1, <1>2, <1>3, <2>1, <2>2
  <2> QED  BY <1>4, <2>3 DEF e, ms
<1> QED  BY <1>6, <1>7

\* And a request that has not ticked has waited as long as the counter says.
LEMMA ElapsedGoesOn ==
    ASSUME Control, TimersType, Elapsed, ~(Expires /\ lvt.periodic),
           NEW next, next = Down(counter), NEW since,
           since = IF request.since < Longest THEN request.since + 1 ELSE Longest
    PROVE  since + machine.every >
              (next.initial - next.left) * machine.every + next.phase
<1> DEFINE e == machine.every
           all == counter.initial * e
           top == CounterMax * e
           was == counter.left * e
           will == next.left * e
<1>1. /\ counter.left \in 0 .. CounterMax /\ counter.initial \in 0 .. CounterMax
      /\ counter.phase \in 0 .. e - 1 /\ e \in Nat \ {0}
      /\ request.since \in Nat /\ CounterMax \in Nat
  BY ClocksAre DEF TimersType
<1>2. /\ next.left \in 0 .. CounterMax /\ next.phase \in 0 .. e - 1
      /\ next.initial = counter.initial
      /\ counter.left = 0 => next = counter
      /\ counter.left # 0 => was + next.phase = will + counter.phase + 1
  BY DownIs, ClocksAre
<1> HIDE DEF e
<1>3. /\ all \in Nat /\ was \in Nat /\ will \in Nat /\ top \in Nat /\ Longest = top + 1
      /\ all <= top
  <2>1. all \in Nat /\ was \in Nat /\ will \in Nat /\ top \in Nat  BY <1>1, <1>2, SMT
  <2>2. Longest = top + 1  BY DEF Longest, e
  <2>3. all <= top  BY <1>1, TimesMonotone
  <2> QED  BY <2>1, <2>2, <2>3
<1>4. /\ (counter.initial - counter.left) * e = all - was
      /\ (counter.initial - next.left) * e = all - will
  BY <1>1, <1>2, SMT
<1>5. request.since + e > (all - was) + counter.phase
  BY <1>4 DEF Elapsed, e
<1> HIDE DEF all, was, will, top
<1>6. counter.left = 0 => will = was  BY <1>2 DEF will, was
<1>7. since + e > (all - will) + next.phase
  <2>1. CASE request.since < Longest
    <3>1. since = request.since + 1  BY <2>1
    <3> QED  BY <1>1, <1>2, <1>3, <1>5, <1>6, <3>1
  <2>2. CASE ~(request.since < Longest)
    <3>1. since = top + 1  BY <1>3, <2>2
    <3> QED  BY <1>1, <1>2, <1>3, <3>1
  <2> QED  BY <2>1, <2>2
<1> QED  BY <1>2, <1>4, <1>7 DEF e

\* A request whose counter has run down has not been too short.
LEMMA RunDownIsLong ==
    ASSUME Control, NEW per \in Nat, per >= Ms \div machine.every, NEW ms \in Nat,
           NEW since \in Nat, since + machine.every > (per * ms) * machine.every
    PROVE  since > ms * (Ms - (Ms % machine.every)) - machine.every
<1> DEFINE e == machine.every
           wanted == ms * (Ms - (Ms % e))
           given == (per * ms) * e
<1>1. e \in Nat \ {0} /\ Ms \in Nat  BY ClocksAre
<1>2. wanted <= given /\ since + e > given
  <2>1. per >= Ms \div e /\ since + e > given  OBVIOUS
  <2> HIDE DEF e
  <2> QED  BY <1>1, <2>1, LongEnough
<1> HIDE DEF e
<1>3. given \in Nat  BY <1>1, SMT
<1>4. wanted \in Int
  <2>1. Ms % e \in Int  BY <1>1, DivMod
  <2>2. Ms - (Ms % e) \in Int  BY <1>1, <2>1
  <2> DEFINE x == Ms - (Ms % e)
  <2> HIDE DEF x
  <2>3. ms * x \in Int  BY <2>2, SMT DEF x
  <2> QED  BY <2>3 DEF x
<1> HIDE DEF wanted, given
<1>5. since > wanted - e  BY <1>1, <1>2, <1>3, <1>4
<1> QED  BY <1>5 DEF wanted, e

\* The steps of the calibration.
LEMMA CalibrationHolds ==
    ASSUME Control, TimersHold, machine' = machine, UNCHANGED calls,
           InitHpet \/ StartCalibration \/ SleepOnHpet \/ Calibrate
    PROVE  TimersHold'
<1>1. /\ pc \in {"hpet", "start", "sleep", "calibrate"}
      /\ UNCHANGED <<request, fired>>
      /\ machine.every' = machine.every /\ machine.lag' = machine.lag
      /\ machine.calls' = machine.calls /\ machine.maps' = machine.maps
  BY DEF InitHpet, StartCalibration, SleepOnHpet, Calibrate, At
<1>2. pc \notin Calibrated  BY <1>1 DEF Calibrated
<1>3. /\ TimersType /\ request.kind = "none" /\ fired.kind = "none"
      /\ lvt.masked /\ ~lvt.periodic
  BY <1>2 DEF TimersHold
<1>4. NeverTooEarly'  BY <1>1, <1>3 DEF NeverTooEarly
<1>5. /\ machine.every \in Nat \ {0} /\ Ms \in Nat \ {0} /\ CounterMax \in Nat \ {0}
      /\ CALIBRATION_MS \in Nat \ {0} /\ CALIBRATION_MS * Ms \in Nat /\ machine.lag \in Nat
      /\ CALIBRATION_MS * (Ms \div machine.every) <= CounterMax
  <2>1. CALIBRATION_MS \in Nat /\ Ms \in Nat  BY ClocksAre
  <2>2. CALIBRATION_MS * Ms \in Nat  BY <2>1, SMT
  <2> QED  BY <2>2, ClocksAre
<1>6. /\ hpet \in [count : Nat, until : Nat] /\ lag \in 0 .. machine.lag
      /\ counter \in [initial : 0 .. CounterMax, left : 0 .. CounterMax,
                      phase : 0 .. machine.every - 1]
  BY <1>3 DEF TimersType
<1>7. CASE InitHpet
  <2>1. /\ hpet' \in [count : Nat, until : Nat] /\ pc' \in {"hpet", "start"}
        /\ UNCHANGED <<counter, lvt, perMs, lag>>
    <3>1. CASE FindTable("HPET") = 0
      BY <1>6, <1>7, <3>1 DEF InitHpet, At, Panic
    <3>2. CASE FindTable("HPET") # 0
      <4>0. UNCHANGED <<counter, lvt, perMs, lag>> /\ pc = "hpet"  BY <1>7 DEF InitHpet, At
      <4>1. CASE UNCHANGED hpet /\ (Fault("page fault") \/ Fault("divide error"))
        <5>1. pc' = pc  BY <4>1 DEF Fault, Panic
        <5> QED  BY <1>6, <4>0, <4>1, <5>1
      <4>2. CASE hpet' = [hpet EXCEPT !.count = 0] /\ ProceedSaying("start", "hpet")
        <5>1. pc' = "start"  BY <4>2 DEF ProceedSaying
        <5> QED  BY <1>6, <4>0, <4>2, <5>1
      <4> QED  BY <1>7, <3>2, <4>1, <4>2 DEF InitHpet
    <3> QED  BY <3>1, <3>2
  <2>2. TimersType'  BY <1>1, <1>3, <2>1 DEF TimersType
  <2> QED  BY <1>1, <1>3, <1>4, <2>1, <2>2 DEF TimersHold, Calibrated
<1>8. CASE StartCalibration
  <2>1. /\ counter' = [counter EXCEPT !.initial = CounterMax, !.left = CounterMax]
        /\ lag' = 0 /\ pc' = "sleep" /\ UNCHANGED <<hpet, lvt, perMs>>
    BY <1>8 DEF StartCalibration, Proceed
  <2>2. counter' \in [initial : 0 .. CounterMax, left : 0 .. CounterMax,
                      phase : 0 .. machine.every - 1]
    <3>1. CounterMax \in 0 .. CounterMax  BY <1>5
    <3> DEFINE top == CounterMax
    <3>2. counter' = [initial |-> top, left |-> top, phase |-> counter.phase]
      BY <1>6, <2>1
    <3>3. counter.phase \in 0 .. machine.every - 1  BY <1>6
    <3> QED  BY <3>1, <3>2, <3>3
  <2>3. TimersType'  BY <1>1, <1>3, <1>5, <2>1, <2>2 DEF TimersType
  <2> QED  BY <1>1, <1>3, <1>4, <2>1, <2>3 DEF TimersHold, Calibrated
<1>9. CASE SleepOnHpet
  <2>1. /\ hpet' = [hpet EXCEPT !.until = hpet.count + CALIBRATION_MS * Ms]
        /\ lag' = 0 /\ pc' = "calibrate" /\ UNCHANGED <<counter, lvt, perMs>>
    BY <1>9 DEF SleepOnHpet, Proceed, EndFromNow
  <2> DEFINE wait == CALIBRATION_MS * Ms
             gone == (CounterMax - counter.left) * machine.every
  <2>2. wait \in Nat /\ gone \in Nat
    <3>1. CounterMax - counter.left \in Nat /\ machine.every \in Nat  BY <1>5, <1>6
    <3> DEFINE n == CounterMax - counter.left
               e == machine.every
    <3> HIDE DEF n, e
    <3>2. n * e \in Nat  BY <3>1, SMT DEF n, e
    <3> QED  BY <1>5, <3>2 DEF n, e
  <2>3. hpet' \in [count : Nat, until : Nat] /\ hpet'.count = hpet.count
        /\ hpet'.until = hpet.count + wait
    <3> HIDE DEF wait
    <3> QED  BY <1>6, <2>1, <2>2 DEF wait
  <2>4. TimersType'  BY <1>1, <1>3, <1>5, <2>1, <2>3 DEF TimersType
  <2>5. Waited'
    <3>1. hpet.count + wait <= (hpet.count + wait) + gone + counter.phase
      <4> HIDE DEF wait, gone
      <4> QED  BY <1>6, <2>2
    <3> QED  BY <1>1, <2>1, <2>3, <3>1 DEF Waited
  <2> QED  BY <1>1, <1>3, <1>4, <2>1, <2>4, <2>5 DEF TimersHold, Calibrated
<1>10. CASE Calibrate
  <2> DEFINE on == TRUE
             off == FALSE
             down == CounterMax - counter.left
  <2>0. on \in BOOLEAN /\ off \in BOOLEAN  OBVIOUS
  <2>1. /\ pc = "calibrate" /\ hpet.count >= hpet.until
        /\ lvt' = [masked |-> on, periodic |-> off]
        /\ perMs' = down \div CALIBRATION_MS
        /\ lag' = 0 /\ hpet' = [count |-> 0, until |-> 0] /\ pc' = "map"
        /\ UNCHANGED counter
    BY <1>10 DEF Calibrate, At, ProceedSaying
  <2> HIDE DEF on, off
  <2>2. down \in 0 .. CounterMax /\ down \in Nat  BY <1>5, <1>6
  <2>3. perMs' \in 0 .. CounterMax
    <3> HIDE DEF down
    <3>0. down \div CALIBRATION_MS \in Nat /\ down % CALIBRATION_MS \in Nat
          /\ down = (down \div CALIBRATION_MS) * CALIBRATION_MS + (down % CALIBRATION_MS)
      <4>1. CALIBRATION_MS \in Nat \ {0}  BY <1>5
      <4>2. down % CALIBRATION_MS \in 0 .. CALIBRATION_MS - 1  BY <2>2, <4>1, DivMod
      <4>3. down \div CALIBRATION_MS \in Nat
            /\ down = (down \div CALIBRATION_MS) * CALIBRATION_MS + (down % CALIBRATION_MS)
        BY <2>2, <4>1, DivMod
      <4> QED  BY <4>1, <4>2, <4>3
    <3> DEFINE d == down \div CALIBRATION_MS
               r == down % CALIBRATION_MS
    <3>1. d \in Nat /\ r \in Nat /\ down = d * CALIBRATION_MS + r  BY <3>0
    <3> HIDE DEF d, r
    <3>2. d <= d * CALIBRATION_MS /\ d * CALIBRATION_MS \in Nat  BY <1>5, <3>1, SMT
    <3>3. d <= down  BY <2>2, <3>1, <3>2
    <3> QED  BY <1>5, <2>1, <2>2, <3>1, <3>3 DEF d
  <2>4. perMs' >= Ms \div machine.every
    <3>1. Waited  BY <2>1 DEF TimersHold
    <3>2. CASE counter.left = 0
      <4>1. down = CounterMax  BY <1>5, <3>2
      <4>2. CALIBRATION_MS * (Ms \div machine.every) <= down  BY <1>5, <4>1
      <4> HIDE DEF down
      <4> QED  BY <1>5, <2>1, <2>2, <4>2, TicksEnough
    <3>3. CASE hpet.count + CALIBRATION_MS * Ms <=
                 hpet.until + down * machine.every + counter.phase
      <4>1. CALIBRATION_MS * Ms <= down * machine.every + counter.phase
        <5> DEFINE a == CALIBRATION_MS * Ms
                   b == down * machine.every
        <5>1. b \in Nat
          <6> DEFINE e == machine.every
          <6>1. e \in Nat  BY <1>5
          <6> HIDE DEF down, e
          <6>2. down * e \in Nat  BY <2>2, <6>1, SMT
          <6> QED  BY <6>2 DEF e
        <5>2. a \in Nat  BY <1>5
        <5>3. hpet.count + a <= hpet.until + b + counter.phase  BY <3>3
        <5> HIDE DEF a, b
        <5>4. a <= b + counter.phase  BY <1>6, <2>1, <5>1, <5>2, <5>3
        <5> QED  BY <5>4 DEF a, b
      <4> DEFINE e == machine.every
      <4>2. e \in Nat \ {0} /\ counter.phase \in 0 .. e - 1  BY <1>5, <1>6
      <4>3. CALIBRATION_MS * Ms <= down * e + counter.phase  BY <4>1
      <4> HIDE DEF down, e
      <4>4. down \div CALIBRATION_MS >= Ms \div e  BY <1>5, <2>2, <4>2, <4>3, TicksEnough
      <4> QED  BY <2>1, <4>4 DEF e
    <3> QED  BY <3>1, <3>2, <3>3 DEF Waited
  <2> HIDE DEF down
  <2>5. lvt' \in [masked : BOOLEAN, periodic : BOOLEAN]  BY <2>0, <2>1
  <2>6. TimersType'  BY <1>1, <1>3, <1>5, <2>1, <2>3, <2>5 DEF TimersType
  <2> QED  BY <1>1, <1>3, <1>4, <2>1, <2>4, <2>6 DEF TimersHold, Calibrated
<1> QED  BY <1>7, <1>8, <1>9, <1>10

\* Asking for a sleep or a tick, and the end of a sleep.
LEMMA RequestsHold ==
    ASSUME Control, TimersHold, machine' = machine,
           CallHal \/ SetCounter \/ WakeUp
    PROVE  TimersHold'
<1>1. /\ pc \in {"done", "set_counter", "wait"} /\ UNCHANGED <<hpet, perMs, lag>>
      /\ pc \in Calibrated
  BY DEF CallHal, SetCounter, WakeUp, At, Calibrated
<1>2. /\ machine.every \in Nat \ {0} /\ CounterMax \in Nat \ {0}
      /\ machine.calls \in Nat /\ machine.maps \in Nat
  BY ClocksAre
<1>3. TimersType /\ perMs >= Ms \div machine.every /\ perMs \in Nat
      /\ request.kind \in Calls \cup {"none"} /\ request.ms \in Nat /\ request.since \in Nat
  BY <1>1, <1>2 DEF TimersHold, TimersType
<1>4. CASE CallHal
  <2>1. PICK kind \in Calls, ms \in Durations :
           /\ request' = [kind |-> kind, ms |-> ms, since |-> 0]
           /\ lvt' = Mode(kind)
    BY <1>4 DEF CallHal, Calls
  <2>2. /\ calls < machine.calls /\ calls' = calls + 1
        /\ fired' = [kind |-> "none", ms |-> 0, since |-> 0]
        /\ pc' = "set_counter" /\ UNCHANGED counter
    BY <1>4 DEF CallHal, Proceed
  <2>3. PICK masked \in BOOLEAN, periodic \in BOOLEAN :
           /\ masked <=> kind = "msleep"
           /\ periodic <=> kind = "periodic"
    OBVIOUS
  <2>4. lvt' = [masked |-> masked, periodic |-> periodic]
    <3>1. (kind = "msleep") = masked /\ (kind = "periodic") = periodic  BY <2>3
    <3>2. lvt' = [masked |-> kind = "msleep", periodic |-> kind = "periodic"]
      BY <2>1 DEF Mode
    <3> QED  BY <3>1, <3>2, Zenon
  <2>5. /\ lvt' \in [masked : BOOLEAN, periodic : BOOLEAN]
        /\ lvt'.masked = masked /\ lvt'.periodic = periodic
    BY <2>4
  <2>6. request' \in [kind : Calls \cup {"none"}, ms : Nat, since : Nat]
        /\ fired' \in [kind : Calls \cup {"none", "before"}, ms : Nat, since : Nat]
        /\ request'.kind = kind /\ request'.kind # "none" /\ fired'.kind = "none"
    BY <2>1, <2>2, TimersConstants DEF Calls
  <2>7. calls' \in 0 .. machine.calls + machine.maps
    BY <1>2, <1>3, <2>2 DEF TimersType
  <2>8. TimersType'
    BY <1>1, <1>3, <2>2, <2>5, <2>6, <2>7 DEF TimersType
  <2>9. NeverTooEarly'  BY <2>6 DEF NeverTooEarly
  <2> QED  BY <1>1, <1>3, <2>2, <2>3, <2>5, <2>6, <2>8, <2>9 DEF TimersHold, Calibrated
<1>5. CASE SetCounter
  <2> DEFINE product == perMs * request.ms
             ticks == product % (CounterMax + 1)
  <2>1. /\ pc = "set_counter" /\ counter' = [counter EXCEPT !.initial = ticks, !.left = ticks]
        /\ request' = [request EXCEPT !.since = 0]
        /\ pc' = (IF request.kind = "msleep" THEN "wait" ELSE "done")
        /\ UNCHANGED <<lvt, fired, calls>>
    BY <1>5 DEF SetCounter, At, Proceed, Truncated
  <2>2. product \in Nat  BY <1>3, SMT
  <2>3. ticks \in 0 .. CounterMax /\ (product <= CounterMax => ticks = product)
    <3> HIDE DEF product
    <3>1. ticks \in 0 .. (CounterMax + 1) - 1  BY <1>2, <2>2, DivMod
    <3>2. product <= CounterMax => ticks = product  BY <1>2, <2>2, SMT
    <3> QED  BY <1>2, <3>1, <3>2
  <2> HIDE DEF ticks
  <2>4. /\ counter.phase \in 0 .. machine.every - 1
        /\ counter' = [initial |-> ticks, left |-> ticks, phase |-> counter.phase]
    BY <1>3, <2>1 DEF TimersType
  <2>5. request' = [kind |-> request.kind, ms |-> request.ms, since |-> 0]
    BY <1>3, <2>1 DEF TimersType
  <2>6. request.kind # "none"  BY <2>1 DEF TimersHold
  <2>7. TimersType'
    <3>1. counter' \in [initial : 0 .. CounterMax, left : 0 .. CounterMax,
                        phase : 0 .. machine.every - 1]
      BY <2>3, <2>4
    <3>2. request' \in [kind : Calls \cup {"none"}, ms : Nat, since : Nat]
      BY <1>3, <2>5
    <3> QED  BY <1>1, <1>3, <2>1, <3>1, <3>2 DEF TimersType
  <2>8. Elapsed'
    <3>1. counter'.initial - counter'.left = 0  BY <2>3, <2>4
    <3>2. 0 * machine.every = 0  BY <1>2
    <3>3. request'.since = 0 /\ counter'.phase = counter.phase  BY <2>4, <2>5
    <3>4. 0 + machine.every > 0 + counter.phase  BY <1>2, <2>4
    <3> QED  BY <3>1, <3>2, <3>3, <3>4 DEF Elapsed
  <2>9. NeverTooEarly'
    <3>1. NeverTooEarly  BY DEF TimersHold
    <3> QED  BY <1>1, <2>1, <3>1 DEF NeverTooEarly
  <2>10. perMs' * request'.ms <= CounterMax => counter'.initial = perMs' * request'.ms
    BY <1>1, <2>3, <2>4, <2>5
  <2>11. /\ lvt'.masked <=> request'.kind = "msleep"
         /\ lvt'.periodic <=> request'.kind = "periodic"
    BY <2>1, <2>5, <2>6 DEF TimersHold
  <2>12. request'.kind = request.kind /\ pc' \in {"wait", "done"}
         /\ (pc' = "wait" <=> request.kind = "msleep")
    BY <2>1, <2>5
  <2> HIDE DEF product
  <2> QED  BY <1>1, <1>3, <2>6, <2>7, <2>8, <2>9, <2>10, <2>11, <2>12 DEF TimersHold, Calibrated
<1>6. CASE WakeUp
  <2>1. /\ pc = "wait" /\ counter.left = 0 /\ pc' = "done" /\ fired' = request
        /\ request' = [request EXCEPT !.kind = "none"]
        /\ UNCHANGED <<counter, lvt, calls>>
    BY <1>6 DEF WakeUp, At, Proceed
  <2>2. request.kind = "msleep"  BY <2>1 DEF TimersHold
  <2>3. request' = [kind |-> "none", ms |-> request.ms, since |-> request.since]
    BY <1>3, <2>1 DEF TimersType
  <2>4. TimersType'
    <3>1. request' \in [kind : Calls \cup {"none"}, ms : Nat, since : Nat]
      BY <1>3, <2>3
    <3>2. fired' \in [kind : Calls \cup {"none", "before"}, ms : Nat, since : Nat]
      BY <1>3, <2>1 DEF TimersType
    <3> QED  BY <1>1, <1>3, <2>1, <3>1, <3>2 DEF TimersType
  <2>5. ASSUME perMs * request.ms <= CounterMax
        PROVE  request.since > request.ms * (Ms - (Ms % machine.every)) - machine.every
    <3>1. counter.initial = perMs * request.ms /\ Elapsed
      BY <2>1, <2>2, <2>5 DEF TimersHold
    <3> DEFINE given == (perMs * request.ms) * machine.every
    <3>2. counter.initial - counter.left = perMs * request.ms
      BY <1>3, <2>1, <3>1 DEF TimersType
    <3>3. request.since + machine.every > given + counter.phase /\ given \in Nat
      <4> DEFINE product == perMs * request.ms
                 e == machine.every
      <4>1. product \in Nat /\ e \in Nat  BY <1>2, <1>3, SMT
      <4> HIDE DEF product, e
      <4>2. product * e \in Nat  BY <4>1, SMT
      <4>3. request.since + e > product * e + counter.phase  BY <3>1, <3>2 DEF Elapsed, product, e
      <4> QED  BY <4>2, <4>3 DEF product, e
    <3>4. counter.phase \in Nat  BY <1>3 DEF TimersType
    <3> HIDE DEF given
    <3>5. request.since + machine.every > given  BY <1>2, <1>3, <3>3, <3>4
    <3> QED  BY <1>3, <3>5, RunDownIsLong DEF given
  <2>6. NeverTooEarly'  BY <1>1, <2>1, <2>5 DEF NeverTooEarly
  <2>7. request'.kind = "none"  BY <2>3
  <2> QED  BY <1>1, <1>3, <2>1, <2>4, <2>6, <2>7 DEF TimersHold, Calibrated
<1> QED  BY <1>4, <1>5, <1>6

\* A tick comes when the whole count has gone down.
LEMMA ExpiryIsLong ==
    ASSUME Control, TimersType, Elapsed, Expires, NEW since,
           since = IF request.since < Longest THEN request.since + 1 ELSE Longest
    PROVE  since + machine.every > counter.initial * machine.every
<1> DEFINE e == machine.every
           all == counter.initial * e
           top == CounterMax * e
<1>1. /\ counter.initial \in 0 .. CounterMax /\ e \in Nat \ {0}
      /\ request.since \in Nat /\ CounterMax \in Nat
  BY ClocksAre DEF TimersType
<1>2. counter.left = 1 /\ counter.phase = e - 1  BY <1>1, ClocksAre DEF Expires, TimersType
<1> HIDE DEF e
<1>3. all \in Nat /\ top \in Nat /\ Longest = top + 1 /\ all <= top
  <2>1. all \in Nat /\ top \in Nat  BY <1>1, SMT
  <2>2. Longest = top + 1  BY DEF Longest, e
  <2>3. all <= top  BY <1>1, TimesMonotone
  <2> QED  BY <2>1, <2>2, <2>3
<1>4. (counter.initial - 1) * e = all - e  BY <1>1, SMT
<1>5. request.since + e > (all - e) + (e - 1)  BY <1>2, <1>4 DEF Elapsed, e
<1> HIDE DEF all, top
<1>6. since + e > all
  <2>1. CASE request.since < Longest
    <3>1. since = request.since + 1  BY <2>1
    <3> QED  BY <1>1, <1>3, <1>5, <3>1
  <2>2. CASE ~(request.since < Longest)
    <3>1. since = top + 1  BY <1>3, <2>2
    <3> QED  BY <1>1, <1>3, <3>1
  <2> QED  BY <2>1, <2>2
<1> QED  BY <1>6 DEF all, e

\* Time passes.
LEMMA TimeHolds ==
    ASSUME Control, TimersHold, machine' = machine, TimePasses
    PROVE  TimersHold'
<1> DEFINE since == IF request.since < Longest THEN request.since + 1 ELSE Longest
           ticks == Expires /\ ~lvt.masked
<1>1. /\ TimeMatters /\ pc' = pc /\ UNCHANGED <<lvt, perMs, calls>>
      /\ Calibrating => lag < machine.lag \/ ~CodeCanGoOn
      /\ lag' = (IF Calibrating /\ CodeCanGoOn THEN lag + 1 ELSE lag)
      /\ hpet' = (IF Calibrating THEN [hpet EXCEPT !.count = @ + 1] ELSE hpet)
      /\ counter' = Down(counter)
      /\ fired' = (IF ~ticks THEN fired
                   ELSE IF pc = "set_counter" THEN [request EXCEPT !.kind = "before"]
                   ELSE [request EXCEPT !.since = since])
      /\ request' = (IF request.kind = "none" THEN request
                     ELSE [request EXCEPT !.since = IF ticks THEN 0 ELSE since])
  BY DEF TimePasses, codeVars, machineVars
<1>2. /\ machine.every \in Nat \ {0} /\ CounterMax \in Nat \ {0} /\ machine.lag \in Nat
      /\ Ms \in Nat /\ CALIBRATION_MS \in Nat
  BY ClocksAre
<1>3. /\ TimersType /\ request.kind \in Calls \cup {"none"} /\ request.ms \in Nat
      /\ request.since \in Nat /\ perMs \in Nat /\ NeverTooEarly
      /\ request = [kind |-> request.kind, ms |-> request.ms, since |-> request.since]
      /\ lag \in 0 .. machine.lag
  BY <1>2 DEF TimersHold, TimersType
<1>4. since \in Nat
  <2>1. Longest \in Nat
    <3> DEFINE e == machine.every
    <3>1. e \in Nat  BY <1>2
    <3> HIDE DEF e
    <3>2. CounterMax * e \in Nat  BY <1>2, <3>1, SMT
    <3> QED  BY <3>2 DEF Longest, e
  <2> QED  BY <1>3, <2>1
<1> HIDE DEF since, ticks
<1>5. hpet' \in [count : Nat, until : Nat] /\ lag' \in 0 .. machine.lag
  <2>1. hpet \in [count : Nat, until : Nat]  BY <1>3 DEF TimersType
  <2>2. CASE Calibrating
    <3>1. hpet' = [hpet EXCEPT !.count = @ + 1]  BY <1>1, <2>2
    <3>2. hpet' \in [count : Nat, until : Nat]  BY <2>1, <3>1
    <3>3. lag' \in 0 .. machine.lag
      <4>1. CASE CodeCanGoOn  BY <1>1, <1>2, <1>3, <2>2, <4>1
      <4>2. CASE ~CodeCanGoOn  BY <1>1, <1>3, <4>2
      <4> QED  BY <4>1, <4>2
    <3> QED  BY <3>2, <3>3
  <2>3. CASE ~Calibrating
    <3>1. hpet' = hpet /\ lag' = lag  BY <1>1, <2>3
    <3> QED  BY <1>3, <2>1, <3>1
  <2> QED  BY <2>2, <2>3
<1>6. counter' \in [initial : 0 .. CounterMax, left : 0 .. CounterMax,
                    phase : 0 .. machine.every - 1]
  BY <1>1, <1>3, DownIs
<1>7. /\ request' \in [kind : Calls \cup {"none"}, ms : Nat, since : Nat]
      /\ request'.kind = request.kind /\ request'.ms = request.ms
      /\ ~ticks /\ request.kind # "none" => request'.since = since
      /\ ticks /\ request.kind # "none" => request'.since = 0
  <2>1. CASE request.kind = "none"
    <3>1. request' = request  BY <1>1, <2>1
    <3> QED  BY <1>3, <2>1, <3>1 DEF TimersType
  <2>2. CASE request.kind # "none" /\ ticks
    <3>1. request' = [kind |-> request.kind, ms |-> request.ms, since |-> 0]
      BY <1>1, <1>3, <2>2
    <3> QED  BY <1>3, <2>2, <3>1
  <2>3. CASE request.kind # "none" /\ ~ticks
    <3>1. request' = [kind |-> request.kind, ms |-> request.ms, since |-> since]
      BY <1>1, <1>3, <2>3
    <3> QED  BY <1>3, <1>4, <2>3, <3>1
  <2> QED  BY <2>1, <2>2, <2>3
<1>8. /\ fired' \in [kind : Calls \cup {"none", "before"}, ms : Nat, since : Nat]
      /\ ~ticks => fired' = fired
      /\ ticks /\ pc = "set_counter" => fired'.kind = "before"
      /\ ticks /\ pc # "set_counter" =>
            fired'.kind = request.kind /\ fired'.ms = request.ms /\ fired'.since = since
  <2>1. CASE ~ticks  BY <1>1, <1>3, <2>1 DEF TimersType
  <2>2. CASE ticks /\ pc = "set_counter"
    <3>1. fired' = [kind |-> "before", ms |-> request.ms, since |-> request.since]
      BY <1>1, <1>3, <2>2
    <3> QED  BY <1>3, <2>2, <3>1
  <2>3. CASE ticks /\ pc # "set_counter"
    <3>1. fired' = [kind |-> request.kind, ms |-> request.ms, since |-> since]
      BY <1>1, <1>3, <2>3
    <3> QED  BY <1>3, <1>4, <2>3, <3>1
  <2> QED  BY <2>1, <2>2, <2>3
<1>9. TimersType'
  <2>1. lvt' \in [masked : BOOLEAN, periodic : BOOLEAN] /\ perMs' \in 0 .. CounterMax
        /\ calls' \in 0 .. machine.calls + machine.maps
    BY <1>1, <1>3 DEF TimersType
  <2> QED  BY <1>5, <1>6, <1>7, <1>8, <2>1 DEF TimersType
<1>10. CASE pc \notin Calibrated
  <2>1. request.kind = "none" /\ fired.kind = "none" /\ lvt.masked /\ ~lvt.periodic
    BY <1>10 DEF TimersHold
  <2>2. request'.kind = "none" /\ fired'.kind = "none"
    BY <1>7, <1>8, <2>1 DEF ticks
  <2>3. pc = "calibrate" => Waited'
    <3> SUFFICES ASSUME pc = "calibrate" PROVE Waited'  OBVIOUS
    <3>1. Waited  BY DEF TimersHold
    <3>2. hpet' = [hpet EXCEPT !.count = @ + 1]  BY <1>1 DEF Calibrating
    <3>3. hpet'.count = hpet.count + 1 /\ hpet'.until = hpet.until
      BY <1>3, <3>2 DEF TimersType
    <3>4. PICK next : next = Down(counter)  OBVIOUS
    <3>5. \/ next.left = 0
          \/ hpet.count + 1 + CALIBRATION_MS * Ms <=
                hpet.until + (CounterMax - next.left) * machine.every + next.phase
      BY <1>3, <2>1, <3>1, <3>4, WaitedGoesOn
    <3>6. counter' = next  BY <1>1, <3>4
    <3> QED  BY <3>3, <3>5, <3>6 DEF Waited
  <2>4. NeverTooEarly'  BY <2>2 DEF NeverTooEarly
  <2>5. pc # "wait" /\ pc # "set_counter"  BY <1>10 DEF Calibrated
  <2> QED  BY <1>1, <1>9, <1>10, <2>1, <2>2, <2>3, <2>4, <2>5 DEF TimersHold
<1>11. CASE pc \in Calibrated
  <2>0. perMs >= Ms \div machine.every /\ pc # "calibrate"
    BY <1>11 DEF TimersHold, Calibrated
  <2>1. ASSUME pc # "set_counter", request.kind # "none", perMs * request.ms <= CounterMax
        PROVE  /\ counter.initial = perMs * request.ms
               /\ counter.left > 0 \/ request.kind = "msleep" => Elapsed
               /\ lvt.masked <=> request.kind = "msleep"
               /\ lvt.periodic <=> request.kind = "periodic"
    BY <2>1 DEF TimersHold
  <2>2. NeverTooEarly'
    <3>1. CASE ~ticks
      <4>1. fired' = fired  BY <1>8, <3>1
      <4> QED  BY <1>1, <1>3, <4>1 DEF NeverTooEarly
    <3>2. CASE ticks /\ pc = "set_counter"
      BY <1>8, <3>2 DEF NeverTooEarly
    <3>3. CASE ticks /\ pc # "set_counter"
      <4> SUFFICES ASSUME fired'.kind \in {"msleep", "oneshot", "periodic"},
                          perMs' * fired'.ms <= CounterMax
                   PROVE  fired'.since >
                            fired'.ms * (Ms - (Ms % machine.every)) - machine.every
        BY DEF NeverTooEarly
      <4>1. /\ fired'.kind = request.kind /\ fired'.ms = request.ms /\ fired'.since = since
            /\ request.kind # "none" /\ perMs * request.ms <= CounterMax
        BY <1>1, <1>8, <3>3
      <4>2. Expires /\ counter.left = 1  BY <3>3 DEF ticks, Expires
      <4>3. Elapsed /\ counter.initial = perMs * request.ms  BY <2>1, <3>3, <4>1, <4>2
      <4>4. since + machine.every > counter.initial * machine.every
        BY <1>3, <4>2, <4>3, ExpiryIsLong DEF since
      <4>5. since > request.ms * (Ms - (Ms % machine.every)) - machine.every
        BY <1>3, <1>4, <2>0, <4>3, <4>4, RunDownIsLong
      <4> QED  BY <4>1, <4>5
    <3> QED  BY <3>1, <3>2, <3>3
  <2>3. ASSUME pc # "set_counter", request.kind # "none", perMs * request.ms <= CounterMax
        PROVE  /\ counter'.initial = perMs * request.ms
               /\ counter'.left > 0 \/ request.kind = "msleep" => Elapsed'
    <3>1. counter'.initial = counter.initial  BY <1>1, <1>3, DownIs
    <3>2. /\ counter.initial = perMs * request.ms
          /\ counter.left > 0 \/ request.kind = "msleep" => Elapsed
          /\ lvt.masked <=> request.kind = "msleep"
          /\ lvt.periodic <=> request.kind = "periodic"
      BY <2>1, <2>3
    <3>3. ASSUME counter'.left > 0 \/ request.kind = "msleep" PROVE Elapsed'
      <4>1. CASE ticks /\ lvt.periodic
        <5>1. counter'.left = counter.initial /\ counter'.phase = 0 /\ request'.since = 0
          BY <1>1, <1>3, <1>7, <2>3, <4>1, DownIs DEF ticks
        <5>2. counter'.initial - counter'.left = 0 /\ 0 * machine.every = 0
          BY <1>2, <1>6, <3>1, <5>1
        <5>3. 0 + machine.every > 0 + 0  BY <1>2
        <5> QED  BY <5>1, <5>2, <5>3 DEF Elapsed
      <4>2. CASE ticks /\ ~lvt.periodic
        <5>1. counter'.left = 0  BY <1>1, <1>3, <4>2, DownIs DEF ticks
        <5>2. request.kind = "msleep"  BY <3>3, <5>1
        <5> QED  BY <3>2, <4>2, <5>2 DEF ticks
      <4>3. CASE ~ticks
        <5>1. ~(Expires /\ lvt.periodic)  BY <3>2, <4>3 DEF ticks
        <5>2. Elapsed
          <6>1. CASE request.kind = "msleep"  BY <3>2, <6>1
          <6>2. CASE counter'.left > 0
            <7>1. counter.left # 0
              <8>1. counter.left = 0 => counter' = counter  BY <1>1, <1>3, DownIs
              <8> QED  BY <6>2, <8>1
            <7>2. counter.left > 0  BY <1>2, <1>3, <7>1 DEF TimersType
            <7> QED  BY <3>2, <7>2
          <6> QED  BY <3>3, <6>1, <6>2
        <5>3. PICK next : next = Down(counter)  OBVIOUS
        <5>4. since + machine.every > (next.initial - next.left) * machine.every + next.phase
          BY <1>3, <5>1, <5>2, <5>3, ElapsedGoesOn DEF since
        <5>5. counter' = next /\ request'.since = since  BY <1>1, <1>7, <2>3, <4>3, <5>3
        <5> QED  BY <5>4, <5>5 DEF Elapsed
      <4> QED  BY <4>1, <4>2, <4>3
    <3> QED  BY <3>1, <3>2, <3>3
  <2>4. /\ request.kind # "none" => /\ lvt.masked <=> request.kind = "msleep"
                                    /\ lvt.periodic <=> request.kind = "periodic"
        /\ pc = "wait" => request.kind = "msleep"
        /\ pc = "set_counter" => request.kind # "none"
        /\ pc # "set_counter" /\ request.kind # "none" => (request.kind = "msleep" => pc = "wait")
    BY DEF TimersHold
  <2> QED  BY <1>1, <1>7, <1>9, <1>11, <2>0, <2>2, <2>3, <2>4 DEF TimersHold
<1> QED  BY <1>10, <1>11

\* The timers' invariant holds in every reachable state.
LEMMA TimersHoldHolds ==
    /\ Init => TimersHold
    /\ Control /\ TimersHold /\ [Next]_vars => TimersHold'
<1>1. Init => TimersHold
  <2> SUFFICES ASSUME Init PROVE TimersHold  OBVIOUS
  <2> DEFINE on == TRUE
             off == FALSE
  <2>0. on \in BOOLEAN /\ off \in BOOLEAN  OBVIOUS
  <2>t. on /\ ~off  OBVIOUS
  <2>1. /\ hpet = [count |-> 0, until |-> 0]
        /\ counter = [initial |-> 0, left |-> 0, phase |-> 0]
        /\ lvt = [masked |-> on, periodic |-> off]
        /\ perMs = 0 /\ lag = 0 /\ calls = 0
        /\ request = [kind |-> "none", ms |-> 0, since |-> 0]
        /\ fired = [kind |-> "none", ms |-> 0, since |-> 0]
        /\ pc = "verify" /\ machine \in Machines
    BY DEF Init, TimersInit, MachineInit
  <2> HIDE DEF on, off
  <2>2. Control  BY ControlHolds
  <2>3. /\ machine.every \in Nat \ {0} /\ CounterMax \in Nat
        /\ machine.lag \in Nat /\ machine.calls \in Nat /\ machine.maps \in Nat
    BY <2>2, ClocksAre
  <2>4. lvt \in [masked : BOOLEAN, periodic : BOOLEAN]
    BY <2>0, <2>1
  <2>5. lvt.masked = on /\ lvt.periodic = off  BY <2>1
  <2>6. TimersType  BY <2>1, <2>3, <2>4 DEF TimersType
  <2>7. NeverTooEarly  BY <2>1 DEF NeverTooEarly
  <2> QED  BY <2>t, <2>1, <2>5, <2>6, <2>7 DEF TimersHold, Calibrated
<1>2. ASSUME Control, TimersHold, [Next]_vars PROVE TimersHold'
  <2>1. machine' = machine  BY <1>2, MachineStays
  <2>2. CASE /\ UNCHANGED <<hpet, counter, lvt, perMs, request, lag, fired>>
             /\ calls' = calls \/ (calls < machine.maps /\ calls' = calls + 1)
             /\ At("sleep") \/ At("calibrate") \/ At("set_counter") \/ At("wait") => UNCHANGED pc
             /\ At("done") => pc' # "set_counter"
    <3>1. /\ pc' \in Calibrated <=> pc \in Calibrated
          /\ pc' = "calibrate" <=> pc = "calibrate"
          /\ pc' = "wait" <=> pc = "wait"
          /\ pc' = "set_counter" <=> pc = "set_counter"
      BY <1>2, <2>2, PlaceStays DEF At, Follows, Calibrated
    <3>2. calls' \in 0 .. machine.calls + machine.maps
      BY <1>2, <2>2, ClocksAre DEF TimersHold, TimersType
    <3>3. TimersType'
      <4>1. TimersType  BY <1>2 DEF TimersHold
      <4> QED  BY <2>1, <2>2, <3>2, <4>1 DEF TimersType
    <3>4. (Waited' <=> Waited) /\ (Elapsed' <=> Elapsed) /\ (NeverTooEarly' <=> NeverTooEarly)
      BY <2>1, <2>2 DEF Waited, Elapsed, NeverTooEarly
    <3> QED  BY <1>2, <2>1, <2>2, <3>1, <3>3, <3>4 DEF TimersHold
  <2>3. CASE InitHpet \/ StartCalibration \/ SleepOnHpet \/ Calibrate
    <3>1. calls' = calls  BY <2>3 DEF InitHpet, StartCalibration, SleepOnHpet, Calibrate
    <3> QED  BY <1>2, <2>1, <2>3, <3>1, CalibrationHolds
  <2>4. CASE CallHal \/ SetCounter \/ WakeUp  BY <1>2, <2>1, <2>4, RequestsHold
  <2>5. CASE TimePasses  BY <1>2, <2>1, <2>5, TimeHolds
  <2> QED  BY <1>2, <2>2, <2>3, <2>4, <2>5, TimerSteps
<1> QED  BY <1>1, <1>2

\* No sleep and no tick comes early: each is as long as was asked for, but for
\* what the calibration cuts off and one tick, unless the count did not fit
\* (apic.cpp, hpet.cpp).
THEOREM NeverTooEarlyTheorem == Spec => []NeverTooEarly
<1> DEFINE IInv == Control /\ TimersHold
<1>1. Init => IInv  BY ControlHolds, TimersHoldHolds
<1>2. IInv /\ [Next]_vars => IInv'  BY ControlHolds, TimersHoldHolds
<1>3. IInv => NeverTooEarly  BY DEF TimersHold
<1> HIDE DEF IInv
<1> QED  BY <1>1, <1>2, <1>3, PTL DEF Spec
-----------------------------------------------------------------------------
(* The whole of the state                                                    *)

\* The rest of the type: what is written is more than what is sent, a stop
\* leaves nothing to write, and the list of I/O APICs does not outgrow its array.
RestHolds ==
    /\ aborted \in BOOLEAN
    /\ todo # << >> => status \in {"up", "panic"}
    /\ Len(ioapics) <= MaxIoapic

\* None of these is ever lost.
LEMMA RestHoldsHolds ==
    /\ Init => RestHolds
    /\ Control /\ FirmHolds /\ RestHolds /\ [Next]_vars => RestHolds'
<1>1. Init => RestHolds
  <2> SUFFICES ASSUME Init PROVE RestHolds  OBVIOUS
  <2> DEFINE off == FALSE
  <2>1. off \in BOOLEAN  OBVIOUS
  <2>2. aborted = off  BY DEF Init, MachineInit
  <2>3. todo = << >>  BY DEF Init, SerialInit
  <2>4. Len(ioapics) <= MaxIoapic
    <3>1. ioapics = << >>  BY DEF Init, AcpiInit
    <3>2. Len(ioapics) = 0  BY <3>1
    <3> QED  BY <3>2, AcpiConstants
  <2> HIDE DEF off
  <2>5. aborted \in BOOLEAN  BY <2>1, <2>2
  <2> QED  BY <2>3, <2>4, <2>5 DEF RestHolds
<1>2. ASSUME Control, FirmHolds, RestHolds, [Next]_vars PROVE RestHolds'
  <2>1. CodeStep  BY <1>2, CodeSteps
  <2>2. aborted' \in BOOLEAN
    <3>1. aborted' \in {aborted, aborted \/ enabled}
      BY <2>1 DEF CodeStep, Goes, InitUart, codeVars, machineVars, WriteOut, PortSends, EndPanic,
                  HaltAndNeverReturn, Panics, Panic, Broadcast, Stops, Resets
    <3> QED  BY <1>2, <3>1 DEF RestHolds, Control
  <2>3. todo' # << >> => status' \in {"up", "panic"}
    <3>1. CASE Goes \/ InitUart \/ Panics
      BY <3>1 DEF Goes, InitUart, At, Panics, Panic
    <3>2. CASE UNCHANGED codeVars \/ PortSends
      BY <1>2, <3>2 DEF codeVars, machineVars, serialVars, PortSends, Transmit, RestHolds
    <3>3. CASE WriteOut
      BY <3>3 DEF WriteOut, machineVars
    <3>4. CASE EndPanic \/ Resets \/ Stops
      BY <3>4 DEF EndPanic, Resets, Stops, HaltAndNeverReturn, serialVars
    <3> QED  BY <2>1, <3>1, <3>2, <3>3, <3>4 DEF CodeStep
  <2>4. Len(ioapics') <= MaxIoapic
    <3>0. Len(ioapics) \in Nat /\ MaxIoapic \in Nat /\ Len(ioapics) <= MaxIoapic
      BY <1>2, AcpiConstants DEF FirmHolds, RestHolds
    <3>1. CASE ReadRecord
      <4>1. CASE record > Len(firmware.records)
        <5>1. ioapics' = ioapics  BY <3>1, <4>1 DEF ReadRecord
        <5> QED  BY <3>0, <5>1
      <4>2. CASE ~(record > Len(firmware.records))
        <5> DEFINE r == firmware.records[record]
                   new == [id |-> r.id, gsib |-> r.gsib, at |-> r.at]
        <5>1. \/ ioapics' = ioapics
              \/ ioapics' = Append(ioapics, new) /\ ~(Len(ioapics) >= MaxIoapic)
          BY <3>1, <4>2 DEF ReadRecord
        <5>2. Len(Append(ioapics, new)) = Len(ioapics) + 1
          <6>1. ioapics \in Seq([id : Nat, gsib : Nat, at : STRING])  BY <1>2 DEF FirmHolds
          <6> HIDE DEF new
          <6> QED  BY <6>1
        <5> HIDE DEF new
        <5> QED  BY <3>0, <5>1, <5>2
      <4> QED  BY <4>1, <4>2
    <3>2. CASE InitRsdt \/ InitMadt \/ UNCHANGED acpiVars
      <4>1. ioapics' = ioapics  BY <3>2 DEF InitRsdt, InitMadt, acpiVars
      <4> QED  BY <3>0, <4>1
    <3> QED  BY <1>2, <3>1, <3>2, AcpiSteps
  <2> QED  BY <2>2, <2>3, <2>4 DEF RestHolds
<1> QED  BY <1>1, <1>2

\* All that the parts of Boot rest on.
BootHolds ==
    /\ Control /\ SymbolsHold /\ PortHolds /\ PanicHolds /\ CpuHolds
    /\ FirmHolds /\ RouteHolds /\ TimersHold /\ RestHolds

\* It holds in every reachable state.
LEMMA BootHoldsHolds ==
    /\ Init => BootHolds
    /\ BootHolds /\ [Next]_vars => BootHolds'
  BY ControlHolds, SymbolsHoldHolds, PortHoldsHolds, PanicHoldsHolds, CpuHoldsHolds,
     FirmHoldsHolds, RouteHoldsHolds, TimersHoldHolds, RestHoldsHolds
  DEF BootHolds

\* Every part of the state has its type, whatever the machine.
THEOREM TypeOKTheorem == Spec => []TypeOK
<1>1. BootHolds => TypeOK
  <2> SUFFICES ASSUME BootHolds PROVE TypeOK  OBVIOUS
  <2>1. /\ pc \in Steps /\ status \in {"up", "panic", "halted", "reset"}
        /\ ready \in BOOLEAN /\ loaded \in BOOLEAN /\ idt \in BOOLEAN /\ enabled \in BOOLEAN
        /\ aborted \in BOOLEAN /\ (todo # << >> => status \in {"up", "panic"})
    BY DEF BootHolds, Control, PortHolds, SymbolsHold, RestHolds
  <2>2. Len(said) >= Len(wire)
    <3>1. PICK T : T = Tokens  OBVIOUS
    <3>2. PICK token \in T : TRUE
      <4>1. [says |-> "header"] \in Tokens  BY DEF Tokens, Words
      <4> QED  BY <3>1, <4>1
    <3>3. said \in Seq(T) /\ wire \in Seq(T)  BY <3>1 DEF BootHolds, PortHolds
    <3>4. CASE ~ready
      BY <3>4 DEF BootHolds, PortHolds
    <3>5. CASE ready
      <4>1. said = wire \o Pending  BY <3>5 DEF BootHolds, PortHolds
      <4>2. Pending \in Seq(T)
        <5>1. chip.thr = None \/ chip.thr \in T  BY <3>1, <3>5 DEF BootHolds, PortHolds
        <5> QED  BY <5>1 DEF Pending
      <4>3. Len(said) = Len(wire) + Len(Pending)  BY <3>3, <4>1, <4>2
      <4> QED  BY <3>3, <4>2, <4>3
    <3> QED  BY <3>4, <3>5
  <2>3. \A i \in DOMAIN symbols : symbols[i].address \in Addresses
    <3>1. CASE loaded
      <4>1. symbols = machine.nm  BY <3>1 DEF BootHolds, SymbolsHold, Holds
      <4>2. machine.nm \in Seq([address : Addresses, name : STRING])
        BY MachineHasSymbols DEF BootHolds, SymbolList
      <4> DEFINE S == [address : Addresses, name : STRING]
      <4>3. \A i \in DOMAIN symbols : symbols[i] \in S
        <5> HIDE DEF S
        <5>1. symbols \in Seq(S)  BY <4>1, <4>2 DEF S
        <5> QED  BY <5>1
      <4> QED  BY <4>3
    <3>2. CASE ~loaded
      <4>1. symbols = << >>  BY <3>2 DEF BootHolds, SymbolsHold
      <4> QED  BY <4>1
    <3> QED  BY <3>1, <3>2
  <2>4. tables \in Nat /\ record \in Nat /\ Len(ioapics) <= MaxIoapic
    <3>1. Len(firmware.root) \in Nat  BY FirmwareIs DEF BootHolds
    <3> QED  BY <3>1 DEF BootHolds, FirmHolds, RestHolds
  <2>5. DOMAIN redirect = DOMAIN machine.chips
    BY DEF BootHolds, RouteHolds, Tables, Bus
  <2>6. /\ counter \in [initial : 0 .. CounterMax, left : 0 .. CounterMax,
                        phase : 0 .. machine.every - 1]
        /\ lvt \in [masked : BOOLEAN, periodic : BOOLEAN]
        /\ perMs \in 0 .. CounterMax /\ lag \in 0 .. machine.lag
        /\ calls \in 0 .. machine.calls + machine.maps
    BY DEF BootHolds, TimersHold, TimersType
  <2> QED  BY <2>1, <2>2, <2>3, <2>4, <2>5, <2>6 DEF TypeOK
<1> QED  BY <1>1, BootHoldsHolds, PTL DEF Spec
-----------------------------------------------------------------------------
(* Sound machines boot                                                       *)

\* What a step of the boot needs to go on.
GoesOn == status' = "up"

\* A sound machine has what verify_boot, the memory managers and the symbols
\* ask for, and a processor that refuses nothing.
LEMMA SoundMachineStarts ==
    ASSUME BootHolds, Sound(machine), status = "up",
           \/ VerifyBoot \/ InitUart \/ InitCpu \/ InitMemory \/ LoadSymbols \/ CallConstructors
           \/ LoadGdt \/ LoadIdt
    PROVE  GoesOn
<1>1. /\ machine.answers /\ machine.memory /\ machine.room /\ machine.cpu.leaf7
      /\ "SSE" \in machine.cpu.has /\ "FSGS" \in machine.cpu.has
  BY DEF Sound
<1>2. CASE VerifyBoot \/ InitUart \/ InitMemory \/ LoadSymbols \/ CallConstructors \/ LoadIdt
  BY <1>1, <1>2 DEF VerifyBoot, InitUart, InitMemory, LoadSymbols, CallConstructors, LoadIdt,
                    Proceed, ProceedSaying, GoesOn
<1>3. CASE InitCpu
  <2>1. pc = "cpu" /\ cr4 = {"PAE"}  BY <1>3 DEF BootHolds, CpuHolds, InitCpu, At
  <2>2. "SSE" \in Leaf1(machine.cpu) /\ "FSGS" \in Leaf7(machine.cpu)
    BY <1>1 DEF Leaf1, Leaf7
  <2>3. Refused(machine.cpu, Writes(machine.cpu)) = 0  BY <1>1, <2>1, NothingRefused
  <2>4. Proceed("memory")  BY <1>3, <2>2, <2>3 DEF InitCpu
  <2> QED  BY <2>4 DEF Proceed, GoesOn
<1>4. CASE LoadGdt
  <2>1. ProceedSaying("idt", "gdt")  BY <1>4, SegmentsAreLoaded
  <2> QED  BY <2>1 DEF ProceedSaying, GoesOn
<1> QED  BY <1>2, <1>3, <1>4

\* The list of I/O APICs has room for each that a sound machine has.
LEMMA RoomForOneMore ==
    ASSUME BootHolds, Sound(machine), NEW k \in OfType(IO_APIC), Understood(k - 1)
    PROVE  Len(ioapics) < MaxIoapic
<1> DEFINE io == OfType(IO_APIC)
           S == 1 .. Len(ioapics)
           T == io \ {k}
<1>1. /\ DOMAIN firmware.records = 1 .. Len(firmware.records) /\ Len(firmware.records) \in Nat
      /\ DOMAIN ioapics = S /\ Len(ioapics) \in Nat /\ MaxIoapic \in Nat
  BY FirmwareIs, AcpiConstants DEF BootHolds, FirmHolds
<1>2. io \subseteq 1 .. Len(firmware.records)  BY <1>1 DEF OfType
<1>3. IsFiniteSet(io) /\ Cardinality(io) \in Nat
  <2>1. IsFiniteSet(1 .. Len(firmware.records))  BY <1>1, FS_Interval
  <2> HIDE DEF io
  <2> QED  BY <1>2, <2>1, FS_Subset, FS_CardinalityType
<1>4. Cardinality(io) <= MaxIoapic  BY DEF Sound, OfType, firmware
<1>5. IsFiniteSet(T) /\ Cardinality(T) = Cardinality(io) - 1
  BY <1>3, FS_RemoveElement
<1>6. IsFiniteSet(S) /\ Cardinality(S) = Len(ioapics)
  <2>1. PICK m : m = Len(ioapics)  OBVIOUS
  <2>2. m \in Nat  BY <1>1, <2>1
  <2>3. IsFiniteSet(1 .. m) /\ Cardinality(1 .. m) = IF 1 > m THEN 0 ELSE m - 1 + 1
    BY <2>2, FS_Interval
  <2>4. Cardinality(1 .. m) = m  BY <2>2, <2>3
  <2> QED  BY <2>1, <2>3, <2>4
<1>7. PICK from \in [S -> UpTo(IO_APIC, k - 1)] : ListsInOrder(from, UpTo(IO_APIC, k - 1))
  BY <1>1 DEF Understood
<1>8. from \in [S -> T]
  <2>1. k \in Nat  BY <1>1, <1>2
  <2>2. UpTo(IO_APIC, k - 1) \subseteq T
    <3> SUFFICES ASSUME NEW i \in UpTo(IO_APIC, k - 1) PROVE i \in T  OBVIOUS
    <3>1. i \in io /\ i <= k - 1  BY DEF UpTo
    <3>2. i \in Nat  BY <1>1, <1>2, <3>1
    <3> QED  BY <2>1, <3>1, <3>2
  <2> QED  BY <1>7, <2>2
<1>9. \A i, j \in S : i < j => from[i] < from[j]  BY <1>1, <1>7 DEF ListsInOrder
<1>10. \A i \in S : from[i] \in Nat  BY <1>1, <1>2, <1>8
<1> SUFFICES ASSUME ~(Len(ioapics) < MaxIoapic) PROVE FALSE
  OBVIOUS
<1>11. Cardinality(T) < Cardinality(S)  BY <1>1, <1>3, <1>4, <1>5, <1>6
<1> HIDE DEF S, T
<1>12. PICK x, y \in S : x # y /\ from[x] = from[y]
  BY <1>5, <1>6, <1>8, <1>11, FS_PigeonHole
<1>13. x < y \/ y < x  BY <1>1, <1>12 DEF S
<1> QED  BY <1>9, <1>10, <1>12, <1>13

\* What is known of the I/O APICs when the records have been read.
LEMMA ListedIoapics ==
    ASSUME BootHolds, Sound(machine), Understood(Len(firmware.records))
    PROVE  /\ \A i \in DOMAIN ioapics : ioapics[i].at \in Bus /\ HardwareId(ioapics[i]) = ioapics[i].id
           /\ \E i \in DOMAIN ioapics : ioapics[i].gsib = 0
<1> DEFINE n == Len(firmware.records)
           io == OfType(IO_APIC)
<1>1. DOMAIN firmware.records = 1 .. n /\ n \in Nat  BY FirmwareIs DEF BootHolds
<1>2. UpTo(IO_APIC, n) = io  BY <1>1 DEF UpTo, OfType
<1>3. PICK from \in [DOMAIN ioapics -> io] : ListsInOrder(from, io)
  BY <1>2 DEF Understood
<1>4. \A i \in DOMAIN ioapics :
         /\ from[i] \in io
         /\ ioapics[i] = [id |-> firmware.records[from[i]].id, gsib |-> firmware.records[from[i]].gsib,
                          at |-> firmware.records[from[i]].at]
  BY <1>3 DEF ListsInOrder
<1>5. \A j \in io :
         /\ firmware.records[j].at \in Bus
         /\ firmware.records[j].id = machine.chips[firmware.records[j].at].id
         /\ firmware.records[j].id < 16
  <2>1. \A j \in io : firmware.records[j].at \in Bus
    BY MachinesAre DEF BootHolds, Control, WellFormed, OfType, IO_APIC, firmware, Bus
  <2> QED  BY <2>1 DEF Sound, OfType, firmware
<1>6. \A i \in DOMAIN ioapics : ioapics[i].at \in Bus /\ HardwareId(ioapics[i]) = ioapics[i].id
  <2> SUFFICES ASSUME NEW i \in DOMAIN ioapics
               PROVE  ioapics[i].at \in Bus /\ HardwareId(ioapics[i]) = ioapics[i].id
    OBVIOUS
  <2> DEFINE r == firmware.records[from[i]]
  <2>1. ioapics[i].id = r.id /\ ioapics[i].at = r.at  BY <1>4
  <2>2. r.at \in Bus /\ r.id = machine.chips[r.at].id /\ r.id < 16  BY <1>4, <1>5
  <2>3. r.id \in Nat  BY <2>2, ChipsAre DEF BootHolds
  <2> HIDE DEF r
  <2>4. r.id % 16 = r.id  BY <2>2, <2>3
  <2> QED  BY <2>1, <2>2, <2>4 DEF HardwareId
<1>7. \E i \in DOMAIN ioapics : ioapics[i].gsib = 0
  <2>1. PICK j \in io : firmware.records[j].gsib = 0  BY DEF Sound, OfType, firmware
  <2>2. PICK i \in DOMAIN ioapics : from[i] = j
    <3>1. Range(from) = io  BY <1>3 DEF ListsInOrder
    <3> QED  BY <1>3, <2>1, <3>1 DEF Range
  <2> QED  BY <1>4, <2>1, <2>2
<1> QED  BY <1>6, <1>7

\* The tables and records of a sound machine are in order, and its I/O APICs
\* are those the firmware names.
LEMMA SoundMachineIsFound ==
    ASSUME BootHolds, Sound(machine), status = "up",
           InitRsdt \/ InitMadt \/ ReadRecord \/ InitLapic \/ InitIoapic \/ InitHpet
    PROVE  GoesOn
<1>1. /\ Control /\ FirmHolds /\ Len(firmware.root) \in Nat
      /\ DOMAIN firmware.root = 1 .. Len(firmware.root)
      /\ DOMAIN firmware.records = 1 .. Len(firmware.records) /\ Len(firmware.records) \in Nat
  BY FirmwareIs DEF BootHolds
<1>2. /\ firmware.sum = 0 /\ ~firmware.rootFar /\ firmware.rootSum = 0
      /\ (firmware.revision # 0 => firmware.xsum = 0)
      /\ \A i \in DOMAIN firmware.root : firmware.root[i].sum = 0 /\ ~firmware.root[i].far
      /\ {"APIC", "HPET"} \subseteq {firmware.root[i].sig : i \in DOMAIN firmware.root}
  BY DEF Sound, firmware
<1>3. ASSUME tables = Len(firmware.root), NEW name \in {"APIC", "HPET"}
      PROVE  FindTable(name) # 0
  <2> DEFINE found == {i \in 1 .. tables : TableAt(i).sig = name}
  <2>1. PICK i \in DOMAIN firmware.root : firmware.root[i].sig = name  BY <1>2
  <2>2. i \in found  BY <1>1, <1>3, <2>1 DEF TableAt
  <2>3. found \in SUBSET Nat /\ \A j \in found : j # 0  BY <1>1, <1>3
  <2>4. FindTable(name) = IF found = {} THEN 0 ELSE Min(found)  BY DEF FindTable
  <2> HIDE DEF found
  <2> QED  BY <2>2, <2>3, <2>4, MinIsLeast
<1>4. CASE InitRsdt
  <2>1. FirstBad = 0
    <3> DEFINE bad == {i \in 1 .. TableCount : TableAt(i).far \/ ~Valid(TableAt(i).sum)}
    <3>1. TableCount = Len(firmware.root)  BY <1>1, TableCountIs
    <3>2. bad = {}  BY <1>1, <1>2, <3>1 DEF TableAt, Valid
    <3> QED  BY <3>2 DEF FirstBad
  <2>2. ProceedSaying("madt", "rsdt")
    BY <1>2, <1>4, <2>1 DEF InitRsdt, Valid, IsV1
  <2> QED  BY <2>2 DEF ProceedSaying, GoesOn
<1>5. CASE InitMadt
  <2>1. "madt" \notin BeforeMadt  BY DEF BeforeMadt, BeforeIdt
  <2>2. tables = Len(firmware.root)  BY <1>1, <1>5, <2>1 DEF FirmHolds, InitMadt, At
  <2>3. Proceed("madt")  BY <1>3, <1>5, <2>2 DEF InitMadt
  <2> QED  BY <2>3 DEF Proceed, GoesOn
<1>6. CASE ReadRecord
  <2>1. /\ record \in Nat /\ record # 0
        /\ \/ record <= Len(firmware.records) /\ firmware.records[record].empty
           \/ Understood(record - 1)
    BY <1>1, <1>6 DEF FirmHolds, ReadRecord
  <2>2. CASE record > Len(firmware.records)
    BY <1>6, <2>2 DEF ReadRecord, Proceed, GoesOn
  <2>3. CASE ~(record > Len(firmware.records))
    <3>1. record \in DOMAIN firmware.records  BY <1>1, <2>1, <2>3
    <3>2. ~firmware.records[record].empty
      <4>1. firmware.records[record] \in ToSet(firmware.records)  BY <3>1 DEF ToSet
      <4> QED  BY <4>1 DEF Sound, firmware
    <3>3. Understood(record - 1)  BY <2>1, <3>2
    <3>4. ~(firmware.records[record].type = IO_APIC /\ Len(ioapics) >= MaxIoapic)
      <4>1. SUFFICES ASSUME firmware.records[record].type = IO_APIC PROVE ~(Len(ioapics) >= MaxIoapic)
        OBVIOUS
      <4>2. record \in OfType(IO_APIC)  BY <3>1, <4>1 DEF OfType
      <4>3. Len(ioapics) < MaxIoapic  BY <3>3, <4>2, RoomForOneMore
      <4>4. Len(ioapics) \in Nat /\ MaxIoapic \in Nat  BY <1>1, AcpiConstants DEF FirmHolds
      <4> QED  BY <4>3, <4>4
    <3> QED  BY <1>6, <2>3, <3>4 DEF ReadRecord, Proceed, GoesOn
  <2> QED  BY <2>2, <2>3
<1>7. ASSUME At("lapic") \/ At("ioapic") \/ At("hpet")
      PROVE  tables = Len(firmware.root) /\ Understood(Len(firmware.records))
  BY <1>1, <1>7 DEF FirmHolds, At, BeforeMadt, BeforeIdt
<1>8. CASE InitLapic
  <2>1. "APIC" \in machine.cpu.has  BY DEF Sound
  <2>2. Understood(Len(firmware.records))  BY <1>7, <1>8 DEF InitLapic
  <2> DEFINE over == UpTo(LAPIC_OVERRIDE, Len(firmware.records))
  <2>3. lapic = IF over = {} THEN firmware.lapic ELSE firmware.records[Max(over)].at
    BY <2>2 DEF Understood
  <2>4. over \subseteq DOMAIN firmware.records  BY DEF UpTo, OfType
  <2>5. firmware.lapic \notin {"null", "far"}
    BY MachinesAre DEF BootHolds, Control, WellFormed, firmware, Sound
  <2>6. \A i \in DOMAIN firmware.records : firmware.records[i].at \notin {"null", "far"}
    <3>1. \A i \in DOMAIN firmware.records : firmware.records[i].at # "null"
      BY MachinesAre DEF BootHolds, Control, WellFormed, firmware
    <3>2. \A i \in DOMAIN firmware.records : firmware.records[i].at # "far"
      <4>1. \A i \in DOMAIN firmware.records : firmware.records[i] \in ToSet(firmware.records)
        BY DEF ToSet
      <4> QED  BY <4>1 DEF Sound, firmware
    <3> QED  BY <3>1, <3>2
  <2>7. over # {} => Max(over) \in over
    <3>1. over \in SUBSET Nat /\ \A i \in over : i <= Len(firmware.records)  BY <1>1, <2>4
    <3> HIDE DEF over
    <3> QED  BY <1>1, <3>1, MaxIsGreatest
  <2> HIDE DEF over
  <2>8. lapic \notin {"null", "far"}  BY <2>3, <2>4, <2>5, <2>6, <2>7
  <2>9. pc' = "ioapic" /\ status' = status  BY <1>8, <2>1, <2>8 DEF InitLapic
  <2> QED  BY <2>9 DEF GoesOn
<1>9. CASE InitIoapic
  <2>1. Understood(Len(firmware.records))  BY <1>7, <1>9 DEF InitIoapic
  <2>2. {i \in DOMAIN ioapics : HardwareId(ioapics[i]) # ioapics[i].id} = {}
    BY <2>1, ListedIoapics
  <2>3. ProceedSaying("hpet", "ioapic")  BY <1>9, <2>2 DEF InitIoapic
  <2> QED  BY <2>3 DEF ProceedSaying, GoesOn
<1>10. CASE InitHpet
  <2>1. FindTable("HPET") # 0 /\ machine.hpet = "sound"
    BY <1>3, <1>7, <1>10 DEF InitHpet, Sound
  <2>2. ProceedSaying("start", "hpet")  BY <1>10, <2>1 DEF InitHpet
  <2> QED  BY <2>2 DEF ProceedSaying, GoesOn
<1> QED  BY <1>4, <1>5, <1>6, <1>8, <1>9, <1>10

\* The line of the timer belongs to an I/O APIC of a sound machine.
LEMMA SoundMachineMaps ==
    ASSUME BootHolds, Sound(machine), status = "up", MapTimer
    PROVE  GoesOn
<1>1. Understood(Len(firmware.records)) /\ MapLow(0, machine.apicid, "handler")
  BY DEF BootHolds, FirmHolds, MapTimer, At, BeforeMadt, BeforeIdt
<1>2. PICK i \in DOMAIN ioapics : ioapics[i].gsib = 0  BY <1>1, ListedIoapics
<1>3. ioapics[i].at \in Bus  BY <1>1, ListedIoapics
<1>4. Lines(ioapics[i]) \in Nat  BY <1>3, ChipsAre DEF BootHolds, Lines
<1> DEFINE found == {j \in DOMAIN ioapics :
                       0 >= ioapics[j].gsib /\ 0 <= ioapics[j].gsib + Lines(ioapics[j])}
<1>5. i \in found  BY <1>2, <1>4
<1>6. found \in SUBSET Nat /\ \A j \in found : j # 0
  <2>1. DOMAIN ioapics = 1 .. Len(ioapics) /\ Len(ioapics) \in Nat  BY DEF BootHolds, FirmHolds
  <2> QED  BY <2>1
<1>7. FindIoapic(0) = IF found = {} THEN 0 ELSE Min(found)  BY DEF FindIoapic
<1>8. FindIoapic(0) # 0
  <2> HIDE DEF found
  <2> QED  BY <1>5, <1>6, <1>7, MinIsLeast
<1>9. Proceed("map_high")  BY <1>1, <1>8 DEF MapLow
<1> QED  BY <1>9 DEF Proceed, GoesOn

\* A sound machine that has not called into the kernel after the boot is up, or
\* has come to the end of kmain.
SoundHolds ==
    Sound(machine) /\ calls = 0 =>
        status = "up" \/ (status = "halted" /\ reason = "none" /\ pc = "done")

\* Every step of the boot finds what the steps before it set up, on every
\* machine that has what kmain needs: it comes to its end and to no other
\* (main.cpp and all that it calls).
THEOREM SoundMachinesBootTheorem == Spec => []SoundMachinesBoot
<1> DEFINE IInv == BootHolds /\ SoundHolds
<1>1. Init => IInv
  <2>1. Init => SoundHolds  BY DEF Init, MachineInit, SoundHolds
  <2> QED  BY <2>1, BootHoldsHolds
<1>2. IInv /\ [Next]_vars => IInv'
  <2> SUFFICES ASSUME IInv, [Next]_vars PROVE IInv'  OBVIOUS
  <2>1. BootHolds /\ SoundHolds /\ Control /\ BootHolds' /\ CodeStep
    BY BootHoldsHolds, CodeSteps DEF BootHolds
  <2>2. machine' = machine  BY <2>1, MachineStays
  <2>3. SUFFICES ASSUME Sound(machine), calls' = 0
                 PROVE  status' = "up" \/ (status' = "halted" /\ reason' = "none" /\ pc' = "done")
    <3>1. Sound(machine)' <=> Sound(machine)  BY <2>2 DEF Sound
    <3> QED  BY <2>1, <2>3, <3>1 DEF SoundHolds
  <2>4. calls = 0
    <3>1. calls \in Nat  BY <2>1, ClocksAre DEF BootHolds, TimersHold, TimersType
    <3>2. calls' = calls \/ calls' = calls + 1
      BY TimerSteps DEF InitHpet, StartCalibration, SleepOnHpet, Calibrate, CallHal, SetCounter,
                        WakeUp, TimePasses
    <3> QED  BY <2>3, <3>1, <3>2
  <2>5. CASE status = "halted" /\ reason = "none" /\ pc = "done"
    <3>1. UNCHANGED <<status, reason, pc>>
      BY <2>1, <2>5 DEF CodeStep, Goes, InitUart, At, codeVars, machineVars, WriteOut, PortSends,
                        EndPanic, Panics, Resets, Stops
    <3> QED  BY <2>5, <3>1
  <2>6. CASE status = "up"
    <3>1. reason = "none"  BY <2>1, <2>6 DEF BootHolds, PanicHolds
    <3>2. CASE \/ Simple(VerifyBoot) \/ Simple(InitUart) \/ OfProcessor(InitCpu)
               \/ Simple(InitMemory) \/ Simple(LoadSymbols) \/ Simple(CallConstructors)
               \/ OfProcessor(LoadGdt) \/ OfProcessor(LoadIdt)
      BY <2>1, <2>3, <2>6, <3>2, SoundMachineStarts DEF Simple, OfProcessor, GoesOn
    <3>3. CASE \/ OfAcpi(InitRsdt) \/ OfAcpi(InitMadt) \/ OfAcpi(ReadRecord) \/ OfAcpi(InitLapic)
               \/ OfRouting(InitIoapic) \/ InitHpet
      BY <2>1, <2>3, <2>6, <3>3, SoundMachineIsFound DEF OfAcpi, OfRouting, GoesOn
    <3>4. CASE MapTimer
      BY <2>1, <2>3, <2>6, <3>4, SoundMachineMaps DEF GoesOn
    <3>5. CASE \/ StartCalibration \/ SleepOnHpet \/ Calibrate \/ OfRouting(MapHigh)
               \/ RegisterTimer \/ SetCounter \/ WakeUp
      BY <2>6, <3>5 DEF StartCalibration, SleepOnHpet, Calibrate, OfRouting, MapHigh,
                        RegisterTimer, SetCounter, WakeUp, Proceed, ProceedSaying
    <3>6. CASE Finish
      BY <3>1, <3>6 DEF Finish, At, HaltAndNeverReturn
    <3>7. CASE Simple(WriteOut) \/ Simple(PortSends) \/ Simple(EndPanic) \/ OfRouting(RaiseLine)
               \/ TimePasses \/ UNCHANGED vars
      BY <2>6, <3>7 DEF Simple, WriteOut, PortSends, EndPanic, OfRouting, RaiseLine, TimePasses,
                        vars, codeVars, machineVars
    <3>8. CASE CallHal \/ CallMap
      <4>1. calls' = calls + 1  BY <3>8 DEF CallHal, CallMap
      <4> QED  BY <2>3, <2>4, <4>1
    <3> QED  BY <3>2, <3>3, <3>4, <3>5, <3>6, <3>7, <3>8 DEF Next, Code, Kmain
  <2> QED  BY <2>1, <2>3, <2>4, <2>5, <2>6 DEF SoundHolds
<1>3. IInv => SoundMachinesBoot
  <2> SUFFICES ASSUME IInv PROVE SoundMachinesBoot  OBVIOUS
  <2>1. calls \in Nat  BY ClocksAre DEF BootHolds, TimersHold, TimersType
  <2> QED  BY <2>1 DEF SoundHolds, SoundMachinesBoot
<1> HIDE DEF IInv
<1> QED  BY <1>1, <1>2, <1>3, PTL DEF Spec
=============================================================================
