----------------------------- MODULE HeapProofs -----------------------------
(***************************************************************************)
(* Theorems about Heap, for every size of page, header and alignment note, *)
(* every set of pages and of requests, and every order of calls.           *)
(***************************************************************************)
EXTENDS Heap, Arithmetic, SequenceTheorems, FiniteSetTheorems, TLAPS

-----------------------------------------------------------------------------
(* Lists *)

\* A part of a list.
LEMMA SliceIs ==
    ASSUME NEW S, NEW s \in Seq(S), NEW m \in 1 .. Len(s) + 1, NEW n \in m - 1 .. Len(s)
    PROVE  LET u == SubSeq(s, m, n) IN
           /\ u \in Seq(S) /\ Len(u) = n - m + 1
           /\ \A i \in 1 .. n - m + 1 : u[i] = s[m + i - 1]
<1>1. \A i \in m .. n : s[i] \in S  OBVIOUS
<1>2. m \in Int /\ n \in Int  OBVIOUS
<1> DEFINE u == SubSeq(s, m, n)
<1>3. /\ u \in Seq(S)
      /\ Len(u) = IF m <= n THEN n - m + 1 ELSE 0
      /\ \A i \in 1 .. n - m + 1 : u[i] = s[m + i - 1]
  BY <1>1, <1>2, SubSeqProperties
<1> HIDE DEF u
<1>4. Len(u) = n - m + 1  BY <1>3
<1> QED  BY <1>3, <1>4 DEF u

\* An element put behind the first k: those before stay, the others move up.
LEMMA InsertIs ==
    ASSUME NEW S, NEW s \in Seq(S), NEW k \in 0 .. Len(s), NEW e \in S
    PROVE  LET t == InsertAt(s, k + 1, e) IN
           /\ t \in Seq(S) /\ Len(t) = Len(s) + 1 /\ t[k + 1] = e
           /\ \A j \in 1 .. k : t[j] = s[j]
           /\ \A j \in k + 2 .. Len(s) + 1 : t[j] = s[j - 1]
<1> DEFINE a == SubSeq(s, 1, k)
           b == SubSeq(s, k + 1, Len(s))
           c == a \o <<e>>
           t == c \o b
<1>0. Len(s) \in Nat  OBVIOUS
<1>1. /\ a \in Seq(S) /\ Len(a) = k
      /\ \A i \in 1 .. k : a[i] = s[i]
  <2>1. /\ a \in Seq(S) /\ Len(a) = k - 1 + 1
        /\ \A i \in 1 .. k - 1 + 1 : a[i] = s[1 + i - 1]
    BY <1>0, SliceIs
  <2> HIDE DEF a
  <2> QED  BY <2>1
<1>2. /\ b \in Seq(S) /\ Len(b) = Len(s) - k
      /\ \A i \in 1 .. Len(s) - k : b[i] = s[k + i]
  <2>1. /\ b \in Seq(S) /\ Len(b) = Len(s) - (k + 1) + 1
        /\ \A i \in 1 .. Len(s) - (k + 1) + 1 : b[i] = s[(k + 1) + i - 1]
    BY <1>0, SliceIs
  <2> HIDE DEF b
  <2> QED  BY <1>0, <2>1
<1>3. <<e>> \in Seq(S) /\ Len(<<e>>) = 1 /\ <<e>>[1] = e  OBVIOUS
<1> HIDE DEF a, b
<1>4. /\ c \in Seq(S) /\ Len(c) = k + 1
      /\ \A i \in 1 .. k : c[i] = a[i]
      /\ c[k + 1] = e
  <2> DEFINE d == <<e>>
  <2>1. d \in Seq(S) /\ Len(d) = 1 /\ d[1] = e  BY <1>3
  <2> HIDE DEF d
  <2> DEFINE l == k + 1
  <2>2. k \in Nat /\ l \in Nat /\ Len(a) = k /\ Len(a) + Len(d) = l  BY <1>0, <1>1, <2>1
  <2>3. a \in Seq(S) /\ d \in Seq(S)  BY <1>1, <2>1
  <2> HIDE DEF l
  <2>5. /\ a \o d \in Seq(S) /\ Len(a \o d) = l
        /\ \A i \in 1 .. k : (a \o d)[i] = a[i]
        /\ \A i \in k + 1 .. l : (a \o d)[i] = d[i - k]
    BY <2>2, <2>3
  <2>6. /\ a \o d \in Seq(S) /\ Len(a \o d) = k + 1
        /\ \A i \in 1 .. k : (a \o d)[i] = a[i]
        /\ \A i \in k + 1 .. k + 1 : (a \o d)[i] = d[i - k]
    BY <2>5, Zenon DEF l
  <2>4. (a \o d)[k + 1] = d[1]
    <3>1. k + 1 \in k + 1 .. k + 1 /\ (k + 1) - k = 1  BY <2>2
    <3> QED  BY <2>6, <3>1
  <2> QED  BY <2>1, <2>4, <2>6 DEF d
<1> HIDE DEF c
<1>5. /\ t \in Seq(S) /\ Len(t) = Len(s) + 1
      /\ \A i \in 1 .. k + 1 : t[i] = c[i]
      /\ \A i \in (k + 1) + 1 .. Len(s) + 1 : t[i] = b[i - (k + 1)]
  <2>1. k + 1 \in Nat /\ Len(s) + 1 \in Nat /\ Len(c) + Len(b) = Len(s) + 1
    BY <1>0, <1>2, <1>4
  <2> QED  BY <1>2, <1>4, <2>1, SMTT(40)
<1>6. t = InsertAt(s, k + 1, e)
  <2>1. (k + 1) - 1 = k  OBVIOUS
  <2> QED  BY <2>1 DEF InsertAt, a, b, c
<1> HIDE DEF t
<1>7. t[k + 1] = e
  <2>1. k + 1 \in 1 .. k + 1  BY <1>0
  <2> QED  BY <1>4, <1>5, <2>1
<1>8. \A j \in 1 .. k : t[j] = s[j]
  BY <1>1, <1>4, <1>5
<1>9. \A j \in k + 2 .. Len(s) + 1 : t[j] = s[j - 1]
  <2> TAKE j \in k + 2 .. Len(s) + 1
  <2>1. t[j] = b[j - (k + 1)]  BY <1>5
  <2>2. j - (k + 1) \in 1 .. Len(s) - k /\ k + (j - (k + 1)) = j - 1  OBVIOUS
  <2> QED  BY <1>2, <2>1, <2>2
<1> QED  BY <1>5, <1>6, <1>7, <1>8, <1>9

\* The k-th element taken out: those behind it move down.
LEMMA RemoveIs ==
    ASSUME NEW S, NEW s \in Seq(S), NEW k \in 1 .. Len(s)
    PROVE  LET t == RemoveAt(s, k) IN
           /\ t \in Seq(S) /\ Len(t) = Len(s) - 1
           /\ \A j \in 1 .. k - 1 : t[j] = s[j]
           /\ \A j \in k .. Len(s) - 1 : t[j] = s[j + 1]
<1> DEFINE a == SubSeq(s, 1, k - 1)
           b == SubSeq(s, k + 1, Len(s))
           t == a \o b
<1>0. Len(s) \in Nat  OBVIOUS
<1>1. /\ a \in Seq(S) /\ Len(a) = k - 1
      /\ \A i \in 1 .. k - 1 : a[i] = s[i]
  <2>1. /\ a \in Seq(S) /\ Len(a) = (k - 1) - 1 + 1
        /\ \A i \in 1 .. (k - 1) - 1 + 1 : a[i] = s[1 + i - 1]
    BY <1>0, SliceIs
  <2> HIDE DEF a
  <2> QED  BY <2>1
<1>2. /\ b \in Seq(S) /\ Len(b) = Len(s) - k
      /\ \A i \in 1 .. Len(s) - k : b[i] = s[k + i]
  <2>1. /\ b \in Seq(S) /\ Len(b) = Len(s) - (k + 1) + 1
        /\ \A i \in 1 .. Len(s) - (k + 1) + 1 : b[i] = s[(k + 1) + i - 1]
    BY <1>0, SliceIs
  <2> HIDE DEF b
  <2> QED  BY <1>0, <2>1
<1> HIDE DEF a, b
<1>3. /\ t \in Seq(S) /\ Len(t) = Len(s) - 1
      /\ \A i \in 1 .. k - 1 : t[i] = a[i]
      /\ \A i \in (k - 1) + 1 .. Len(s) - 1 : t[i] = b[i - (k - 1)]
  <2> DEFINE n == k - 1
             l == Len(s) - 1
  <2>1. n \in Nat /\ l \in Nat /\ Len(a) = n /\ Len(a) + Len(b) = l
    BY <1>0, <1>1, <1>2
  <2> HIDE DEF n, l
  <2>3. a \in Seq(S) /\ b \in Seq(S)  BY <1>1, <1>2
  <2>2. /\ a \o b \in Seq(S) /\ Len(a \o b) = l
        /\ \A i \in 1 .. n : (a \o b)[i] = a[i]
        /\ \A i \in n + 1 .. l : (a \o b)[i] = b[i - n]
    BY <2>1, <2>3, SMTT(40)
  <2> QED  BY <2>2, Zenon DEF n, l
<1>4. t = RemoveAt(s, k)  BY DEF RemoveAt, a, b
<1> HIDE DEF t
<1>5. \A j \in 1 .. k - 1 : t[j] = s[j]  BY <1>1, <1>3
<1>6. \A j \in k .. Len(s) - 1 : t[j] = s[j + 1]
  <2> TAKE j \in k .. Len(s) - 1
  <2>0. j \in (k - 1) + 1 .. Len(s) - 1  OBVIOUS
  <2>1. t[j] = b[j - (k - 1)]  BY <1>3, <2>0, Zenon
  <2>2. j - (k - 1) \in 1 .. Len(s) - k /\ k + (j - (k - 1)) = j + 1  OBVIOUS
  <2> QED  BY <1>2, <2>1, <2>2
<1> QED  BY <1>3, <1>4, <1>5, <1>6

-----------------------------------------------------------------------------
(* Sums *)

\* The sums of the first n numbers of s, for every n.
RunningSums(s) ==
    {f \in [0 .. Len(s) -> Int] :
        f[0] = 0 /\ \A n \in 1 .. Len(s) : f[n] = f[n - 1] + s[n]}

\* Every sequence of natural numbers has such sums, natural numbers too.
LEMMA RunningSumsExist ==
    ASSUME NEW s \in Seq(Nat)
    PROVE  \E f \in RunningSums(s) : f \in [0 .. Len(s) -> Nat]
<1> DEFINE R(n) == {f \in [0 .. n -> Nat] :
                      f[0] = 0 /\ \A k \in 1 .. n : f[k] = f[k - 1] + s[k]}
           Good == {n \in 0 .. Len(s) : R(n) # {}}
<1>1. 0 \in Good
  <2>1. [k \in 0 .. 0 |-> 0] \in R(0)  OBVIOUS
  <2> QED  BY <2>1
<1>2. \A n \in 0 .. Len(s) - 1 : n \in Good => n + 1 \in Good
  <2> SUFFICES ASSUME NEW n \in 0 .. Len(s) - 1, NEW f \in R(n)
               PROVE  n + 1 \in Good
    OBVIOUS
  <2> DEFINE g == [k \in 0 .. n + 1 |-> IF k = n + 1 THEN f[n] + s[n + 1] ELSE f[k]]
  <2>1. s[n + 1] \in Nat  OBVIOUS
  <2>2. g \in [0 .. n + 1 -> Nat]  BY <2>1
  <2>3. g[0] = 0  OBVIOUS
  <2>4. \A k \in 1 .. n + 1 : g[k] = g[k - 1] + s[k]
    <3> TAKE k \in 1 .. n + 1
    <3>1. CASE k = n + 1  BY <3>1
    <3>2. CASE k # n + 1
      <4>1. k \in 1 .. n /\ k - 1 \in 0 .. n  BY <3>2
      <4>2. f[k] = f[k - 1] + s[k]  BY <4>1
      <4> QED  BY <3>2, <4>1, <4>2
    <3> QED  BY <3>1, <3>2
  <2>5. g \in R(n + 1)  BY <2>2, <2>3, <2>4
  <2>6. n + 1 \in 0 .. Len(s)  OBVIOUS
  <2> HIDE DEF R, g
  <2> QED  BY <2>5, <2>6
<1>3. Len(s) \in Good
  <2> HIDE DEF Good
  <2>1. Len(s) \in Nat  OBVIOUS
  <2>2. 0 .. Len(s) \subseteq Good  BY <1>1, <1>2, <2>1, InductionUpTo
  <2> QED  BY <2>1, <2>2
<1>4. PICK f \in R(Len(s)) : TRUE  BY <1>3
<1>5. f \in [0 .. Len(s) -> Int]  BY <1>4
<1> QED  BY <1>4, <1>5 DEF RunningSums

\* Total(s) is the last of the sums, whichever function gives them.
LEMMA TotalIs ==
    ASSUME NEW s \in Seq(Nat), NEW f \in RunningSums(s)
    PROVE  Total(s) = f[Len(s)]
<1> DEFINE IsSum(g) == g = [n \in 0 .. Len(s) |-> IF n = 0 THEN 0 ELSE g[n - 1] + s[n]]
           F == CHOOSE g : IsSum(g)
<1>1. IsSum(f)
  <2>1. f \in [0 .. Len(s) -> Int] /\ f[0] = 0
        /\ \A n \in 1 .. Len(s) : f[n] = f[n - 1] + s[n]
    BY DEF RunningSums
  <2>2. \A n \in 0 .. Len(s) : f[n] = IF n = 0 THEN 0 ELSE f[n - 1] + s[n]
    BY <2>1
  <2> QED  BY <2>1, <2>2
<1>2. IsSum(F)  BY <1>1
<1>3. Total(s) = F[Len(s)]  BY DEF Total
<1> HIDE DEF F
<1>4. \A n \in 0 .. Len(s) : F[n] = IF n = 0 THEN 0 ELSE F[n - 1] + s[n]
  BY <1>2
<1>5. \A n \in 0 .. Len(s) : f[n] = IF n = 0 THEN 0 ELSE f[n - 1] + s[n]
  BY <1>1
<1> DEFINE Same == {n \in 0 .. Len(s) : F[n] = f[n]}
<1>6. 0 \in Same  BY <1>4, <1>5
<1>7. \A n \in 0 .. Len(s) - 1 : n \in Same => n + 1 \in Same
  <2> TAKE n \in 0 .. Len(s) - 1
  <2>1. n + 1 \in 0 .. Len(s) /\ n + 1 # 0 /\ (n + 1) - 1 = n  OBVIOUS
  <2>2. F[n + 1] = F[n] + s[n + 1]  BY <1>4, <2>1
  <2>3. f[n + 1] = f[n] + s[n + 1]  BY <1>5, <2>1
  <2> QED  BY <2>1, <2>2, <2>3
<1> HIDE DEF Same
<1>8. Len(s) \in Same
  <2>1. Len(s) \in Nat  OBVIOUS
  <2>2. 0 .. Len(s) \subseteq Same  BY <1>6, <1>7, <2>1, InductionUpTo
  <2> QED  BY <2>1, <2>2
<1> QED  BY <1>3, <1>8 DEF Same

\* The sum of natural numbers is one, and of none it is 0.
LEMMA TotalType ==
    ASSUME NEW s \in Seq(Nat)
    PROVE  Total(s) \in Nat /\ (s = <<>> => Total(s) = 0)
<1>1. PICK f \in RunningSums(s) : f \in [0 .. Len(s) -> Nat]  BY RunningSumsExist
<1>2. Total(s) = f[Len(s)]  BY TotalIs
<1> QED  BY <1>1, <1>2 DEF RunningSums

\* Replacing one number changes the sum by the difference.
LEMMA TotalChange ==
    ASSUME NEW s \in Seq(Nat), NEW t \in Seq(Nat), Len(t) = Len(s),
           NEW i \in 1 .. Len(s), \A j \in 1 .. Len(s) : j # i => t[j] = s[j]
    PROVE  Total(t) = Total(s) - s[i] + t[i]
<1>1. PICK f \in RunningSums(s) : f \in [0 .. Len(s) -> Nat]  BY RunningSumsExist
<1>2. f[0] = 0 /\ \A n \in 1 .. Len(s) : f[n] = f[n - 1] + s[n]  BY DEF RunningSums
<1> DEFINE g == [n \in 0 .. Len(s) |-> IF n < i THEN f[n] ELSE f[n] - s[i] + t[i]]
<1>3. s[i] \in Nat /\ t[i] \in Nat  OBVIOUS
<1>4. g \in [0 .. Len(t) -> Int] /\ g[0] = 0  BY <1>1, <1>2, <1>3
<1>5. \A n \in 1 .. Len(t) : g[n] = g[n - 1] + t[n]
  <2> TAKE n \in 1 .. Len(t)
  <2>1. n \in 1 .. Len(s) /\ n - 1 \in 0 .. Len(s) /\ n \in 0 .. Len(s) /\ s[n] \in Nat
    OBVIOUS
  <2>2. f[n] = f[n - 1] + s[n] /\ f[n] \in Nat /\ f[n - 1] \in Nat  BY <1>1, <1>2, <2>1
  <2>6. /\ g[n] = IF n < i THEN f[n] ELSE f[n] - s[i] + t[i]
        /\ g[n - 1] = IF n - 1 < i THEN f[n - 1] ELSE f[n - 1] - s[i] + t[i]
    BY <2>1
  <2>7. n # i => t[n] = s[n]  BY <2>1
  <2> HIDE DEF g
  <2> DEFINE a == f[n]
             b == f[n - 1]
             c == s[n]
             u == t[n]
             x == s[i]
             y == t[i]
  <2>8. /\ a \in Int /\ b \in Int /\ c \in Int /\ u \in Int /\ x \in Int /\ y \in Int
        /\ a = b + c
        /\ n # i => u = c
        /\ n = i => x = c /\ y = u
        /\ g[n] = IF n < i THEN a ELSE a - x + y
        /\ g[n - 1] = IF n - 1 < i THEN b ELSE b - x + y
    <3>1. a \in Int /\ b \in Int /\ a = b + c  BY <2>2
    <3>2. c \in Int  BY <2>1
    <3>3. u \in Int  OBVIOUS
    <3>4. x \in Int /\ y \in Int  BY <1>3
    <3>5. (n # i => u = c) /\ (n = i => x = c /\ y = u)  BY <2>7
    <3> QED  BY <2>6, <3>1, <3>2, <3>3, <3>4, <3>5, Zenon
  <2> HIDE DEF a, b, c, u, x, y
  <2>9. g[n] = g[n - 1] + u
    <3>1. n \in Int /\ i \in Int  BY <2>1
    <3>2. CASE n < i  BY <2>8, <3>1, <3>2, SMTT(40)
    <3>3. CASE n = i  BY <2>8, <3>1, <3>3
    <3>4. CASE n > i  BY <2>8, <3>1, <3>4
    <3> QED  BY <3>1, <3>2, <3>3, <3>4
  <2> QED  BY <2>9 DEF u
<1>6. g \in RunningSums(t)  BY <1>4, <1>5 DEF RunningSums
<1>7. Total(s) = f[Len(s)] /\ Total(t) = g[Len(t)]  BY <1>6, TotalIs
<1> QED  BY <1>3, <1>7

\* Putting a number in adds it to the sum.
LEMMA TotalInsert ==
    ASSUME NEW s \in Seq(Nat), NEW t \in Seq(Nat), Len(t) = Len(s) + 1,
           NEW k \in 0 .. Len(s),
           \A j \in 1 .. k : t[j] = s[j],
           \A j \in k + 2 .. Len(s) + 1 : t[j] = s[j - 1]
    PROVE  Total(t) = Total(s) + t[k + 1]
<1>1. PICK f \in RunningSums(s) : f \in [0 .. Len(s) -> Nat]  BY RunningSumsExist
<1>2. f[0] = 0 /\ \A n \in 1 .. Len(s) : f[n] = f[n - 1] + s[n]  BY DEF RunningSums
<1> DEFINE x == t[k + 1]
           g == [n \in 0 .. Len(s) + 1 |-> IF n <= k THEN f[n] ELSE f[n - 1] + x]
<1>3. x \in Nat  OBVIOUS
<1> HIDE DEF x
<1>4. g \in [0 .. Len(t) -> Int] /\ g[0] = 0
  <2>1. \A n \in 0 .. Len(s) + 1 : (n <= k => n \in 0 .. Len(s)) /\ (~(n <= k) => n - 1 \in 0 .. Len(s))
    OBVIOUS
  <2> QED  BY <1>1, <1>2, <1>3, <2>1
<1>5. \A n \in 1 .. Len(t) : g[n] = g[n - 1] + t[n]
  <2> TAKE n \in 1 .. Len(t)
  <2>1. n - 1 \in 0 .. Len(s) + 1 /\ n \in 0 .. Len(s) + 1  OBVIOUS
  <2>2. CASE n <= k
    <3>1. t[n] = s[n] /\ n \in 1 .. Len(s) /\ n - 1 \in 0 .. Len(s)  BY <2>2
    <3>2. f[n] = f[n - 1] + s[n]  BY <1>2, <3>1
    <3> QED  BY <2>1, <2>2, <3>1, <3>2
  <2>3. CASE n = k + 1
    <3>1. g[n] = f[k] + x /\ g[n - 1] = f[k]  BY <2>1, <2>3
    <3> QED  BY <2>3, <3>1 DEF x
  <2>4. CASE n > k + 1
    <3>1. n \in k + 2 .. Len(s) + 1 /\ n - 1 \in 1 .. Len(s)  BY <2>4
    <3>2. t[n] = s[n - 1]  BY <3>1
    <3>3. f[n - 1] = f[(n - 1) - 1] + s[n - 1]  BY <1>2, <3>1
    <3>4. g[n] = f[n - 1] + x /\ g[n - 1] = f[(n - 1) - 1] + x  BY <2>1, <2>4
    <3>5. f[(n - 1) - 1] \in Nat /\ s[n - 1] \in Nat
      <4> DEFINE p == (n - 1) - 1
      <4>1. p \in 0 .. Len(s)  BY <3>1, SMTT(40)
      <4> HIDE DEF p
      <4>2. f[p] \in Nat  BY <1>1, <4>1
      <4>3. s[n - 1] \in Nat
        <5> DEFINE q == n - 1
        <5>1. q \in 1 .. Len(s)  BY <3>1
        <5> HIDE DEF q
        <5>2. s[q] \in Nat  BY <5>1
        <5> QED  BY <5>2 DEF q
      <4> QED  BY <4>2, <4>3 DEF p
    <3> QED  BY <1>3, <3>2, <3>3, <3>4, <3>5, SMTT(40)
  <2> QED  BY <2>2, <2>3, <2>4
<1>6. g \in RunningSums(t)  BY <1>4, <1>5 DEF RunningSums
<1>7. Total(s) = f[Len(s)] /\ Total(t) = g[Len(t)]  BY <1>6, TotalIs
<1>8. g[Len(t)] = f[Len(s)] + x
  <2>1. Len(s) + 1 \in 0 .. Len(s) + 1 /\ (Len(s) + 1) - 1 = Len(s) /\ ~(Len(s) + 1 <= k)
    OBVIOUS
  <2> QED  BY <2>1
<1> QED  BY <1>7, <1>8 DEF x

\* Taking a number out takes it off the sum.
LEMMA TotalRemove ==
    ASSUME NEW s \in Seq(Nat), NEW t \in Seq(Nat), Len(t) = Len(s) - 1,
           NEW k \in 1 .. Len(s),
           \A j \in 1 .. k - 1 : t[j] = s[j],
           \A j \in k .. Len(s) - 1 : t[j] = s[j + 1]
    PROVE  Total(t) = Total(s) - s[k] /\ s[k] <= Total(s)
<1>1. Len(s) = Len(t) + 1 /\ k - 1 \in 0 .. Len(t) /\ (k - 1) + 1 = k
  OBVIOUS
<1>2. \A j \in (k - 1) + 2 .. Len(t) + 1 : s[j] = t[j - 1]
  <2> TAKE j \in (k - 1) + 2 .. Len(t) + 1
  <2>1. j - 1 \in k .. Len(s) - 1 /\ (j - 1) + 1 = j  OBVIOUS
  <2> QED  BY <2>1
<1>3. Total(s) = Total(t) + s[(k - 1) + 1]
  <2>1. \A j \in 1 .. k - 1 : s[j] = t[j]  OBVIOUS
  <2> QED  BY <1>1, <1>2, <2>1, TotalInsert
<1>4. Total(t) \in Nat /\ s[k] \in Nat  BY TotalType
<1> QED  BY <1>1, <1>3, <1>4

-----------------------------------------------------------------------------
(* Sizes and addresses *)

\* What the assumption says of each constant.
LEMMA Constants ==
    /\ PageSize \in Nat \ {0} /\ PageCount \in Nat \ {0} /\ MajorSize \in Nat \ {0}
    /\ MinorSize \in Nat \ {0} /\ Alignment \in Nat \ {0} /\ UintLimit \in Nat \ {0}
    /\ HeapPages \subseteq Nat \ {0} /\ Requests \subseteq Nat /\ Sanitized \in BOOLEAN
  BY HeapConstants DEF HeapConstants

\* An unsigned int holds what is below its limit as it is.
LEMMA AsUintIs ==
    ASSUME NEW n \in Nat, n < UintLimit
    PROVE  AsUint(n) = n
<1>1. UintLimit \in Nat \ {0}  BY Constants
<1>2. n \in 0 .. UintLimit - 1  BY <1>1
<1>3. (0 * UintLimit + n) % UintLimit = n  BY <1>1, <1>2, DivModUnique
<1>4. 0 * UintLimit + n = n  BY <1>1, SMT
<1> QED  BY <1>3, <1>4 DEF AsUint

\* ALIGN goes up, by less than the alignment, to a multiple of it.
LEMMA AlignUpIs ==
    ASSUME NEW n \in Nat
    PROVE  /\ AlignUp(n) \in Nat
           /\ n <= AlignUp(n) /\ AlignUp(n) <= n + Alignment - 1
           /\ \E q \in Nat : AlignUp(n) = q * Alignment
<1> DEFINE x == n + Alignment - 1
           q == x \div Alignment
           rest == x % Alignment
<1>1. Alignment \in Nat \ {0}  BY Constants
<1>2. x \in Nat  BY <1>1
<1>3. q \in Nat /\ rest \in 0 .. Alignment - 1 /\ x = q * Alignment + rest
  BY <1>1, <1>2, DivMod
<1>4. AlignUp(n) = q * Alignment  BY DEF AlignUp
<1> HIDE DEF q, rest
<1>5. q * Alignment \in Nat  BY <1>1, <1>3, SMT
<1>6. n + Alignment - 1 = q * Alignment + rest  BY <1>3
<1> QED  BY <1>1, <1>3, <1>4, <1>5, <1>6

\* allocate_new_page obtains whole pages, enough for the two headers and the
\* block, and their bytes fit an unsigned int.
LEMMA PagesForIs ==
    ASSUME NEW r \in Requests
    PROVE  /\ r \in Nat /\ SizeFor(r) \in Nat /\ SizeFor(r) = r + 2 * Alignment
           /\ SizeFor(r) + MajorSize + MinorSize < UintLimit
           /\ PagesFor(SizeFor(r)) \in Nat \ {0}
           /\ PagesFor(SizeFor(r)) * PageSize \in Nat
           /\ SizeFor(r) + MajorSize + MinorSize <= PagesFor(SizeFor(r)) * PageSize
           /\ PagesFor(SizeFor(r)) * PageSize < UintLimit
<1> DEFINE need == SizeFor(r) + MajorSize + MinorSize
           x == need + PageSize - 1
           q == x \div PageSize
           rest == x % PageSize
           n == PagesFor(SizeFor(r))
<1>1. /\ PageSize \in Nat \ {0} /\ PageCount \in Nat \ {0} /\ MajorSize \in Nat \ {0}
      /\ MinorSize \in Nat \ {0} /\ Alignment \in Nat \ {0} /\ UintLimit \in Nat \ {0}
      /\ r \in Nat
  BY Constants
<1>2. SizeFor(r) = r + 2 * Alignment /\ SizeFor(r) \in Nat  BY <1>1 DEF SizeFor
<1> DEFINE half == UintLimit \div 2
           least == PageCount * PageSize
<1>3. half \in Nat /\ 2 * half <= UintLimit
  <2>1. half \in Nat /\ UintLimit = half * 2 + (UintLimit % 2) /\ UintLimit % 2 \in 0 .. 1
    BY <1>1, DivMod
  <2> HIDE DEF half
  <2> QED  BY <1>1, <2>1
<1>4. least \in Nat /\ PageSize <= least
  <2>1. 1 <= PageCount  BY <1>1
  <2>2. 1 * PageSize <= PageCount * PageSize  BY <1>1, <2>1, TimesMonotone
  <2>3. 1 * PageSize = PageSize /\ PageCount * PageSize \in Nat  BY <1>1, SMT
  <2> QED  BY <2>2, <2>3
<1>5. r + 2 * Alignment + MajorSize + MinorSize + least < half
  BY HeapConstants DEF HeapConstants
<1> HIDE DEF half, least
<1>6. need \in Nat /\ need + least < half  BY <1>1, <1>2, <1>4, <1>5
<1>7. need < UintLimit /\ SizeFor(r) < UintLimit  BY <1>1, <1>2, <1>3, <1>4, <1>6
<1>8. AsUint(SizeFor(r)) = SizeFor(r)  BY <1>2, <1>7, AsUintIs
<1>9. AsUint(AsUint(SizeFor(r)) + MajorSize + MinorSize) = need
  BY <1>6, <1>7, <1>8, AsUintIs
<1>10. n = Max({PageCount, q})  BY <1>9 DEF PagesFor
<1>11. q \in Nat /\ rest \in 0 .. PageSize - 1 /\ x = q * PageSize + rest /\ x \in Nat
  <2>1. x \in Nat  BY <1>1, <1>6
  <2> QED  BY <1>1, <2>1, DivMod
<1> HIDE DEF q, rest
<1>12. n \in {PageCount, q} /\ n >= PageCount /\ n >= q  BY <1>1, <1>10, <1>11, MaxOfTwo
<1> HIDE DEF n
<1>13. n \in Nat \ {0}  BY <1>1, <1>11, <1>12
<1>14. n * PageSize \in Nat /\ q * PageSize \in Nat  BY <1>1, <1>11, <1>13, SMT
<1>15. need <= q * PageSize /\ q * PageSize <= need + PageSize - 1
  BY <1>1, <1>6, <1>11, <1>14
<1>16. q * PageSize <= n * PageSize  BY <1>1, <1>11, <1>12, <1>13, TimesMonotone
<1>17. n * PageSize < UintLimit
  <2>1. CASE n = q  BY <1>1, <1>3, <1>4, <1>6, <1>14, <1>15, <2>1
  <2>2. CASE n = PageCount
    <3>1. n * PageSize = least  BY <2>2 DEF least
    <3> QED  BY <1>3, <1>4, <1>6, <3>1, <1>1
  <2> QED  BY <1>12, <2>1, <2>2
<1>18. need <= n * PageSize  BY <1>6, <1>14, <1>15, <1>16
<1> QED  BY <1>1, <1>2, <1>7, <1>13, <1>14, <1>17, <1>18 DEF n

\* A major's pages: as many as it has, from the page it starts at.
LEMMA PagesFromIs ==
    ASSUME NEW p \in Nat, NEW n \in Nat
    PROVE  PagesFrom(p * PageSize, n) = p .. p + n - 1
<1>1. PageSize \in Nat \ {0} /\ 0 \in 0 .. PageSize - 1  BY Constants
<1>2. (p * PageSize + 0) \div PageSize = p  BY <1>1, DivModUnique
<1>3. p * PageSize + 0 = p * PageSize
  <2>1. p * PageSize \in Nat  BY <1>1, SMT
  <2> QED  BY <2>1
<1> QED  BY <1>2, <1>3 DEF PagesFrom

-----------------------------------------------------------------------------
(* The sums over lists *)

\* What the minors of a list take, headers included.
LEMMA TakenType ==
    ASSUME NEW s \in Seq(MinorType)
    PROVE  /\ Taken(s) \in Seq(Nat) /\ Len(Taken(s)) = Len(s)
           /\ \A j \in 1 .. Len(s) : Taken(s)[j] = s[j].size + MinorSize
<1>1. Len(s) \in Nat /\ DOMAIN s = 1 .. Len(s) /\ MinorSize \in Nat  BY Constants
<1>2. \A j \in 1 .. Len(s) : s[j].size + MinorSize \in Nat
  <2>1. \A j \in 1 .. Len(s) : s[j] \in MinorType  OBVIOUS
  <2> QED  BY <1>1, <2>1 DEF MinorType
<1>3. Taken(s) = [j \in 1 .. Len(s) |-> s[j].size + MinorSize]  BY <1>1 DEF Taken
<1> QED  BY <1>1, <1>2, <1>3

\* The sizes of the elements of a list.
LEMMA SizesType ==
    ASSUME NEW S, NEW s \in Seq(S), \A x \in S : x.size \in Nat
    PROVE  /\ Sizes(s) \in Seq(Nat) /\ Len(Sizes(s)) = Len(s)
           /\ \A j \in 1 .. Len(s) : Sizes(s)[j] = s[j].size
<1>1. Len(s) \in Nat /\ DOMAIN s = 1 .. Len(s)  OBVIOUS
<1>2. \A j \in 1 .. Len(s) : s[j].size \in Nat
  <2>1. \A j \in 1 .. Len(s) : s[j] \in S  OBVIOUS
  <2> QED  BY <2>1
<1>3. Sizes(s) = [j \in 1 .. Len(s) |-> s[j].size]  BY <1>1 DEF Sizes
<1> QED  BY <1>1, <1>2, <1>3

-----------------------------------------------------------------------------
(* A list of minors in address order *)

\* Where the gap behind the first k minors starts and ends, in a major of size
\* bytes.
Start(s, k) == IF k = 0 THEN MajorSize ELSE BlockEnd(s[k])
End(s, k, size) == IF k = Len(s) THEN size ELSE s[k + 1].at

InOrder(s, size) == \A k \in 0 .. Len(s) : Start(s, k) <= End(s, k, size)

\* The gaps of a major are those of its list.
LEMMA GapIs ==
    ASSUME NEW m, NEW k
    PROVE  GapStart(m, k) = Start(m.minors, k) /\ GapEnd(m, k) = End(m.minors, k, m.size)
  BY DEF GapStart, GapEnd, Start, End

\* A minor of a list, and where its block ends.
LEMMA MinorIs ==
    ASSUME NEW s \in Seq(MinorType), NEW k \in 1 .. Len(s)
    PROVE  /\ s[k] \in MinorType
           /\ s[k].at \in Nat /\ s[k].size \in Nat /\ s[k].req \in Nat
           /\ BlockEnd(s[k]) = s[k].at + MinorSize + s[k].size
           /\ BlockEnd(s[k]) \in Nat
           /\ Start(s, k) = BlockEnd(s[k])
<1>1. s[k] \in MinorType  OBVIOUS
<1>2. MinorSize \in Nat  BY Constants
<1> QED  BY <1>1, <1>2 DEF MinorType, BlockEnd, Start

\* Where gaps start and end are natural numbers.
LEMMA StartType ==
    ASSUME NEW s \in Seq(MinorType), NEW k \in 0 .. Len(s), NEW size \in Nat
    PROVE  Start(s, k) \in Nat /\ End(s, k, size) \in Nat
<1>1. MajorSize \in Nat  BY Constants
<1>2. Start(s, k) \in Nat
  <2>1. CASE k = 0  BY <1>1, <2>1 DEF Start
  <2>2. CASE k # 0  BY <2>2, MinorIs
  <2> QED  BY <2>1, <2>2
<1>3. End(s, k, size) \in Nat
  <2>1. CASE k = Len(s)  BY <2>1 DEF End
  <2>2. CASE k # Len(s)
    <3>1. k + 1 \in 1 .. Len(s)  BY <2>2
    <3>2. s[k + 1].at \in Nat  BY <3>1, MinorIs
    <3> QED  BY <2>2, <3>2 DEF End
  <2> QED  BY <2>1, <2>2
<1> QED  BY <1>2, <1>3

\* A block put in a gap that holds it: the list stays in order.
LEMMA InsertInOrder ==
    ASSUME NEW s \in Seq(MinorType), NEW size \in Nat, InOrder(s, size),
           NEW k \in 0 .. Len(s), NEW b \in MinorType,
           b.at = Start(s, k), BlockEnd(b) <= End(s, k, size)
    PROVE  InOrder(InsertAt(s, k + 1, b), size)
<1> DEFINE t == InsertAt(s, k + 1, b)
<1>1. /\ t \in Seq(MinorType) /\ Len(t) = Len(s) + 1 /\ t[k + 1] = b
      /\ \A j \in 1 .. k : t[j] = s[j]
      /\ \A j \in k + 2 .. Len(s) + 1 : t[j] = s[j - 1]
  <2>1. t \in Seq(MinorType)  BY InsertIs
  <2>2. Len(t) = Len(s) + 1  BY InsertIs
  <2>3. t[k + 1] = b  BY InsertIs
  <2>4. \A j \in 1 .. k : t[j] = s[j]  BY InsertIs
  <2>5. \A j \in k + 2 .. Len(s) + 1 : t[j] = s[j - 1]  BY InsertIs
  <2> QED BY <2>1, <2>2, <2>3, <2>4, <2>5
<1> HIDE DEF t
<1>2. Len(s) \in Nat  OBVIOUS
<1>3. ASSUME NEW j \in 0 .. Len(t)
      PROVE  Start(t, j) <= End(t, j, size)
  <2>1. CASE j < k
    <3>1. j \in 0 .. Len(s) /\ j # Len(s) /\ j # Len(t) /\ j + 1 \in 1 .. k  BY <1>1, <1>2, <2>1
    <3>2. t[j + 1] = s[j + 1]  BY <1>1, <3>1
    <3>3. End(t, j, size) = End(s, j, size)  BY <3>1, <3>2 DEF End
    <3>4. Start(t, j) = Start(s, j)
      <4>1. CASE j = 0  BY <4>1 DEF Start
      <4>2. CASE j # 0
        <5>1. j \in 1 .. k  BY <1>2, <2>1, <4>2
        <5>2. t[j] = s[j]  BY <1>1, <5>1
        <5> QED  BY <4>2, <5>2 DEF Start
      <4> QED  BY <4>1, <4>2
    <3> QED  BY <3>1, <3>3, <3>4 DEF InOrder
  <2>2. CASE j = k
    <3>1. End(t, j, size) = b.at  BY <1>1, <1>2, <2>2 DEF End
    <3>2. Start(t, j) = Start(s, j)
      <4>1. CASE j = 0  BY <4>1 DEF Start
      <4>2. CASE j # 0
        <5>1. j \in 1 .. k  BY <1>2, <2>2, <4>2
        <5>2. t[j] = s[j]  BY <1>1, <5>1
        <5> QED  BY <4>2, <5>2 DEF Start
      <4> QED  BY <4>1, <4>2
    <3>3. b.at \in Nat  BY DEF MinorType
    <3> QED  BY <2>2, <3>1, <3>2, <3>3
  <2>3. CASE j = k + 1
    <3>1. Start(t, j) = BlockEnd(b)  BY <1>1, <1>2, <2>3 DEF Start
    <3>2. End(t, j, size) = End(s, k, size)
      <4>1. CASE k = Len(s)  BY <1>1, <2>3, <4>1 DEF End
      <4>2. CASE k # Len(s)
        <5>1. k + 2 \in k + 2 .. Len(s) + 1 /\ j + 1 = k + 2 /\ (k + 2) - 1 = k + 1
              /\ j # Len(t)
          BY <1>1, <1>2, <2>3, <4>2
        <5>2. t[k + 2] = s[(k + 2) - 1]  BY <1>1, <5>1
        <5>3. t[j + 1] = s[k + 1]  BY <5>1, <5>2
        <5> QED  BY <4>2, <5>1, <5>3 DEF End
      <4> QED  BY <4>1, <4>2
    <3> QED  BY <3>1, <3>2
  <2>4. CASE j > k + 1
    <3> DEFINE i == j - 1
    <3>1. i \in 0 .. Len(s) /\ i # 0 /\ j # 0 /\ j \in k + 2 .. Len(s) + 1
      BY <1>1, <1>2, <2>4
    <3>2. t[j] = s[i]  BY <1>1, <3>1
    <3>3. Start(t, j) = Start(s, i)  BY <3>1, <3>2 DEF Start
    <3>4. End(t, j, size) = End(s, i, size)
      <4>1. CASE j = Len(t)
        <5>1. i = Len(s)  BY <1>1, <1>2, <4>1
        <5> QED  BY <4>1, <5>1 DEF End
      <4>2. CASE j # Len(t)
        <5>0. j \in Int /\ k \in Int /\ j <= Len(s) + 1 /\ j # Len(s) + 1
          BY <1>1, <1>2, <4>2
        <5>1. i # Len(s) /\ j + 1 \in k + 2 .. Len(s) + 1 /\ (j + 1) - 1 = i + 1
          BY <1>2, <2>4, <5>0
        <5>2. t[j + 1] = s[(j + 1) - 1]  BY <1>1, <5>1
        <5>3. t[j + 1] = s[i + 1]  BY <5>1, <5>2
        <5> QED  BY <4>2, <5>1, <5>3 DEF End
      <4> QED  BY <4>1, <4>2
    <3> HIDE DEF i
    <3> QED  BY <3>1, <3>3, <3>4 DEF InOrder
  <2> QED  BY <1>2, <2>1, <2>2, <2>3, <2>4
<1> QED  BY <1>3 DEF InOrder, t

\* A block taken out: the gaps before and behind it become one.
LEMMA RemoveInOrder ==
    ASSUME NEW s \in Seq(MinorType), NEW size \in Nat, InOrder(s, size),
           NEW k \in 1 .. Len(s)
    PROVE  InOrder(RemoveAt(s, k), size)
<1> DEFINE t == RemoveAt(s, k)
<1>1. /\ t \in Seq(MinorType) /\ Len(t) = Len(s) - 1
      /\ \A j \in 1 .. k - 1 : t[j] = s[j]
      /\ \A j \in k .. Len(s) - 1 : t[j] = s[j + 1]
  BY RemoveIs
<1> HIDE DEF t
<1>2. Len(s) \in Nat  OBVIOUS
<1>3. ASSUME NEW j \in 0 .. Len(t)
      PROVE  Start(t, j) <= End(t, j, size)
  <2>1. j < k => Start(t, j) = Start(s, j)
    <3> SUFFICES ASSUME j < k PROVE Start(t, j) = Start(s, j)  OBVIOUS
    <3>1. CASE j = 0  BY <3>1 DEF Start
    <3>2. CASE j # 0
      <4>1. j \in 1 .. k - 1  BY <1>2, <3>2
      <4>2. t[j] = s[j]  BY <1>1, <4>1
      <4> QED  BY <3>2, <4>2 DEF Start
    <3> QED  BY <3>1, <3>2
  <2>2. j >= k => Start(t, j) = Start(s, j + 1)
    <3> SUFFICES ASSUME j >= k PROVE Start(t, j) = Start(s, j + 1)  OBVIOUS
    <3>1. j \in k .. Len(s) - 1 /\ j # 0 /\ j + 1 # 0  BY <1>1, <1>2
    <3>2. t[j] = s[j + 1]  BY <1>1, <3>1
    <3> QED  BY <3>1, <3>2 DEF Start
  <2>3. j < k - 1 => End(t, j, size) = End(s, j, size)
    <3> SUFFICES ASSUME j < k - 1 PROVE End(t, j, size) = End(s, j, size)  OBVIOUS
    <3>1. j + 1 \in 1 .. k - 1 /\ j # Len(t) /\ j # Len(s)  BY <1>1, <1>2
    <3>2. t[j + 1] = s[j + 1]  BY <1>1, <3>1
    <3> QED  BY <3>1, <3>2 DEF End
  <2>4. j >= k - 1 => End(t, j, size) = End(s, j + 1, size)
    <3> SUFFICES ASSUME j >= k - 1 PROVE End(t, j, size) = End(s, j + 1, size)  OBVIOUS
    <3>1. CASE j = Len(t)
      <4>1. j + 1 = Len(s)  BY <1>1, <1>2, <3>1
      <4> QED  BY <3>1, <4>1 DEF End
    <3>2. CASE j # Len(t)
      <4>1. j + 1 \in k .. Len(s) - 1 /\ j + 1 # Len(s)  BY <1>1, <1>2, <3>2
      <4>2. t[j + 1] = s[(j + 1) + 1]  BY <1>1, <4>1
      <4> QED  BY <3>2, <4>1, <4>2 DEF End
    <3> QED  BY <3>1, <3>2
  <2>5. j \in 0 .. Len(s) /\ j + 1 \in 0 .. Len(s)  BY <1>1, <1>2
  <2>6. Start(s, j) <= End(s, j, size) /\ Start(s, j + 1) <= End(s, j + 1, size)
    BY <2>5 DEF InOrder
  <2>7. j = k - 1 => Start(s, j) <= Start(s, j + 1)
    <3> SUFFICES ASSUME j = k - 1 PROVE Start(s, j) <= Start(s, j + 1)  OBVIOUS
    <3>1. End(s, j, size) = s[k].at  BY <1>2 DEF End
    <3>2. Start(s, j + 1) = BlockEnd(s[k])  BY <1>2 DEF Start
    <3>3. s[k].at \in Nat /\ s[k].size \in Nat /\ BlockEnd(s[k]) = s[k].at + MinorSize + s[k].size
      BY MinorIs
    <3>4. MinorSize \in Nat  BY Constants
    <3>5. Start(s, j) \in Nat  BY <2>5, StartType
    <3> QED  BY <2>6, <3>1, <3>2, <3>3, <3>4, <3>5, SMTT(40)
  <2>8. /\ Start(s, j) \in Nat /\ Start(s, j + 1) \in Nat
        /\ End(s, j, size) \in Nat /\ End(s, j + 1, size) \in Nat
    BY <2>5, StartType
  <2>9. CASE j < k - 1  BY <1>2, <2>1, <2>3, <2>6, <2>9
  <2>10. CASE j = k - 1  BY <1>2, <2>1, <2>4, <2>6, <2>7, <2>8, <2>10
  <2>11. CASE j > k - 1  BY <1>2, <2>2, <2>4, <2>6, <2>11
  <2> QED  BY <1>2, <2>9, <2>10, <2>11
<1> QED  BY <1>3 DEF InOrder, t

\* A change that moves and sizes no block: the list stays in order.
LEMMA ChangeInOrder ==
    ASSUME NEW s \in Seq(MinorType), NEW t \in Seq(MinorType), NEW size \in Nat,
           InOrder(s, size), Len(t) = Len(s),
           \A j \in 1 .. Len(s) : t[j].at = s[j].at /\ t[j].size = s[j].size
    PROVE  InOrder(t, size)
<1>1. ASSUME NEW j \in 0 .. Len(t)
      PROVE  Start(t, j) = Start(s, j) /\ End(t, j, size) = End(s, j, size)
  <2>1. Start(t, j) = Start(s, j)
    <3>1. CASE j = 0  BY <3>1 DEF Start
    <3>2. CASE j # 0
      <4>1. j \in 1 .. Len(s)  BY <3>2
      <4>2. t[j].at = s[j].at /\ t[j].size = s[j].size  BY <4>1
      <4> QED  BY <3>2, <4>2 DEF Start, BlockEnd
    <3> QED  BY <3>1, <3>2
  <2>2. End(t, j, size) = End(s, j, size)
    <3>1. CASE j = Len(s)  BY <3>1 DEF End
    <3>2. CASE j # Len(s)
      <4>1. j + 1 \in 1 .. Len(s)  BY <3>2
      <4>2. t[j + 1].at = s[j + 1].at  BY <4>1
      <4> QED  BY <3>2, <4>2 DEF End
    <3> QED  BY <3>1, <3>2
  <2> QED  BY <2>1, <2>2
<1> QED  BY <1>1 DEF InOrder

\* In an ordered list no block starts before the major's header or ends behind
\* the major, and of two blocks the first ends before the second.
LEMMA BlocksInOrder ==
    ASSUME NEW s \in Seq(MinorType), NEW size \in Nat, InOrder(s, size),
           NEW i \in 1 .. Len(s)
    PROVE  /\ MajorSize <= s[i].at /\ BlockEnd(s[i]) <= size
           /\ \A j \in i + 1 .. Len(s) : BlockEnd(s[i]) <= s[j].at
<1>1. Len(s) \in Nat /\ MajorSize \in Nat /\ MinorSize \in Nat  BY Constants
<1>2. \A j \in 1 .. Len(s) : s[j].at \in Nat /\ BlockEnd(s[j]) \in Nat /\ s[j].at <= BlockEnd(s[j])
  BY <1>1, MinorIs, SMTT(40)
<1>3. \A j \in 1 .. Len(s) - 1 : BlockEnd(s[j]) <= s[j + 1].at
  <2> TAKE j \in 1 .. Len(s) - 1
  <2>1. j \in 0 .. Len(s) /\ j # 0 /\ j # Len(s)  BY <1>1
  <2> QED  BY <2>1 DEF InOrder, Start, End
<1> DEFINE First == {j \in 0 .. Len(s) - 1 : MajorSize <= s[j + 1].at}
<1>4. MajorSize <= s[i].at
  <2>1. 0 \in First
    <3>1. 0 \in 0 .. Len(s) /\ 0 # Len(s) /\ 0 + 1 = 1 /\ 0 \in 0 .. Len(s) - 1  BY <1>1
    <3> QED  BY <3>1 DEF InOrder, Start, End
  <2>2. \A j \in 0 .. (Len(s) - 1) - 1 : j \in First => j + 1 \in First
    <3> SUFFICES ASSUME NEW j \in 0 .. (Len(s) - 1) - 1, MajorSize <= s[j + 1].at
                 PROVE  j + 1 \in First
      OBVIOUS
    <3>1. j + 1 \in 1 .. Len(s) - 1 /\ j + 1 \in 1 .. Len(s) /\ (j + 1) + 1 \in 1 .. Len(s)
          /\ j + 1 \in 0 .. Len(s) - 1
      BY <1>1
    <3>2. BlockEnd(s[j + 1]) <= s[(j + 1) + 1].at  BY <1>3, <3>1
    <3>3. /\ s[j + 1].at <= BlockEnd(s[j + 1]) /\ s[j + 1].at \in Nat
          /\ BlockEnd(s[j + 1]) \in Nat /\ s[(j + 1) + 1].at \in Nat
      BY <1>2, <3>1
    <3>4. MajorSize <= s[(j + 1) + 1].at  BY <1>1, <3>2, <3>3
    <3> QED  BY <3>1, <3>4
  <2>3. Len(s) - 1 \in Nat  BY <1>1
  <2> HIDE DEF First
  <2>4. 0 .. Len(s) - 1 \subseteq First  BY <2>1, <2>2, <2>3, InductionUpTo
  <2>5. i - 1 \in First /\ (i - 1) + 1 = i  BY <1>1, <2>4
  <2> QED  BY <2>5 DEF First
<1> DEFINE Behind == {d \in 0 .. Len(s) - i : d = 0 \/ BlockEnd(s[i]) <= s[i + d].at}
<1>5. \A j \in i + 1 .. Len(s) : BlockEnd(s[i]) <= s[j].at
  <2>1. 0 \in Behind  BY <1>1
  <2>2. \A d \in 0 .. (Len(s) - i) - 1 : d \in Behind => d + 1 \in Behind
    <3> SUFFICES ASSUME NEW d \in 0 .. (Len(s) - i) - 1, d = 0 \/ BlockEnd(s[i]) <= s[i + d].at
                 PROVE  d + 1 \in Behind
      OBVIOUS
    <3>1. i + d \in 1 .. Len(s) - 1 /\ i + d \in 1 .. Len(s) /\ i + (d + 1) = (i + d) + 1
          /\ (i + d) + 1 \in 1 .. Len(s) /\ d + 1 \in 0 .. Len(s) - i
      BY <1>1
    <3>2. BlockEnd(s[i + d]) <= s[(i + d) + 1].at  BY <1>3, <3>1
    <3>3. /\ s[i + d].at <= BlockEnd(s[i + d]) /\ s[i + d].at \in Nat
          /\ BlockEnd(s[i + d]) \in Nat /\ s[(i + d) + 1].at \in Nat /\ BlockEnd(s[i]) \in Nat
      BY <1>2, <3>1
    <3>4. BlockEnd(s[i]) <= BlockEnd(s[i + d])
      <4>1. CASE d = 0
        <5>1. i + d = i  BY <4>1
        <5> QED  BY <3>3, <5>1
      <4>2. CASE d # 0  BY <3>3, <4>2
      <4> QED  BY <4>1, <4>2
    <3>5. BlockEnd(s[i]) <= s[(i + d) + 1].at  BY <3>2, <3>3, <3>4
    <3> QED  BY <3>1, <3>5
  <2>3. Len(s) - i \in Nat  BY <1>1
  <2> HIDE DEF Behind
  <2>4. 0 .. Len(s) - i \subseteq Behind  BY <2>1, <2>2, <2>3, InductionUpTo
  <2> TAKE j \in i + 1 .. Len(s)
  <2>5. j - i \in Behind /\ j - i # 0 /\ i + (j - i) = j  BY <1>1, <2>4
  <2>6. BlockEnd(s[i]) <= s[i + (j - i)].at  BY <2>5 DEF Behind
  <2> QED  BY <2>5, <2>6
<1>6. BlockEnd(s[i]) <= size
  <2>1. BlockEnd(s[Len(s)]) <= size
    <3>1. Len(s) \in 0 .. Len(s) /\ Len(s) # 0  BY <1>1
    <3> QED  BY <3>1 DEF InOrder, Start, End
  <2>2. CASE i = Len(s)  BY <2>1, <2>2
  <2>3. CASE i # Len(s)
    <3>1. Len(s) \in i + 1 .. Len(s) /\ Len(s) \in 1 .. Len(s)  BY <1>1, <2>3
    <3>2. BlockEnd(s[i]) <= s[Len(s)].at  BY <1>5, <3>1
    <3>3. /\ s[Len(s)].at \in Nat /\ BlockEnd(s[Len(s)]) \in Nat
          /\ s[Len(s)].at <= BlockEnd(s[Len(s)]) /\ BlockEnd(s[i]) \in Nat
      BY <1>2, <3>1
    <3> QED  BY <2>1, <3>2, <3>3
  <2> QED  BY <2>2, <2>3
<1> QED  BY <1>4, <1>5, <1>6

\* The gaps share the bytes the major has left: none is larger than all the
\* free bytes together.
LEMMA GapsAreFree ==
    ASSUME NEW s \in Seq(MinorType), NEW size \in Nat, InOrder(s, size),
           NEW k \in 0 .. Len(s)
    PROVE  End(s, k, size) - Start(s, k) <= size - (MajorSize + Total(Taken(s)))
<1> DEFINE a == Taken(s)
<1>1. Len(s) \in Nat /\ MajorSize \in Nat /\ MinorSize \in Nat  BY Constants
<1>2. a \in Seq(Nat) /\ Len(a) = Len(s) /\ \A j \in 1 .. Len(s) : a[j] = s[j].size + MinorSize
  BY TakenType
<1> HIDE DEF a
<1>3. PICK f \in RunningSums(a) : f \in [0 .. Len(a) -> Nat]  BY <1>2, RunningSumsExist
<1>4. /\ f[0] = 0 /\ \A j \in 0 .. Len(s) : f[j] \in Nat
      /\ \A j \in 1 .. Len(s) : f[j] = f[j - 1] + (s[j].size + MinorSize)
  BY <1>2, <1>3 DEF RunningSums
<1>5. Total(a) = f[Len(s)]  BY <1>2, TotalIs
<1>6. \A j \in 0 .. Len(s) :
         /\ Start(s, j) \in Nat /\ End(s, j, size) \in Nat
         /\ Start(s, j) <= End(s, j, size)
  BY StartType DEF InOrder
<1>7. \A j \in 1 .. Len(s) :
         /\ s[j].at \in Nat /\ s[j].size \in Nat
         /\ Start(s, j) = End(s, j - 1, size) + (s[j].size + MinorSize)
  <2> TAKE j \in 1 .. Len(s)
  <2>1. /\ s[j].at \in Nat /\ s[j].size \in Nat
        /\ Start(s, j) = s[j].at + MinorSize + s[j].size
    BY MinorIs
  <2>2. End(s, j - 1, size) = s[j].at
    <3>1. j - 1 # Len(s) /\ (j - 1) + 1 = j  BY <1>1
    <3> QED  BY <3>1 DEF End
  <2> QED  BY <1>1, <2>1, <2>2
<1> DEFINE Low == {j \in 0 .. Len(s) : MajorSize + f[j] <= Start(s, j)}
<1>8. \A j \in 0 .. Len(s) : MajorSize + f[j] <= Start(s, j)
  <2>1. 0 \in Low
    <3>1. Start(s, 0) = MajorSize  BY DEF Start
    <3> QED  BY <1>1, <1>4, <3>1
  <2>2. \A j \in 0 .. Len(s) - 1 : j \in Low => j + 1 \in Low
    <3> SUFFICES ASSUME NEW j \in 0 .. Len(s) - 1, MajorSize + f[j] <= Start(s, j)
                 PROVE  j + 1 \in Low
      OBVIOUS
    <3> DEFINE i == j + 1
    <3>1. i \in 1 .. Len(s) /\ i \in 0 .. Len(s) /\ j \in 0 .. Len(s) /\ i - 1 = j  BY <1>1
    <3> HIDE DEF i
    <3>2. f[i] = f[j] + (s[i].size + MinorSize)  BY <1>4, <3>1
    <3>3. Start(s, i) = End(s, j, size) + (s[i].size + MinorSize) /\ s[i].size \in Nat
      BY <1>7, <3>1
    <3>4. Start(s, j) <= End(s, j, size) /\ Start(s, j) \in Nat /\ End(s, j, size) \in Nat
      BY <1>6, <3>1
    <3>5. f[j] \in Nat  BY <1>4, <3>1
    <3>6. MajorSize + f[i] <= Start(s, i)
      <4> DEFINE x == s[i].size + MinorSize
                 y == f[j]
      <4>1. x \in Nat /\ f[i] = y + x /\ Start(s, i) = End(s, j, size) + x /\ y \in Nat
        BY <1>1, <3>2, <3>3, <3>5
      <4>2. MajorSize + y <= Start(s, j)  OBVIOUS
      <4> HIDE DEF x, y
      <4> QED  BY <1>1, <3>4, <4>1, <4>2
    <3> QED  BY <3>1, <3>6 DEF i
  <2> HIDE DEF Low
  <2>3. 0 .. Len(s) \subseteq Low  BY <1>1, <2>1, <2>2, InductionUpTo
  <2> QED  BY <2>3 DEF Low
<1> DEFINE High == {d \in 0 .. Len(s) :
                      End(s, Len(s) - d, size) <= size - (f[Len(s)] - f[Len(s) - d])}
<1>9. \A j \in 0 .. Len(s) : End(s, j, size) <= size - (f[Len(s)] - f[j])
  <2>1. 0 \in High
    <3>1. Len(s) - 0 = Len(s) /\ 0 \in 0 .. Len(s) /\ Len(s) \in 0 .. Len(s)  BY <1>1
    <3>2. End(s, Len(s), size) = size  BY DEF End
    <3>3. f[Len(s)] \in Nat  BY <1>4, <3>1
    <3> QED  BY <3>1, <3>2, <3>3
  <2>2. \A d \in 0 .. Len(s) - 1 : d \in High => d + 1 \in High
    <3> SUFFICES ASSUME NEW d \in 0 .. Len(s) - 1,
                        End(s, Len(s) - d, size) <= size - (f[Len(s)] - f[Len(s) - d])
                 PROVE  d + 1 \in High
      OBVIOUS
    <3> DEFINE i == Len(s) - d
               j == Len(s) - (d + 1)
               top == f[Len(s)]
    <3>0. End(s, i, size) <= size - (top - f[i])  OBVIOUS
    <3>1. i \in 1 .. Len(s) /\ i \in 0 .. Len(s) /\ j \in 0 .. Len(s) /\ i - 1 = j
          /\ d + 1 \in 0 .. Len(s) /\ Len(s) \in 0 .. Len(s)
      BY <1>1
    <3> HIDE DEF i, j
    <3>2. f[i] = f[j] + (s[i].size + MinorSize)  BY <1>4, <3>1
    <3>3. Start(s, i) = End(s, j, size) + (s[i].size + MinorSize) /\ s[i].size \in Nat
      BY <1>7, <3>1
    <3>4. /\ Start(s, i) <= End(s, i, size) /\ Start(s, i) \in Nat /\ End(s, i, size) \in Nat
          /\ End(s, j, size) \in Nat
      BY <1>6, <3>1
    <3>5. f[j] \in Nat /\ f[i] \in Nat /\ top \in Nat  BY <1>4, <3>1
    <3> HIDE DEF top
    <3>6. End(s, j, size) <= size - (top - f[j])
      <4> DEFINE x == s[i].size + MinorSize
                 y == f[j]
                 z == f[i]
      <4>1. x \in Nat /\ z = y + x /\ Start(s, i) = End(s, j, size) + x /\ y \in Nat /\ z \in Nat
        BY <1>1, <3>2, <3>3, <3>5
      <4>2. End(s, i, size) <= size - (top - z)  BY <3>0
      <4> HIDE DEF x, y, z
      <4>3. End(s, j, size) <= size - (top - y)  BY <1>1, <3>4, <3>5, <4>1, <4>2
      <4> QED  BY <4>3 DEF y
    <3> QED  BY <3>1, <3>6 DEF j, top
  <2> HIDE DEF High
  <2>3. 0 .. Len(s) \subseteq High  BY <1>1, <2>1, <2>2, InductionUpTo
  <2> TAKE j \in 0 .. Len(s)
  <2> DEFINE d == Len(s) - j
  <2>4. d \in 0 .. Len(s) /\ Len(s) - d = j  BY <1>1
  <2> HIDE DEF d
  <2>5. d \in High  BY <2>3, <2>4
  <2>6. End(s, Len(s) - d, size) <= size - (f[Len(s)] - f[Len(s) - d])
    BY <2>5 DEF High
  <2> QED  BY <2>4, <2>6
<1>10. Len(s) \in 0 .. Len(s)  BY <1>1
<1>11. f[k] \in Nat /\ f[Len(s)] \in Nat  BY <1>4, <1>10
<1>12. /\ MajorSize + f[k] <= Start(s, k)
       /\ End(s, k, size) <= size - (f[Len(s)] - f[k])
       /\ Start(s, k) \in Nat /\ End(s, k, size) \in Nat
  BY <1>6, <1>8, <1>9
<1>13. End(s, k, size) - Start(s, k) <= size - (MajorSize + f[Len(s)])
  BY <1>1, <1>11, <1>12
<1> QED  BY <1>5, <1>13 DEF a

-----------------------------------------------------------------------------
(* One major *)

\* A block's own bytes and its alignment note lie behind its header.
NotesInside(b) ==
    /\ b.at + MinorSize <= UserAt(b) - Alignment
    /\ UserAt(b) + b.req <= BlockEnd(b)

\* What is true of every major at all times.
Sound(m) ==
    /\ m \in MajorType
    /\ m.pages # 0 /\ \E p \in HeapPages : m.base = p * PageSize
    /\ PagesFrom(m.base, m.pages) \subseteq HeapPages
    /\ m.size = m.pages * PageSize /\ m.size < UintLimit
    /\ MajorSize + MinorSize <= m.size
    /\ m.usage = MajorSize + Total(Taken(m.minors)) /\ m.usage <= m.size
    /\ InOrder(m.minors, m.size)
    /\ \A k \in 1 .. Len(m.minors) : NotesInside(m.minors[k])

\* The parts of a sound major.
LEMMA SoundType ==
    ASSUME NEW m, Sound(m)
    PROVE  /\ m.base \in Nat /\ m.pages \in Nat \ {0} /\ m.size \in Nat /\ m.usage \in Nat
           /\ m.minors \in Seq(MinorType) /\ Len(m.minors) \in Nat
           /\ DOMAIN m.minors = 1 .. Len(m.minors)
<1>1. m \in MajorType /\ m.pages # 0  BY DEF Sound
<1> QED  BY <1>1 DEF MajorType

\* The free bytes of a sound major are size less usage, with no wrap.
LEMMA FreeInIs ==
    ASSUME NEW m, Sound(m)
    PROVE  FreeIn(m) = m.size - m.usage
<1>1. m.size \in Nat /\ m.usage \in Nat /\ m.usage <= m.size /\ m.size < UintLimit
  BY SoundType DEF Sound
<1>2. UintLimit \in Nat  BY Constants
<1>3. m.size - m.usage \in Nat /\ m.size - m.usage < UintLimit  BY <1>1, <1>2
<1> QED  BY <1>3, AsUintIs DEF FreeIn

\* A major without blocks uses its own header, no more.
LEMMA EmptyUsage ==
    ASSUME NEW m, Sound(m), m.minors = <<>>
    PROVE  m.usage = MajorSize
<1>1. Taken(m.minors) = <<>>
  BY DEF Taken
<1>2. <<>> \in Seq(Nat)  OBVIOUS
<1>3. Total(Taken(m.minors)) = 0  BY <1>1, <1>2, TotalType, Zenon
<1> QED  BY <1>3, Constants DEF Sound

\* A major that has fewer bytes free than a block and its header take has no
\* gap for it.
LEMMA CrampedHasNoGap ==
    ASSUME NEW m, Sound(m), m.minors # <<>>, NEW size \in Nat,
           FreeIn(m) < size + MinorSize
    PROVE  Fitting(m, size) = {}
<1> SUFFICES ASSUME NEW k \in Fitting(m, size) PROVE FALSE  OBVIOUS
<1>1. /\ m.size \in Nat /\ m.usage \in Nat /\ m.minors \in Seq(MinorType)
      /\ InOrder(m.minors, m.size) /\ m.usage = MajorSize + Total(Taken(m.minors))
  BY SoundType DEF Sound
<1>2. k \in 0 .. Len(m.minors) /\ GapEnd(m, k) - GapStart(m, k) >= size + MinorSize
  BY DEF Fitting
<1>3. GapStart(m, k) = Start(m.minors, k) /\ GapEnd(m, k) = End(m.minors, k, m.size)
  BY GapIs
<1>4. End(m.minors, k, m.size) - Start(m.minors, k) <= m.size - m.usage
  BY <1>1, <1>2, GapsAreFree
<1>5. Start(m.minors, k) \in Nat /\ End(m.minors, k, m.size) \in Nat
  BY <1>1, <1>2, StartType
<1>6. FreeIn(m) = m.size - m.usage  BY FreeInIs
<1>7. MinorSize \in Nat  BY Constants
<1> QED  BY <1>1, <1>2, <1>3, <1>4, <1>5, <1>6, <1>7

\* A major just obtained for a block of r bytes is sound, empty and large enough.
LEMMA NewMajorSound ==
    ASSUME NEW r \in Requests, NEW a \in FreeRuns(PagesFor(SizeFor(r)))
    PROVE  LET n == PagesFor(SizeFor(r))
               m == NewMajor(a, n)
           IN  /\ Sound(m) /\ m.minors = <<>> /\ m.base = a /\ m.pages = n
               /\ m.size = n * PageSize
               /\ FreeIn(m) >= SizeFor(r) + MinorSize
<1> DEFINE n == PagesFor(SizeFor(r))
           m == NewMajor(a, n)
           size == n * PageSize
<1>1. /\ MajorSize \in Nat \ {0} /\ MinorSize \in Nat \ {0} /\ PageSize \in Nat \ {0}
      /\ HeapPages \subseteq Nat \ {0}
  BY Constants
<1>2. /\ SizeFor(r) \in Nat /\ n \in Nat \ {0} /\ size \in Nat
      /\ SizeFor(r) + MajorSize + MinorSize <= size /\ size < UintLimit
  BY PagesForIs
<1>3. /\ \E p \in HeapPages : a = p * PageSize
      /\ PagesFrom(a, n) \subseteq HeapPages
  BY DEF FreeRuns
<1>4. a \in Nat
  <2>1. PICK p \in HeapPages : a = p * PageSize  BY <1>3
  <2>2. p \in Nat /\ p * PageSize \in Nat  BY <1>1, SMT
  <2> QED  BY <2>1, <2>2
<1>5. AsUint(size) = size  BY <1>2, AsUintIs
<1>6. m = [base |-> a, pages |-> n, size |-> size, usage |-> MajorSize, minors |-> <<>>]
  BY <1>5 DEF NewMajor
<1> HIDE DEF n, size, m
<1>7. /\ m.base = a /\ m.pages = n /\ m.size = size /\ m.usage = MajorSize /\ m.minors = <<>>
  BY <1>6
<1>8. m \in MajorType
  <2>1. <<>> \in Seq(MinorType)  OBVIOUS
  <2> QED  BY <1>1, <1>2, <1>4, <1>6, <2>1 DEF MajorType
<1>9. Total(Taken(m.minors)) = 0
  <2>1. Taken(<<>>) = <<>>  BY DEF Taken
  <2>2. <<>> \in Seq(Nat)  OBVIOUS
  <2> QED  BY <1>7, <2>1, <2>2, TotalType, Zenon
<1>10. InOrder(m.minors, m.size)
  <2>1. Len(<<>>) = 0 /\ 0 .. 0 = {0}  OBVIOUS
  <2>2. Start(<<>>, 0) = MajorSize /\ End(<<>>, 0, size) = size  BY <2>1 DEF Start, End
  <2>3. MajorSize <= size  BY <1>1, <1>2
  <2> QED  BY <1>7, <2>1, <2>2, <2>3 DEF InOrder
<1>11. \A k \in 1 .. Len(m.minors) : NotesInside(m.minors[k])  BY <1>7
<1>12. size = n * PageSize  BY DEF size
<1>13. Sound(m)
  <2>1. m.usage = MajorSize + Total(Taken(m.minors))  BY <1>1, <1>7, <1>9
  <2>2. MajorSize + MinorSize <= m.size /\ m.usage <= m.size  BY <1>1, <1>2, <1>7
  <2>3. m.pages # 0 /\ m.size = m.pages * PageSize /\ m.size < UintLimit
    BY <1>2, <1>7, <1>12
  <2> QED  BY <1>3, <1>7, <1>8, <1>10, <1>11, <2>1, <2>2, <2>3 DEF Sound
<1>14. FreeIn(m) = size - MajorSize  BY <1>7, <1>13, FreeInIs
<1>15. FreeIn(m) >= SizeFor(r) + MinorSize  BY <1>1, <1>2, <1>14
<1> QED  BY <1>7, <1>12, <1>13, <1>15 DEF n, m

\* The room ALIGN takes for its note and its rounding is what kmalloc added to
\* the request.
LEMMA NewNotesInside ==
    ASSUME NEW r \in Requests, NEW at \in Nat
    PROVE  NotesInside([at |-> at, size |-> SizeFor(r), req |-> r])
<1> DEFINE b == [at |-> at, size |-> SizeFor(r), req |-> r]
           x == at + MinorSize + Alignment
<1>1. MinorSize \in Nat \ {0} /\ Alignment \in Nat \ {0}  BY Constants
<1>2. r \in Nat /\ SizeFor(r) = r + 2 * Alignment  BY PagesForIs
<1>3. x \in Nat  BY <1>1
<1>4. b.at = at /\ b.size = r + 2 * Alignment /\ b.req = r  BY <1>2
<1>5. UserAt(b) = AlignUp(x)  BY <1>4 DEF UserAt
<1>6. AlignUp(x) \in Nat /\ x <= AlignUp(x) /\ AlignUp(x) <= x + Alignment - 1
  BY <1>3, AlignUpIs
<1>7. BlockEnd(b) = at + MinorSize + (r + 2 * Alignment)  BY <1>4 DEF BlockEnd
<1> HIDE DEF b
<1>8. b.at + MinorSize <= UserAt(b) - Alignment  BY <1>1, <1>4, <1>5, <1>6
<1>9. UserAt(b) + b.req <= BlockEnd(b)  BY <1>1, <1>2, <1>4, <1>5, <1>6, <1>7
<1> QED  BY <1>8, <1>9 DEF NotesInside, b

\* A block placed in a gap that holds it, in a major with room for it.
LEMMA WithBlockSound ==
    ASSUME NEW m, Sound(m), NEW r \in Requests, NEW k \in Fitting(m, SizeFor(r)),
           FreeIn(m) >= SizeFor(r) + MinorSize
    PROVE  LET w == WithBlock(m, k, r, SizeFor(r))
               b == [at |-> GapStart(m, k), size |-> SizeFor(r), req |-> r]
           IN  /\ Sound(w)
               /\ w.base = m.base /\ w.pages = m.pages /\ w.size = m.size
               /\ k \in 0 .. Len(m.minors) /\ b \in MinorType
               /\ w.minors = InsertAt(m.minors, k + 1, b)
               /\ w.minors \in Seq(MinorType) /\ Len(w.minors) = Len(m.minors) + 1
               /\ Total(Sizes(w.minors)) = Total(Sizes(m.minors)) + SizeFor(r)
<1> DEFINE size == SizeFor(r)
           s == m.minors
           b == [at |-> GapStart(m, k), size |-> size, req |-> r]
           w == WithBlock(m, k, r, size)
           t == InsertAt(s, k + 1, b)
<1>1. /\ MajorSize \in Nat \ {0} /\ MinorSize \in Nat \ {0} /\ UintLimit \in Nat \ {0}
      /\ r \in Nat /\ size \in Nat /\ size + MajorSize + MinorSize < UintLimit /\ r <= size
  <2>1. /\ r \in Nat /\ size \in Nat /\ size = r + 2 * Alignment
        /\ size + MajorSize + MinorSize < UintLimit
    BY PagesForIs
  <2> HIDE DEF size
  <2> QED  BY <2>1, Constants
<1>2. /\ m.base \in Nat /\ m.pages \in Nat \ {0} /\ m.size \in Nat /\ m.usage \in Nat
      /\ s \in Seq(MinorType) /\ Len(s) \in Nat
      /\ m.usage <= m.size /\ m.size < UintLimit /\ MajorSize + MinorSize <= m.size
      /\ InOrder(s, m.size) /\ m.usage = MajorSize + Total(Taken(s))
  BY SoundType DEF Sound
<1>3. m.usage + size + MinorSize <= m.size
  <2>1. FreeIn(m) = m.size - m.usage  BY FreeInIs
  <2> HIDE DEF size
  <2>2. FreeIn(m) >= size + MinorSize  BY DEF size
  <2> QED  BY <1>1, <1>2, <2>1, <2>2
<1>4. k \in 0 .. Len(s)  BY DEF Fitting
<1>5. GapStart(m, k) = Start(s, k) /\ GapEnd(m, k) = End(s, k, m.size)  BY GapIs
<1>6. Start(s, k) \in Nat /\ End(s, k, m.size) \in Nat  BY <1>2, <1>4, StartType
<1>7. End(s, k, m.size) - Start(s, k) >= size + MinorSize
  <2>1. CASE s = <<>>
    <3>1. k = 0 /\ Len(s) = 0  BY <1>4, <2>1
    <3>2. Start(s, k) = MajorSize /\ End(s, k, m.size) = m.size  BY <3>1 DEF Start, End
    <3>3. m.usage = MajorSize  BY <2>1, EmptyUsage
    <3> HIDE DEF size
    <3> QED  BY <1>1, <1>2, <1>3, <3>2, <3>3
  <2>2. CASE s # <<>>  BY <1>5, <2>2 DEF Fitting
  <2> QED  BY <2>1, <2>2
<1> HIDE DEF size, s
<1>8. b \in MinorType  BY <1>1, <1>5, <1>6 DEF MinorType
<1>9. b.at = Start(s, k) /\ b.size = size /\ b.req = r /\ BlockEnd(b) = Start(s, k) + MinorSize + size
  BY <1>5 DEF BlockEnd
<1>10. NotesInside(b)
  <2>1. NotesInside([at |-> GapStart(m, k), size |-> SizeFor(r), req |-> r])
    BY <1>5, <1>6, NewNotesInside
  <2> QED  BY <2>1 DEF size
<1>11. w = [m EXCEPT !.minors = t, !.usage = m.usage + size + MinorSize]
  <2>1. AsUint(size) = size
    <3>1. size < UintLimit  BY <1>1
    <3> QED  BY <1>1, <3>1, AsUintIs
  <2>2. AsUint(r) = r
    <3>1. r < UintLimit  BY <1>1
    <3> QED  BY <1>1, <3>1, AsUintIs
  <2>3. AsUint(m.usage + size + MinorSize) = m.usage + size + MinorSize
    <3>1. m.usage + size + MinorSize \in Nat /\ m.usage + size + MinorSize < UintLimit
      BY <1>1, <1>2, <1>3, SMTT(40)
    <3> QED  BY <3>1, AsUintIs
  <2> QED  BY <2>1, <2>2, <2>3 DEF WithBlock, s
<1> HIDE DEF b
<1>12. /\ t \in Seq(MinorType) /\ Len(t) = Len(s) + 1 /\ t[k + 1] = b
       /\ \A j \in 1 .. k : t[j] = s[j]
       /\ \A j \in k + 2 .. Len(s) + 1 : t[j] = s[j - 1]
  <2>1. t \in Seq(MinorType)  BY <1>2, <1>4, <1>8, InsertIs
  <2>2. Len(t) = Len(s) + 1  BY <1>2, <1>4, <1>8, InsertIs
  <2>3. t[k + 1] = b  BY <1>2, <1>4, <1>8, InsertIs
  <2>4. \A j \in 1 .. k : t[j] = s[j]  BY <1>2, <1>4, <1>8, InsertIs
  <2>5. \A j \in k + 2 .. Len(s) + 1 : t[j] = s[j - 1]  BY <1>2, <1>4, <1>8, InsertIs
  <2> QED  BY <2>1, <2>2, <2>3, <2>4, <2>5
<1>13. InOrder(t, m.size)
  <2>1. BlockEnd(b) <= End(s, k, m.size)  BY <1>1, <1>6, <1>7, <1>9
  <2> QED  BY <1>2, <1>4, <1>8, <1>9, <2>1, InsertInOrder
<1> HIDE DEF t
<1>14. Total(Taken(t)) = Total(Taken(s)) + (size + MinorSize)
  <2> DEFINE a == Taken(s)
             c == Taken(t)
  <2>1. a \in Seq(Nat) /\ Len(a) = Len(s) /\ \A j \in 1 .. Len(s) : a[j] = s[j].size + MinorSize
    BY <1>2, TakenType
  <2>2. c \in Seq(Nat) /\ Len(c) = Len(t) /\ \A j \in 1 .. Len(t) : c[j] = t[j].size + MinorSize
    BY <1>12, TakenType
  <2> HIDE DEF a, c
  <2>3. Len(c) = Len(a) + 1 /\ k \in 0 .. Len(a)  BY <1>4, <1>12, <2>1, <2>2
  <2>4. \A j \in 1 .. k : c[j] = a[j]
    <3> TAKE j \in 1 .. k
    <3>1. j \in 1 .. Len(s) /\ j \in 1 .. Len(t)  BY <1>2, <1>4, <1>12
    <3> QED  BY <1>12, <2>1, <2>2, <3>1
  <2>5. \A j \in k + 2 .. Len(a) + 1 : c[j] = a[j - 1]
    <3> TAKE j \in k + 2 .. Len(a) + 1
    <3>1. j - 1 \in 1 .. Len(s) /\ j \in 1 .. Len(t) /\ j \in k + 2 .. Len(s) + 1
      BY <1>2, <1>4, <1>12, <2>1
    <3>2. t[j] = s[j - 1]  BY <1>12, <3>1
    <3>3. c[j] = t[j].size + MinorSize /\ a[j - 1] = s[j - 1].size + MinorSize
      BY <2>1, <2>2, <3>1
    <3> QED  BY <3>2, <3>3
  <2>6. Total(c) = Total(a) + c[k + 1]  BY <2>1, <2>2, <2>3, <2>4, <2>5, TotalInsert
  <2>7. c[k + 1] = size + MinorSize
    <3>1. k + 1 \in 1 .. Len(t)  BY <1>2, <1>4, <1>12
    <3> QED  BY <1>9, <1>12, <2>2, <3>1
  <2> QED  BY <2>6, <2>7 DEF a, c
<1>15. Total(Sizes(t)) = Total(Sizes(s)) + size
  <2> DEFINE a == Sizes(s)
             c == Sizes(t)
  <2>0. \A x \in MinorType : x.size \in Nat  BY DEF MinorType
  <2>1. a \in Seq(Nat) /\ Len(a) = Len(s) /\ \A j \in 1 .. Len(s) : a[j] = s[j].size
    BY <1>2, <2>0, SizesType
  <2>2. c \in Seq(Nat) /\ Len(c) = Len(t) /\ \A j \in 1 .. Len(t) : c[j] = t[j].size
    BY <1>12, <2>0, SizesType
  <2> HIDE DEF a, c
  <2>3. Len(c) = Len(a) + 1 /\ k \in 0 .. Len(a)  BY <1>4, <1>12, <2>1, <2>2
  <2>4. \A j \in 1 .. k : c[j] = a[j]
    <3> TAKE j \in 1 .. k
    <3>1. j \in 1 .. Len(s) /\ j \in 1 .. Len(t)  BY <1>2, <1>4, <1>12
    <3> QED  BY <1>12, <2>1, <2>2, <3>1
  <2>5. \A j \in k + 2 .. Len(a) + 1 : c[j] = a[j - 1]
    <3> TAKE j \in k + 2 .. Len(a) + 1
    <3>1. j - 1 \in 1 .. Len(s) /\ j \in 1 .. Len(t) /\ j \in k + 2 .. Len(s) + 1
      BY <1>2, <1>4, <1>12, <2>1
    <3>2. t[j] = s[j - 1]  BY <1>12, <3>1
    <3>3. c[j] = t[j].size /\ a[j - 1] = s[j - 1].size
      BY <2>1, <2>2, <3>1
    <3> QED  BY <3>2, <3>3
  <2>6. Total(c) = Total(a) + c[k + 1]  BY <2>1, <2>2, <2>3, <2>4, <2>5, TotalInsert
  <2>7. c[k + 1] = size
    <3>1. k + 1 \in 1 .. Len(t)  BY <1>2, <1>4, <1>12
    <3> QED  BY <1>9, <1>12, <2>2, <3>1
  <2> QED  BY <2>6, <2>7 DEF a, c
<1>16. \A j \in 1 .. Len(t) : NotesInside(t[j])
  <2>1. \A j \in 1 .. Len(s) : NotesInside(s[j])  BY DEF Sound, s
  <2> TAKE j \in 1 .. Len(t)
  <2>2. CASE j <= k
    <3>1. j \in 1 .. Len(s) /\ j \in 1 .. k  BY <1>2, <1>4, <2>2
    <3> QED  BY <1>12, <2>1, <3>1
  <2>3. CASE j = k + 1  BY <1>10, <1>12, <2>3
  <2>4. CASE j > k + 1
    <3>1. j - 1 \in 1 .. Len(s) /\ j \in k + 2 .. Len(s) + 1  BY <1>2, <1>4, <1>12, <2>4
    <3>2. t[j] = s[j - 1]  BY <1>12, <3>1
    <3> QED  BY <2>1, <3>1, <3>2
  <2> QED  BY <1>4, <1>12, <2>2, <2>3, <2>4
<1>17. Sound(w)
  <2> DEFINE u == m.usage + size + MinorSize
  <2>1. m \in MajorType  BY DEF Sound
  <2>2. u \in Nat /\ u <= m.size  BY <1>1, <1>2, <1>3
  <2>3. w = [m EXCEPT !.minors = t, !.usage = u]  BY <1>11
  <2>7. Total(Taken(s)) \in Nat
    <3>1. Taken(s) \in Seq(Nat)  BY <1>2, TakenType
    <3> QED  BY <3>1, TotalType
  <2>8. u = MajorSize + Total(Taken(t))  BY <1>1, <1>2, <1>14, <2>7
  <2> HIDE DEF u, w
  <2>4. w \in MajorType  BY <1>12, <2>1, <2>2, <2>3 DEF MajorType
  <2>5. w.minors = t /\ w.usage = u /\ w.base = m.base /\ w.pages = m.pages /\ w.size = m.size
    BY <2>1, <2>3 DEF MajorType
  <2> QED  BY <1>12, <1>13, <1>16, <2>2, <2>4, <2>5, <2>8 DEF Sound
<1>18. /\ w.base = m.base /\ w.pages = m.pages /\ w.size = m.size /\ w.minors = t
  <2>1. m \in MajorType  BY DEF Sound
  <2> HIDE DEF w
  <2> QED  BY <1>11, <2>1 DEF MajorType
<1> QED  BY <1>4, <1>8, <1>12, <1>15, <1>17, <1>18 DEF w, t, b, s, size

\* A block unlinked.
LEMMA WithoutBlockSound ==
    ASSUME NEW m, Sound(m), NEW k \in 1 .. Len(m.minors)
    PROVE  LET w == WithoutBlock(m, k)
           IN  /\ Sound(w)
               /\ w.base = m.base /\ w.pages = m.pages /\ w.size = m.size
               /\ w.minors = RemoveAt(m.minors, k)
               /\ w.minors \in Seq(MinorType) /\ Len(w.minors) = Len(m.minors) - 1
               /\ Total(Sizes(w.minors)) = Total(Sizes(m.minors)) - m.minors[k].size
               /\ m.minors[k].size <= Total(Sizes(m.minors))
<1> DEFINE s == m.minors
           w == WithoutBlock(m, k)
           t == RemoveAt(s, k)
           x == s[k].size
<1>1. MajorSize \in Nat \ {0} /\ MinorSize \in Nat \ {0} /\ UintLimit \in Nat \ {0}
  BY Constants
<1>2. /\ m.base \in Nat /\ m.pages \in Nat \ {0} /\ m.size \in Nat /\ m.usage \in Nat
      /\ s \in Seq(MinorType) /\ Len(s) \in Nat
      /\ m.usage <= m.size /\ m.size < UintLimit
      /\ InOrder(s, m.size) /\ m.usage = MajorSize + Total(Taken(s))
  BY SoundType DEF Sound
<1> HIDE DEF s
<1>3. k \in 1 .. Len(s)  BY DEF s
<1>4. x \in Nat  BY <1>2, <1>3, MinorIs
<1>5. /\ t \in Seq(MinorType) /\ Len(t) = Len(s) - 1
      /\ \A j \in 1 .. k - 1 : t[j] = s[j]
      /\ \A j \in k .. Len(s) - 1 : t[j] = s[j + 1]
  BY <1>2, <1>3, RemoveIs
<1>6. InOrder(t, m.size)  BY <1>2, <1>3, RemoveInOrder
<1> HIDE DEF t
<1>7. /\ Total(Taken(t)) = Total(Taken(s)) - (x + MinorSize)
      /\ x + MinorSize <= Total(Taken(s))
  <2> DEFINE a == Taken(s)
             c == Taken(t)
  <2>1. a \in Seq(Nat) /\ Len(a) = Len(s) /\ \A j \in 1 .. Len(s) : a[j] = s[j].size + MinorSize
    BY <1>2, TakenType
  <2>2. c \in Seq(Nat) /\ Len(c) = Len(t) /\ \A j \in 1 .. Len(t) : c[j] = t[j].size + MinorSize
    BY <1>5, TakenType
  <2> HIDE DEF a, c
  <2>3. Len(c) = Len(a) - 1 /\ k \in 1 .. Len(a)  BY <1>3, <1>5, <2>1, <2>2
  <2>4. \A j \in 1 .. k - 1 : c[j] = a[j]
    <3> TAKE j \in 1 .. k - 1
    <3>1. j \in 1 .. Len(s) /\ j \in 1 .. Len(t)  BY <1>2, <1>3, <1>5
    <3> QED  BY <1>5, <2>1, <2>2, <3>1
  <2>5. \A j \in k .. Len(a) - 1 : c[j] = a[j + 1]
    <3> TAKE j \in k .. Len(a) - 1
    <3>1. j + 1 \in 1 .. Len(s) /\ j \in 1 .. Len(t) /\ j \in k .. Len(s) - 1
      BY <1>2, <1>3, <1>5, <2>1
    <3>2. t[j] = s[j + 1]  BY <1>5, <3>1
    <3>3. c[j] = t[j].size + MinorSize /\ a[j + 1] = s[j + 1].size + MinorSize
      BY <2>1, <2>2, <3>1
    <3> QED  BY <3>2, <3>3
  <2>6. Total(c) = Total(a) - a[k] /\ a[k] <= Total(a)
    BY <2>1, <2>2, <2>3, <2>4, <2>5, TotalRemove
  <2>7. a[k] = x + MinorSize  BY <1>3, <2>1
  <2> QED  BY <2>6, <2>7 DEF a, c
<1>8. Total(Sizes(t)) = Total(Sizes(s)) - x /\ x <= Total(Sizes(s))
  <2> DEFINE a == Sizes(s)
             c == Sizes(t)
  <2>0. \A y \in MinorType : y.size \in Nat  BY DEF MinorType
  <2>1. a \in Seq(Nat) /\ Len(a) = Len(s) /\ \A j \in 1 .. Len(s) : a[j] = s[j].size
    BY <1>2, <2>0, SizesType
  <2>2. c \in Seq(Nat) /\ Len(c) = Len(t) /\ \A j \in 1 .. Len(t) : c[j] = t[j].size
    BY <1>5, <2>0, SizesType
  <2> HIDE DEF a, c
  <2>3. Len(c) = Len(a) - 1 /\ k \in 1 .. Len(a)  BY <1>3, <1>5, <2>1, <2>2
  <2>4. \A j \in 1 .. k - 1 : c[j] = a[j]
    <3> TAKE j \in 1 .. k - 1
    <3>1. j \in 1 .. Len(s) /\ j \in 1 .. Len(t)  BY <1>2, <1>3, <1>5
    <3> QED  BY <1>5, <2>1, <2>2, <3>1
  <2>5. \A j \in k .. Len(a) - 1 : c[j] = a[j + 1]
    <3> TAKE j \in k .. Len(a) - 1
    <3>1. j + 1 \in 1 .. Len(s) /\ j \in 1 .. Len(t) /\ j \in k .. Len(s) - 1
      BY <1>2, <1>3, <1>5, <2>1
    <3>2. t[j] = s[j + 1]  BY <1>5, <3>1
    <3>3. c[j] = t[j].size /\ a[j + 1] = s[j + 1].size
      BY <2>1, <2>2, <3>1
    <3> QED  BY <3>2, <3>3
  <2>6. Total(c) = Total(a) - a[k] /\ a[k] <= Total(a)
    BY <2>1, <2>2, <2>3, <2>4, <2>5, TotalRemove
  <2>7. a[k] = x  BY <1>3, <2>1
  <2> QED  BY <2>6, <2>7 DEF a, c
<1>9. Total(Taken(s)) \in Nat
  <2>1. Taken(s) \in Seq(Nat)  BY <1>2, TakenType
  <2> QED  BY <2>1, TotalType
<1> DEFINE u == m.usage - (x + MinorSize)
<1>10. w = [m EXCEPT !.minors = t, !.usage = AsUint(u)]
  BY DEF WithoutBlock, s, t
<1> HIDE DEF x
<1>11. u \in Nat /\ u <= m.size /\ u < UintLimit /\ u = MajorSize + Total(Taken(t))
  BY <1>1, <1>2, <1>4, <1>7, <1>9, SMTT(40)
<1>12. AsUint(u) = u  BY <1>11, AsUintIs
<1> HIDE DEF u
<1>13. \A j \in 1 .. Len(t) : NotesInside(t[j])
  <2>1. \A j \in 1 .. Len(s) : NotesInside(s[j])  BY DEF Sound, s
  <2> TAKE j \in 1 .. Len(t)
  <2>2. CASE j < k
    <3>1. j \in 1 .. Len(s) /\ j \in 1 .. k - 1  BY <1>2, <1>3, <2>2
    <3> QED  BY <1>5, <2>1, <3>1
  <2>3. CASE j >= k
    <3>1. j + 1 \in 1 .. Len(s) /\ j \in k .. Len(s) - 1  BY <1>2, <1>3, <1>5, <2>3
    <3>2. t[j] = s[j + 1]  BY <1>5, <3>1
    <3> QED  BY <2>1, <3>1, <3>2
  <2> QED  BY <1>3, <1>5, <2>2, <2>3
<1>14. m \in MajorType  BY DEF Sound
<1>15. w = [m EXCEPT !.minors = t, !.usage = u]  BY <1>10, <1>12
<1> HIDE DEF w
<1>16. w \in MajorType  BY <1>5, <1>11, <1>14, <1>15 DEF MajorType
<1>17. w.minors = t /\ w.usage = u /\ w.base = m.base /\ w.pages = m.pages /\ w.size = m.size
  BY <1>14, <1>15 DEF MajorType
<1>18. Sound(w)
  BY <1>5, <1>6, <1>11, <1>13, <1>16, <1>17 DEF Sound
<1> QED  BY <1>5, <1>8, <1>17, <1>18 DEF w, t, s, x

\* krealloc in place: the block notes fewer bytes.
LEMMA ShorterBlockSound ==
    ASSUME NEW m, Sound(m), NEW k \in 1 .. Len(m.minors), NEW r \in Nat,
           r <= m.minors[k].req
    PROVE  LET w == [m EXCEPT !.minors[k].req = r]
               s == m.minors
               t == w.minors
           IN  /\ Sound(w)
               /\ w.base = m.base /\ w.pages = m.pages /\ w.size = m.size
               /\ t \in Seq(MinorType) /\ Len(t) = Len(s)
               /\ \A j \in 1 .. Len(s) : j # k => t[j] = s[j]
               /\ t[k].at = s[k].at /\ t[k].size = s[k].size /\ t[k].req = r
               /\ Total(Sizes(t)) = Total(Sizes(s))
<1> DEFINE s == m.minors
           w == [m EXCEPT !.minors[k].req = r]
           b == [s[k] EXCEPT !.req = r]
           t == [s EXCEPT ![k] = b]
<1>1. /\ m.base \in Nat /\ m.pages \in Nat \ {0} /\ m.size \in Nat /\ m.usage \in Nat
      /\ s \in Seq(MinorType) /\ Len(s) \in Nat /\ InOrder(s, m.size)
  BY SoundType DEF Sound
<1>2. m \in MajorType  BY DEF Sound
<1>3. w = [m EXCEPT !.minors = t]
  BY <1>2 DEF MajorType
<1> HIDE DEF s
<1>4. k \in 1 .. Len(s) /\ r <= s[k].req  BY DEF s
<1>5. /\ s[k] \in MinorType /\ s[k].at \in Nat /\ s[k].size \in Nat /\ s[k].req \in Nat
      /\ BlockEnd(s[k]) \in Nat
  BY <1>1, <1>4, MinorIs
<1>6. b \in MinorType /\ b.at = s[k].at /\ b.size = s[k].size /\ b.req = r
  BY <1>5 DEF MinorType
<1>7. NotesInside(b)
  <2>1. NotesInside(s[k])  BY <1>4 DEF Sound, s
  <2>2. UserAt(b) = UserAt(s[k]) /\ BlockEnd(b) = BlockEnd(s[k])  BY <1>6 DEF UserAt, BlockEnd
  <2>3. UserAt(s[k]) \in Nat
    <3>1. s[k].at + MinorSize + Alignment \in Nat  BY <1>5, Constants, SMTT(40)
    <3> QED  BY <3>1, AlignUpIs DEF UserAt
  <2> QED  BY <1>4, <1>5, <1>6, <2>1, <2>2, <2>3 DEF NotesInside
<1> HIDE DEF b
<1>8. /\ t \in Seq(MinorType) /\ Len(t) = Len(s) /\ t[k] = b
      /\ \A j \in 1 .. Len(s) : j # k => t[j] = s[j]
  BY <1>1, <1>4, <1>6
<1> HIDE DEF t, w
<1>9. w \in MajorType  BY <1>2, <1>3, <1>8 DEF MajorType
<1>10. w.minors = t /\ w.usage = m.usage /\ w.base = m.base /\ w.pages = m.pages /\ w.size = m.size
  BY <1>2, <1>3 DEF MajorType
<1>11. \A j \in 1 .. Len(s) : t[j].at = s[j].at /\ t[j].size = s[j].size
  BY <1>6, <1>8
<1>12. InOrder(t, m.size)  BY <1>1, <1>8, <1>11, ChangeInOrder
<1>13. Taken(t) = Taken(s) /\ Sizes(t) = Sizes(s)
  <2>1. DOMAIN t = 1 .. Len(s) /\ DOMAIN s = 1 .. Len(s)  BY <1>1, <1>8
  <2> QED  BY <1>11, <2>1 DEF Taken, Sizes
<1>14. \A j \in 1 .. Len(t) : NotesInside(t[j])
  <2>1. \A j \in 1 .. Len(s) : NotesInside(s[j])  BY DEF Sound, s
  <2> QED  BY <1>7, <1>8, <2>1
<1>15. Sound(w)
  BY <1>9, <1>10, <1>12, <1>13, <1>14 DEF Sound, s
<1> QED  BY <1>6, <1>8, <1>10, <1>13, <1>15 DEF w, s

-----------------------------------------------------------------------------
(* The list of majors *)

GoodList(list) ==
    /\ list \in Seq(MajorType)
    /\ \A i \in DOMAIN list : Sound(list[i])
    /\ \A i, j \in DOMAIN list :
          i # j => PagesFrom(list[i].base, list[i].pages)
                      \cap PagesFrom(list[j].base, list[j].pages) = {}

\* The bytes in use of every major of a good list.
LEMMA InUseType ==
    ASSUME NEW list, GoodList(list)
    PROVE  /\ InUseIn(list) \in Seq(Nat) /\ Len(InUseIn(list)) = Len(list)
           /\ \A i \in 1 .. Len(list) : InUseIn(list)[i] = Total(Sizes(list[i].minors))
           /\ \A i \in 1 .. Len(list) : Total(Sizes(list[i].minors)) \in Nat
<1>1. list \in Seq(MajorType) /\ Len(list) \in Nat /\ DOMAIN list = 1 .. Len(list)
  BY DEF GoodList
<1>2. \A i \in 1 .. Len(list) : Total(Sizes(list[i].minors)) \in Nat
  <2> TAKE i \in 1 .. Len(list)
  <2>1. list[i].minors \in Seq(MinorType)  BY <1>1, SoundType DEF GoodList
  <2>2. \A x \in MinorType : x.size \in Nat  BY DEF MinorType
  <2>3. Sizes(list[i].minors) \in Seq(Nat)  BY <2>1, <2>2, SizesType
  <2> QED  BY <2>3, TotalType
<1>3. InUseIn(list) = [i \in 1 .. Len(list) |-> Total(Sizes(list[i].minors))]
  BY <1>1 DEF InUseIn
<1> DEFINE t == [i \in 1 .. Len(list) |-> Total(Sizes(list[i].minors))]
<1>4. t \in [1 .. Len(list) -> Nat]  BY <1>2
<1>5. t \in Seq(Nat) /\ Len(t) = Len(list)  BY <1>1, <1>4
<1>6. \A i \in 1 .. Len(list) : t[i] = Total(Sizes(list[i].minors))  OBVIOUS
<1> HIDE DEF t
<1>7. InUseIn(list) = t  BY <1>3 DEF t
<1> QED  BY <1>2, <1>5, <1>6, <1>7

\* The sizes of the majors of a good list.
LEMMA MajorSizesType ==
    ASSUME NEW list, GoodList(list)
    PROVE  /\ Sizes(list) \in Seq(Nat) /\ Len(Sizes(list)) = Len(list)
           /\ \A i \in 1 .. Len(list) : Sizes(list)[i] = list[i].size
<1>1. list \in Seq(MajorType)  BY DEF GoodList
<1>2. \A x \in MajorType : x.size \in Nat  BY DEF MajorType
<1> QED  BY <1>1, <1>2, SizesType

\* One major changes its blocks and nothing else.
LEMMA GoodReplace ==
    ASSUME NEW list, GoodList(list), NEW i \in 1 .. Len(list), NEW w, Sound(w),
           w.base = list[i].base, w.pages = list[i].pages, w.size = list[i].size
    PROVE  LET new == [list EXCEPT ![i] = w]
           IN  /\ GoodList(new) /\ Len(new) = Len(list) /\ new[i] = w
               /\ \A j \in 1 .. Len(list) : j # i => new[j] = list[j]
               /\ \A j \in 1 .. Len(list) : new[j].base = list[j].base
               /\ Total(Sizes(new)) = Total(Sizes(list))
               /\ Total(InUseIn(new)) = Total(InUseIn(list))
                     - Total(Sizes(list[i].minors)) + Total(Sizes(w.minors))
<1> DEFINE new == [list EXCEPT ![i] = w]
<1>1. list \in Seq(MajorType) /\ Len(list) \in Nat /\ DOMAIN list = 1 .. Len(list)
  BY DEF GoodList
<1>2. w \in MajorType  BY DEF Sound
<1>3. /\ new \in Seq(MajorType) /\ Len(new) = Len(list) /\ new[i] = w
      /\ \A j \in 1 .. Len(list) : j # i => new[j] = list[j]
      /\ DOMAIN new = 1 .. Len(list)
  BY <1>1, <1>2
<1> HIDE DEF new
<1>4. \A j \in 1 .. Len(list) :
         new[j].base = list[j].base /\ new[j].pages = list[j].pages /\ new[j].size = list[j].size
  BY <1>3
<1>5. GoodList(new)
  <2>1. \A j \in DOMAIN new : Sound(new[j])
    <3> TAKE j \in DOMAIN new
    <3>1. CASE j = i  BY <1>3, <3>1
    <3>2. CASE j # i  BY <1>1, <1>3, <3>2 DEF GoodList
    <3> QED  BY <3>1, <3>2
  <2>2. \A j, l \in DOMAIN new :
           j # l => PagesFrom(new[j].base, new[j].pages)
                       \cap PagesFrom(new[l].base, new[l].pages) = {}
    BY <1>1, <1>3, <1>4 DEF GoodList
  <2> QED  BY <1>3, <2>1, <2>2 DEF GoodList
<1>6. Sizes(new) = Sizes(list)
  BY <1>1, <1>3, <1>4 DEF Sizes
<1>7. Total(InUseIn(new)) = Total(InUseIn(list))
         - Total(Sizes(list[i].minors)) + Total(Sizes(w.minors))
  <2> DEFINE a == InUseIn(list)
             c == InUseIn(new)
  <2>1. /\ a \in Seq(Nat) /\ Len(a) = Len(list)
        /\ \A j \in 1 .. Len(list) : a[j] = Total(Sizes(list[j].minors))
    BY InUseType
  <2>2. /\ c \in Seq(Nat) /\ Len(c) = Len(list)
        /\ \A j \in 1 .. Len(list) : c[j] = Total(Sizes(new[j].minors))
    BY <1>3, <1>5, InUseType
  <2> HIDE DEF a, c
  <2>3. \A j \in 1 .. Len(a) : j # i => c[j] = a[j]  BY <1>3, <2>1, <2>2
  <2>4. Total(c) = Total(a) - a[i] + c[i]  BY <2>1, <2>2, <2>3, TotalChange
  <2>5. a[i] = Total(Sizes(list[i].minors)) /\ c[i] = Total(Sizes(w.minors))
    BY <1>3, <2>1, <2>2
  <2> QED  BY <2>4, <2>5 DEF a, c
<1> QED  BY <1>3, <1>4, <1>5, <1>6, <1>7 DEF new

\* One more major, on pages that no major has.
LEMMA GoodAppend ==
    ASSUME GoodList(majors), NEW r \in Requests, NEW a \in FreeRuns(PagesFor(SizeFor(r)))
    PROVE  LET n == PagesFor(SizeFor(r))
               m == NewMajor(a, n)
               new == Append(majors, m)
           IN  /\ GoodList(new) /\ Len(new) = Len(majors) + 1 /\ new[Len(majors) + 1] = m
               /\ \A j \in 1 .. Len(majors) : new[j] = majors[j]
               /\ Total(Sizes(new)) = Total(Sizes(majors)) + n * PageSize
               /\ Total(InUseIn(new)) = Total(InUseIn(majors))
<1> DEFINE n == PagesFor(SizeFor(r))
           m == NewMajor(a, n)
           new == Append(majors, m)
           l == Len(majors)
<1>1. majors \in Seq(MajorType) /\ l \in Nat /\ DOMAIN majors = 1 .. l
  BY DEF GoodList
<1>2. /\ Sound(m) /\ m.minors = <<>> /\ m.base = a /\ m.pages = n /\ m.size = n * PageSize
  BY NewMajorSound
<1>3. m \in MajorType  BY <1>2 DEF Sound
<1> HIDE DEF m
<1>4. /\ new \in Seq(MajorType) /\ Len(new) = l + 1 /\ new[l + 1] = m
      /\ \A j \in 1 .. l : new[j] = majors[j]
      /\ DOMAIN new = 1 .. l + 1
  BY <1>1, <1>3
<1> HIDE DEF new
<1>5. PagesFrom(a, n) \cap OwnedPages = {}  BY DEF FreeRuns
<1>6. \A j \in 1 .. l : PagesFrom(a, n) \cap PagesFrom(majors[j].base, majors[j].pages) = {}
  BY <1>1, <1>5 DEF OwnedPages
<1>7. GoodList(new)
  <2>1. \A j \in DOMAIN new : Sound(new[j])
    <3> TAKE j \in DOMAIN new
    <3>1. CASE j = l + 1  BY <1>2, <1>4, <3>1
    <3>2. CASE j # l + 1
      <4>1. j \in 1 .. l  BY <1>1, <1>4, <3>2
      <4> QED  BY <1>1, <1>4, <4>1 DEF GoodList
    <3> QED  BY <3>1, <3>2
  <2>2. ASSUME NEW j \in DOMAIN new, NEW k \in DOMAIN new, j # k
        PROVE  PagesFrom(new[j].base, new[j].pages)
                  \cap PagesFrom(new[k].base, new[k].pages) = {}
    <3>1. (j \in 1 .. l \/ j = l + 1) /\ (k \in 1 .. l \/ k = l + 1)  BY <1>1, <1>4
    <3>2. CASE j \in 1 .. l /\ k \in 1 .. l
      <4>1. new[j] = majors[j] /\ new[k] = majors[k]  BY <1>4, <3>2
      <4> QED  BY <1>1, <2>2, <3>2, <4>1 DEF GoodList
    <3>3. CASE j \in 1 .. l /\ k = l + 1
      <4>1. new[j] = majors[j] /\ new[k] = m  BY <1>4, <3>3
      <4> QED  BY <1>2, <1>6, <3>3, <4>1
    <3>4. CASE j = l + 1 /\ k \in 1 .. l
      <4>1. new[j] = m /\ new[k] = majors[k]  BY <1>4, <3>4
      <4> QED  BY <1>2, <1>6, <3>4, <4>1
    <3> QED  BY <2>2, <3>1, <3>2, <3>3, <3>4
  <2> QED  BY <1>4, <2>1, <2>2 DEF GoodList
<1>8. Total(Sizes(new)) = Total(Sizes(majors)) + n * PageSize
  <2> DEFINE x == Sizes(majors)
             y == Sizes(new)
  <2>1. x \in Seq(Nat) /\ Len(x) = l /\ \A j \in 1 .. l : x[j] = majors[j].size
    BY MajorSizesType
  <2>2. y \in Seq(Nat) /\ Len(y) = l + 1 /\ \A j \in 1 .. l + 1 : y[j] = new[j].size
    BY <1>4, <1>7, MajorSizesType
  <2> HIDE DEF x, y
  <2>3. l \in 0 .. Len(x) /\ Len(y) = Len(x) + 1  BY <1>1, <2>1, <2>2
  <2>4. \A j \in 1 .. l : y[j] = x[j]
    <3> TAKE j \in 1 .. l
    <3>1. j \in 1 .. l + 1  BY <1>1
    <3> QED  BY <1>4, <2>1, <2>2, <3>1
  <2>5. \A j \in l + 2 .. Len(x) + 1 : y[j] = x[j - 1]  BY <1>1, <2>1
  <2>6. Total(y) = Total(x) + y[l + 1]  BY <2>1, <2>2, <2>3, <2>4, <2>5, TotalInsert
  <2>7. y[l + 1] = m.size
    <3>1. l + 1 \in 1 .. l + 1  BY <1>1
    <3> QED  BY <1>4, <2>2, <3>1
  <2> QED  BY <1>2, <2>6, <2>7 DEF x, y
<1>9. Total(InUseIn(new)) = Total(InUseIn(majors))
  <2> DEFINE x == InUseIn(majors)
             y == InUseIn(new)
  <2>1. /\ x \in Seq(Nat) /\ Len(x) = l
        /\ \A j \in 1 .. l : x[j] = Total(Sizes(majors[j].minors))
    BY InUseType
  <2>2. /\ y \in Seq(Nat) /\ Len(y) = l + 1
        /\ \A j \in 1 .. l + 1 : y[j] = Total(Sizes(new[j].minors))
    BY <1>4, <1>7, InUseType
  <2> HIDE DEF x, y
  <2>3. l \in 0 .. Len(x) /\ Len(y) = Len(x) + 1  BY <1>1, <2>1, <2>2
  <2>4. \A j \in 1 .. l : y[j] = x[j]
    <3> TAKE j \in 1 .. l
    <3>1. j \in 1 .. l + 1  BY <1>1
    <3> QED  BY <1>4, <2>1, <2>2, <3>1
  <2>5. \A j \in l + 2 .. Len(x) + 1 : y[j] = x[j - 1]  BY <1>1, <2>1
  <2>6. Total(y) = Total(x) + y[l + 1]  BY <2>1, <2>2, <2>3, <2>4, <2>5, TotalInsert
  <2>7. y[l + 1] = 0
    <3>1. l + 1 \in 1 .. l + 1  BY <1>1
    <3>2. y[l + 1] = Total(Sizes(<<>>))  BY <1>2, <1>4, <2>2, <3>1
    <3>3. Sizes(<<>>) = <<>>  BY DEF Sizes
    <3>4. <<>> \in Seq(Nat)  OBVIOUS
    <3>5. Total(<<>>) = 0  BY <3>4, TotalType, Zenon
    <3> QED  BY <3>2, <3>3, <3>5
  <2>8. Total(x) \in Nat  BY <2>1, TotalType
  <2> QED  BY <2>6, <2>7, <2>8 DEF x, y
<1> QED  BY <1>4, <1>7, <1>8, <1>9 DEF new, m, n

\* One major is released with its pages.
LEMMA GoodRemove ==
    ASSUME NEW list, GoodList(list), NEW i \in 1 .. Len(list)
    PROVE  LET new == RemoveAt(list, i)
           IN  /\ GoodList(new) /\ Len(new) = Len(list) - 1
               /\ \A j \in 1 .. i - 1 : new[j] = list[j]
               /\ \A j \in i .. Len(list) - 1 : new[j] = list[j + 1]
               /\ Total(Sizes(new)) = Total(Sizes(list)) - list[i].size
               /\ list[i].size <= Total(Sizes(list))
               /\ Total(InUseIn(new)) = Total(InUseIn(list)) - Total(Sizes(list[i].minors))
<1> DEFINE new == RemoveAt(list, i)
           l == Len(list)
<1>1. list \in Seq(MajorType) /\ l \in Nat /\ DOMAIN list = 1 .. l
  BY DEF GoodList
<1>2. /\ new \in Seq(MajorType) /\ Len(new) = l - 1
      /\ \A j \in 1 .. i - 1 : new[j] = list[j]
      /\ \A j \in i .. l - 1 : new[j] = list[j + 1]
  BY <1>1, RemoveIs
<1> HIDE DEF new
<1>3. l - 1 \in Nat /\ DOMAIN new = 1 .. l - 1  BY <1>1, <1>2

\* Where an element of the new list was in the old one.
<1> DEFINE Was(j) == IF j < i THEN j ELSE j + 1
<1>4. \A j \in 1 .. l - 1 : Was(j) \in 1 .. l /\ new[j] = list[Was(j)]
  <2> TAKE j \in 1 .. l - 1
  <2>1. CASE j < i
    <3>1. j \in 1 .. i - 1 /\ j \in 1 .. l  BY <1>1, <2>1
    <3> QED  BY <1>2, <2>1, <3>1
  <2>2. CASE ~(j < i)
    <3>1. j \in i .. l - 1 /\ j + 1 \in 1 .. l  BY <1>1, <2>2
    <3> QED  BY <1>2, <2>2, <3>1
  <2> QED  BY <2>1, <2>2
<1>5. \A j, k \in 1 .. l - 1 : j # k => Was(j) # Was(k)  BY <1>1
<1> HIDE DEF Was
<1>6. GoodList(new)
  <2>1. \A j \in DOMAIN new : Sound(new[j])  BY <1>1, <1>3, <1>4 DEF GoodList
  <2>2. ASSUME NEW j \in DOMAIN new, NEW k \in DOMAIN new, j # k
        PROVE  PagesFrom(new[j].base, new[j].pages)
                  \cap PagesFrom(new[k].base, new[k].pages) = {}
    <3>1. Was(j) # Was(k) /\ Was(j) \in DOMAIN list /\ Was(k) \in DOMAIN list
      BY <1>1, <1>3, <1>4, <1>5, <2>2
    <3>2. new[j] = list[Was(j)] /\ new[k] = list[Was(k)]  BY <1>3, <1>4
    <3> QED  BY <3>1, <3>2 DEF GoodList
  <2> QED  BY <1>2, <2>1, <2>2 DEF GoodList
<1>7. Total(Sizes(new)) = Total(Sizes(list)) - list[i].size /\ list[i].size <= Total(Sizes(list))
  <2> DEFINE x == Sizes(list)
             y == Sizes(new)
  <2>1. x \in Seq(Nat) /\ Len(x) = l /\ \A j \in 1 .. l : x[j] = list[j].size
    BY MajorSizesType
  <2>2. y \in Seq(Nat) /\ Len(y) = l - 1 /\ \A j \in 1 .. l - 1 : y[j] = new[j].size
    BY <1>2, <1>6, MajorSizesType
  <2> HIDE DEF x, y
  <2>3. i \in 1 .. Len(x) /\ Len(y) = Len(x) - 1  BY <2>1, <2>2
  <2>4. \A j \in 1 .. i - 1 : y[j] = x[j]
    <3> TAKE j \in 1 .. i - 1
    <3>1. j \in 1 .. l - 1 /\ j \in 1 .. l  BY <1>1
    <3> QED  BY <1>2, <2>1, <2>2, <3>1
  <2>5. \A j \in i .. Len(x) - 1 : y[j] = x[j + 1]
    <3> TAKE j \in i .. Len(x) - 1
    <3>1. j \in 1 .. l - 1 /\ j + 1 \in 1 .. l /\ j \in i .. l - 1  BY <1>1, <2>1
    <3>2. new[j] = list[j + 1]  BY <1>2, <3>1
    <3>3. y[j] = new[j].size /\ x[j + 1] = list[j + 1].size  BY <2>1, <2>2, <3>1
    <3> QED  BY <3>2, <3>3
  <2>6. Total(y) = Total(x) - x[i] /\ x[i] <= Total(x)
    BY <2>1, <2>2, <2>3, <2>4, <2>5, TotalRemove
  <2> QED  BY <2>1, <2>6 DEF x, y
<1>8. Total(InUseIn(new)) = Total(InUseIn(list)) - Total(Sizes(list[i].minors))
  <2> DEFINE x == InUseIn(list)
             y == InUseIn(new)
  <2>1. /\ x \in Seq(Nat) /\ Len(x) = l
        /\ \A j \in 1 .. l : x[j] = Total(Sizes(list[j].minors))
    BY InUseType
  <2>2. /\ y \in Seq(Nat) /\ Len(y) = l - 1
        /\ \A j \in 1 .. l - 1 : y[j] = Total(Sizes(new[j].minors))
    BY <1>2, <1>6, InUseType
  <2> HIDE DEF x, y
  <2>3. i \in 1 .. Len(x) /\ Len(y) = Len(x) - 1  BY <2>1, <2>2
  <2>4. \A j \in 1 .. i - 1 : y[j] = x[j]
    <3> TAKE j \in 1 .. i - 1
    <3>1. j \in 1 .. l - 1 /\ j \in 1 .. l  BY <1>1
    <3> QED  BY <1>2, <2>1, <2>2, <3>1
  <2>5. \A j \in i .. Len(x) - 1 : y[j] = x[j + 1]
    <3> TAKE j \in i .. Len(x) - 1
    <3>1. j \in 1 .. l - 1 /\ j + 1 \in 1 .. l /\ j \in i .. l - 1  BY <1>1, <2>1
    <3>2. new[j] = list[j + 1]  BY <1>2, <3>1
    <3>3. y[j] = Total(Sizes(new[j].minors)) /\ x[j + 1] = Total(Sizes(list[j + 1].minors))
      BY <2>1, <2>2, <3>1
    <3> QED  BY <3>2, <3>3
  <2>6. Total(y) = Total(x) - x[i]
    BY <2>1, <2>2, <2>3, <2>4, <2>5, TotalRemove
  <2> QED  BY <2>1, <2>6 DEF x, y
<1> QED  BY <1>2, <1>6, <1>7, <1>8 DEF new

-----------------------------------------------------------------------------
(* The invariant *)

\* The two counters are the sums they stand for.
Counted ==
    /\ inuse = Total(InUseIn(majors))
    /\ allocated = Total(Sizes(majors))

\* The call in progress: a search stands at a major and is for a size callers
\* ask for, and the block krealloc is to replace is still there.
JobOK ==
    /\ job \in JobType
    /\ job.pc = "walk" => job.req \in Requests /\ job.at \in DOMAIN majors
    /\ job.pc # "idle" /\ job.op = "realloc" => job.old \in Pointers

\* The only major without a block is one just obtained, which the search is
\* about to fill and which has room for what it is to hold.
OnlyTargetIsEmpty ==
    \A i \in DOMAIN majors :
        majors[i].minors = <<>> =>
            /\ job.pc = "walk" /\ i = job.at
            /\ FreeIn(majors[i]) >= SizeFor(job.req) + MinorSize

BetOwned == bestBet = NULL \/ \E i \in DOMAIN majors : majors[i].base = bestBet

\* A search that began at the first major, or has come back to it, has found
\* no room in the majors it left behind; one that gave up found none at all.
Searched ==
    /\ job.pc = "walk" /\ ~job.started =>
          \A i \in 1 .. job.at - 1 : Fitting(majors[i], SizeFor(job.req)) = {}
    /\ job.pc = "return" /\ job.result = NULL =>
          \A i \in DOMAIN majors : Fitting(majors[i], SizeFor(job.req)) = {}

IInv ==
    /\ GoodList(majors)
    /\ bestBet \in Nat /\ status \in {"up", "panic", "fault"}
    /\ Counted
    /\ JobOK
    /\ OnlyTargetIsEmpty
    /\ BetOwned
    /\ Searched

-----------------------------------------------------------------------------
(* What callers see of the lists *)

\* The block a caller sees in the k-th minor of a major.
Seen(m, k) == [at |-> m.base + UserAt(m.minors[k]), bytes |-> m.minors[k].req]

SeenIn(m) == {Seen(m, k) : k \in 1 .. Len(m.minors)}

AllSeen(list) == UNION {SeenIn(list[i]) : i \in 1 .. Len(list)}

\* The blocks and the pointers of the heap are those of its lists.
LEMMA SeenIsAll ==
    ASSUME GoodList(majors)
    PROVE  /\ UserBlocks = AllSeen(majors)
           /\ Pointers = {x.at : x \in AllSeen(majors)}
           /\ \A p \in Pointers :
                 LET b == BlockAt(p) IN
                 /\ b[1] \in 1 .. Len(majors) /\ b[2] \in 1 .. Len(majors[b[1]].minors)
                 /\ PointerOf(b) = p /\ MinorOf(b) = majors[b[1]].minors[b[2]]
                 /\ Seen(majors[b[1]], b[2]) \in AllSeen(majors)
                 /\ Seen(majors[b[1]], b[2]).at = p
<1>1. DOMAIN majors = 1 .. Len(majors)  BY DEF GoodList
<1>2. \A i \in 1 .. Len(majors) : DOMAIN majors[i].minors = 1 .. Len(majors[i].minors)
  BY <1>1, SoundType DEF GoodList
<1>3. \A i, k : <<i, k>> \in Blocks <=> i \in 1 .. Len(majors) /\ k \in 1 .. Len(majors[i].minors)
  BY <1>1, <1>2 DEF Blocks
<1>4. \A b \in Blocks :
         b[1] \in 1 .. Len(majors) /\ b[2] \in 1 .. Len(majors[b[1]].minors) /\ b = <<b[1], b[2]>>
  BY <1>1, <1>2 DEF Blocks
<1>5. \A b \in Blocks :
         /\ Seen(majors[b[1]], b[2]) = [at |-> PointerOf(b), bytes |-> MinorOf(b).req]
         /\ Seen(majors[b[1]], b[2]) \in AllSeen(majors)
  <2> TAKE b \in Blocks
  <2>1. Seen(majors[b[1]], b[2]) = [at |-> PointerOf(b), bytes |-> MinorOf(b).req]
    BY DEF Seen, PointerOf, MinorOf
  <2>2. Seen(majors[b[1]], b[2]) \in SeenIn(majors[b[1]])  BY <1>4 DEF SeenIn
  <2> QED  BY <1>4, <2>1, <2>2 DEF AllSeen
<1>6. \A x \in AllSeen(majors) : \E b \in Blocks : x = Seen(majors[b[1]], b[2])
  <2> TAKE x \in AllSeen(majors)
  <2>1. PICK i \in 1 .. Len(majors) : x \in SeenIn(majors[i])  BY DEF AllSeen
  <2>2. PICK k \in 1 .. Len(majors[i].minors) : x = Seen(majors[i], k)  BY <2>1 DEF SeenIn
  <2>3. <<i, k>> \in Blocks /\ <<i, k>>[1] = i /\ <<i, k>>[2] = k  BY <1>3, <2>1, <2>2
  <2> QED  BY <2>2, <2>3
<1>7. UserBlocks = AllSeen(majors)
  <2>1. \A x : x \in UserBlocks <=>
           \E b \in Blocks : x = [at |-> PointerOf(b), bytes |-> MinorOf(b).req]
    BY DEF UserBlocks
  <2>2. \A x \in UserBlocks : x \in AllSeen(majors)  BY <1>5, <2>1, Zenon
  <2>3. \A x \in AllSeen(majors) : x \in UserBlocks  BY <1>5, <1>6, <2>1, Zenon
  <2> QED  BY <2>2, <2>3
<1>8. \A b \in Blocks : Seen(majors[b[1]], b[2]).at = PointerOf(b)
  BY DEF Seen, PointerOf, MinorOf
<1>9. Pointers = {x.at : x \in AllSeen(majors)}
  <2>1. \A p : p \in Pointers <=> \E b \in Blocks : p = PointerOf(b)  BY DEF Pointers
  <2>2. \A p \in Pointers : \E x \in AllSeen(majors) : p = x.at  BY <1>5, <1>8, <2>1, Zenon
  <2>3. \A x \in AllSeen(majors) : x.at \in Pointers
    <3> TAKE x \in AllSeen(majors)
    <3>1. PICK b \in Blocks : x = Seen(majors[b[1]], b[2])  BY <1>6
    <3>2. x.at = PointerOf(b)  BY <1>8, <3>1
    <3> QED  BY <2>1, <3>2
  <2> QED  BY <2>2, <2>3
<1>10. ASSUME NEW p \in Pointers
       PROVE  LET b == BlockAt(p) IN b \in Blocks /\ PointerOf(b) = p
  <2>1. \E b \in Blocks : PointerOf(b) = p  BY DEF Pointers
  <2> QED  BY <2>1 DEF BlockAt
<1>11. ASSUME NEW p \in Pointers
       PROVE  LET b == BlockAt(p) IN
                 /\ b[1] \in 1 .. Len(majors) /\ b[2] \in 1 .. Len(majors[b[1]].minors)
                 /\ PointerOf(b) = p /\ MinorOf(b) = majors[b[1]].minors[b[2]]
                 /\ Seen(majors[b[1]], b[2]) \in AllSeen(majors)
                 /\ Seen(majors[b[1]], b[2]).at = p
  <2> DEFINE b == BlockAt(p)
  <2>1. b \in Blocks /\ PointerOf(b) = p  BY <1>10
  <2> HIDE DEF b
  <2>2. b[1] \in 1 .. Len(majors) /\ b[2] \in 1 .. Len(majors[b[1]].minors)  BY <1>4, <2>1
  <2>3. MinorOf(b) = majors[b[1]].minors[b[2]]  BY DEF MinorOf
  <2>4. Seen(majors[b[1]], b[2]) \in AllSeen(majors)  BY <1>5, <2>1
  <2>5. Seen(majors[b[1]], b[2]).at = p  BY <1>8, <2>1
  <2> QED  BY <2>1, <2>2, <2>3, <2>4, <2>5 DEF b
<1> QED  BY <1>7, <1>9, <1>11

\* A block a caller sees lies inside its major.
LEMMA SeenInside ==
    ASSUME NEW m, Sound(m), NEW k \in 1 .. Len(m.minors)
    PROVE  LET b == m.minors[k] IN
           /\ UserAt(b) \in Nat /\ UserAt(b) + b.req <= BlockEnd(b)
           /\ MajorSize <= b.at /\ b.at + MinorSize + Alignment <= UserAt(b)
           /\ BlockEnd(b) <= m.size
           /\ Seen(m, k).at = m.base + UserAt(b) /\ Seen(m, k).bytes = b.req
           /\ Seen(m, k).at \in Nat /\ Seen(m, k).bytes \in Nat
           /\ m.base < Seen(m, k).at /\ Seen(m, k).at + Seen(m, k).bytes <= m.base + m.size
<1> DEFINE b == m.minors[k]
<1>1. /\ m.base \in Nat /\ m.size \in Nat /\ m.minors \in Seq(MinorType)  BY SoundType
<1>2. /\ b.at \in Nat /\ b.size \in Nat /\ b.req \in Nat /\ BlockEnd(b) \in Nat
  BY <1>1, MinorIs
<1>3. MajorSize \in Nat \ {0} /\ MinorSize \in Nat \ {0} /\ Alignment \in Nat \ {0}
  BY Constants
<1>4. UserAt(b) \in Nat
  <2> DEFINE x == b.at + MinorSize + Alignment
  <2>1. x \in Nat  BY <1>2, <1>3, SMTT(40)
  <2> HIDE DEF x
  <2>2. AlignUp(x) \in Nat  BY <2>1, AlignUpIs
  <2> QED  BY <2>2 DEF UserAt, x
<1>5. NotesInside(b) /\ InOrder(m.minors, m.size)  BY DEF Sound
<1>6. MajorSize <= b.at /\ BlockEnd(b) <= m.size  BY <1>1, <1>5, BlocksInOrder
<1>7. Seen(m, k).at = m.base + UserAt(b) /\ Seen(m, k).bytes = b.req  BY DEF Seen
<1>8. b.at + MinorSize <= UserAt(b) - Alignment /\ UserAt(b) + b.req <= BlockEnd(b)
  BY <1>5 DEF NotesInside
<1>9. /\ Seen(m, k).at \in Nat /\ Seen(m, k).bytes \in Nat
      /\ m.base < Seen(m, k).at /\ Seen(m, k).at + Seen(m, k).bytes <= m.base + m.size
  <2> DEFINE base == m.base
             size == m.size
             user == UserAt(b)
             req == b.req
             end == BlockEnd(b)
             at == b.at
  <2>1. /\ base \in Nat /\ size \in Nat /\ user \in Nat /\ req \in Nat /\ end \in Nat
        /\ at \in Nat /\ at + MinorSize <= user - Alignment /\ user + req <= end /\ end <= size
    BY <1>1, <1>2, <1>4, <1>6, <1>8
  <2>2. Seen(m, k).at = base + user /\ Seen(m, k).bytes = req  BY <1>7
  <2> HIDE DEF base, size, user, req, end, at
  <2>3. /\ base + user \in Nat /\ base < base + user /\ base + user + req <= base + size
    BY <1>3, <2>1
  <2> QED  BY <2>1, <2>2, <2>3 DEF base, size
<1> HIDE DEF b
<1> QED  BY <1>2, <1>3, <1>4, <1>6, <1>7, <1>8, <1>9, SMTT(40) DEF b

\* Two blocks of a major are apart.
LEMMA ApartInMajor ==
    ASSUME NEW m, Sound(m), NEW j \in 1 .. Len(m.minors), NEW k \in 1 .. Len(m.minors), j # k
    PROVE  Promise!Apart(Seen(m, j), Seen(m, k)) /\ Seen(m, j).at # Seen(m, k).at
<1>1. ASSUME NEW i \in 1 .. Len(m.minors), NEW l \in 1 .. Len(m.minors), i < l
      PROVE  Seen(m, i).at + Seen(m, i).bytes < Seen(m, l).at
  <2> DEFINE b == m.minors[i]
             c == m.minors[l]
  <2>1. /\ m.base \in Nat /\ m.size \in Nat /\ m.minors \in Seq(MinorType)
        /\ Len(m.minors) \in Nat
    BY SoundType
  <2>2. MinorSize \in Nat \ {0} /\ Alignment \in Nat \ {0}  BY Constants
  <2>3. l \in i + 1 .. Len(m.minors) /\ InOrder(m.minors, m.size)  BY <1>1, <2>1 DEF Sound
  <2>4. BlockEnd(b) <= c.at  BY <2>1, <2>3, BlocksInOrder
  <2>5. UserAt(b) \in Nat /\ UserAt(b) + b.req <= BlockEnd(b)
        /\ Seen(m, i).at = m.base + UserAt(b) /\ Seen(m, i).bytes = b.req
    BY SeenInside
  <2>6. UserAt(c) \in Nat /\ c.at + MinorSize + Alignment <= UserAt(c)
        /\ Seen(m, l).at = m.base + UserAt(c)
    BY SeenInside
  <2>7. b.req \in Nat /\ BlockEnd(b) \in Nat /\ c.at \in Nat  BY <2>1, MinorIs
  <2> DEFINE base == m.base
             user == UserAt(b)
             req == b.req
             end == BlockEnd(b)
             at == c.at
             next == UserAt(c)
  <2>8. /\ base \in Nat /\ user \in Nat /\ req \in Nat /\ end \in Nat /\ at \in Nat
        /\ next \in Nat /\ user + req <= end /\ end <= at /\ at + MinorSize + Alignment <= next
    BY <2>1, <2>4, <2>5, <2>6, <2>7
  <2>9. Seen(m, i).at = base + user /\ Seen(m, i).bytes = req /\ Seen(m, l).at = base + next
    BY <2>5, <2>6
  <2> HIDE DEF base, user, req, end, at, next
  <2>10. base + user + req < base + next  BY <2>2, <2>8
  <2> QED  BY <2>9, <2>10
<1>2. /\ Seen(m, j).at \in Nat /\ Seen(m, j).bytes \in Nat
      /\ Seen(m, k).at \in Nat /\ Seen(m, k).bytes \in Nat
  BY SeenInside
<1>3. j \in Int /\ k \in Int  OBVIOUS
<1>4. CASE j < k
  <2>1. Seen(m, j).at + Seen(m, j).bytes < Seen(m, k).at  BY <1>1, <1>4
  <2> QED  BY <1>2, <2>1 DEF Promise!Apart
<1>5. CASE k < j
  <2>1. Seen(m, k).at + Seen(m, k).bytes < Seen(m, j).at  BY <1>1, <1>5
  <2> QED  BY <1>2, <2>1 DEF Promise!Apart
<1> QED  BY <1>3, <1>4, <1>5

\* Two majors that share no page share no byte.
LEMMA MajorsApart ==
    ASSUME NEW m, NEW n, Sound(m), Sound(n),
           PagesFrom(m.base, m.pages) \cap PagesFrom(n.base, n.pages) = {}
    PROVE  m.base + m.size <= n.base \/ n.base + n.size <= m.base
<1>1. PICK p \in HeapPages : m.base = p * PageSize  BY DEF Sound
<1>2. PICK q \in HeapPages : n.base = q * PageSize  BY DEF Sound
<1>3. /\ m.pages \in Nat \ {0} /\ n.pages \in Nat \ {0} /\ p \in Nat /\ q \in Nat
      /\ PageSize \in Nat \ {0}
  BY SoundType, Constants
<1>4. m.size = m.pages * PageSize /\ n.size = n.pages * PageSize  BY DEF Sound
<1>5. PagesFrom(m.base, m.pages) = p .. p + m.pages - 1
      /\ PagesFrom(n.base, n.pages) = q .. q + n.pages - 1
  BY <1>1, <1>2, <1>3, PagesFromIs
<1> DEFINE a == m.pages
           b == n.pages
<1>6. p + a <= q \/ q + b <= p
  <2>1. a \in Nat \ {0} /\ b \in Nat \ {0}
        /\ (p .. p + a - 1) \cap (q .. q + b - 1) = {}
    BY <1>3, <1>5
  <2> HIDE DEF a, b
  <2>2. p \in p .. p + a - 1 /\ q \in q .. q + b - 1  BY <1>3, <2>1
  <2>3. ~(q \in p .. p + a - 1) /\ ~(p \in q .. q + b - 1)  BY <2>1, <2>2
  <2> QED  BY <1>3, <2>1, <2>3
<1>7. a \in Nat /\ b \in Nat /\ m.size = a * PageSize /\ n.size = b * PageSize
  BY <1>3, <1>4
<1> HIDE DEF a, b
<1>8. CASE p + a <= q
  <2>1. (p + a) * PageSize <= q * PageSize  BY <1>3, <1>7, <1>8, TimesMonotone
  <2>2. (p + a) * PageSize = p * PageSize + a * PageSize  BY <1>3, <1>7, SMT
  <2> QED  BY <1>1, <1>2, <1>7, <2>1, <2>2
<1>9. CASE q + b <= p
  <2>1. (q + b) * PageSize <= p * PageSize  BY <1>3, <1>7, <1>9, TimesMonotone
  <2>2. (q + b) * PageSize = q * PageSize + b * PageSize  BY <1>3, <1>7, SMT
  <2> QED  BY <1>1, <1>2, <1>7, <2>1, <2>2
<1> QED  BY <1>6, <1>8, <1>9

\* Any two blocks of the heap are apart.
LEMMA AllApart ==
    ASSUME NEW list, GoodList(list),
           NEW i \in 1 .. Len(list), NEW j \in 1 .. Len(list[i].minors),
           NEW l \in 1 .. Len(list), NEW k \in 1 .. Len(list[l].minors),
           i # l \/ j # k
    PROVE  /\ Promise!Apart(Seen(list[i], j), Seen(list[l], k))
           /\ Seen(list[i], j).at # Seen(list[l], k).at
<1>1. DOMAIN list = 1 .. Len(list)  BY DEF GoodList
<1>2. Sound(list[i]) /\ Sound(list[l])  BY <1>1 DEF GoodList
<1>3. CASE i = l  BY <1>2, <1>3, ApartInMajor
<1>4. CASE i # l
  <2> DEFINE m == list[i]
             n == list[l]
  <2>1. m.base + m.size <= n.base \/ n.base + n.size <= m.base
    <3>1. PagesFrom(m.base, m.pages) \cap PagesFrom(n.base, n.pages) = {}
      BY <1>1, <1>4 DEF GoodList
    <3> QED  BY <1>2, <3>1, MajorsApart
  <2>2. /\ Seen(m, j).at \in Nat /\ Seen(m, j).bytes \in Nat
        /\ m.base < Seen(m, j).at /\ Seen(m, j).at + Seen(m, j).bytes <= m.base + m.size
    BY <1>2, SeenInside
  <2>3. /\ Seen(n, k).at \in Nat /\ Seen(n, k).bytes \in Nat
        /\ n.base < Seen(n, k).at /\ Seen(n, k).at + Seen(n, k).bytes <= n.base + n.size
    BY <1>2, SeenInside
  <2>4. m.base \in Nat /\ m.size \in Nat /\ n.base \in Nat /\ n.size \in Nat
    BY <1>2, SoundType
  <2> DEFINE a == m.base
             x == m.size
             b == n.base
             y == n.size
             p == Seen(m, j).at
             u == Seen(m, j).bytes
             q == Seen(n, k).at
             v == Seen(n, k).bytes
  <2>6. /\ a \in Nat /\ x \in Nat /\ b \in Nat /\ y \in Nat /\ p \in Nat /\ u \in Nat
        /\ q \in Nat /\ v \in Nat
        /\ a + x <= b \/ b + y <= a
        /\ a < p /\ p + u <= a + x /\ b < q /\ q + v <= b + y
    BY <2>1, <2>2, <2>3, <2>4
  <2> HIDE DEF a, x, b, y, p, u, q, v
  <2>7. p # q /\ (p + u <= q \/ q + v <= p)  BY <2>6
  <2>5. Promise!Apart(Seen(m, j), Seen(n, k)) /\ Seen(m, j).at # Seen(n, k).at
    BY <2>7 DEF Promise!Apart, p, u, q, v
  <2> HIDE DEF m, n
  <2> QED  BY <2>5 DEF m, n
<1> QED  BY <1>3, <1>4

\* The major w is m with b placed behind its first k blocks.
Placed(m, w, k, b) ==
    /\ m.minors \in Seq(MinorType) /\ w.base = m.base
    /\ k \in 0 .. Len(m.minors) /\ b \in MinorType
    /\ w.minors = InsertAt(m.minors, k + 1, b)

\* A block placed appears in its major, and the others stay.
LEMMA SeenPlaced ==
    ASSUME NEW m, NEW w, NEW k, NEW b, Placed(m, w, k, b)
    PROVE  /\ k + 1 \in 1 .. Len(w.minors)
           /\ w.minors[k + 1] = b
           /\ \A x \in SeenIn(m) : \E j \in 1 .. Len(w.minors) : j # k + 1 /\ x = Seen(w, j)
           /\ SeenIn(w) = SeenIn(m) \cup {Seen(w, k + 1)}
<1> DEFINE s == m.minors
           t == w.minors
           u == InsertAt(s, k + 1, b)
<1> USE DEF Placed
<1>0. t = u /\ s \in Seq(MinorType)  OBVIOUS
<1>1. Len(t) = Len(s) + 1
  <2>1. Len(u) = Len(s) + 1  BY InsertIs
  <2> QED  BY <1>0, <2>1
<1>2. t[k + 1] = b  BY InsertIs
<1>3. \A j \in 1 .. k : t[j] = s[j]  BY InsertIs
<1>4. \A j \in k + 2 .. Len(s) + 1 : t[j] = s[j - 1]
  <2>1. k \in 0 .. Len(s)  OBVIOUS
  <2> HIDE DEF s
  <2>2. \A j \in k + 2 .. Len(s) + 1 : u[j] = s[j - 1]  BY <1>0, <2>1, InsertIs
  <2> QED  BY <1>0, <2>2
<1>5. Len(s) \in Nat  OBVIOUS
<1>6. \A j \in 1 .. Len(t), l \in 1 .. Len(s) : t[j] = s[l] => Seen(w, j) = Seen(m, l)
  BY DEF Seen
<1> HIDE DEF s, t
<1>8. k + 1 \in 1 .. Len(t)  BY <1>1, <1>5 DEF s
<1>9. \A j \in 1 .. Len(t) : j # k + 1 => \E l \in 1 .. Len(s) : t[j] = s[l]
  <2> SUFFICES ASSUME NEW j \in 1 .. Len(t), j # k + 1
               PROVE  \E l \in 1 .. Len(s) : t[j] = s[l]
    OBVIOUS
  <2>0. k \in 0 .. Len(s)  BY DEF s
  <2>1. CASE j <= k
    <3>1. j \in 1 .. k /\ j \in 1 .. Len(s)  BY <1>5, <2>0, <2>1
    <3> QED  BY <1>3, <3>1
  <2>2. CASE j > k
    <3>1. j \in k + 2 .. Len(s) + 1 /\ j - 1 \in 1 .. Len(s)  BY <1>1, <1>5, <2>0, <2>2
    <3> QED  BY <1>4, <3>1
  <2> QED  BY <1>1, <1>5, <2>0, <2>1, <2>2
<1>10. \A l \in 1 .. Len(s) : \E j \in 1 .. Len(t) : j # k + 1 /\ t[j] = s[l]
  <2> TAKE l \in 1 .. Len(s)
  <2>0. k \in 0 .. Len(s)  BY DEF s
  <2>1. CASE l <= k
    <3>1. l \in 1 .. k /\ l \in 1 .. Len(t) /\ l # k + 1  BY <1>1, <1>5, <2>0, <2>1
    <3> QED  BY <1>3, <3>1
  <2>2. CASE l > k
    <3>1. l + 1 \in k + 2 .. Len(s) + 1 /\ (l + 1) - 1 = l  BY <1>5, <2>0, <2>2
    <3>2. t[l + 1] = s[(l + 1) - 1]  BY <1>4, <3>1
    <3>3. t[l + 1] = s[l] /\ l + 1 \in 1 .. Len(t) /\ l + 1 # k + 1
      BY <1>1, <1>5, <2>0, <2>2, <3>1, <3>2
    <3> QED  BY <3>3
  <2> QED  BY <1>5, <2>0, <2>1, <2>2
<1>11. SeenIn(w) = {Seen(w, j) : j \in 1 .. Len(t)} /\ SeenIn(m) = {Seen(m, l) : l \in 1 .. Len(s)}
  BY DEF SeenIn, s, t
<1>12. \A x \in SeenIn(w) : x \in SeenIn(m) \/ x = Seen(w, k + 1)
  BY <1>6, <1>9, <1>11
<1>13. \A x \in SeenIn(m) : x \in SeenIn(w)  BY <1>6, <1>10, <1>11
<1>14. Seen(w, k + 1) \in SeenIn(w)  BY <1>8, <1>11
<1>15. SeenIn(w) = SeenIn(m) \cup {Seen(w, k + 1)}  BY <1>12, <1>13, <1>14
<1>16. \A x \in SeenIn(m) : \E j \in 1 .. Len(t) : j # k + 1 /\ x = Seen(w, j)
  BY <1>6, <1>10, <1>11
<1>17. t[k + 1] = b  BY <1>2
<1> QED  BY <1>8, <1>15, <1>16, <1>17 DEF t

\* A block unlinked disappears from its major, and the others stay.
LEMMA SeenUnlinked ==
    ASSUME NEW m, NEW w, Sound(m), w.base = m.base,
           NEW k \in 1 .. Len(m.minors), w.minors = RemoveAt(m.minors, k)
    PROVE  SeenIn(w) = SeenIn(m) \ {Seen(m, k)}
<1> DEFINE s == m.minors
           t == w.minors
<1>0. s \in Seq(MinorType) /\ Len(s) \in Nat  BY SoundType
<1>1. Len(t) = Len(s) - 1  BY <1>0, RemoveIs
<1>3. \A j \in 1 .. k - 1 : t[j] = s[j]  BY <1>0, RemoveIs
<1>4. \A j \in k .. Len(s) - 1 : t[j] = s[j + 1]  BY <1>0, RemoveIs
<1>6. \A j \in 1 .. Len(t), l \in 1 .. Len(s) : t[j] = s[l] => Seen(w, j) = Seen(m, l)
  BY DEF Seen
<1>7. \A l \in 1 .. Len(s) : l # k => Seen(m, l) # Seen(m, k)
  BY ApartInMajor
<1>8. k \in 1 .. Len(s)  OBVIOUS
<1> HIDE DEF s, t
<1>9. \A j \in 1 .. Len(t) : \E l \in 1 .. Len(s) : l # k /\ t[j] = s[l]
  <2> TAKE j \in 1 .. Len(t)
  <2>1. CASE j < k
    <3>1. j \in 1 .. k - 1 /\ j \in 1 .. Len(s) /\ j # k  BY <1>0, <1>1, <1>8, <2>1
    <3> QED  BY <1>3, <3>1
  <2>2. CASE j >= k
    <3>1. j \in k .. Len(s) - 1 /\ j + 1 \in 1 .. Len(s) /\ j + 1 # k
      BY <1>0, <1>1, <1>8, <2>2
    <3> QED  BY <1>4, <3>1
  <2> QED  BY <1>0, <1>1, <1>8, <2>1, <2>2
<1>10. \A l \in 1 .. Len(s) : l # k => \E j \in 1 .. Len(t) : t[j] = s[l]
  <2> SUFFICES ASSUME NEW l \in 1 .. Len(s), l # k
               PROVE  \E j \in 1 .. Len(t) : t[j] = s[l]
    OBVIOUS
  <2>1. CASE l < k
    <3>1. l \in 1 .. k - 1 /\ l \in 1 .. Len(t)  BY <1>0, <1>1, <1>8, <2>1
    <3> QED  BY <1>3, <3>1
  <2>2. CASE l > k
    <3>1. l - 1 \in k .. Len(s) - 1 /\ (l - 1) + 1 = l  BY <1>0, <1>8, <2>2
    <3>2. t[l - 1] = s[(l - 1) + 1]  BY <1>4, <3>1
    <3>3. t[l - 1] = s[l] /\ l - 1 \in 1 .. Len(t)  BY <1>0, <1>1, <1>8, <2>2, <3>1, <3>2
    <3> QED  BY <3>3
  <2> QED  BY <1>0, <1>8, <2>1, <2>2
<1>11. SeenIn(w) = {Seen(w, j) : j \in 1 .. Len(t)} /\ SeenIn(m) = {Seen(m, l) : l \in 1 .. Len(s)}
  BY DEF SeenIn, s, t
<1>12. \A x \in SeenIn(w) : x \in SeenIn(m) /\ x # Seen(m, k)
  <2> TAKE x \in SeenIn(w)
  <2>1. PICK j \in 1 .. Len(t) : x = Seen(w, j)  BY <1>11
  <2>2. PICK l \in 1 .. Len(s) : l # k /\ t[j] = s[l]  BY <1>9
  <2>3. x = Seen(m, l)  BY <1>6, <2>1, <2>2
  <2> QED  BY <1>7, <1>11, <2>2, <2>3
<1>13. \A x \in SeenIn(m) : x # Seen(m, k) => x \in SeenIn(w)
  <2> SUFFICES ASSUME NEW x \in SeenIn(m), x # Seen(m, k)
               PROVE  x \in SeenIn(w)
    OBVIOUS
  <2>1. PICK l \in 1 .. Len(s) : x = Seen(m, l)  BY <1>11
  <2>2. l # k  BY <2>1
  <2>3. PICK j \in 1 .. Len(t) : t[j] = s[l]  BY <1>10, <2>2
  <2>4. Seen(w, j) = x  BY <1>6, <2>1, <2>3
  <2> QED  BY <1>11, <2>4
<1> QED  BY <1>12, <1>13

\* A block whose note changes appears changed, where it was.
LEMMA SeenChanged ==
    ASSUME NEW m, NEW w, Sound(m), w.base = m.base, NEW k \in 1 .. Len(m.minors), NEW r,
           Len(w.minors) = Len(m.minors),
           \A j \in 1 .. Len(m.minors) : j # k => w.minors[j] = m.minors[j],
           w.minors[k].at = m.minors[k].at, w.minors[k].req = r
    PROVE  SeenIn(w) = (SeenIn(m) \ {Seen(m, k)}) \cup {[at |-> Seen(m, k).at, bytes |-> r]}
<1>1. \A j \in 1 .. Len(m.minors) : j # k => Seen(w, j) = Seen(m, j)  BY DEF Seen
<1>2. Seen(w, k) = [at |-> Seen(m, k).at, bytes |-> r]  BY DEF Seen, UserAt
<1>3. \A l \in 1 .. Len(m.minors) : l # k => Seen(m, l) # Seen(m, k)  BY ApartInMajor
<1> QED  BY <1>1, <1>2, <1>3 DEF SeenIn

\* Only the i-th major differs: the blocks of out left it, those of in came.
ChangedIn(list, new, i, out, in) ==
    /\ GoodList(list) /\ i \in 1 .. Len(list) /\ Len(new) = Len(list)
    /\ \A j \in 1 .. Len(list) : j # i => new[j] = list[j]
    /\ out \subseteq SeenIn(list[i])
    /\ SeenIn(new[i]) = (SeenIn(list[i]) \ out) \cup in

\* What changes in one major changes in the heap, and nothing else does.
LEMMA SeenReplaced ==
    ASSUME NEW list, NEW new, NEW i, NEW out, NEW in, ChangedIn(list, new, i, out, in)
    PROVE  AllSeen(new) = (AllSeen(list) \ out) \cup in
<1> USE DEF ChangedIn
<1>1. \A j \in 1 .. Len(list) : j # i => SeenIn(list[j]) \cap out = {}
  <2> SUFFICES ASSUME NEW j \in 1 .. Len(list), j # i, NEW x \in SeenIn(list[j]), x \in out
               PROVE  FALSE
    OBVIOUS
  <2>1. PICK k \in 1 .. Len(list[j].minors) : x = Seen(list[j], k)  BY DEF SeenIn
  <2>2. PICK l \in 1 .. Len(list[i].minors) : x = Seen(list[i], l)  BY DEF SeenIn
  <2>3. Seen(list[j], k).at # Seen(list[i], l).at  BY AllApart
  <2> QED  BY <2>1, <2>2, <2>3
<1>2. \A j \in 1 .. Len(list) : j # i => SeenIn(new[j]) = SeenIn(list[j])  OBVIOUS
<1>3. \A x : x \in AllSeen(new) <=> \E j \in 1 .. Len(list) : x \in SeenIn(new[j])
  BY DEF AllSeen
<1>4. \A x : x \in AllSeen(list) <=> \E j \in 1 .. Len(list) : x \in SeenIn(list[j])
  BY DEF AllSeen
<1>5. \A x \in AllSeen(new) : x \in (AllSeen(list) \ out) \cup in
  BY <1>1, <1>2, <1>3, <1>4
<1>6. \A x \in (AllSeen(list) \ out) \cup in : x \in AllSeen(new)
  BY <1>2, <1>3, <1>4
<1> QED  BY <1>5, <1>6

\* A major without blocks shows nothing.
LEMMA SeenAppended ==
    ASSUME NEW list, GoodList(list), NEW new, Len(new) = Len(list) + 1,
           \A j \in 1 .. Len(list) : new[j] = list[j], new[Len(list) + 1].minors = <<>>
    PROVE  AllSeen(new) = AllSeen(list)
<1>1. Len(list) \in Nat  BY DEF GoodList
<1>2. SeenIn(new[Len(list) + 1]) = {}  BY DEF SeenIn
<1>3. 1 .. Len(new) = (1 .. Len(list)) \cup {Len(list) + 1}  BY <1>1
<1>4. \A x : x \in AllSeen(new) <=> \E j \in 1 .. Len(new) : x \in SeenIn(new[j])
  BY DEF AllSeen
<1>5. \A x : x \in AllSeen(list) <=> \E j \in 1 .. Len(list) : x \in SeenIn(list[j])
  BY DEF AllSeen
<1>6. \A x : x \in AllSeen(new) <=> x \in AllSeen(list)  BY <1>2, <1>3, <1>4, <1>5
<1> QED  BY <1>6

\* A major released takes its blocks with it, and no other's.
LEMMA SeenRemoved ==
    ASSUME NEW list, GoodList(list), NEW i \in 1 .. Len(list), NEW new,
           Len(new) = Len(list) - 1,
           \A j \in 1 .. i - 1 : new[j] = list[j],
           \A j \in i .. Len(list) - 1 : new[j] = list[j + 1]
    PROVE  AllSeen(new) = AllSeen(list) \ SeenIn(list[i])
<1>1. Len(list) \in Nat  BY DEF GoodList
<1>2. \A j \in 1 .. Len(list) : j # i => SeenIn(list[j]) \cap SeenIn(list[i]) = {}
  <2> SUFFICES ASSUME NEW j \in 1 .. Len(list), j # i, NEW x \in SeenIn(list[j]),
                      x \in SeenIn(list[i])
               PROVE  FALSE
    OBVIOUS
  <2>1. PICK k \in 1 .. Len(list[j].minors) : x = Seen(list[j], k)  BY DEF SeenIn
  <2>2. PICK l \in 1 .. Len(list[i].minors) : x = Seen(list[i], l)  BY DEF SeenIn
  <2>3. Seen(list[j], k).at # Seen(list[i], l).at
    <3> DEFINE differ == Seen(list[j], k).at # Seen(list[i], l).at
    <3>1. Promise!Apart(Seen(list[j], k), Seen(list[i], l)) /\ differ
      BY AllApart
    <3> HIDE DEF differ
    <3>2. differ  BY <3>1
    <3> QED  BY <3>2 DEF differ
  <2> QED  BY <2>1, <2>2, <2>3
<1>3. \A x : x \in AllSeen(new) <=> \E j \in 1 .. Len(new) : x \in SeenIn(new[j])
  BY DEF AllSeen
<1>4. \A x : x \in AllSeen(list) <=> \E j \in 1 .. Len(list) : x \in SeenIn(list[j])
  BY DEF AllSeen
<1>5. \A j \in 1 .. Len(new) : \E l \in 1 .. Len(list) : l # i /\ new[j] = list[l]
  <2> TAKE j \in 1 .. Len(new)
  <2>1. CASE j < i
    <3>1. j \in 1 .. i - 1 /\ j \in 1 .. Len(list) /\ j # i  BY <1>1, <2>1
    <3> QED  BY <3>1
  <2>2. CASE j >= i
    <3>1. j \in i .. Len(list) - 1 /\ j + 1 \in 1 .. Len(list) /\ j + 1 # i  BY <1>1, <2>2
    <3> QED  BY <3>1
  <2> QED  BY <1>1, <2>1, <2>2
<1>6. \A l \in 1 .. Len(list) : l # i => \E j \in 1 .. Len(new) : new[j] = list[l]
  <2> SUFFICES ASSUME NEW l \in 1 .. Len(list), l # i
               PROVE  \E j \in 1 .. Len(new) : new[j] = list[l]
    OBVIOUS
  <2>1. CASE l < i
    <3>1. l \in 1 .. i - 1 /\ l \in 1 .. Len(new)  BY <1>1, <2>1
    <3> QED  BY <3>1
  <2>2. CASE l > i
    <3>1. l - 1 \in i .. Len(list) - 1 /\ (l - 1) + 1 = l  BY <1>1, <2>2
    <3>2. new[l - 1] = list[(l - 1) + 1]  BY <3>1
    <3>3. new[l - 1] = list[l] /\ l - 1 \in 1 .. Len(new)  BY <1>1, <2>2, <3>1, <3>2
    <3> QED  BY <3>3
  <2> QED  BY <1>1, <2>1, <2>2
<1>7. \A x \in AllSeen(new) : x \in AllSeen(list) \ SeenIn(list[i])
  <2> TAKE x \in AllSeen(new)
  <2>1. PICK j \in 1 .. Len(new) : x \in SeenIn(new[j])  BY <1>3
  <2>2. PICK l \in 1 .. Len(list) : l # i /\ new[j] = list[l]  BY <1>5
  <2>3. x \in SeenIn(list[l])  BY <2>1, <2>2
  <2> QED  BY <1>2, <1>4, <2>2, <2>3
<1>8. \A x \in AllSeen(list) \ SeenIn(list[i]) : x \in AllSeen(new)
  <2> TAKE x \in AllSeen(list) \ SeenIn(list[i])
  <2>1. PICK l \in 1 .. Len(list) : x \in SeenIn(list[l])  BY <1>4
  <2>2. l # i  BY <2>1
  <2>3. PICK j \in 1 .. Len(new) : new[j] = list[l]  BY <1>6, <2>2
  <2>4. x \in SeenIn(new[j])  BY <2>1, <2>3
  <2> QED  BY <1>3, <2>4
<1> QED  BY <1>7, <1>8

-----------------------------------------------------------------------------
(* The steps *)

\* The pointer of a block is a multiple of the alignment.
LEMMA PointersAligned ==
    ASSUME NEW m, Sound(m), NEW b, b.at \in Nat
    PROVE  (m.base + UserAt(b)) % Alignment = 0
<1> DEFINE c == PageSize \div Alignment
           x == b.at + MinorSize + Alignment
<1>1. PageSize \in Nat /\ Alignment \in Nat \ {0} /\ MinorSize \in Nat  BY Constants
<1>2. PICK p \in HeapPages : m.base = p * PageSize  BY DEF Sound
<1>3. p \in Nat  BY Constants
<1>4. c \in Nat /\ PageSize = c * Alignment
  <2>1. PageSize % Alignment = 0  BY HeapConstants DEF HeapConstants
  <2>2. c \in Nat /\ PageSize = c * Alignment + (PageSize % Alignment)  BY <1>1, DivMod
  <2> HIDE DEF c
  <2>3. c * Alignment \in Nat  BY <1>1, <2>2, SMT
  <2> QED  BY <2>1, <2>2, <2>3
<1>5. PICK q \in Nat : UserAt(b) = q * Alignment
  <2>1. x \in Nat  BY <1>1
  <2> HIDE DEF x
  <2>2. \E q \in Nat : AlignUp(x) = q * Alignment  BY <2>1, AlignUpIs
  <2> QED  BY <2>2 DEF UserAt, x
<1> HIDE DEF c
<1>6. m.base + UserAt(b) = (p * c + q) * Alignment + 0
  <2>1. p * (c * Alignment) + q * Alignment = (p * c + q) * Alignment + 0
    BY <1>1, <1>3, <1>4, SMT
  <2> QED  BY <1>2, <1>4, <1>5, <2>1
<1>7. p * c + q \in Nat  BY <1>3, <1>4, SMT
<1>8. 0 \in 0 .. Alignment - 1  BY <1>1
<1>9. ((p * c + q) * Alignment + 0) % Alignment = 0
  <2> DEFINE d == p * c + q
  <2>1. d \in Nat  BY <1>7
  <2> HIDE DEF d
  <2>2. (d * Alignment + 0) % Alignment = 0  BY <1>1, <1>8, <2>1, DivModUnique
  <2> QED  BY <2>2 DEF d
<1> QED  BY <1>6, <1>9

\* kmalloc places its block: in a gap of one major, with everything else as it
\* was, and apart from every other block.
LEMMA PlaceInKeeps ==
    ASSUME NEW list, GoodList(list), NEW i \in 1 .. Len(list),
           job \in JobType, job.req \in Requests,
           NEW k \in Fitting(list[i], SizeFor(job.req)),
           FreeIn(list[i]) >= SizeFor(job.req) + MinorSize,
           status \in {"up", "panic", "fault"},
           PlaceIn(list, i, k)
    PROVE  /\ GoodList(majors') /\ Len(majors') = Len(list)
           /\ \A j \in 1 .. Len(list) : j # i => majors'[j] = list[j]
           /\ \A j \in 1 .. Len(list) : majors'[j].base = list[j].base
           /\ majors'[i].minors # <<>>
           /\ Total(Sizes(majors')) = Total(Sizes(list))
           /\ Total(InUseIn(majors')) = Total(InUseIn(list)) + SizeFor(job.req)
           /\ inuse' = inuse + SizeFor(job.req)
           /\ job' \in JobType /\ job'.pc = "return" /\ job'.op = job.op
           /\ job'.old = job.old /\ job'.req = job.req /\ job'.result # NULL
           /\ status' \in {"up", "panic", "fault"}
           /\ \E x \in AllSeen(majors') :
                 /\ AllSeen(majors') = AllSeen(list) \cup {x}
                 /\ x.at % Alignment = 0
                 /\ \A c \in AllSeen(list) : Promise!Apart(x, c)
<1> DEFINE r == job.req
           m == list[i]
           w == WithBlock(m, k, r, SizeFor(r))
           b == [at |-> GapStart(m, k), size |-> SizeFor(r), req |-> r]
<1>1. Sound(m) /\ DOMAIN list = 1 .. Len(list) /\ list \in Seq(MajorType)  BY DEF GoodList
<1>2. /\ Sound(w)
      /\ w.base = m.base /\ w.pages = m.pages /\ w.size = m.size
      /\ k \in 0 .. Len(m.minors) /\ b \in MinorType
      /\ w.minors = InsertAt(m.minors, k + 1, b)
      /\ w.minors \in Seq(MinorType) /\ Len(w.minors) = Len(m.minors) + 1
      /\ Total(Sizes(w.minors)) = Total(Sizes(m.minors)) + SizeFor(r)
  <2>1. r \in Requests /\ FreeIn(m) >= SizeFor(r) + MinorSize /\ k \in Fitting(m, SizeFor(r))
    OBVIOUS
  <2> HIDE DEF r, m
  <2> QED  BY <1>1, <2>1, WithBlockSound
<1>3. majors' = [list EXCEPT ![i] = w]  BY DEF PlaceIn
<1>4. r \in Nat /\ SizeFor(r) \in Nat  BY PagesForIs
<1>5. m.minors \in Seq(MinorType) /\ Len(m.minors) \in Nat /\ m.base \in Nat  BY <1>1, SoundType
<1>6. b.at \in Nat  BY <1>2 DEF MinorType
<1> HIDE DEF w, b
<1>7. /\ k + 1 \in 1 .. Len(w.minors)
      /\ w.minors[k + 1] = b
      /\ Seen(w, k + 1) = [at |-> m.base + UserAt(b), bytes |-> b.req]
      /\ \A x \in SeenIn(m) : \E j \in 1 .. Len(w.minors) : j # k + 1 /\ x = Seen(w, j)
      /\ SeenIn(w) = SeenIn(m) \cup {Seen(w, k + 1)}
  <2> HIDE DEF m
  <2>0. Placed(m, w, k, b)  BY <1>2, <1>5 DEF Placed
  <2>1. k + 1 \in 1 .. Len(w.minors)  BY <1>2, <1>5
  <2>2. w.minors[k + 1] = b  BY <2>0, SeenPlaced
  <2>3. Seen(w, k + 1) = [at |-> m.base + UserAt(b), bytes |-> b.req]
    BY <1>2, <2>2 DEF Seen
  <2>4. \A x \in SeenIn(m) : \E j \in 1 .. Len(w.minors) : j # k + 1 /\ x = Seen(w, j)
    BY <2>0, SeenPlaced
  <2>5. SeenIn(w) = SeenIn(m) \cup {Seen(w, k + 1)}  BY <2>0, SeenPlaced
  <2> QED  BY <2>1, <2>2, <2>3, <2>4, <2>5
<1> DEFINE new == [list EXCEPT ![i] = w]
           x == Seen(w, k + 1)
<1>8. /\ GoodList(new) /\ Len(new) = Len(list) /\ new[i] = w
      /\ \A j \in 1 .. Len(list) : j # i => new[j] = list[j]
      /\ \A j \in 1 .. Len(list) : new[j].base = list[j].base
      /\ Total(Sizes(new)) = Total(Sizes(list))
      /\ Total(InUseIn(new)) = Total(InUseIn(list))
            - Total(Sizes(list[i].minors)) + Total(Sizes(w.minors))
  BY <1>2, GoodReplace
<1> HIDE DEF new
<1>9. majors' = new  BY <1>3 DEF new
<1>10. w.minors # <<>>  BY <1>7
<1>11. Total(InUseIn(new)) = Total(InUseIn(list)) + SizeFor(r)
  <2> DEFINE all == Total(InUseIn(list))
             old == Total(Sizes(list[i].minors))
  <2>1. all \in Nat /\ old \in Nat
    <3>1. InUseIn(list) \in Seq(Nat) /\ old \in Nat  BY InUseType
    <3> QED  BY <3>1, TotalType
  <2>2. Total(InUseIn(new)) = all - old + (old + SizeFor(r))  BY <1>2, <1>8
  <2> HIDE DEF all, old
  <2>3. all - old + (old + SizeFor(r)) = all + SizeFor(r)  BY <1>4, <2>1
  <2> QED  BY <2>2, <2>3 DEF all
<1>12. inuse' = inuse + SizeFor(r)  BY DEF PlaceIn
<1>13. status' \in {"up", "panic", "fault"}  BY DEF PlaceIn
<1>14. x.at \in Nat /\ m.base < x.at /\ x.at = m.base + UserAt(b)
  BY <1>2, <1>7, SeenInside
<1>15. /\ job' \in JobType /\ job'.pc = "return" /\ job'.op = job.op
       /\ job'.old = job.old /\ job'.req = job.req /\ job'.result # NULL
  <2> DEFINE res == list[i].base + UserAt(majors'[i].minors[k + 1])
  <2>1. job' = [job EXCEPT !.pc = "return", !.result = res]  BY DEF PlaceIn, Returned
  <2>2. res = m.base + UserAt(b)  BY <1>7, <1>8, <1>9
  <2>3. res \in Nat /\ res # NULL  BY <1>5, <1>14, <2>2 DEF NULL
  <2> HIDE DEF res
  <2> QED  BY <2>1, <2>3 DEF JobType
<1>16. AllSeen(new) = AllSeen(list) \cup {x}
  <2>1. SeenIn(new[i]) = (SeenIn(list[i]) \ {}) \cup {x}  BY <1>7, <1>8
  <2>2. AllSeen(new) = (AllSeen(list) \ {}) \cup {x}
    <3> DEFINE in == {x}
               out == {}
    <3>1. SeenIn(new[i]) = (SeenIn(list[i]) \ out) \cup in  BY <2>1
    <3>2. out \subseteq SeenIn(list[i])  OBVIOUS
    <3> HIDE DEF x, in, out
    <3>4. ChangedIn(list, new, i, out, in)  BY <1>8, <3>1, <3>2 DEF ChangedIn
    <3>3. AllSeen(new) = (AllSeen(list) \ out) \cup in  BY <3>4, SeenReplaced
    <3> QED  BY <3>3 DEF in, out
  <2> QED  BY <2>2
<1>17. x.at % Alignment = 0  BY <1>1, <1>6, <1>14, PointersAligned
<1>18. ASSUME NEW c \in AllSeen(list)
       PROVE  Promise!Apart(x, c)
  <2>1. PICK l \in 1 .. Len(list) : c \in SeenIn(list[l])  BY DEF AllSeen
  <2>2. CASE l = i
    <3>1. PICK j \in 1 .. Len(w.minors) : j # k + 1 /\ c = Seen(w, j)  BY <1>7, <2>1, <2>2
    <3> QED  BY <1>2, <1>7, <3>1, ApartInMajor
  <2>3. CASE l # i
    <3>1. PICK j \in 1 .. Len(list[l].minors) : c = Seen(list[l], j)  BY <2>1 DEF SeenIn
    <3>2. new[l] = list[l]  BY <1>8, <2>3
    <3>3. i \in 1 .. Len(new) /\ l \in 1 .. Len(new) /\ k + 1 \in 1 .. Len(new[i].minors)
          /\ j \in 1 .. Len(new[l].minors)
      BY <1>7, <1>8, <3>2
    <3>4. Promise!Apart(Seen(new[i], k + 1), Seen(new[l], j))
      <4> DEFINE kk == k + 1
      <4>1. kk \in 1 .. Len(new[i].minors)  BY <3>3
      <4> HIDE DEF kk
      <4>2. Promise!Apart(Seen(new[i], kk), Seen(new[l], j))  BY <1>8, <2>3, <3>3, <4>1, AllApart
      <4> QED  BY <4>2 DEF kk
    <3> QED  BY <1>8, <3>1, <3>2, <3>4
  <2> QED  BY <2>2, <2>3
<1> HIDE DEF x
<1>19. \E y \in AllSeen(new) :
          /\ AllSeen(new) = AllSeen(list) \cup {y}
          /\ y.at % Alignment = 0
          /\ \A c \in AllSeen(list) : Promise!Apart(y, c)
  BY <1>16, <1>17, <1>18
<1> HIDE DEF m, r
<1> QED
  <2>1. GoodList(majors') /\ Len(majors') = Len(list)  BY <1>8, <1>9
  <2>2. \A j \in 1 .. Len(list) : j # i => majors'[j] = list[j]  BY <1>8, <1>9
  <2>3. \A j \in 1 .. Len(list) : majors'[j].base = list[j].base  BY <1>8, <1>9
  <2>4. majors'[i].minors # <<>>  BY <1>8, <1>9, <1>10
  <2>5. Total(Sizes(majors')) = Total(Sizes(list))  BY <1>8, <1>9
  <2>6. Total(InUseIn(majors')) = Total(InUseIn(list)) + SizeFor(job.req)  BY <1>9, <1>11 DEF r
  <2>7. inuse' = inuse + SizeFor(job.req)  BY <1>12 DEF r
  <2>8. \E y \in AllSeen(majors') :
           /\ AllSeen(majors') = AllSeen(list) \cup {y}
           /\ y.at % Alignment = 0
           /\ \A c \in AllSeen(list) : Promise!Apart(y, c)
    BY <1>9, <1>19
  <2> QED  BY <1>13, <1>15, <2>1, <2>2, <2>3, <2>4, <2>5, <2>6, <2>7, <2>8, Zenon

\* Where an element left after removing the i-th of n is now.
LEMMA IndexAfterRemoval ==
    ASSUME NEW n \in Nat, NEW i \in 1 .. n, NEW j \in 1 .. n, j # i
    PROVE  \/ j \in 1 .. i - 1 /\ j \in 1 .. n - 1
           \/ j - 1 \in i .. n - 1 /\ j - 1 \in 1 .. n - 1 /\ (j - 1) + 1 = j
  OBVIOUS

\* kfree of a block: the counters follow, the bet stays a major of the heap, no
\* major is left empty, and exactly this block is gone.
LEMMA FreeBlockKeeps ==
    ASSUME GoodList(majors), Counted, BetOwned, bestBet \in Nat,
           \A l \in DOMAIN majors : majors[l].minors # <<>>,
           NEW p \in Pointers, FreeBlock(p)
    PROVE  /\ GoodList(majors') /\ Counted' /\ BetOwned' /\ bestBet' \in Nat
           /\ Len(majors') <= Len(majors)
           /\ \A l \in DOMAIN majors' : majors'[l].minors # <<>>
           /\ \E x \in AllSeen(majors) : AllSeen(majors') = AllSeen(majors) \ {x}
<1> DEFINE b == BlockAt(p)
           i == b[1]
           k == b[2]
           m == majors[i]
           w == WithoutBlock(m, k)
           x == Seen(m, k)
<1>1. /\ i \in 1 .. Len(majors) /\ k \in 1 .. Len(m.minors)
      /\ MinorOf(b) = m.minors[k] /\ x \in AllSeen(majors)
  BY SeenIsAll
<1>2. /\ inuse' = inuse - m.minors[k].size
      /\ \/ /\ w.minors = <<>>
            /\ majors' = RemoveAt(majors, i)
            /\ bestBet' = BetWithout(m)
            /\ allocated' = allocated - m.size
         \/ /\ w.minors # <<>>
            /\ majors' = [majors EXCEPT ![i] = w]
            /\ bestBet' = BetAfter(majors', i)
            /\ allocated' = allocated
  BY <1>1 DEF FreeBlock
<1> HIDE DEF b, i, k
<1>3. Sound(m) /\ DOMAIN majors = 1 .. Len(majors) /\ majors \in Seq(MajorType)
      /\ Len(majors) \in Nat
  BY <1>1 DEF GoodList
<1>4. /\ Sound(w)
      /\ w.base = m.base /\ w.pages = m.pages /\ w.size = m.size
      /\ w.minors = RemoveAt(m.minors, k)
      /\ w.minors \in Seq(MinorType)
      /\ Total(Sizes(w.minors)) = Total(Sizes(m.minors)) - m.minors[k].size
      /\ m.minors[k].size <= Total(Sizes(m.minors))
  <2> HIDE DEF m
  <2> QED  BY <1>1, <1>3, WithoutBlockSound
<1>5. SeenIn(w) = SeenIn(m) \ {x}
  <2> HIDE DEF m, w
  <2> QED  BY <1>1, <1>3, <1>4, SeenUnlinked
<1>6. x \in SeenIn(m)  BY <1>1 DEF SeenIn
<1>7. m.minors[k].size \in Nat /\ m.size \in Nat /\ m.base \in Nat
  <2>1. m.minors \in Seq(MinorType) /\ m.size \in Nat /\ m.base \in Nat  BY <1>3, SoundType
  <2> HIDE DEF m
  <2> QED  BY <1>1, <2>1, MinorIs
<1>8. inuse = Total(InUseIn(majors)) /\ allocated = Total(Sizes(majors))  BY DEF Counted
<1> DEFINE all == Total(InUseIn(majors))
           mine == Total(Sizes(m.minors))
           size == m.minors[k].size
<1>9. all \in Nat /\ mine \in Nat /\ size \in Nat
  <2>1. InUseIn(majors) \in Seq(Nat) /\ mine \in Nat  BY <1>1, InUseType
  <2> QED  BY <1>7, <2>1, TotalType
<1> HIDE DEF w, x
<1>10. CASE w.minors = <<>>
  <2> DEFINE new == RemoveAt(majors, i)
  <2>1. majors' = new /\ bestBet' = BetWithout(m) /\ allocated' = allocated - m.size
    BY <1>2, <1>10
  <2>2. /\ GoodList(new) /\ Len(new) = Len(majors) - 1
        /\ \A j \in 1 .. i - 1 : new[j] = majors[j]
        /\ \A j \in i .. Len(majors) - 1 : new[j] = majors[j + 1]
        /\ Total(Sizes(new)) = Total(Sizes(majors)) - majors[i].size
        /\ Total(InUseIn(new)) = Total(InUseIn(majors)) - Total(Sizes(majors[i].minors))
    BY <1>1, GoodRemove
  <2> HIDE DEF new
  <2>3. Total(InUseIn(new)) = all - size
    <3>1. Total(Sizes(w.minors)) = 0
      <4>1. Sizes(w.minors) \in Seq(Nat) /\ Len(Sizes(w.minors)) = Len(w.minors)
        <5>1. \A y \in MinorType : y.size \in Nat  BY DEF MinorType
        <5> QED  BY <1>4, <5>1, SizesType
      <4>2. Sizes(w.minors) = <<>>  BY <1>10, <4>1
      <4> QED  BY <4>1, <4>2, TotalType
    <3>2. 0 = mine - size  BY <1>4, <3>1
    <3>3. Total(InUseIn(new)) = all - mine  BY <2>2
    <3> HIDE DEF all, mine, size
    <3> QED  BY <1>9, <3>2, <3>3
  <2>4. Counted'
    <3>1. inuse' = Total(InUseIn(new))  BY <1>2, <1>8, <2>3
    <3>2. allocated' = Total(Sizes(new))  BY <1>8, <2>1, <2>2
    <3> QED  BY <2>1, <3>1, <3>2 DEF Counted
  <2>5. BetOwned' /\ bestBet' \in Nat
    <3>1. CASE bestBet' = NULL  BY <3>1 DEF BetOwned, NULL
    <3>2. CASE bestBet' # NULL
      <4>1. bestBet' = bestBet /\ bestBet # m.base  BY <2>1, <3>2 DEF BetWithout
      <4>2. PICK j \in 1 .. Len(majors) : majors[j].base = bestBet
        BY <1>3, <3>2, <4>1 DEF BetOwned
      <4>3. j # i  BY <4>1, <4>2
      <4>4. \E l \in 1 .. Len(new) : new[l] = majors[j]
        <5>1. \/ j \in 1 .. i - 1 /\ j \in 1 .. Len(majors) - 1
              \/ j - 1 \in i .. Len(majors) - 1 /\ j - 1 \in 1 .. Len(majors) - 1
                 /\ (j - 1) + 1 = j
          BY <1>1, <1>3, <4>3, IndexAfterRemoval
        <5>2. CASE j \in 1 .. i - 1 /\ j \in 1 .. Len(majors) - 1
          BY <2>2, <5>2
        <5>3. CASE j - 1 \in i .. Len(majors) - 1 /\ j - 1 \in 1 .. Len(majors) - 1
                   /\ (j - 1) + 1 = j
          <6>1. new[j - 1] = majors[(j - 1) + 1]  BY <2>2, <5>3
          <6>2. new[j - 1] = majors[j] /\ j - 1 \in 1 .. Len(new)  BY <2>2, <5>3, <6>1
          <6> QED  BY <6>2
        <5> QED  BY <5>1, <5>2, <5>3
      <4>5. PICK l \in 1 .. Len(new) : new[l] = majors[j]  BY <4>4
      <4>6. DOMAIN new = 1 .. Len(new)  BY <2>2 DEF GoodList
      <4>7. l \in DOMAIN majors' /\ majors'[l].base = bestBet'  BY <2>1, <4>1, <4>2, <4>5, <4>6
      <4> QED  BY <4>1, <4>7 DEF BetOwned
    <3> QED  BY <3>1, <3>2
  <2>6. \A l \in DOMAIN new : new[l].minors # <<>>
    <3> TAKE l \in DOMAIN new
    <3>1. l \in 1 .. Len(majors) - 1  BY <2>2 DEF GoodList
    <3>2. CASE l < i
      <4>1. l \in 1 .. i - 1 /\ l \in 1 .. Len(majors)  BY <1>1, <1>3, <3>1, <3>2
      <4> QED  BY <1>3, <2>2, <4>1
    <3>3. CASE l >= i
      <4>1. l \in i .. Len(majors) - 1 /\ l + 1 \in 1 .. Len(majors)  BY <1>1, <1>3, <3>1, <3>3
      <4>2. new[l] = majors[l + 1]  BY <2>2, <4>1
      <4> QED  BY <1>3, <4>1, <4>2
    <3> QED  BY <1>1, <3>1, <3>2, <3>3
  <2>7. AllSeen(new) = AllSeen(majors) \ {x}
    <3>1. SeenIn(w) = {}
      <4>1. 1 .. Len(w.minors) = {}  BY <1>10
      <4> QED  BY <4>1 DEF SeenIn
    <3>2. SeenIn(m) = {x}  BY <1>5, <1>6, <3>1
    <3>3. AllSeen(new) = AllSeen(majors) \ SeenIn(majors[i])  BY <1>1, <2>2, SeenRemoved
    <3> QED  BY <3>2, <3>3
  <2>8. Len(new) <= Len(majors)  BY <1>3, <2>2
  <2> QED  BY <1>1, <2>1, <2>2, <2>4, <2>5, <2>6, <2>7, <2>8
<1>11. CASE w.minors # <<>>
  <2> DEFINE new == [majors EXCEPT ![i] = w]
  <2>1. majors' = new /\ bestBet' = BetAfter(majors', i) /\ allocated' = allocated
    BY <1>2, <1>11
  <2>2. /\ GoodList(new) /\ Len(new) = Len(majors) /\ new[i] = w
        /\ \A j \in 1 .. Len(majors) : j # i => new[j] = majors[j]
        /\ \A j \in 1 .. Len(majors) : new[j].base = majors[j].base
        /\ Total(Sizes(new)) = Total(Sizes(majors))
        /\ Total(InUseIn(new)) = Total(InUseIn(majors))
              - Total(Sizes(majors[i].minors)) + Total(Sizes(w.minors))
    BY <1>1, <1>4, GoodReplace
  <2>3. DOMAIN new = 1 .. Len(majors)  BY <1>3
  <2> HIDE DEF new
  <2>4. Total(InUseIn(new)) = all - size
    <3>1. Total(InUseIn(new)) = all - mine + (mine - size)  BY <1>4, <2>2
    <3> HIDE DEF all, mine, size
    <3>2. all - mine + (mine - size) = all - size  BY <1>9
    <3> QED  BY <3>1, <3>2
  <2>5. Counted'
    <3>1. inuse' = Total(InUseIn(new))  BY <1>2, <1>8, <2>4
    <3>2. allocated' = Total(Sizes(new))  BY <1>8, <2>1, <2>2
    <3> QED  BY <2>1, <3>1, <3>2 DEF Counted
  <2>6. bestBet' = bestBet \/ bestBet' = majors[i].base
    BY <1>1, <2>1, <2>2 DEF BetAfter
  <2>7. bestBet' \in Nat  BY <1>7, <2>6
  <2>8. BetOwned'
    <3>1. \A j \in 1 .. Len(majors) : j \in DOMAIN majors' /\ majors'[j].base = majors[j].base
      BY <2>1, <2>2, <2>3
    <3>2. CASE bestBet' = majors[i].base
      <4>1. i \in DOMAIN majors' /\ majors'[i].base = bestBet'  BY <1>1, <3>1, <3>2
      <4> QED  BY <4>1 DEF BetOwned
    <3>3. CASE bestBet' = bestBet
      <4>1. CASE bestBet = NULL  BY <3>3, <4>1 DEF BetOwned
      <4>2. CASE bestBet # NULL
        <5>1. PICK j \in 1 .. Len(majors) : majors[j].base = bestBet  BY <1>3, <4>2 DEF BetOwned
        <5>2. j \in DOMAIN majors' /\ majors'[j].base = bestBet'  BY <3>1, <3>3, <5>1
        <5> QED  BY <5>2 DEF BetOwned
      <4> QED  BY <4>1, <4>2
    <3> QED  BY <2>6, <3>2, <3>3
  <2>9. \A l \in DOMAIN new : new[l].minors # <<>>
    <3> TAKE l \in DOMAIN new
    <3>1. CASE l = i  BY <1>11, <2>2, <3>1
    <3>2. CASE l # i  BY <1>3, <2>2, <2>3, <3>2
    <3> QED  BY <3>1, <3>2
  <2>10. AllSeen(new) = AllSeen(majors) \ {x}
    <3> DEFINE in == {}
               out == {x}
    <3>1. SeenIn(new[i]) = (SeenIn(majors[i]) \ out) \cup in  BY <1>5, <2>2
    <3>2. out \subseteq SeenIn(majors[i])  BY <1>6
    <3> HIDE DEF in, out
    <3>3. ChangedIn(majors, new, i, out, in)  BY <1>1, <2>2, <3>1, <3>2 DEF ChangedIn
    <3>4. AllSeen(new) = (AllSeen(majors) \ out) \cup in  BY <3>3, SeenReplaced
    <3> QED  BY <3>4 DEF in, out
  <2>11. Len(new) <= Len(majors)  BY <1>3, <2>2
  <2> QED  BY <1>1, <2>1, <2>2, <2>5, <2>7, <2>8, <2>9, <2>10, <2>11
<1> QED  BY <1>10, <1>11

\* In every state callers see the blocks of the lists, and no others.
LEMMA SeenIsAllAlways ==
    GoodList(majors) =>
        UserBlocks = AllSeen(majors) /\ Pointers = {x.at : x \in AllSeen(majors)}
  BY SeenIsAll

\* So it is after a step.
LEMMA SeenIsAllNext ==
    ASSUME GoodList(majors')
    PROVE  UserBlocks' = AllSeen(majors') /\ Pointers' = {x.at : x \in AllSeen(majors')}
<1>1. (GoodList(majors) =>
         UserBlocks = AllSeen(majors) /\ Pointers = {x.at : x \in AllSeen(majors)})'
  BY SeenIsAllAlways, PTL
<1> QED  BY <1>1

\* A step that takes no block from callers leaves every pointer good.
LEMMA PointersStay ==
    ASSUME GoodList(majors), GoodList(majors'),
           \A x \in AllSeen(majors) : \E y \in AllSeen(majors') : y.at = x.at
    PROVE  Pointers \subseteq Pointers'
<1>1. Pointers = {x.at : x \in AllSeen(majors)}  BY SeenIsAll
<1>2. Pointers' = {x.at : x \in AllSeen(majors')}  BY SeenIsAllNext
<1> QED  BY <1>1, <1>2

\* A step that keeps every major keeps the bet good, old or new.
LEMMA BetStays ==
    ASSUME BetOwned, NEW i \in DOMAIN majors,
           bestBet' = bestBet \/ bestBet' = majors[i].base,
           \A j \in DOMAIN majors : j \in DOMAIN majors' /\ majors'[j].base = majors[j].base
    PROVE  BetOwned'
<1>1. CASE bestBet' = majors[i].base
  <2>1. i \in DOMAIN majors' /\ majors'[i].base = bestBet'  BY <1>1
  <2> QED  BY <2>1 DEF BetOwned
<1>2. CASE bestBet' = bestBet
  <2>1. CASE bestBet = NULL  BY <1>2, <2>1 DEF BetOwned
  <2>2. CASE bestBet # NULL
    <3>1. PICK j \in DOMAIN majors : majors[j].base = bestBet  BY <2>2 DEF BetOwned
    <3>2. j \in DOMAIN majors' /\ majors'[j].base = bestBet'  BY <1>2, <3>1
    <3> QED  BY <3>2 DEF BetOwned
  <2> QED  BY <2>1, <2>2
<1> QED  BY <1>1, <1>2

\* A search starts at a major the heap owns: the first, or a better one.
LEMMA SearchIs ==
    ASSUME NEW list, GoodList(list), Len(list) # 0, bestBet \in Nat,
           NEW op \in {"malloc", "calloc", "realloc"}, NEW r \in Requests, NEW old \in Nat
    PROVE  LET s == Search(op, r, old, list) IN
           /\ s \in JobType /\ s.op = op /\ s.pc = "walk" /\ s.req = r /\ s.old = old
           /\ s.result = NULL /\ s.at \in 1 .. Len(list)
           /\ ~s.started => s.at = 1
<1> DEFINE bets == {i \in DOMAIN list : list[i].base = bestBet}
           top == Max(bets)
           best == IF bets = {} THEN 0 ELSE FreeIn(list[top])
           started == best > SizeFor(r) + MinorSize
           at == IF started THEN top ELSE 1
           s == [op |-> op, pc |-> "walk", req |-> r, old |-> old,
                 at |-> at, started |-> started, best |-> best, result |-> NULL]
<1>1. Search(op, r, old, list) = s  BY DEF Search
<1>2. Len(list) \in Nat /\ DOMAIN list = 1 .. Len(list) /\ 1 \in 1 .. Len(list)
  BY DEF GoodList
<1>3. bets # {} => top \in bets
  <2>1. bets \in SUBSET Nat /\ \A i \in bets : i <= Len(list)  BY <1>2
  <2> HIDE DEF bets
  <2> QED  BY <1>2, <2>1, MaxIsGreatest
<1>4. best \in Nat
  <2>1. CASE bets = {}  BY <2>1
  <2>2. CASE bets # {}
    <3>1. top \in 1 .. Len(list)  BY <1>2, <1>3, <2>2
    <3>2. Sound(list[top])  BY <1>2, <3>1 DEF GoodList
    <3> DEFINE m == list[top]
    <3>3. FreeIn(m) = m.size - m.usage  BY <3>2, FreeInIs
    <3>4. m.size \in Nat /\ m.usage \in Nat /\ m.usage <= m.size
      BY <3>2, SoundType DEF Sound
    <3> HIDE DEF m
    <3>5. FreeIn(m) \in Nat  BY <3>3, <3>4
    <3> QED  BY <2>2, <3>5 DEF m
  <2> QED  BY <2>1, <2>2
<1>5. SizeFor(r) + MinorSize \in Nat /\ r \in Nat
  <2>1. SizeFor(r) \in Nat /\ MinorSize \in Nat /\ r \in Nat  BY PagesForIs, Constants
  <2> QED  BY <2>1
<1>6. started \in BOOLEAN  OBVIOUS
<1>7. at \in 1 .. Len(list) /\ (~started => at = 1)
  <2>1. CASE started
    <3>1. bets # {}
      <4>1. ~(0 > SizeFor(r) + MinorSize)  BY <1>5
      <4> QED  BY <2>1, <4>1
    <3>2. top \in 1 .. Len(list)  BY <1>2, <1>3, <3>1
    <3> QED  BY <2>1, <3>2
  <2>2. CASE ~started  BY <1>2, <2>2
  <2> QED  BY <2>1, <2>2
<1>8. at \in Nat  BY <1>7
<1> HIDE DEF best, at, started
<1>9. s \in JobType  BY <1>4, <1>5, <1>6, <1>8 DEF JobType, NULL
<1>10. /\ s.op = op /\ s.pc = "walk" /\ s.req = r /\ s.old = old
       /\ s.result = NULL /\ s.at = at /\ s.started = started
  OBVIOUS
<1> HIDE DEF s
<1> QED  BY <1>1, <1>7, <1>9, <1>10

\* A turn that finds no room stands at a major with blocks, as all have then.
LEMMA NoRoomHere ==
    ASSUME IInv, Walking, Fits = {}
    PROVE  /\ \A l \in DOMAIN majors : majors[l].minors # <<>>
           /\ Fitting(majors[job.at], SizeFor(job.req)) = {}
<1> DEFINE m == majors[job.at]
           size == SizeFor(job.req)
<1>1. /\ job.pc = "walk" /\ job.at \in DOMAIN majors /\ job.req \in Requests
      /\ GoodList(majors)
  BY DEF IInv, JobOK, Walking
<1>2. Sound(m)  BY <1>1 DEF GoodList
<1>3. FreeIn(m) \in Int /\ size \in Nat /\ MinorSize \in Nat
  <2>1. FreeIn(m) = m.size - m.usage  BY <1>2, FreeInIs
  <2>2. m.size \in Nat /\ m.usage \in Nat  BY <1>2, SoundType
  <2>3. size \in Nat /\ MinorSize \in Nat  BY <1>1, PagesForIs, Constants
  <2> HIDE DEF m, size
  <2> QED  BY <2>1, <2>2, <2>3
<1>4. m.minors # <<>>
  <2> SUFFICES ASSUME m.minors = <<>>
               PROVE  FALSE
    OBVIOUS
  <2>1. FreeIn(m) >= size + MinorSize  BY <1>1 DEF IInv, OnlyTargetIsEmpty
  <2>2. ~Cramped(m)
    <3> HIDE DEF m
    <3> QED  BY <1>3, <2>1 DEF Cramped
  <2>3. Fits = Fitting(m, size)  BY <2>2 DEF Fits
  <2>4. 0 \in Fitting(m, size)
    <3>1. Len(m.minors) = 0  OBVIOUS
    <3> QED  BY <3>1 DEF Fitting
  <2> QED  BY <2>3, <2>4
<1>5. Fitting(m, size) = {}
  <2>1. CASE Cramped(m)
    <3>1. FreeIn(m) < size + MinorSize  BY <2>1 DEF Cramped
    <3> HIDE DEF m, size
    <3> QED  BY <1>2, <1>3, <1>4, <3>1, CrampedHasNoGap
  <2>2. CASE ~Cramped(m)  BY <2>2 DEF Fits
  <2> QED  BY <2>1, <2>2
<1>6. \A l \in DOMAIN majors : majors[l].minors # <<>>
  <2> SUFFICES ASSUME NEW l \in DOMAIN majors, majors[l].minors = <<>>
               PROVE  FALSE
    OBVIOUS
  <2>1. l = job.at  BY DEF IInv, OnlyTargetIsEmpty
  <2> QED  BY <1>4, <2>1
<1> QED  BY <1>5, <1>6

\* What the search remembers of the majors it has seen.
LEMMA RememberIs ==
    ASSUME IInv, job.pc = "walk", Remember
    PROVE  /\ bestBet' \in Nat
           /\ bestBet' = bestBet \/ bestBet' = majors[job.at].base
           /\ Remembered \in Nat
<1> DEFINE m == majors[job.at]
<1>1. Sound(m) /\ bestBet \in Nat /\ job \in JobType
  BY DEF IInv, JobOK, GoodList
<1>2. m.base \in Nat /\ m.size \in Nat /\ m.usage \in Nat /\ m.usage <= m.size
  BY <1>1, SoundType DEF Sound
<1>3. FreeIn(m) \in Nat
  <2>1. FreeIn(m) = m.size - m.usage  BY <1>1, FreeInIs
  <2> HIDE DEF m
  <2> QED  BY <1>2, <2>1
<1>4. job.best \in Nat  BY <1>1 DEF JobType
<1>5. bestBet' = bestBet \/ bestBet' = m.base  BY DEF Remember
<1>6. bestBet' \in Nat  BY <1>1, <1>2, <1>5
<1>7. Remembered \in {job.best, FreeIn(m)}
  <2> DEFINE a == job.best
             b == FreeIn(m)
  <2>1. a \in Nat /\ b \in Nat  BY <1>3, <1>4
  <2>2. Remembered = Max({a, b})  BY DEF Remembered
  <2> HIDE DEF a, b
  <2>3. Remembered \in {a, b}  BY <2>1, <2>2, MaxOfTwo
  <2> QED  BY <2>3 DEF a, b
<1> QED  BY <1>3, <1>4, <1>5, <1>6, <1>7

-----------------------------------------------------------------------------
(* What every step does *)

\* The heap grows, and kmalloc gives up, only when no gap of any major would do.
AsksWhenFull ==
    \/ Len(majors') > Len(majors)
    \/ job'.pc = "return" /\ job'.result = NULL
    => ~RoomFor(SizeFor(job'.req))

\* A step keeps the invariant, looks everywhere before it asks for memory, and
\* does to what callers see what HeapBlocks allows.
GoodStep ==
    /\ IInv'
    /\ AsksWhenFull
    /\ Promise!Next \/ UserBlocks' = UserBlocks

\* The steps of HeapBlocks, told of what the lists show.
LEMMA SeenStep ==
    ASSUME GoodList(majors), GoodList(majors'),
           \/ \E x \in AllSeen(majors') :
                 /\ AllSeen(majors') = AllSeen(majors) \cup {x}
                 /\ x.at % Alignment = 0
                 /\ \A c \in AllSeen(majors) : Promise!Apart(x, c)
           \/ \E x \in AllSeen(majors) : AllSeen(majors') = AllSeen(majors) \ {x}
           \/ \E x \in AllSeen(majors), y \in AllSeen(majors') :
                 /\ y.at = x.at /\ y.bytes <= x.bytes
                 /\ AllSeen(majors') = (AllSeen(majors) \ {x}) \cup {y}
           \/ AllSeen(majors') = AllSeen(majors)
    PROVE  Promise!Next \/ UserBlocks' = UserBlocks
<1>1. UserBlocks = AllSeen(majors)  BY SeenIsAll
<1>2. UserBlocks' = AllSeen(majors')  BY SeenIsAllNext
<1>3. CASE \E x \in AllSeen(majors') :
              /\ AllSeen(majors') = AllSeen(majors) \cup {x}
              /\ x.at % Alignment = 0
              /\ \A c \in AllSeen(majors) : Promise!Apart(x, c)
  <2>1. Promise!Obtain  BY <1>1, <1>2, <1>3 DEF Promise!Obtain
  <2> QED  BY <2>1 DEF Promise!Next
<1>4. CASE \E x \in AllSeen(majors) : AllSeen(majors') = AllSeen(majors) \ {x}
  <2>1. Promise!GiveBack  BY <1>1, <1>2, <1>4 DEF Promise!GiveBack
  <2> QED  BY <2>1 DEF Promise!Next
<1>5. CASE \E x \in AllSeen(majors), y \in AllSeen(majors') :
              /\ y.at = x.at /\ y.bytes <= x.bytes
              /\ AllSeen(majors') = (AllSeen(majors) \ {x}) \cup {y}
  <2>1. Promise!Shorten  BY <1>1, <1>2, <1>5 DEF Promise!Shorten
  <2> QED  BY <2>1 DEF Promise!Next
<1>6. CASE AllSeen(majors') = AllSeen(majors)  BY <1>1, <1>2, <1>6
<1> QED  BY <1>3, <1>4, <1>5, <1>6

\* The turn that writes the block's header, in a major of the heap or in one
\* just obtained.
LEMMA PlacingStep ==
    ASSUME IInv, job.pc = "walk", Remember,
           NEW list, GoodList(list), Len(majors) <= Len(list),
           \A j \in 1 .. Len(majors) : list[j] = majors[j],
           AllSeen(list) = AllSeen(majors), Total(InUseIn(list)) = Total(InUseIn(majors)),
           allocated' = Total(Sizes(list)),
           NEW i \in 1 .. Len(list), \A j \in 1 .. Len(list) : j # i => list[j].minors # <<>>,
           NEW k \in Fitting(list[i], SizeFor(job.req)),
           FreeIn(list[i]) >= SizeFor(job.req) + MinorSize,
           PlaceIn(list, i, k),
           Len(list) > Len(majors) => ~RoomFor(SizeFor(job.req))
    PROVE  GoodStep
<1>1. /\ GoodList(majors) /\ bestBet \in Nat /\ status \in {"up", "panic", "fault"}
      /\ Counted /\ job \in JobType /\ job.req \in Requests /\ job.at \in DOMAIN majors
      /\ BetOwned /\ (job.op = "realloc" => job.old \in Pointers)
  BY DEF IInv, JobOK
<1>2. /\ GoodList(majors') /\ Len(majors') = Len(list)
      /\ \A j \in 1 .. Len(list) : j # i => majors'[j] = list[j]
      /\ \A j \in 1 .. Len(list) : majors'[j].base = list[j].base
      /\ majors'[i].minors # <<>>
      /\ Total(Sizes(majors')) = Total(Sizes(list))
      /\ Total(InUseIn(majors')) = Total(InUseIn(list)) + SizeFor(job.req)
      /\ inuse' = inuse + SizeFor(job.req)
      /\ job' \in JobType /\ job'.pc = "return" /\ job'.op = job.op
      /\ job'.old = job.old /\ job'.req = job.req /\ job'.result # NULL
      /\ status' \in {"up", "panic", "fault"}
      /\ \E x \in AllSeen(majors') :
            /\ AllSeen(majors') = AllSeen(list) \cup {x}
            /\ x.at % Alignment = 0
            /\ \A c \in AllSeen(list) : Promise!Apart(x, c)
  BY <1>1, PlaceInKeeps
<1>3. /\ DOMAIN majors = 1 .. Len(majors) /\ DOMAIN majors' = 1 .. Len(list)
      /\ Len(majors) \in Nat /\ Len(list) \in Nat
  BY <1>1, <1>2 DEF GoodList
<1>4. Counted'  BY <1>1, <1>2 DEF Counted
<1>5. bestBet' \in Nat /\ (bestBet' = bestBet \/ bestBet' = majors[job.at].base)
  BY RememberIs
<1>6. BetOwned'
  <2>1. \A j \in DOMAIN majors : j \in DOMAIN majors' /\ majors'[j].base = majors[j].base
    BY <1>2, <1>3
  <2> DEFINE c == job.at
  <2>2. c \in DOMAIN majors /\ (bestBet' = bestBet \/ bestBet' = majors[c].base) /\ BetOwned
    BY <1>1, <1>5
  <2> HIDE DEF c
  <2> QED  BY <2>1, <2>2, BetStays, Zenon
<1>7. Pointers \subseteq Pointers'
  <2>1. \A x \in AllSeen(majors) : \E y \in AllSeen(majors') : y.at = x.at  BY <1>2
  <2> QED  BY <1>1, <1>2, <2>1, PointersStay
<1>8. JobOK'
  <2>1. job'.op = "realloc" => job'.old \in Pointers'  BY <1>1, <1>2, <1>7
  <2>2. job'.pc # "walk"  BY <1>2
  <2> QED  BY <1>2, <2>1, <2>2 DEF JobOK
<1>9. OnlyTargetIsEmpty'
  <2>1. \A j \in DOMAIN majors' : majors'[j].minors # <<>>  BY <1>2, <1>3
  <2> QED  BY <2>1 DEF OnlyTargetIsEmpty
<1>10. Searched'  BY <1>2 DEF Searched
<1>11. IInv'  BY <1>2, <1>4, <1>5, <1>6, <1>8, <1>9, <1>10 DEF IInv
<1>12. AsksWhenFull  BY <1>2 DEF AsksWhenFull
<1>13. Promise!Next \/ UserBlocks' = UserBlocks  BY <1>1, <1>2, SeenStep
<1> QED  BY <1>11, <1>12, <1>13 DEF GoodStep

\* The first gap that is big enough.
LEMMA PlaceKeeps ==
    ASSUME IInv, Place
    PROVE  GoodStep
<1> DEFINE i == job.at
           m == majors[i]
           size == SizeFor(job.req)
           k == Min(Fits)
<1>1. Fits # {} /\ Remember /\ PlaceIn(majors, i, k) /\ allocated' = allocated
      /\ job.pc = "walk"
  BY DEF Place, Walking
<1>2. /\ GoodList(majors) /\ Counted /\ job.req \in Requests
      /\ i \in 1 .. Len(majors) /\ Len(majors) \in Nat /\ DOMAIN majors = 1 .. Len(majors)
  <2>1. GoodList(majors) /\ Counted /\ job.req \in Requests /\ i \in DOMAIN majors
    BY <1>1 DEF IInv, JobOK
  <2>2. Len(majors) \in Nat /\ DOMAIN majors = 1 .. Len(majors)  BY <2>1 DEF GoodList
  <2> QED  BY <2>1, <2>2
<1>3. ~Cramped(m) /\ Fits = Fitting(m, size)  BY <1>1 DEF Fits
<1>4. FreeIn(m) >= size + MinorSize
  <2>1. FreeIn(m) = m.size - m.usage /\ m.size \in Nat /\ m.usage \in Nat
    <3>1. Sound(m)  BY <1>2 DEF GoodList
    <3> QED  BY <3>1, FreeInIs, SoundType
  <2>2. size \in Nat /\ MinorSize \in Nat  BY <1>2, PagesForIs, Constants
  <2>3. ~(FreeIn(m) < size + MinorSize)  BY <1>3 DEF Cramped
  <2> HIDE DEF m, size
  <2> QED  BY <2>1, <2>2, <2>3
<1>5. k \in Fitting(m, size)
  <2>1. Fits \in SUBSET Nat
    <3>1. Sound(m)  BY <1>2 DEF GoodList
    <3>2. Len(m.minors) \in Nat  BY <3>1, SoundType
    <3> QED  BY <1>3, <3>2 DEF Fitting
  <2> QED  BY <1>1, <1>3, <2>1, MinIsLeast
<1>6. \A j \in 1 .. Len(majors) : j # i => majors[j].minors # <<>>
  BY <1>2 DEF IInv, OnlyTargetIsEmpty
<1>7. allocated' = Total(Sizes(majors))  BY <1>1, <1>2 DEF Counted
<1> HIDE DEF k
<1>8. Len(majors) <= Len(majors) /\ ~(Len(majors) > Len(majors))  BY <1>2
<1> QED  BY <1>1, <1>2, <1>4, <1>5, <1>6, <1>7, <1>8, PlacingStep

\* A search that is at the end, and did not start behind the beginning, has
\* found no room in any major.
LEMMA LookedEverywhere ==
    ASSUME IInv, Walking, Fits = {}, AtLast, ~StartedAtBest
    PROVE  /\ \A i \in DOMAIN majors : Fitting(majors[i], SizeFor(job.req)) = {}
           /\ ~RoomFor(SizeFor(job.req))
<1>1. job.pc = "walk" /\ ~job.started /\ job.at = Len(majors)
  BY DEF Walking, AtLast, StartedAtBest
<1>2. DOMAIN majors = 1 .. Len(majors) /\ Len(majors) \in Nat  BY DEF IInv, GoodList
<1>3. ASSUME NEW i \in DOMAIN majors
      PROVE  Fitting(majors[i], SizeFor(job.req)) = {}
  <2>1. CASE i = job.at  BY <2>1, NoRoomHere
  <2>2. CASE i # job.at
    <3>1. i \in 1 .. job.at - 1  BY <1>1, <1>2, <2>2
    <3> QED  BY <1>1, <3>1 DEF IInv, Searched
  <2> QED  BY <2>1, <2>2
<1> QED  BY <1>3 DEF RoomFor

\* On to the next major.
LEMMA HopKeeps ==
    ASSUME IInv, Hop
    PROVE  GoodStep
<1> DEFINE best == Remembered
           at == IF AtLast THEN 1 ELSE job.at + 1
           started == job.started /\ ~AtLast
<1>1. /\ Walking /\ Fits = {} /\ Remember /\ job.pc = "walk"
      /\ majors' = majors /\ allocated' = allocated /\ inuse' = inuse /\ status' = status
      /\ job' = [job EXCEPT !.best = best, !.at = at, !.started = started]
  BY DEF Hop, Walking
<1>2. /\ GoodList(majors) /\ bestBet \in Nat /\ status \in {"up", "panic", "fault"}
      /\ Counted /\ job \in JobType /\ job.req \in Requests /\ job.at \in DOMAIN majors
      /\ BetOwned /\ (job.op = "realloc" => job.old \in Pointers) /\ Searched
  BY <1>1 DEF IInv, JobOK
<1>3. DOMAIN majors = 1 .. Len(majors) /\ Len(majors) \in Nat  BY <1>2 DEF GoodList
<1>4. bestBet' \in Nat /\ (bestBet' = bestBet \/ bestBet' = majors[job.at].base)
      /\ best \in Nat
  BY <1>1, RememberIs
<1>5. at \in 1 .. Len(majors)
  <2>1. job.at \in 1 .. Len(majors)  BY <1>2, <1>3
  <2> QED  BY <1>3, <2>1 DEF AtLast
<1>6. started \in BOOLEAN /\ at \in Nat  BY <1>5
<1>7. /\ \A l \in DOMAIN majors : majors[l].minors # <<>>
      /\ Fitting(majors[job.at], SizeFor(job.req)) = {}
  BY <1>1, NoRoomHere
<1>8. ASSUME ~started, NEW l \in 1 .. at - 1
      PROVE  Fitting(majors[l], SizeFor(job.req)) = {}
  <2>1. job.at \in 1 .. Len(majors)  BY <1>2, <1>3
  <2>2. CASE AtLast  BY <2>2
  <2>3. CASE ~AtLast
    <3>1. l \in 1 .. job.at /\ ~job.started  BY <1>8, <2>1, <2>3
    <3>2. CASE l = job.at  BY <1>7, <3>2
    <3>3. CASE l # job.at
      <4>1. l \in 1 .. job.at - 1  BY <2>1, <3>1, <3>3
      <4> QED  BY <1>1, <1>2, <3>1, <4>1 DEF Searched
    <3> QED  BY <3>2, <3>3
  <2> QED  BY <2>2, <2>3
<1> HIDE DEF best, at, started
<1>9. /\ job' \in JobType /\ job'.pc = "walk" /\ job'.op = job.op /\ job'.old = job.old
      /\ job'.req = job.req /\ job'.at = at /\ job'.started = started
  BY <1>1, <1>2, <1>4, <1>6 DEF JobType
<1>10. BetOwned'
  <2> DEFINE c == job.at
  <2>1. \A j \in DOMAIN majors : j \in DOMAIN majors' /\ majors'[j].base = majors[j].base
    BY <1>1
  <2>2. c \in DOMAIN majors /\ (bestBet' = bestBet \/ bestBet' = majors[c].base) /\ BetOwned
    BY <1>2, <1>4
  <2> HIDE DEF c
  <2> QED  BY <2>1, <2>2, BetStays, Zenon
<1>11. Pointers' = Pointers /\ UserBlocks' = UserBlocks
  BY <1>1, <1>2, SeenIsAll, SeenIsAllNext
<1>12. JobOK'
  <2>1. job'.op = "realloc" => job'.old \in Pointers'  BY <1>2, <1>9, <1>11
  <2>2. job'.req \in Requests /\ job'.at \in DOMAIN majors'  BY <1>1, <1>2, <1>3, <1>5, <1>9
  <2> QED  BY <1>9, <2>1, <2>2 DEF JobOK
<1>13. OnlyTargetIsEmpty'  BY <1>1, <1>7 DEF OnlyTargetIsEmpty
<1>14. Searched'
  <2>1. ~job'.started => \A l \in 1 .. job'.at - 1 : Fitting(majors'[l], SizeFor(job'.req)) = {}
    BY <1>1, <1>8, <1>9
  <2>2. job'.pc # "return"  BY <1>9
  <2> QED  BY <2>1, <2>2 DEF Searched
<1>15. Counted' /\ GoodList(majors') /\ status' \in {"up", "panic", "fault"}
  BY <1>1, <1>2 DEF Counted
<1>16. IInv'  BY <1>4, <1>10, <1>12, <1>13, <1>14, <1>15 DEF IInv
<1>17. AsksWhenFull
  <2>1. ~(Len(majors') > Len(majors))  BY <1>1, <1>3
  <2> QED  BY <1>9, <2>1 DEF AsksWhenFull
<1> QED  BY <1>11, <1>16, <1>17 DEF GoodStep

\* No memory for another major.
LEMMA GiveUpKeeps ==
    ASSUME IInv, GiveUp
    PROVE  GoodStep
<1>1. /\ Walking /\ Fits = {} /\ Remember /\ job.pc = "walk" /\ AtLast /\ ~StartedAtBest
      /\ majors' = majors /\ allocated' = allocated /\ inuse' = inuse /\ status' = status
      /\ job' = [job EXCEPT !.pc = "return", !.result = NULL]
  BY DEF GiveUp, Walking, Returned
<1>2. /\ GoodList(majors) /\ bestBet \in Nat /\ status \in {"up", "panic", "fault"}
      /\ Counted /\ job \in JobType /\ job.req \in Requests /\ job.at \in DOMAIN majors
      /\ BetOwned /\ (job.op = "realloc" => job.old \in Pointers)
  BY <1>1 DEF IInv, JobOK
<1>3. bestBet' \in Nat /\ (bestBet' = bestBet \/ bestBet' = majors[job.at].base)
  BY <1>1, RememberIs
<1>4. \A l \in DOMAIN majors : majors[l].minors # <<>>  BY <1>1, NoRoomHere
<1>5. /\ \A i \in DOMAIN majors : Fitting(majors[i], SizeFor(job.req)) = {}
      /\ ~RoomFor(SizeFor(job.req))
  BY <1>1, LookedEverywhere
<1>6. /\ job' \in JobType /\ job'.pc = "return" /\ job'.op = job.op /\ job'.old = job.old
      /\ job'.req = job.req
  BY <1>1, <1>2 DEF JobType, NULL
<1>7. BetOwned'
  <2> DEFINE c == job.at
  <2>1. \A j \in DOMAIN majors : j \in DOMAIN majors' /\ majors'[j].base = majors[j].base
    BY <1>1
  <2>2. c \in DOMAIN majors /\ (bestBet' = bestBet \/ bestBet' = majors[c].base) /\ BetOwned
    BY <1>2, <1>3
  <2> HIDE DEF c
  <2> QED  BY <2>1, <2>2, BetStays, Zenon
<1>8. Pointers' = Pointers /\ UserBlocks' = UserBlocks
  BY <1>1, <1>2, SeenIsAll, SeenIsAllNext
<1>9. JobOK'
  <2>1. job'.op = "realloc" => job'.old \in Pointers'  BY <1>2, <1>6, <1>8
  <2> QED  BY <1>6, <2>1 DEF JobOK
<1>10. OnlyTargetIsEmpty'  BY <1>1, <1>4 DEF OnlyTargetIsEmpty
<1>11. Searched'  BY <1>1, <1>5, <1>6 DEF Searched
<1>12. Counted' /\ GoodList(majors') /\ status' \in {"up", "panic", "fault"}
  BY <1>1, <1>2 DEF Counted
<1>13. IInv'  BY <1>3, <1>7, <1>9, <1>10, <1>11, <1>12 DEF IInv
<1>14. AsksWhenFull  BY <1>5, <1>6 DEF AsksWhenFull
<1> QED  BY <1>8, <1>13, <1>14 DEF GoodStep

\* One more major, for the block that fits nowhere.
LEMMA GrowKeeps ==
    ASSUME IInv, Grow
    PROVE  GoodStep
<1> DEFINE n == PagesFor(SizeFor(job.req))
           last == Len(majors) + 1
<1>1. /\ Walking /\ Fits = {} /\ Remember /\ job.pc = "walk" /\ AtLast /\ ~StartedAtBest
      /\ allocated' = allocated + n * PageSize
  BY DEF Grow, Walking
<1>2. PICK a \in FreeRuns(n) :
         LET longer == Append(majors, NewMajor(a, n)) IN
         \/ /\ Cramped(majors[job.at])
            /\ PlaceIn(longer, Len(longer), 0)
         \/ /\ ~Cramped(majors[job.at])
            /\ majors' = longer
            /\ job' = [job EXCEPT !.best = Remembered, !.at = @ + 1]
            /\ UNCHANGED <<inuse, status>>
  BY DEF Grow
<1> DEFINE m == NewMajor(a, n)
           longer == Append(majors, m)
<1>3. \/ PlaceIn(longer, Len(longer), 0)
      \/ /\ majors' = longer /\ inuse' = inuse /\ status' = status
         /\ job' = [job EXCEPT !.best = Remembered, !.at = job.at + 1]
  BY <1>2
<1>4. /\ GoodList(majors) /\ bestBet \in Nat /\ status \in {"up", "panic", "fault"}
      /\ Counted /\ job \in JobType /\ job.req \in Requests /\ job.at \in DOMAIN majors
      /\ BetOwned /\ (job.op = "realloc" => job.old \in Pointers)
  BY <1>1 DEF IInv, JobOK
<1>5. DOMAIN majors = 1 .. Len(majors) /\ Len(majors) \in Nat  BY <1>4 DEF GoodList
<1>6. /\ Sound(m) /\ m.minors = <<>> /\ FreeIn(m) >= SizeFor(job.req) + MinorSize
  BY <1>4, NewMajorSound
<1>7. /\ GoodList(longer) /\ Len(longer) = last /\ longer[last] = m
      /\ \A j \in 1 .. Len(majors) : longer[j] = majors[j]
      /\ Total(Sizes(longer)) = Total(Sizes(majors)) + n * PageSize
      /\ Total(InUseIn(longer)) = Total(InUseIn(majors))
  BY <1>4, GoodAppend
<1> HIDE DEF m, longer
<1>8. AllSeen(longer) = AllSeen(majors)  BY <1>4, <1>6, <1>7, SeenAppended
<1>9. allocated' = Total(Sizes(longer))  BY <1>1, <1>4, <1>7 DEF Counted
<1>10. \A l \in DOMAIN majors : majors[l].minors # <<>>  BY <1>1, NoRoomHere
<1>11. /\ \A i \in DOMAIN majors : Fitting(majors[i], SizeFor(job.req)) = {}
       /\ ~RoomFor(SizeFor(job.req))
  BY <1>1, LookedEverywhere
<1>12. last \in 1 .. Len(longer) /\ Len(majors) <= Len(longer)  BY <1>5, <1>7
<1>13. DOMAIN longer = 1 .. last  BY <1>7 DEF GoodList
<1>14. CASE PlaceIn(longer, Len(longer), 0)
  <2>1. PlaceIn(longer, last, 0)  BY <1>7, <1>14
  <2>2. 0 \in Fitting(longer[last], SizeFor(job.req))
    <3>1. Len(m.minors) = 0  BY <1>6
    <3> QED  BY <1>6, <1>7, <3>1 DEF Fitting
  <2>3. FreeIn(longer[last]) >= SizeFor(job.req) + MinorSize  BY <1>6, <1>7
  <2>4. \A j \in 1 .. Len(longer) : j # last => longer[j].minors # <<>>
    BY <1>5, <1>7, <1>10
  <2> HIDE DEF last
  <2> QED
    BY <1>1, <1>7, <1>8, <1>9, <1>11, <1>12, <2>1, <2>2, <2>3, <2>4, PlacingStep
<1>15. CASE /\ majors' = longer /\ inuse' = inuse /\ status' = status
            /\ job' = [job EXCEPT !.best = Remembered, !.at = job.at + 1]
  <2>1. bestBet' \in Nat /\ (bestBet' = bestBet \/ bestBet' = majors[job.at].base)
        /\ Remembered \in Nat
    BY <1>1, RememberIs
  <2>2. job.at = Len(majors) /\ ~job.started  BY <1>1 DEF AtLast, StartedAtBest
  <2>3. /\ job' \in JobType /\ job'.pc = "walk" /\ job'.op = job.op /\ job'.old = job.old
        /\ job'.req = job.req /\ job'.at = last /\ job'.started = job.started
    <3> DEFINE best == Remembered
               at == job.at + 1
    <3>1. best \in Nat /\ at \in Nat /\ at = last  BY <1>5, <2>1, <2>2
    <3>2. job' = [job EXCEPT !.best = best, !.at = at]  BY <1>15
    <3> HIDE DEF best, at
    <3> QED  BY <1>1, <1>4, <3>1, <3>2 DEF JobType
  <2>4. BetOwned'
    <3> DEFINE c == job.at
    <3>1. \A j \in DOMAIN majors : j \in DOMAIN majors' /\ majors'[j].base = majors[j].base
      BY <1>5, <1>7, <1>13, <1>15
    <3>2. c \in DOMAIN majors /\ (bestBet' = bestBet \/ bestBet' = majors[c].base) /\ BetOwned
      BY <1>4, <2>1
    <3> HIDE DEF c
    <3> QED  BY <3>1, <3>2, BetStays, Zenon
  <2>5. Counted'  BY <1>4, <1>7, <1>9, <1>15 DEF Counted
  <2>6. Pointers \subseteq Pointers'
    <3>1. \A x \in AllSeen(majors) : \E y \in AllSeen(majors') : y.at = x.at  BY <1>8, <1>15
    <3> QED  BY <1>4, <1>7, <1>15, <3>1, PointersStay
  <2>7. JobOK'
    <3>1. job'.op = "realloc" => job'.old \in Pointers'  BY <1>4, <2>3, <2>6
    <3>2. job'.req \in Requests /\ job'.at \in DOMAIN majors'
      BY <1>4, <1>5, <1>13, <1>15, <2>3
    <3> QED  BY <2>3, <3>1, <3>2 DEF JobOK
  <2>8. OnlyTargetIsEmpty'
    <3> SUFFICES ASSUME NEW l \in DOMAIN longer, longer[l].minors = <<>>
                 PROVE  /\ l = last
                        /\ FreeIn(longer[l]) >= SizeFor(job.req) + MinorSize
      BY <1>15, <2>3 DEF OnlyTargetIsEmpty
    <3>1. l = last  BY <1>5, <1>7, <1>10, <1>13
    <3> QED  BY <1>6, <1>7, <3>1
  <2>9. Searched'
    <3>1. \A l \in 1 .. last - 1 : Fitting(longer[l], SizeFor(job.req)) = {}
      <4> TAKE l \in 1 .. last - 1
      <4>1. l \in DOMAIN majors  BY <1>5
      <4>2. longer[l] = majors[l]  BY <1>5, <1>7, <4>1
      <4> QED  BY <1>11, <4>1, <4>2
    <3>2. \A l \in 1 .. job'.at - 1 : Fitting(majors'[l], SizeFor(job'.req)) = {}
      BY <1>15, <2>3, <3>1
    <3>3. job'.pc # "return"  BY <2>3
    <3> QED  BY <3>2, <3>3 DEF Searched
  <2>10. IInv'  BY <1>4, <1>7, <1>15, <2>1, <2>4, <2>5, <2>7, <2>8, <2>9 DEF IInv
  <2>11. AsksWhenFull  BY <1>11, <2>3 DEF AsksWhenFull
  <2>12. Promise!Next \/ UserBlocks' = UserBlocks
    <3>1. AllSeen(majors') = AllSeen(majors)  BY <1>8, <1>15
    <3> QED  BY <1>4, <1>7, <1>15, <3>1, SeenStep
  <2> QED  BY <2>10, <2>11, <2>12 DEF GoodStep
<1> QED  BY <1>3, <1>14, <1>15

\* A pointer is the address of something, never NULL.
LEMMA PointersAreAddresses ==
    ASSUME GoodList(majors), NEW p \in Pointers
    PROVE  p \in Nat /\ p # NULL
<1> DEFINE b == BlockAt(p)
           i == b[1]
           k == b[2]
           m == majors[i]
<1>1. i \in 1 .. Len(majors) /\ k \in 1 .. Len(m.minors) /\ Seen(m, k).at = p
  BY SeenIsAll
<1>2. Sound(m)  BY <1>1 DEF GoodList
<1> HIDE DEF i, k, m
<1>3. Seen(m, k).at \in Nat /\ m.base < Seen(m, k).at  BY <1>1, <1>2, SeenInside
<1>4. m.base \in Nat  BY <1>2, SoundType
<1> QED  BY <1>1, <1>3, <1>4 DEF NULL

\* kmalloc begins, for itself or for kcalloc or krealloc.
LEMMA BeginMallocKeeps ==
    ASSUME IInv, job.pc = "idle", NEW op \in {"malloc", "calloc", "realloc"},
           NEW r \in Requests, NEW old \in Nat, op = "realloc" => old \in Pointers,
           BeginMalloc(op, r, old)
    PROVE  GoodStep
<1> DEFINE n == PagesFor(SizeFor(r))
<1>1. /\ GoodList(majors) /\ bestBet \in Nat /\ status \in {"up", "panic", "fault"}
      /\ Counted /\ job \in JobType /\ BetOwned
      /\ \A l \in DOMAIN majors : majors[l].minors # <<>>
  BY DEF IInv, JobOK, OnlyTargetIsEmpty
<1>2. DOMAIN majors = 1 .. Len(majors) /\ Len(majors) \in Nat  BY <1>1 DEF GoodList
<1>3. bestBet' = bestBet /\ inuse' = inuse /\ status' = status  BY DEF BeginMalloc
<1>4. CASE /\ majors # <<>>
           /\ job' = Search(op, r, old, majors)
           /\ majors' = majors /\ allocated' = allocated
  <2>1. Len(majors) # 0  BY <1>1, <1>4 DEF GoodList
  <2>2. /\ job' \in JobType /\ job'.op = op /\ job'.pc = "walk" /\ job'.req = r
        /\ job'.old = old /\ job'.at \in 1 .. Len(majors)
        /\ ~job'.started => job'.at = 1
    <3> DEFINE s == Search(op, r, old, majors)
    <3>1. /\ s \in JobType /\ s.op = op /\ s.pc = "walk" /\ s.req = r /\ s.old = old
          /\ s.at \in 1 .. Len(majors)
          /\ ~s.started => s.at = 1
      BY <1>1, <2>1, SearchIs
    <3> HIDE DEF s
    <3>2. job' = s  BY <1>4 DEF s
    <3> QED  BY <3>1, <3>2
  <2>3. Pointers' = Pointers /\ UserBlocks' = UserBlocks
    BY <1>1, <1>4, SeenIsAll, SeenIsAllNext
  <2>4. JobOK'
    <3>1. job'.op = "realloc" => job'.old \in Pointers'  BY <2>2, <2>3
    <3>2. job'.req \in Requests /\ job'.at \in DOMAIN majors'  BY <1>2, <1>4, <2>2
    <3> QED  BY <2>2, <3>1, <3>2 DEF JobOK
  <2>5. OnlyTargetIsEmpty'  BY <1>1, <1>4 DEF OnlyTargetIsEmpty
  <2>6. BetOwned'  BY <1>1, <1>3, <1>4 DEF BetOwned
  <2>7. Searched'
    <3>1. ~job'.started => 1 .. job'.at - 1 = {}  BY <2>2
    <3>2. job'.pc # "return"  BY <2>2
    <3> QED  BY <3>1, <3>2 DEF Searched
  <2>8. Counted' /\ GoodList(majors')  BY <1>1, <1>3, <1>4 DEF Counted
  <2>9. IInv'  BY <1>1, <1>3, <2>4, <2>5, <2>6, <2>7, <2>8 DEF IInv
  <2>10. AsksWhenFull
    <3>1. ~(Len(majors') > Len(majors))  BY <1>2, <1>4
    <3> QED  BY <2>2, <3>1 DEF AsksWhenFull
  <2> QED  BY <2>3, <2>9, <2>10 DEF GoodStep
<1>5. CASE /\ majors = <<>>
           /\ \E a \in FreeRuns(n) :
                 /\ majors' = <<NewMajor(a, n)>>
                 /\ job' = Search(op, r, old, majors')
           /\ allocated' = allocated + n * PageSize
  <2>1. PICK a \in FreeRuns(n) :
                 /\ majors' = <<NewMajor(a, n)>>
                 /\ job' = Search(op, r, old, majors')
    BY <1>5
  <2> DEFINE m == NewMajor(a, n)
             longer == Append(majors, m)
  <2>2. Sound(m) /\ m.minors = <<>> /\ FreeIn(m) >= SizeFor(r) + MinorSize
    BY NewMajorSound
  <2>3. /\ GoodList(longer) /\ Len(longer) = Len(majors) + 1
        /\ longer[Len(majors) + 1] = m
        /\ \A j \in 1 .. Len(majors) : longer[j] = majors[j]
        /\ Total(Sizes(longer)) = Total(Sizes(majors)) + n * PageSize
        /\ Total(InUseIn(longer)) = Total(InUseIn(majors))
    BY <1>1, GoodAppend
  <2>4. longer = <<m>>  BY <1>5
  <2> HIDE DEF m
  <2>5. AllSeen(longer) = AllSeen(majors)
    <3> HIDE DEF longer
    <3> QED  BY <1>1, <2>2, <2>3, SeenAppended
  <2> HIDE DEF longer
  <2>6. majors' = longer /\ Len(majors) = 0 /\ Len(longer) = 1 /\ longer[1] = m
        /\ DOMAIN longer = 1 .. 1
    <3>1. majors' = longer  BY <2>1, <2>4 DEF m
    <3>2. Len(majors) = 0  BY <1>5
    <3>3. Len(longer) = 1 /\ longer[1] = m  BY <2>3, <3>2
    <3>4. DOMAIN longer = 1 .. 1  BY <2>3, <3>3 DEF GoodList
    <3> QED  BY <3>1, <3>2, <3>3, <3>4
  <2>7. /\ job' \in JobType /\ job'.op = op /\ job'.pc = "walk" /\ job'.req = r
        /\ job'.old = old /\ job'.at = 1
    <3> DEFINE s == Search(op, r, old, longer)
    <3>1. /\ s \in JobType /\ s.op = op /\ s.pc = "walk" /\ s.req = r /\ s.old = old
          /\ s.at \in 1 .. Len(longer)
      <4>1. GoodList(longer) /\ Len(longer) # 0 /\ bestBet \in Nat  BY <1>1, <2>3, <2>6
      <4> QED  BY <4>1, SearchIs
    <3> HIDE DEF s
    <3>2. job' = s  BY <2>1, <2>6 DEF s
    <3>3. s.at = 1  BY <2>6, <3>1
    <3> QED  BY <3>1, <3>2, <3>3
  <2>8. Pointers \subseteq Pointers'
    <3>1. \A x \in AllSeen(majors) : \E y \in AllSeen(majors') : y.at = x.at  BY <2>5, <2>6
    <3> QED  BY <1>1, <2>3, <2>6, <3>1, PointersStay
  <2>9. JobOK'
    <3>1. job'.op = "realloc" => job'.old \in Pointers'  BY <2>7, <2>8
    <3>2. job'.req \in Requests /\ job'.at \in DOMAIN majors'  BY <2>6, <2>7
    <3> QED  BY <2>7, <3>1, <3>2 DEF JobOK
  <2>10. OnlyTargetIsEmpty'  BY <2>2, <2>6, <2>7 DEF OnlyTargetIsEmpty
  <2>11. BetOwned'
    <3>1. bestBet = NULL  BY <1>1, <1>5 DEF BetOwned
    <3> QED  BY <1>3, <3>1 DEF BetOwned
  <2>12. Searched'
    <3>1. 1 .. job'.at - 1 = {}  BY <2>7
    <3>2. job'.pc # "return"  BY <2>7
    <3> QED  BY <3>1, <3>2 DEF Searched
  <2>13. Counted' /\ GoodList(majors')
    <3>1. inuse' = Total(InUseIn(longer))  BY <1>1, <1>3, <2>3 DEF Counted
    <3>2. allocated' = Total(Sizes(longer))  BY <1>1, <1>5, <2>3 DEF Counted
    <3> QED  BY <2>3, <2>6, <3>1, <3>2 DEF Counted
  <2>14. IInv'  BY <1>1, <1>3, <2>9, <2>10, <2>11, <2>12, <2>13 DEF IInv
  <2>15. AsksWhenFull
    <3>1. ~RoomFor(SizeFor(job'.req))  BY <1>5 DEF RoomFor
    <3> QED  BY <3>1 DEF AsksWhenFull
  <2>16. Promise!Next \/ UserBlocks' = UserBlocks
    <3>1. AllSeen(majors') = AllSeen(majors)  BY <2>5, <2>6
    <3> QED  BY <1>1, <2>3, <2>6, <3>1, SeenStep
  <2> QED  BY <2>14, <2>15, <2>16 DEF GoodStep
<1>6. CASE /\ majors = <<>>
           /\ job' = [NoJob EXCEPT !.op = op, !.pc = "return", !.req = r, !.old = old]
           /\ majors' = majors /\ allocated' = allocated
  <2>1. r \in Nat  BY PagesForIs
  <2>2. /\ job' \in JobType /\ job'.op = op /\ job'.pc = "return" /\ job'.req = r
        /\ job'.old = old
    BY <1>6, <2>1 DEF NoJob, JobType, NULL
  <2>3. Pointers' = Pointers /\ UserBlocks' = UserBlocks
    BY <1>1, <1>6, SeenIsAll, SeenIsAllNext
  <2>4. JobOK'
    <3>1. job'.op = "realloc" => job'.old \in Pointers'  BY <2>2, <2>3
    <3> QED  BY <2>2, <3>1 DEF JobOK
  <2>5. DOMAIN majors = {}  BY <1>6
  <2>6. OnlyTargetIsEmpty' /\ BetOwned'
    BY <1>1, <1>3, <1>6, <2>5 DEF OnlyTargetIsEmpty, BetOwned
  <2>7. Searched'  BY <1>6, <2>2, <2>5 DEF Searched
  <2>8. Counted' /\ GoodList(majors')  BY <1>1, <1>3, <1>6 DEF Counted
  <2>9. IInv'  BY <1>1, <1>3, <2>4, <2>6, <2>7, <2>8 DEF IInv
  <2>10. AsksWhenFull  BY <2>5 DEF AsksWhenFull, RoomFor
  <2> QED  BY <2>3, <2>9, <2>10 DEF GoodStep
<1> QED  BY <1>4, <1>5, <1>6 DEF BeginMalloc

\* A block goes back: kfree, and the end of krealloc.
LEMMA FreeingStep ==
    ASSUME IInv, job.pc # "walk", NEW p \in Pointers, FreeBlock(p),
           job' \in JobType, job'.pc = "idle", status' = status
    PROVE  GoodStep
<1>1. /\ GoodList(majors) /\ bestBet \in Nat /\ status \in {"up", "panic", "fault"}
      /\ Counted /\ BetOwned
      /\ \A l \in DOMAIN majors : majors[l].minors # <<>>
  BY DEF IInv, OnlyTargetIsEmpty
<1>2. /\ GoodList(majors') /\ Counted' /\ BetOwned' /\ bestBet' \in Nat
      /\ Len(majors') <= Len(majors)
      /\ \A l \in DOMAIN majors' : majors'[l].minors # <<>>
      /\ \E x \in AllSeen(majors) : AllSeen(majors') = AllSeen(majors) \ {x}
  BY <1>1, FreeBlockKeeps
<1>3. JobOK' /\ OnlyTargetIsEmpty' /\ Searched'
  BY <1>2 DEF JobOK, OnlyTargetIsEmpty, Searched
<1>4. IInv'  BY <1>1, <1>2, <1>3 DEF IInv
<1>5. AsksWhenFull
  <2>1. Len(majors) \in Nat /\ Len(majors') \in Nat  BY <1>1, <1>2 DEF GoodList
  <2>2. ~(Len(majors') > Len(majors))  BY <1>2, <2>1
  <2> QED  BY <2>2 DEF AsksWhenFull
<1>6. Promise!Next \/ UserBlocks' = UserBlocks  BY <1>1, <1>2, SeenStep
<1> QED  BY <1>4, <1>5, <1>6 DEF GoodStep

\* krealloc in place: one note changes.
LEMMA ReallocInPlaceKeeps ==
    ASSUME IInv, NEW p \in Pointers, NEW r \in Requests, ReallocInPlace(p, r)
    PROVE  GoodStep
<1> DEFINE b == BlockAt(p)
           i == b[1]
           k == b[2]
           m == majors[i]
           w == [m EXCEPT !.minors[k].req = r]
           new == [majors EXCEPT ![i] = w]
           x == Seen(m, k)
           y == [at |-> x.at, bytes |-> r]
<1>1. /\ GoodList(majors) /\ bestBet \in Nat /\ status \in {"up", "panic", "fault"}
      /\ Counted /\ BetOwned /\ JobOK
      /\ job.pc = "idle" /\ \A l \in DOMAIN majors : majors[l].minors # <<>>
  BY DEF IInv, OnlyTargetIsEmpty, ReallocInPlace, Idle
<1>2. /\ i \in 1 .. Len(majors) /\ k \in 1 .. Len(m.minors)
      /\ MinorOf(b) = m.minors[k] /\ x \in AllSeen(majors)
  BY <1>1, SeenIsAll
<1>3. /\ MinorOf(b).req >= r
      /\ majors' = [majors EXCEPT ![i].minors[k].req = r]
      /\ bestBet' = bestBet /\ allocated' = allocated /\ inuse' = inuse
      /\ job' = job /\ status' = status
  BY DEF ReallocInPlace
<1>4. majors' = new  BY <1>3
<1> HIDE DEF b, i, k
<1>5. Sound(m) /\ DOMAIN majors = 1 .. Len(majors) /\ majors \in Seq(MajorType)
      /\ Len(majors) \in Nat
  BY <1>1, <1>2 DEF GoodList
<1>6. r \in Nat /\ m.minors[k].req \in Nat /\ r <= m.minors[k].req
  <2>1. r \in Nat  BY PagesForIs
  <2>2. m.minors \in Seq(MinorType)  BY <1>5, SoundType
  <2>3. m.minors[k].req \in Nat
    <3> HIDE DEF m
    <3> QED  BY <1>2, <2>2, MinorIs
  <2> QED  BY <1>2, <1>3, <2>1, <2>3
<1>7. /\ Sound(w)
      /\ w.base = m.base /\ w.pages = m.pages /\ w.size = m.size
      /\ w.minors \in Seq(MinorType) /\ Len(w.minors) = Len(m.minors)
      /\ \A j \in 1 .. Len(m.minors) : j # k => w.minors[j] = m.minors[j]
      /\ w.minors[k].at = m.minors[k].at /\ w.minors[k].req = r
      /\ Total(Sizes(w.minors)) = Total(Sizes(m.minors))
  <2>1. k \in 1 .. Len(m.minors) /\ Sound(m) /\ r \in Nat /\ r <= m.minors[k].req
    BY <1>2, <1>5, <1>6
  <2> HIDE DEF m
  <2>2. Sound(w)  BY <2>1, ShorterBlockSound
  <2>3. w.base = m.base /\ w.pages = m.pages /\ w.size = m.size  BY <2>1, ShorterBlockSound
  <2>4. w.minors \in Seq(MinorType) /\ Len(w.minors) = Len(m.minors)
    BY <2>1, ShorterBlockSound, ZenonT(60)
  <2>5. \A j \in 1 .. Len(m.minors) : j # k => w.minors[j] = m.minors[j]
    BY <2>1, ShorterBlockSound
  <2>6. w.minors[k].at = m.minors[k].at /\ w.minors[k].req = r  BY <2>1, ShorterBlockSound
  <2>7. Total(Sizes(w.minors)) = Total(Sizes(m.minors))
    <3>1. w.minors[k].size = m.minors[k].size  BY <2>1, ShorterBlockSound
    <3>2. \A z \in MinorType : z.size \in Nat  BY DEF MinorType
    <3>3. m.minors \in Seq(MinorType)  BY <2>1, SoundType
    <3> DEFINE s == m.minors
               t == w.minors
    <3>4. /\ s \in Seq(MinorType) /\ t \in Seq(MinorType) /\ Len(t) = Len(s)
          /\ \A j \in 1 .. Len(s) : t[j].size = s[j].size
      BY <2>4, <2>5, <3>1, <3>3
    <3> HIDE DEF s, t
    <3>5. /\ Sizes(s) \in Seq(Nat) /\ Len(Sizes(s)) = Len(s)
          /\ \A j \in 1 .. Len(s) : Sizes(s)[j] = s[j].size
      BY <3>2, <3>4, SizesType
    <3>6. /\ Sizes(t) \in Seq(Nat) /\ Len(Sizes(t)) = Len(t)
          /\ \A j \in 1 .. Len(t) : Sizes(t)[j] = t[j].size
      BY <3>2, <3>4, SizesType
    <3>7. Sizes(t) = Sizes(s)  BY <3>4, <3>5, <3>6
    <3> QED  BY <3>7 DEF s, t
  <2> QED  BY <2>2, <2>3, <2>4, <2>5, <2>6, <2>7
<1> HIDE DEF w
<1>8. SeenIn(w) = (SeenIn(m) \ {x}) \cup {y}
  <2> HIDE DEF m
  <2> QED  BY <1>2, <1>5, <1>7, SeenChanged
<1>9. x \in SeenIn(m)  BY <1>2 DEF SeenIn
<1>10. /\ GoodList(new) /\ Len(new) = Len(majors) /\ new[i] = w
       /\ \A j \in 1 .. Len(majors) : j # i => new[j] = majors[j]
       /\ \A j \in 1 .. Len(majors) : new[j].base = majors[j].base
       /\ Total(Sizes(new)) = Total(Sizes(majors))
       /\ Total(InUseIn(new)) = Total(InUseIn(majors))
             - Total(Sizes(majors[i].minors)) + Total(Sizes(w.minors))
  BY <1>1, <1>2, <1>7, GoodReplace
<1>11. DOMAIN new = 1 .. Len(majors)  BY <1>5
<1> HIDE DEF new
<1>12. Total(InUseIn(new)) = Total(InUseIn(majors))
  <2> DEFINE all == Total(InUseIn(majors))
             mine == Total(Sizes(m.minors))
  <2>1. all \in Nat /\ mine \in Nat
    <3>1. InUseIn(majors) \in Seq(Nat) /\ mine \in Nat  BY <1>1, <1>2, InUseType
    <3> QED  BY <3>1, TotalType
  <2>2. Total(InUseIn(new)) = all - mine + mine  BY <1>7, <1>10
  <2> HIDE DEF all, mine
  <2>3. all - mine + mine = all  BY <2>1
  <2> QED  BY <2>2, <2>3 DEF all
<1>13. Counted'  BY <1>1, <1>3, <1>4, <1>10, <1>12 DEF Counted
<1>14. BetOwned'
  <2>1. \A j \in DOMAIN majors : j \in DOMAIN majors' /\ majors'[j].base = majors[j].base
    BY <1>4, <1>5, <1>10, <1>11
  <2>2. i \in DOMAIN majors /\ bestBet' = bestBet /\ BetOwned  BY <1>1, <1>2, <1>3, <1>5
  <2> QED  BY <2>1, <2>2, BetStays, Zenon
<1>15. JobOK' /\ Searched'
  <2>1. job' \in JobType /\ job'.pc = "idle"  BY <1>1, <1>3 DEF JobOK
  <2> QED  BY <2>1 DEF JobOK, Searched
<1>16. OnlyTargetIsEmpty'
  <2>1. w.minors # <<>>  BY <1>2, <1>7
  <2>2. \A l \in DOMAIN new : new[l].minors # <<>>
    <3> TAKE l \in DOMAIN new
    <3>1. CASE l = i  BY <1>10, <2>1, <3>1
    <3>2. CASE l # i  BY <1>1, <1>5, <1>10, <1>11, <3>2
    <3> QED  BY <3>1, <3>2
  <2> QED  BY <1>4, <2>2 DEF OnlyTargetIsEmpty
<1>17. IInv'  BY <1>1, <1>3, <1>4, <1>10, <1>13, <1>14, <1>15, <1>16 DEF IInv
<1>18. AsksWhenFull
  <2>1. ~(Len(majors') > Len(majors))  BY <1>4, <1>5, <1>10
  <2>2. job'.pc # "return"  BY <1>1, <1>3
  <2> QED  BY <2>1, <2>2 DEF AsksWhenFull
<1>19. Promise!Next \/ UserBlocks' = UserBlocks
  <2>1. AllSeen(new) = (AllSeen(majors) \ {x}) \cup {y}
    <3> DEFINE in == {y}
               out == {x}
    <3>1. SeenIn(new[i]) = (SeenIn(majors[i]) \ out) \cup in  BY <1>8, <1>10
    <3>2. out \subseteq SeenIn(majors[i])  BY <1>9
    <3> HIDE DEF in, out
    <3>3. ChangedIn(majors, new, i, out, in)  BY <1>1, <1>2, <1>10, <3>1, <3>2 DEF ChangedIn
    <3>4. AllSeen(new) = (AllSeen(majors) \ out) \cup in  BY <3>3, SeenReplaced
    <3> QED  BY <3>4 DEF in, out
  <2>2. y.at = x.at /\ y.bytes <= x.bytes
    <3>1. x.bytes = m.minors[k].req  BY DEF Seen
    <3>2. y.at = x.at /\ y.bytes = r  OBVIOUS
    <3> QED  BY <1>6, <3>1, <3>2
  <2> HIDE DEF x, y
  <2>3. \E u \in AllSeen(majors), v \in AllSeen(majors') :
           /\ v.at = u.at /\ v.bytes <= u.bytes
           /\ AllSeen(majors') = (AllSeen(majors) \ {u}) \cup {v}
    BY <1>2, <1>4, <2>1, <2>2
  <2> QED  BY <1>1, <1>4, <1>10, <2>3, SeenStep
<1> QED  BY <1>17, <1>18, <1>19 DEF GoodStep

\* The call returns.
LEMMA ReturnKeeps ==
    ASSUME IInv, Return
    PROVE  GoodStep
<1>1. /\ GoodList(majors) /\ bestBet \in Nat /\ status \in {"up", "panic", "fault"}
      /\ Counted /\ BetOwned /\ JobOK /\ Searched /\ OnlyTargetIsEmpty
      /\ job \in JobType /\ (job.op = "realloc" => job.old \in Pointers)
      /\ job.pc = "return" /\ \A l \in DOMAIN majors : majors[l].minors # <<>>
  BY DEF IInv, JobOK, OnlyTargetIsEmpty, Return
<1>2. Len(majors) \in Nat  BY <1>1 DEF GoodList
<1>3. NoJob \in JobType /\ NoJob.pc = "idle"  BY DEF NoJob, JobType, NULL
<1>4. ASSUME majors' = majors, bestBet' = bestBet, allocated' = allocated, inuse' = inuse,
             status' \in {"up", "panic", "fault"},
             (job' = job /\ WritesNull) \/ job' = NoJob
      PROVE  GoodStep
  <2>1. Pointers' = Pointers /\ UserBlocks' = UserBlocks
    BY <1>1, <1>4, SeenIsAll, SeenIsAllNext
  <2>2. GoodList(majors') /\ Counted' /\ BetOwned' /\ bestBet' \in Nat
    BY <1>1, <1>4 DEF Counted, BetOwned
  <2>3. OnlyTargetIsEmpty'  BY <1>1, <1>4 DEF OnlyTargetIsEmpty
  <2>4. JobOK'
    <3>1. CASE job' = job  BY <1>1, <2>1, <3>1 DEF JobOK
    <3>2. CASE job' = NoJob  BY <1>3, <3>2 DEF JobOK
    <3> QED  BY <1>4, <3>1, <3>2
  <2>5. Searched'
    <3>1. CASE job' = job  BY <1>1, <1>4, <3>1 DEF Searched
    <3>2. CASE job' = NoJob  BY <1>3, <3>2 DEF Searched
    <3> QED  BY <1>4, <3>1, <3>2
  <2>6. IInv'  BY <1>4, <2>2, <2>3, <2>4, <2>5 DEF IInv
  <2>7. AsksWhenFull
    <3>1. ~(Len(majors') > Len(majors))  BY <1>2, <1>4
    <3>2. CASE job' = job /\ WritesNull
      <4>1. \A l \in DOMAIN majors : Fitting(majors[l], SizeFor(job.req)) = {}
        BY <1>1, <3>2 DEF Searched, WritesNull
      <4> QED  BY <3>2, <4>1 DEF AsksWhenFull, RoomFor
    <3>3. CASE job' = NoJob  BY <1>3, <3>1, <3>3 DEF AsksWhenFull
    <3> QED  BY <1>4, <3>2, <3>3
  <2> QED  BY <2>1, <2>6, <2>7 DEF GoodStep
<1>5. CASE /\ WritesNull
           /\ status' = "fault"
           /\ UNCHANGED <<majors, bestBet, allocated, inuse, job>>
  BY <1>4, <1>5
<1>6. CASE /\ ~WritesNull /\ job.op = "realloc"
           /\ FreeBlock(job.old)
           /\ job' = NoJob
           /\ UNCHANGED status
  <2> DEFINE p == job.old
  <2>1. p \in Pointers /\ FreeBlock(p) /\ job.pc # "walk" /\ status' = status
        /\ job' \in JobType /\ job'.pc = "idle"
    BY <1>1, <1>3, <1>6
  <2> HIDE DEF p
  <2> QED  BY <2>1, FreeingStep
<1>7. CASE /\ ~WritesNull /\ job.op # "realloc"
           /\ job' = NoJob
           /\ UNCHANGED <<majors, bestBet, allocated, inuse, status>>
  BY <1>1, <1>4, <1>7
<1> QED  BY <1>5, <1>6, <1>7 DEF Return

-----------------------------------------------------------------------------
(* The theorems *)

\* An empty heap.
LEMMA InitMakesIInv ==
    ASSUME Init
    PROVE  IInv /\ Promise!Init
<1>1. /\ majors = <<>> /\ bestBet = 0 /\ allocated = 0 /\ inuse = 0 /\ job = NoJob
      /\ status = "up"
  BY DEF Init, NULL
<1>2. NoJob \in JobType /\ NoJob.pc = "idle"  BY DEF NoJob, JobType, NULL
<1>3. DOMAIN majors = {} /\ majors \in Seq(MajorType) /\ Len(majors) = 0  BY <1>1
<1>4. GoodList(majors)  BY <1>3 DEF GoodList
<1>5. Counted
  <2>1. InUseIn(majors) \in Seq(Nat) /\ Len(InUseIn(majors)) = 0  BY <1>3, <1>4, InUseType
  <2>2. Sizes(majors) \in Seq(Nat) /\ Len(Sizes(majors)) = 0  BY <1>3, <1>4, MajorSizesType
  <2>3. InUseIn(majors) = <<>> /\ Sizes(majors) = <<>>  BY <2>1, <2>2
  <2>4. Total(InUseIn(majors)) = 0 /\ Total(Sizes(majors)) = 0
    BY <2>1, <2>2, <2>3, TotalType
  <2> QED  BY <1>1, <2>4 DEF Counted
<1>6. JobOK /\ OnlyTargetIsEmpty /\ BetOwned /\ Searched
  BY <1>1, <1>2, <1>3 DEF JobOK, OnlyTargetIsEmpty, BetOwned, Searched, NULL
<1>7. IInv  BY <1>1, <1>4, <1>5, <1>6 DEF IInv
<1>8. UserBlocks = {}
  <2>1. AllSeen(majors) = {}  BY <1>3 DEF AllSeen
  <2> QED  BY <1>4, <2>1, SeenIsAll
<1> QED  BY <1>7, <1>8 DEF Promise!Init

\* Every step is a good one.
LEMMA NextIsGood ==
    ASSUME IInv, Next
    PROVE  GoodStep
<1>1. ASSUME NEW r \in Requests, Malloc(r) \/ Calloc(r)
      PROVE  GoodStep
  <2>1. NULL \in Nat  BY DEF NULL
  <2>2. CASE Malloc(r)
    <3>1. job.pc = "idle" /\ BeginMalloc("malloc", r, NULL)  BY <2>2 DEF Malloc, Idle
    <3> QED  BY <2>1, <3>1, BeginMallocKeeps
  <2>3. CASE Calloc(r)
    <3>1. job.pc = "idle" /\ BeginMalloc("calloc", r, NULL)  BY <2>3 DEF Calloc, Idle
    <3> QED  BY <2>1, <3>1, BeginMallocKeeps
  <2> QED  BY <1>1, <2>2, <2>3
<1>2. ASSUME NEW p \in Pointers, Free(p)
      PROVE  GoodStep
  <2>1. FreeBlock(p) /\ job.pc = "idle" /\ job' = job /\ status' = status
    BY <1>2 DEF Free, Idle
  <2>2. job' \in JobType /\ job'.pc = "idle" /\ job.pc # "walk"
    BY <2>1 DEF IInv, JobOK
  <2> QED  BY <2>1, <2>2, FreeingStep
<1>3. ASSUME NEW p \in Pointers, NEW r \in Requests,
             ReallocInPlace(p, r) \/ ReallocElsewhere(p, r)
      PROVE  GoodStep
  <2>1. CASE ReallocInPlace(p, r)  BY <2>1, ReallocInPlaceKeeps
  <2>2. CASE ReallocElsewhere(p, r)
    <3>1. job.pc = "idle" /\ BeginMalloc("realloc", r, p)  BY <2>2 DEF ReallocElsewhere, Idle
    <3>2. p \in Nat  BY PointersAreAddresses DEF IInv
    <3> QED  BY <3>1, <3>2, BeginMallocKeeps
  <2> QED  BY <1>3, <2>1, <2>2
<1>4. CASE Turn  BY <1>4, PlaceKeeps, HopKeeps, GrowKeeps, GiveUpKeeps DEF Turn
<1>5. CASE Return  BY <1>5, ReturnKeeps
<1> QED  BY <1>1, <1>2, <1>3, <1>4, <1>5 DEF Next

\* A step that changes nothing keeps the invariant and what callers see.
LEMMA StutterKeeps ==
    ASSUME IInv, UNCHANGED vars
    PROVE  IInv' /\ UserBlocks' = UserBlocks
<1>1. /\ majors' = majors /\ bestBet' = bestBet /\ allocated' = allocated
      /\ inuse' = inuse /\ job' = job /\ status' = status
  BY DEF vars
<1>2. GoodList(majors) /\ JobOK  BY DEF IInv
<1>3. Pointers' = Pointers /\ UserBlocks' = UserBlocks
  BY <1>1, <1>2, SeenIsAll, SeenIsAllNext
<1>4. JobOK'  BY <1>1, <1>2, <1>3 DEF JobOK
<1>5. Counted' /\ OnlyTargetIsEmpty' /\ BetOwned' /\ Searched'
  BY <1>1 DEF IInv, Counted, OnlyTargetIsEmpty, BetOwned, Searched
<1>6. IInv'  BY <1>1, <1>4, <1>5 DEF IInv
<1> QED  BY <1>3, <1>6

\* A step of the heap, or one that changes nothing, keeps the invariant.
LEMMA NextKeepsIInv ==
    IInv /\ [Next]_vars => IInv'
  BY NextIsGood, StutterKeeps DEF GoodStep

\* What the runs check follows from the invariant.
LEMMA IInvShows ==
    ASSUME IInv
    PROVE  TypeOK /\ BlocksStayApart /\ AccountsExact /\ BestBetIsOwned
<1>1. /\ GoodList(majors) /\ bestBet \in Nat /\ status \in {"up", "panic", "fault"}
      /\ Counted /\ JobOK /\ OnlyTargetIsEmpty /\ BetOwned
  BY DEF IInv
<1>2. /\ majors \in Seq(MajorType) /\ DOMAIN majors = 1 .. Len(majors)
      /\ \A i \in DOMAIN majors : Sound(majors[i])
  BY <1>1 DEF GoodList
<1>3. TypeOK
  <2>1. InUseIn(majors) \in Seq(Nat) /\ Sizes(majors) \in Seq(Nat)
    BY <1>1, InUseType, MajorSizesType
  <2>2. inuse \in Nat /\ allocated \in Nat  BY <1>1, <2>1, TotalType DEF Counted
  <2> QED  BY <1>1, <1>2, <2>2 DEF TypeOK, JobOK
<1>4. BlocksStayApart
  <2>1. ASSUME NEW i \in DOMAIN majors, NEW k \in 0 .. Len(majors[i].minors)
        PROVE  GapStart(majors[i], k) <= GapEnd(majors[i], k)
    <3> DEFINE m == majors[i]
    <3>1. Start(m.minors, k) <= End(m.minors, k, m.size)  BY <1>2 DEF Sound, InOrder
    <3> QED  BY <3>1, GapIs
  <2>2. ASSUME NEW i \in DOMAIN majors, NEW k \in DOMAIN majors[i].minors
        PROVE  LET b == majors[i].minors[k] IN
               /\ b.at + MinorSize <= UserAt(b) - Alignment
               /\ UserAt(b) + b.req <= BlockEnd(b)
    <3>1. k \in 1 .. Len(majors[i].minors)  BY <1>2, SoundType
    <3> QED  BY <1>2, <3>1 DEF Sound, NotesInside
  <2>3. \A i, j \in DOMAIN majors :
           i # j => PagesFrom(majors[i].base, majors[i].pages)
                       \cap PagesFrom(majors[j].base, majors[j].pages) = {}
    BY <1>1 DEF GoodList
  <2> QED  BY <2>1, <2>2, <2>3 DEF BlocksStayApart
<1>5. AccountsExact  BY <1>1, <1>2 DEF AccountsExact, Sound, Counted
<1>6. BestBetIsOwned
  <2>1. job.pc = "idle" => \A i \in DOMAIN majors : majors[i].minors # <<>>
    BY <1>1 DEF OnlyTargetIsEmpty
  <2> QED  BY <1>1, <2>1 DEF BestBetIsOwned, BetOwned
<1> QED  BY <1>3, <1>4, <1>5, <1>6

\* The invariant holds in every state the heap can reach.
THEOREM HeapKeepsIInv == Spec => []IInv
<1>1. Init => IInv  BY InitMakesIInv
<1>2. IInv /\ [Next]_vars => IInv'  BY NextKeepsIInv
<1> QED  BY <1>1, <1>2, PTL DEF Spec

\* Every variable keeps its shape, and a search stands at a major of the heap:
\* l_allocated and l_inuse never go below zero.
THEOREM HeapTyped == Spec => []TypeOK
<1>1. IInv => TypeOK  BY IInvShows
<1> QED  BY <1>1, HeapKeepsIInv, PTL

\* Whatever is asked for and given back, in whatever order: no block, header or
\* alignment note of the heap lies in another's bytes, and no page is in two
\* majors.
THEOREM HeapKeepsBlocksApart == Spec => []BlocksStayApart
<1>1. IInv => BlocksStayApart  BY IInvShows
<1> QED  BY <1>1, HeapKeepsIInv, PTL

\* The usage of every major, l_inuse and l_allocated are the sums of what the
\* lists hold.
THEOREM HeapCountsExactly == Spec => []AccountsExact
<1>1. IInv => AccountsExact  BY IInvShows
<1> QED  BY <1>1, HeapKeepsIInv, PTL

\* l_bestBet is never left at a major that was released, and no major without
\* a block outlives the call that emptied it.
THEOREM BetNeverDangles == Spec => []BestBetIsOwned
<1>1. IInv => BestBetIsOwned  BY IInvShows
<1> QED  BY <1>1, HeapKeepsIInv, PTL

\* kmalloc asks AddressSpace for pages, or returns NULL, only when no gap of
\* any major holds the request, wherever its search began.
THEOREM KmallocLooksEverywhere == Spec => SearchesEverywhere
<1>1. ASSUME IInv, [Next]_vars
      PROVE  [\/ Len(majors') > Len(majors)
              \/ job'.pc = "return" /\ job'.result = NULL
              => ~RoomFor(SizeFor(job'.req))]_vars
  BY <1>1, NextIsGood DEF GoodStep, AsksWhenFull
<1> QED  BY <1>1, HeapKeepsIInv, PTL DEF Spec, SearchesEverywhere

\* The heap implements HeapBlocks: what callers see of its lists is a set of
\* aligned blocks apart from each other, of which a step adds one, gives back
\* one, shortens one, or leaves all alone.
THEOREM HeapImplementsBlocks == Spec => ImplementsBlocks
<1>1. Init => Promise!Init  BY InitMakesIInv
<1>2. ASSUME IInv, [Next]_vars
      PROVE  [Promise!Next]_UserBlocks
  BY <1>2, NextIsGood, StutterKeeps DEF GoodStep
<1> QED  BY <1>1, <1>2, HeapKeepsIInv, PTL DEF Spec, ImplementsBlocks, Promise!BlocksSpec
=============================================================================
