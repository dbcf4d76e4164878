------------------------------- MODULE Lemmas -------------------------------
(* What several proofs rest on: induction and recursion over the numbers below n,
   quotients and remainders, and parts of sequences. *)
EXTENDS Integers, Sequences, WellFoundedInduction, SequenceTheorems, TLAPS

-----------------------------------------------------------------------------
(* Induction, over sets: the induction theorems of the library take an operator *)

LEMMA LeastOf == ASSUME NEW S \in SUBSET Nat, S # {} PROVE \E x \in S : \A y \in S : x <= y
<1>1. IsWellFoundedOn(OpToRel(<, Nat), Nat)  BY NatLessThanWellFounded
<1>2. PICK x \in S : \A y \in S : ~ (<<y, x>> \in OpToRel(<, Nat))
  BY <1>1, WFMin
<1>3. \A y \in S : x <= y
  <2> SUFFICES ASSUME NEW y \in S PROVE x <= y  OBVIOUS
  <2>1. ~ (y < x)  BY <1>2 DEF OpToRel
  <2> QED BY <2>1
<1> QED BY <1>3

LEMMA GreatestOf ==
  ASSUME NEW n \in Nat, NEW S \in SUBSET (1 .. n), S # {}
  PROVE  \E x \in S : \A y \in S : y <= x
<1> DEFINE T == {n - y : y \in S}
<1>1. T \in SUBSET Nat /\ T # {}
  <2>1. \A y \in S : n - y \in Nat  OBVIOUS
  <2> QED BY <2>1
<1> HIDE DEF T
<1>2. PICK t \in T : \A u \in T : t <= u  BY <1>1, LeastOf
<1>3. PICK x \in S : t = n - x  BY DEF T
<1>4. \A y \in S : n - y \in T  BY DEF T
<1> QED BY <1>2, <1>3, <1>4

LEMMA Induct ==
  ASSUME NEW n \in Nat, NEW S, 0 \in S, \A i \in 0 .. n - 1 : i \in S => i + 1 \in S
  PROVE  \A i \in 0 .. n : i \in S
<1> DEFINE T == {i \in 0 .. n : i \notin S}
<1> SUFFICES ASSUME T # {} PROVE FALSE  OBVIOUS
<1>1. T \in SUBSET Nat  OBVIOUS
<1> HIDE DEF T
<1>2. PICK x \in T : \A y \in T : x <= y  BY <1>1, LeastOf
<1>3. x \in 1 .. n /\ x \notin S  BY DEF T
<1>4. x - 1 \in 0 .. n /\ x - 1 \notin T  BY <1>1, <1>2, <1>3
<1>5. x - 1 \in S /\ x - 1 \in 0 .. n - 1  BY <1>3, <1>4 DEF T
<1>6. (x - 1) + 1 \in S  BY <1>5
<1> QED BY <1>3, <1>6

\* There is a function of n steps of g from b.
Iterates(f, n, b, g) == f[0] = b /\ \A i \in 1 .. n : f[i] = g[<<i, f[i - 1]>>]
LEMMA RecursionExists ==
  ASSUME NEW n \in Nat, NEW T, NEW b \in T, NEW g \in [(1 .. n) \X T -> T]
  PROVE  \E f \in [0 .. n -> T] : Iterates(f, n, b, g)
<1> DEFINE Steps(k, f) == f[0] = b /\ \A i \in 1 .. k : f[i] = g[<<i, f[i - 1]>>]
           S == {k \in 0 .. n : \E f \in [0 .. k -> T] : Steps(k, f)}
<1>1. 0 \in S
  <2> DEFINE f == [i \in 0 .. 0 |-> b]
  <2>1. f \in [0 .. 0 -> T] /\ f[0] = b /\ 1 .. 0 = {}  OBVIOUS
  <2>2. Steps(0, f)  BY <2>1
  <2> HIDE DEF f, Steps
  <2> QED BY <2>1, <2>2
<1>2. ASSUME NEW k \in 0 .. n - 1, k \in S PROVE k + 1 \in S
  <2>1. PICK f \in [0 .. k -> T] : Steps(k, f)  BY <1>2
  <2> DEFINE h == [i \in 0 .. k + 1 |-> IF i = k + 1 THEN g[<<k + 1, f[k]>>] ELSE f[i]]
  <2>2. f[k] \in T /\ <<k + 1, f[k]>> \in (1 .. n) \X T  OBVIOUS
  <2>3. h \in [0 .. k + 1 -> T]  BY <2>2
  <2>4. Steps(k + 1, h)
    <3>1. h[0] = b  BY <2>1
    <3>2. ASSUME NEW i \in 1 .. k + 1 PROVE h[i] = g[<<i, h[i - 1]>>]
      <4>1. h[i - 1] = f[i - 1]  OBVIOUS
      <4>2. CASE i = k + 1
        <5>1. h[k + 1] = g[<<k + 1, f[k]>>] /\ i - 1 = k  BY <4>2
        <5> QED BY <4>1, <4>2, <5>1
      <4>3. CASE i # k + 1
        <5>1. h[i] = f[i] /\ i \in 1 .. k  BY <4>3
        <5> QED BY <2>1, <4>1, <5>1
      <4> QED BY <4>2, <4>3
    <3> QED BY <3>1, <3>2
  <2>5. k + 1 \in 0 .. n  OBVIOUS
  <2> HIDE DEF h, Steps
  <2> QED BY <2>3, <2>4, <2>5
<1> HIDE DEF S
<1>3. n \in S  BY <1>1, <1>2, Induct
<1> QED BY <1>3 DEF S, Iterates

\* Induction from n down.
LEMMA Descend ==
  ASSUME NEW n \in Nat, NEW S, \A i \in Nat \ {0} : i > n => i \in S,
         \A i \in 1 .. n : (\A j \in Nat \ {0} : j > i => j \in S) => i \in S
  PROVE  \A i \in Nat \ {0} : i \in S
<1> DEFINE T == {i \in 1 .. n : i \notin S}
<1>1. CASE T = {}
  <2> SUFFICES ASSUME NEW i \in Nat \ {0} PROVE i \in S  OBVIOUS
  <2>1. CASE i > n  BY <2>1
  <2>2. CASE ~ (i > n)
    <3>1. i \in 1 .. n  BY <2>2
    <3> QED BY <1>1, <3>1
  <2> QED BY <2>1, <2>2
<1>2. CASE T # {}
  <2>1. T \in SUBSET (1 .. n)  OBVIOUS
  <2> HIDE DEF T
  <2>2. PICK x \in T : \A y \in T : y <= x  BY ONLY n \in Nat, <1>2, <2>1, GreatestOf
  <2>3. x \in 1 .. n /\ x \notin S  BY DEF T
  <2>4. ASSUME NEW j \in Nat \ {0}, j > x PROVE j \in S
    <3>1. CASE j > n  BY <3>1
    <3>2. CASE ~ (j > n)
      <4>1. j \in 1 .. n /\ j \notin T  BY <2>2, <2>3, <2>4, <3>2
      <4> QED BY <4>1 DEF T
    <3> QED BY <3>1, <3>2
  <2> QED BY <2>3, <2>4
<1> QED BY <1>1, <1>2

\* There is a function that is h past n and, from n down, what g makes of its
\* values further up.
Above(f, e, i) == \A j \in Nat \ {0} : j > i => f[j] = e[j]
Descends(f, n, h, g) == \A i \in Nat \ {0} : f[i] = IF i > n THEN h[i] ELSE g[<<i, f>>]
LEMMA DescentExists ==
  ASSUME NEW n \in Nat, NEW T, NEW h \in [Nat \ {0} -> T],
         NEW g \in [(1 .. n) \X [Nat \ {0} -> T] -> T],
         \A i \in 1 .. n : \A f, e \in [Nat \ {0} -> T] : Above(f, e, i) => g[<<i, f>>] = g[<<i, e>>]
  PROVE  \E f \in [Nat \ {0} -> T] : Descends(f, n, h, g)
<1> DEFINE P == Nat \ {0}
           U == [P -> T]
           At(k) == n + 1 - k
           Extend(k, f) == [i \in P |-> IF i = At(k) THEN g[<<At(k), f>>] ELSE f[i]]
           G == [p \in (1 .. n) \X U |-> Extend(p[1], p[2])]
           Good(k, f) == \A i \in P : i > n - k => f[i] = IF i > n THEN h[i] ELSE g[<<i, f>>]
<1>1. ASSUME NEW k \in 1 .. n, NEW f \in U PROVE Extend(k, f) \in U
  <2>1. At(k) \in 1 .. n  OBVIOUS
  <2>2. g[<<At(k), f>>] \in T  BY <2>1
  <2> QED BY <2>2
<1>2. G \in [(1 .. n) \X U -> U]
  <2> HIDE DEF U, Extend
  <2> QED BY <1>1
<1>3. PICK F \in [0 .. n -> U] : Iterates(F, n, h, G)
  <2>1. h \in U  OBVIOUS
  <2> HIDE DEF U, G
  <2> QED BY <1>2, <2>1, RecursionExists
<1> DEFINE S == {k \in 0 .. n : Good(k, F[k])}
<1>4. 0 \in S
  <2>1. \A i \in P : i > n - 0 => i > n  OBVIOUS
  <2>2. F[0] = h  BY <1>3 DEF Iterates
  <2> QED BY <2>1, <2>2
<1>5. ASSUME NEW k \in 0 .. n - 1, k \in S PROVE k + 1 \in S
  <2> DEFINE l == k + 1
             c == n - k
             old == F[k]
             new == F[l]
  <2>1. l \in 1 .. n /\ l - 1 = k /\ l \in 0 .. n /\ k \in 0 .. n /\ At(l) = c /\ c \in 1 .. n /\ c \in P
    OBVIOUS
  <2>2. old \in U /\ new \in U  BY <2>1
  <2>3. new = Extend(l, old)
    <3>1. new = G[<<l, F[l - 1]>>]
      <4> HIDE DEF G, l
      <4> QED BY <1>3, <2>1 DEF Iterates
    <3>2. F[l - 1] = old  BY <2>1
    <3> HIDE DEF l, old, new, Extend, U
    <3> QED BY <2>1, <2>2, <3>1, <3>2
  <2>4. new[c] = g[<<c, old>>] /\ \A i \in P : i # c => new[i] = old[i]
    <3> HIDE DEF l, old, new, c
    <3> QED BY <2>1, <2>3
  <2>5. Good(k, old)  BY <1>5
  <2> HIDE DEF l, c, old, new
  <2>6. Above(new, old, c)
    <3>1. \A j \in P : j > c => j # c  BY ONLY <2>1
    <3>2. \A j \in P : j > c => new[j] = old[j]  BY ONLY <2>4, <3>1
    <3> QED BY <3>2 DEF Above
  <2>7. ASSUME NEW i \in P, i >= c PROVE new[i] = IF i > n THEN h[i] ELSE g[<<i, new>>]
    <3>1. CASE i = c
      <4>1. g[<<c, new>>] = g[<<c, old>>]  BY <2>1, <2>2, <2>6
      <4> QED BY <2>1, <2>4, <3>1, <4>1
    <3>2. CASE i # c
      <4>1. i > c /\ new[i] = old[i]  BY <2>1, <2>4, <2>7, <3>2
      <4>2. old[i] = IF i > n THEN h[i] ELSE g[<<i, old>>]  BY <2>5, <4>1 DEF c
      <4>3. i \in 1 .. n => g[<<i, new>>] = g[<<i, old>>]
        <5>1. Above(new, old, i)  BY <2>1, <2>6, <4>1 DEF Above
        <5> QED BY <2>2, <5>1
      <4> QED BY <4>1, <4>2, <4>3
    <3> QED BY <3>1, <3>2
  <2>8. Good(l, new)
    <3>1. \A i \in P : i > n - l => i >= c  BY <2>1 DEF c
    <3> QED BY <2>7, <3>1
  <2> QED BY <2>1, <2>8 DEF l, new
<1>6. n \in S
  <2> HIDE DEF S
  <2>1. \A i \in 0 .. n : i \in S  BY ONLY <1>4, <1>5, Induct, n \in Nat
  <2> QED BY <2>1
<1>7. F[n] \in U /\ \A i \in P : F[n][i] = IF i > n THEN h[i] ELSE g[<<i, F[n]>>]
  <2>1. \A i \in P : i > n - n  OBVIOUS
  <2> QED BY <1>6, <2>1
<1> QED BY <1>7 DEF Descends

-----------------------------------------------------------------------------
(* Quotients and remainders by a divisor w that is not a literal: the provers know
   that a = w * (a \div w) + (a % w), the rest follows. *)

LEMMA ModRange == ASSUME NEW w \in Nat \ {0}, NEW a \in Nat PROVE a % w \in 0 .. w - 1 /\ a \div w \in Nat
  OBVIOUS

LEMMA DivMod == ASSUME NEW w \in Nat \ {0}, NEW a \in Nat PROVE a = w * (a \div w) + (a % w)
  OBVIOUS

LEMMA MultStep == ASSUME NEW w \in Nat \ {0}, NEW q \in Nat, NEW p \in Nat, q < p PROVE w * q + w <= w * p
<1> DEFINE d == p - q - 1
<1>1. d \in Nat  OBVIOUS
<1>2. p = q + 1 + d OBVIOUS
<1>3. w * p = w * q + w + w * d  BY <1>1, <1>2
<1>4. w * d >= 0 BY <1>1
<1> QED BY <1>3, <1>4, <1>1

LEMMA DivUnique == ASSUME NEW w \in Nat \ {0}, NEW q \in Nat, NEW p \in Nat, NEW r \in 0 .. w - 1, NEW s \in 0 .. w - 1,
                       w * q + r = w * p + s
                PROVE q = p /\ r = s
<1>0. w * q \in Nat /\ w * p \in Nat OBVIOUS
<1>1. ~ (q < p)  BY MultStep, <1>0
<1>2. ~ (p < q)  BY MultStep, <1>0
<1>3. q = p BY <1>1, <1>2
<1> QED BY <1>3, <1>0

LEMMA ModUnique == ASSUME NEW w \in Nat \ {0}, NEW q \in Nat, NEW r \in 0 .. w - 1
                PROVE (w * q + r) % w = r
<1> DEFINE a == w * q + r
<1>1. a \in Nat OBVIOUS
<1>2. a % w \in 0 .. w - 1 /\ a \div w \in Nat BY <1>1, ModRange
<1>3. a = w * (a \div w) + (a % w) BY <1>1, DivMod
<1> HIDE DEF a
<1>4. w * q + r = w * (a \div w) + (a % w) BY <1>3 DEF a
<1>5. r = a % w BY <1>2, <1>4, DivUnique
<1> QED BY <1>5 DEF a

LEMMA MultMono ==
  ASSUME NEW w \in Nat \ {0}, NEW i \in Nat, NEW j \in Nat, i <= j
  PROVE  i * w \in Nat /\ j * w \in Nat /\ i * w <= j * w
<1>1. i * w = w * i /\ j * w = w * j /\ w * i \in Nat /\ w * j \in Nat  OBVIOUS
<1>2. CASE i = j  BY <1>1, <1>2
<1>3. CASE i < j
  <2>1. w * i + w <= w * j  BY <1>3, MultStep
  <2> QED BY <2>1, <1>1
<1> QED BY <1>2, <1>3

-----------------------------------------------------------------------------
(* Sequences *)

\* A part of a list, from its first o elements on.
LEMMA PartOf ==
  ASSUME NEW T, NEW s \in Seq(T), NEW o \in Nat, NEW n \in Nat, o + n <= Len(s)
  PROVE  /\ Len(SubSeq(s, o + 1, o + n)) = n
         /\ \A k \in 1 .. n : SubSeq(s, o + 1, o + n)[k] = s[o + k]
<1> DEFINE lo == o + 1
           hi == o + n
           part == SubSeq(s, lo, hi)
<1>1. lo \in Int /\ hi \in Int /\ \A i \in lo .. hi : s[i] \in T  OBVIOUS
<1> HIDE DEF lo, hi
<1>2. Len(part) = (IF lo <= hi THEN hi - lo + 1 ELSE 0)
      /\ \A i \in 1 .. hi - lo + 1 : part[i] = s[lo + i - 1]
  BY ONLY <1>1, SubSeqProperties
<1> HIDE DEF part
<1>3. Len(part) = n  BY <1>2 DEF lo, hi
<1>4. ASSUME NEW k \in 1 .. n PROVE part[k] = s[o + k]
  <2>1. k \in 1 .. hi - lo + 1 /\ lo + k - 1 = o + k  BY DEF lo, hi
  <2> QED BY <1>2, <2>1
<1> QED BY <1>3, <1>4 DEF part, lo, hi

\* The rest of a list from place a on.
LEMMA RestFrom ==
  ASSUME NEW T, NEW s \in Seq(T), NEW a \in 1 .. Len(s)
  PROVE  <<s[a]>> \o SubSeq(s, a + 1, Len(s)) = SubSeq(s, a, Len(s))
<1> DEFINE n == Len(s)
           x == <<s[a]>>
           y == SubSeq(s, a + 1, n)
           z == SubSeq(s, a, n)
           o == a - 1
           m == n - o
           r == n - a
<1>1. n \in Nat /\ o \in Nat /\ m \in Nat /\ r \in Nat /\ o + m <= n /\ a + r <= n /\ a \in Nat
      /\ o + 1 = a /\ o + m = n /\ a + r = n /\ m = r + 1
  OBVIOUS
<1>2. x \in Seq(T) /\ Len(x) = 1 /\ x[1] = s[a]  OBVIOUS
<1>3. y \in Seq(T) /\ z \in Seq(T)  OBVIOUS
<1> HIDE DEF n, o, m, r
<1>4. Len(z) = m /\ \A k \in 1 .. m : z[k] = s[o + k]
  <2>1. /\ Len(SubSeq(s, o + 1, o + m)) = m
        /\ \A k \in 1 .. m : SubSeq(s, o + 1, o + m)[k] = s[o + k]
    BY ONLY <1>1, s \in Seq(T), PartOf DEF n
  <2> QED BY <1>1, <2>1
<1>5. Len(y) = r /\ \A k \in 1 .. r : y[k] = s[a + k]
  <2>1. /\ Len(SubSeq(s, a + 1, a + r)) = r
        /\ \A k \in 1 .. r : SubSeq(s, a + 1, a + r)[k] = s[a + k]
    BY ONLY <1>1, s \in Seq(T), PartOf DEF n
  <2> QED BY <1>1, <2>1
<1> HIDE DEF x, y, z
<1>6. /\ x \o y \in Seq(T) /\ Len(x \o y) = Len(x) + Len(y)
      /\ \A j \in 1 .. Len(x) + Len(y) : (x \o y)[j] = IF j <= Len(x) THEN x[j] ELSE y[j - Len(x)]
  BY ONLY <1>2, <1>3, ConcatProperties
<1> DEFINE w == x \o y
<1> HIDE DEF w
<1>7. w \in Seq(T) /\ Len(w) = m /\ \A j \in 1 .. m : w[j] = IF j <= 1 THEN x[j] ELSE y[j - 1]
  BY <1>1, <1>2, <1>5, <1>6 DEF w
<1>8. ASSUME NEW j \in 1 .. m PROVE w[j] = z[j]
  <2>1. CASE j <= 1
    <3>1. j = 1 /\ o + j = a  BY <1>1, <2>1
    <3> QED BY <1>2, <1>4, <1>7, <3>1
  <2>2. CASE ~ (j <= 1)
    <3>1. j - 1 \in 1 .. r /\ a + (j - 1) = o + j  BY <1>1, <2>2
    <3> QED BY <1>4, <1>5, <1>7, <2>2, <3>1
  <2> QED BY <2>1, <2>2
<1>9. w = z  BY <1>3, <1>4, <1>7, <1>8
<1> QED BY <1>9 DEF n, w, x, y, z

\* Three lists one after the other.
LEMMA ConcatOf3 ==
  ASSUME NEW T, NEW a \in Seq(T), NEW b \in Seq(T), NEW c \in Seq(T)
  PROVE  /\ a \o b \o c \in Seq(T) /\ Len(a \o b \o c) = Len(a) + Len(b) + Len(c)
         /\ \A j \in 1 .. Len(a) : (a \o b \o c)[j] = a[j]
         /\ \A j \in 1 .. Len(b) : (a \o b \o c)[Len(a) + j] = b[j]
         /\ \A j \in 1 .. Len(c) : (a \o b \o c)[Len(a) + Len(b) + j] = c[j]
<1> DEFINE ab == a \o b
           abc == ab \o c
<1>1. Len(a) \in Nat /\ Len(b) \in Nat /\ Len(c) \in Nat  OBVIOUS
<1>2. /\ ab \in Seq(T) /\ Len(ab) = Len(a) + Len(b)
      /\ \A j \in 1 .. Len(a) + Len(b) : ab[j] = IF j <= Len(a) THEN a[j] ELSE b[j - Len(a)]
  BY ONLY a \in Seq(T), b \in Seq(T), ConcatProperties
<1>t. ab \in Seq(T)  BY <1>2
<1> HIDE DEF ab
<1>3. /\ abc \in Seq(T) /\ Len(abc) = Len(ab) + Len(c)
      /\ \A j \in 1 .. Len(ab) + Len(c) : abc[j] = IF j <= Len(ab) THEN ab[j] ELSE c[j - Len(ab)]
  BY ONLY <1>t, c \in Seq(T), ConcatProperties
<1> HIDE DEF abc
<1>4. ASSUME NEW j \in 1 .. Len(a) PROVE abc[j] = a[j]
  <2>1. j \in 1 .. Len(ab) + Len(c) /\ j <= Len(ab) /\ j \in 1 .. Len(a) + Len(b)  BY <1>1, <1>2
  <2> QED BY <1>2, <1>3, <2>1
<1>5. ASSUME NEW j \in 1 .. Len(b) PROVE abc[Len(a) + j] = b[j]
  <2> DEFINE l == Len(a) + j
  <2>1. l \in 1 .. Len(ab) + Len(c) /\ l <= Len(ab) /\ l \in 1 .. Len(a) + Len(b)
        /\ ~ (l <= Len(a)) /\ l - Len(a) = j
    BY <1>1, <1>2
  <2> HIDE DEF l
  <2>2. abc[l] = ab[l] /\ ab[l] = b[l - Len(a)]  BY <1>2, <1>3, <2>1
  <2> QED BY <2>1, <2>2 DEF l
<1>6. ASSUME NEW j \in 1 .. Len(c) PROVE abc[Len(a) + Len(b) + j] = c[j]
  <2> DEFINE l == Len(a) + Len(b) + j
  <2>1. l \in 1 .. Len(ab) + Len(c) /\ ~ (l <= Len(ab)) /\ l - Len(ab) = j  BY <1>1, <1>2
  <2> HIDE DEF l
  <2>2. abc[l] = c[l - Len(ab)]  BY <1>3, <2>1
  <2> QED BY <2>1, <2>2 DEF l
<1> QED BY <1>1, <1>2, <1>3, <1>4, <1>5, <1>6 DEF ab, abc
=============================================================================
