--------------------------- MODULE BpeMergeProofs ---------------------------
(* Theorems about BpeMerge, for every vocabulary, every text and every list of
   merges: the symbols are tokens, and merging the lowest rank anew in each round
   gives the reference cut of the text. *)
EXTENDS BpeMerge, Lemmas

Lists == Seq(Seq(Int))
Pairs == Strings \X Strings

-----------------------------------------------------------------------------
(* The reference *)

LEMMA PushLast ==
  ASSUME NEW d \in Lists, NEW x \in Seq(Int)
  PROVE  Append(d, x) # <<>> /\ Len(Append(d, x)) = Len(d) + 1 /\ Last(Append(d, x)) = x
<1>1. Append(d, x) # <<>> /\ Len(Append(d, x)) = Len(d) + 1 /\ Append(d, x)[Len(d) + 1] = x
  <2>1. d \in Seq(Seq(Int))  BY DEF Lists
  <2> DEFINE E == Seq(Int)
  <2>2. d \in Seq(E) /\ x \in E  BY <2>1
  <2> HIDE DEF E
  <2> QED BY <2>2, AppendProperties
<1> QED BY <1>1 DEF Last

LEMMA PushIs ==
  ASSUME NEW d \in Lists, NEW x \in Seq(Int), NEW y \in Seq(Int), NEW m \in Pairs
  PROVE  /\ Push(<<>>, y, m) = <<y>>
         /\ <<x, y>> = m => Push(Append(d, x), y, m) = Append(d, m[1] \o m[2])
         /\ <<x, y>> # m => Push(Append(d, x), y, m) = Append(Append(d, x), y)
<1>1. Append(d, x) # <<>> /\ Len(Append(d, x)) = Len(d) + 1 /\ Last(Append(d, x)) = x  BY PushLast
<1>2. Front(Append(d, x)) = d
  BY <1>1 DEF Front, Lists
<1>3. Append(<<>>, y) = <<y>>  OBVIOUS
<1>4. <<x, y>> = m => Push(Append(d, x), y, m) = Append(d, m[1] \o m[2])
  BY <1>1, <1>2 DEF Push
<1>5. <<x, y>> # m => Push(Append(d, x), y, m) = Append(Append(d, x), y)
  BY <1>1 DEF Push
<1> QED BY <1>3, <1>4, <1>5 DEF Push

LEMMA PushCopies ==
  ASSUME NEW d \in Lists, NEW x \in Seq(Int), NEW y \in Seq(Int), NEW m \in Pairs, <<x, y>> # m
  PROVE  Push(Append(d, x), y, m) = Append(Append(d, x), y)
<1>1. Append(d, x) # <<>> /\ Last(Append(d, x)) = x  BY PushLast
<1> QED BY <1>1 DEF Push

LEMMA PushType ==
  ASSUME NEW done \in Lists, NEW next \in Seq(Int), NEW m \in Pairs
  PROVE  Push(done, next, m) \in Lists
<1>1. m[1] \o m[2] \in Seq(Int)  BY DEF Pairs, Strings
<1>2. done # <<>> => Front(done) \in Lists  BY DEF Front, Lists
<1> QED BY <1>1, <1>2 DEF Push, Lists

\* Swept is the function its definition describes.
LEMMA SweptIs ==
  ASSUME NEW s \in Lists, NEW m \in Pairs
  PROVE  /\ Swept(s, m) \in [0 .. Len(s) -> Lists]
         /\ Swept(s, m)[0] = <<>>
         /\ \A n \in 1 .. Len(s) : Swept(s, m)[n] = Push(Swept(s, m)[n - 1], s[n], m)
<1> DEFINE Is(f) == f = [n \in 0 .. Len(s) |-> IF n = 0 THEN <<>> ELSE Push(f[n - 1], s[n], m)]
           g == [p \in (1 .. Len(s)) \X Lists |-> Push(p[2], s[p[1]], m)]
<1>0. Len(s) \in Nat /\ <<>> \in Lists /\ \A n \in 1 .. Len(s) : s[n] \in Seq(Int)  BY DEF Lists
<1>1. g \in [(1 .. Len(s)) \X Lists -> Lists]  BY <1>0, PushType
<1>2. PICK f \in [0 .. Len(s) -> Lists] :
             f[0] = <<>> /\ \A n \in 1 .. Len(s) : f[n] = g[<<n, f[n - 1]>>]
  <2> DEFINE N == Len(s)
             b == <<>>
  <2>1. N \in Nat /\ b \in Lists /\ g \in [(1 .. N) \X Lists -> Lists]  BY <1>0, <1>1
  <2> HIDE DEF g, N, b
  <2>2. \E f \in [0 .. N -> Lists] : Iterates(f, N, b, g)
    BY ONLY <2>1, RecursionExists
  <2> QED BY <2>2 DEF N, b, Iterates
<1>3. Is(f)
  <2>1. ASSUME NEW n \in 1 .. Len(s) PROVE f[n] = Push(f[n - 1], s[n], m)
    <3>1. f[n - 1] \in Lists  BY <1>0
    <3> QED BY <1>2, <3>1
  <2> QED BY <1>0, <1>2, <2>1
<1>4. Is(CHOOSE h : Is(h))  BY <1>3
<1>5. Is(Swept(s, m))  BY <1>4 DEF Swept
<1> DEFINE h == Swept(s, m)
           S == {n \in 0 .. Len(s) : h[n] \in Lists}
<1> HIDE DEF h
<1>6. h = [n \in 0 .. Len(s) |-> IF n = 0 THEN <<>> ELSE Push(h[n - 1], s[n], m)]
  BY <1>5 DEF h
<1>7. h[0] = <<>>  BY <1>0, <1>6
<1>8. \A n \in 1 .. Len(s) : h[n] = Push(h[n - 1], s[n], m)  BY <1>0, <1>6
<1>9. 0 \in S  BY <1>0, <1>7
<1>10. ASSUME NEW n \in 0 .. Len(s) - 1, n \in S PROVE n + 1 \in S
  <2>1. n + 1 \in 1 .. Len(s) /\ h[n] \in Lists  BY <1>0, <1>10
  <2>2. h[n + 1] = Push(h[n], s[n + 1], m)  BY <1>0, <1>8, <2>1
  <2>3. h[n + 1] \in Lists  BY <1>0, <2>1, <2>2, PushType
  <2> QED BY <1>0, <2>1, <2>3
<1> HIDE DEF S
<1>11. \A n \in 0 .. Len(s) : n \in S  BY <1>0, <1>9, <1>10, Induct
<1>12. h \in [0 .. Len(s) -> Lists]  BY <1>6, <1>11 DEF S
<1> QED BY <1>7, <1>8, <1>12 DEF h
-----------------------------------------------------------------------------
LEMMA PrefixIs ==
  ASSUME NEW s \in Lists, NEW n \in 1 .. Len(s)
  PROVE  /\ SubSeq(s, 1, n) = Append(SubSeq(s, 1, n - 1), s[n])
         /\ SubSeq(s, 1, n - 1) \in Lists
         /\ SubSeq(s, 1, 0) = <<>>
<1> DEFINE E == Seq(Int)
<1>1. s \in Seq(E) /\ Len(s) \in Nat  BY DEF Lists
<1> HIDE DEF E
<1>2. SubSeq(s, 1, n) = Append(SubSeq(s, 1, n - 1), s[n])  BY <1>1
<1>3. SubSeq(s, 1, n - 1) \in Seq(E)  BY <1>1
<1>4. SubSeq(s, 1, 0) = <<>>  BY <1>1, SubSeqEmpty
<1> QED BY <1>2, <1>3, <1>4 DEF E, Lists

\* Up to the first pair m the sweep copies.
LEMMA SweptCopies ==
  ASSUME NEW s \in Lists, NEW m \in Pairs, NEW p \in 0 .. Len(s),
         \A i \in 1 .. p - 1 : Pair(s, i) # m
  PROVE  \A n \in 0 .. p : Swept(s, m)[n] = SubSeq(s, 1, n)
<1> DEFINE h == Swept(s, m)
           S == {n \in 0 .. p : h[n] = SubSeq(s, 1, n)}
<1>0. Len(s) \in Nat /\ p \in Nat /\ \A n \in 1 .. Len(s) : s[n] \in Seq(Int)  BY DEF Lists
<1>1. h[0] = <<>> /\ \A n \in 1 .. Len(s) : h[n] = Push(h[n - 1], s[n], m)  BY SweptIs
<1> HIDE DEF h
<1>2. 0 \in S
  <2>1. 0 \in 0 .. p  BY <1>0
  <2>2. SubSeq(s, 1, 0) = <<>>  BY SubSeqEmpty
  <2> QED BY <1>1, <2>1, <2>2
<1>3. ASSUME NEW n \in 0 .. p - 1, n \in S PROVE n + 1 \in S
  <2>1. n + 1 \in 1 .. Len(s) /\ (n + 1) - 1 = n /\ h[n] = SubSeq(s, 1, n)  BY <1>0, <1>3
  <2> DEFINE l == n + 1
  <2>2. h[n + 1] = Push(SubSeq(s, 1, n), s[n + 1], m)
    <3> HIDE DEF l
    <3>1. h[l] = Push(h[l - 1], s[l], m)  BY <1>1, <2>1 DEF l
    <3> QED BY <2>1, <3>1 DEF l
  <2>3. SubSeq(s, 1, n + 1) = Append(SubSeq(s, 1, n), s[n + 1])
    <3> HIDE DEF l
    <3>1. SubSeq(s, 1, l) = Append(SubSeq(s, 1, l - 1), s[l])  BY <2>1, PrefixIs DEF l
    <3> QED BY <2>1, <3>1 DEF l
  <2>4. CASE n = 0
    <3>1. SubSeq(s, 1, n) = <<>>  BY <2>4, SubSeqEmpty
    <3>2. Push(<<>>, s[n + 1], m) = Append(<<>>, s[n + 1])  BY DEF Push
    <3>3. h[n + 1] = SubSeq(s, 1, n + 1)  BY ONLY <2>2, <2>3, <3>1, <3>2
    <3> QED BY <1>0, <3>3
  <2>5. CASE n # 0
    <3>1. n \in 1 .. Len(s) /\ n \in 1 .. p - 1  BY <1>0, <2>5
    <3>2. SubSeq(s, 1, n) = Append(SubSeq(s, 1, n - 1), s[n]) /\ SubSeq(s, 1, n - 1) \in Lists
      BY <3>1, PrefixIs
    <3>3. <<s[n], s[n + 1]>> # m  BY <3>1 DEF Pair
    <3>4. s[n] \in Seq(Int) /\ s[n + 1] \in Seq(Int)  BY <1>0, <2>1, <3>1
    <3>5. Push(Append(SubSeq(s, 1, n - 1), s[n]), s[n + 1], m)
            = Append(Append(SubSeq(s, 1, n - 1), s[n]), s[n + 1])
      <4> DEFINE e == SubSeq(s, 1, n - 1)
                 x == s[n]
                 y == s[n + 1]
      <4>1. e \in Lists /\ x \in Seq(Int) /\ y \in Seq(Int) /\ <<x, y>> # m  BY <3>2, <3>3, <3>4
      <4> HIDE DEF e, x, y
      <4>2. Push(Append(e, x), y, m) = Append(Append(e, x), y)
        BY ONLY <4>1, PushCopies, m \in Pairs
      <4> QED BY <4>2 DEF e, x, y
    <3>6. h[n + 1] = SubSeq(s, 1, n + 1)  BY <2>2, <2>3, <3>2, <3>5
    <3> QED BY <1>0, <3>6
  <2> QED BY <2>4, <2>5
<1> HIDE DEF S
<1>4. \A n \in 0 .. p : n \in S  BY <1>0, <1>2, <1>3, Induct
<1> QED BY <1>4 DEF S, h

LEMMA SweepNothing ==
  ASSUME NEW s \in Lists, NEW m \in Pairs, \A i \in 1 .. Len(s) - 1 : Pair(s, i) # m
  PROVE  Sweep(s, m) = s
<1>1. Len(s) \in 0 .. Len(s)  BY DEF Lists
<1>2. Swept(s, m)[Len(s)] = SubSeq(s, 1, Len(s))  BY <1>1, SweptCopies
<1>3. SubSeq(s, 1, Len(s)) = s  BY DEF Lists
<1> QED BY <1>2, <1>3 DEF Sweep

\* t is s with the two tokens from place i on replaced by one.
MergedAt(t, s, i, token) ==
    /\ t \in Lists /\ Len(t) = Len(s) - 1
    /\ \A j \in 1 .. i - 1 : t[j] = s[j]
    /\ t[i] = token
    /\ \A j \in i + 1 .. Len(t) : t[j] = s[j + 1]

LEMMA Longer == ASSUME NEW a \in Seq(Int), NEW b \in Seq(Int), a # <<>> PROVE a \o b # b
<1>1. Len(a \o b) = Len(a) + Len(b) /\ Len(a) \in Nat /\ Len(b) \in Nat /\ Len(a) # 0  OBVIOUS
<1>2. Len(a \o b) # Len(b)  BY <1>1
<1> QED BY <1>2

\* The first merge of a sweep may be done before it.
LEMMA SweepMerged ==
  ASSUME NEW s \in Lists, NEW m \in Pairs, NEW i \in 1 .. Len(s) - 1,
         Pair(s, i) = m, \A j \in 1 .. i - 1 : Pair(s, j) # m,
         NEW t, MergedAt(t, s, i, m[1] \o m[2])
  PROVE  Sweep(t, m) = Sweep(s, m)
<1> DEFINE P == m[1] \o m[2]
           hs == Swept(s, m)
           ht == Swept(t, m)
           d == SubSeq(s, 1, i - 1)
           N == Len(t)
           S == {k \in 0 .. N - i : ht[i + k] = hs[i + k + 1]}
<1>0. /\ Len(s) \in Nat /\ i \in Nat \ {0} /\ i + 1 \in 1 .. Len(s) /\ N = Len(s) - 1
      /\ i \in 1 .. N /\ t \in Lists /\ N \in Nat
      /\ \A n \in 1 .. Len(s) : s[n] \in Seq(Int)
  BY DEF Lists, MergedAt
<1>1. hs[0] = <<>> /\ \A n \in 1 .. Len(s) : hs[n] = Push(hs[n - 1], s[n], m)  BY SweptIs
<1>2. ht[0] = <<>> /\ \A n \in 1 .. N : ht[n] = Push(ht[n - 1], t[n], m)  BY <1>0, SweptIs
<1>3. d \in Lists  BY <1>0 DEF Lists
<1>4. P \in Seq(Int) /\ P # m[2]
  <2>1. m[1] \in Seq(Int) /\ m[1] # <<>> /\ m[2] \in Seq(Int)  BY DEF Pairs, Strings
  <2>2. P \in Seq(Int)  BY <2>1
  <2>3. P # m[2]  BY <2>1, Longer
  <2> QED BY <2>2, <2>3
<1>5. hs[i + 1] = Append(d, P)
  <2>1. hs[i] = SubSeq(s, 1, i)
    <3>1. i \in 0 .. Len(s) /\ i \in 0 .. i /\ \A j \in 1 .. i - 1 : Pair(s, j) # m  BY <1>0
    <3>2. \A n \in 0 .. i : Swept(s, m)[n] = SubSeq(s, 1, n)
      BY ONLY <3>1, s \in Lists, m \in Pairs, SweptCopies
    <3> QED BY <3>1, <3>2
  <2>2. SubSeq(s, 1, i) = Append(d, s[i])  BY <1>0, PrefixIs
  <2>3. <<s[i], s[i + 1]>> = m  BY DEF Pair
  <2>4. s[i] \in Seq(Int) /\ s[i + 1] \in Seq(Int)  BY <1>0
  <2>5. Push(Append(d, s[i]), s[i + 1], m) = Append(d, P)
    BY ONLY <1>3, <2>3, <2>4, PushIs, m \in Pairs
  <2>6. hs[i + 1] = Push(hs[i], s[i + 1], m)
    <3> DEFINE l == i + 1
    <3>1. l \in 1 .. Len(s) /\ l - 1 = i  BY <1>0
    <3> HIDE DEF l, hs
    <3>2. hs[l] = Push(hs[l - 1], s[l], m)  BY <1>1, <3>1
    <3> QED BY <3>1, <3>2 DEF l
  <2> HIDE DEF hs, d, P
  <2> QED BY ONLY <2>1, <2>2, <2>5, <2>6
<1>6. ht[i] = Append(d, P)
  <2>1. t[i] = P /\ \A j \in 1 .. i - 1 : t[j] = s[j]  BY DEF MergedAt
  <2>2. ht[i - 1] = SubSeq(t, 1, i - 1)
    <3>1. \A j \in 1 .. (i - 1) - 1 : Pair(t, j) # m
      <4> SUFFICES ASSUME NEW j \in 1 .. (i - 1) - 1 PROVE Pair(t, j) # m  OBVIOUS
      <4>1. t[j] = s[j] /\ t[j + 1] = s[j + 1]  BY <1>0, <2>1
      <4> QED BY <1>0, <4>1 DEF Pair
    <3> DEFINE p == i - 1
    <3>2. p \in 0 .. Len(t) /\ p \in 0 .. p  BY <1>0
    <3>3. \A j \in 1 .. p - 1 : Pair(t, j) # m  BY <3>1
    <3>4. t \in Lists  BY <1>0
    <3> HIDE DEF p
    <3>5. \A n \in 0 .. p : Swept(t, m)[n] = SubSeq(t, 1, n)
      BY ONLY <3>2, <3>3, <3>4, m \in Pairs, SweptCopies
    <3>6. Swept(t, m)[p] = SubSeq(t, 1, p)  BY <3>2, <3>5
    <3> QED BY <3>6 DEF p
  <2>3. SubSeq(t, 1, i - 1) = d
    <3>1. t \in Seq(Seq(Int)) /\ s \in Seq(Seq(Int))  BY <1>0 DEF Lists
    <3> QED BY <1>0, <2>1, <3>1
  <2>4. ht[i] = Push(d, P, m)  BY <1>0, <1>2, <2>1, <2>2, <2>3
  <2>5. CASE i = 1
    <3>1. d = <<>>  BY <2>5, SubSeqEmpty
    <3>2. Push(<<>>, P, m) = Append(<<>>, P)  BY DEF Push
    <3> HIDE DEF ht, d, P
    <3> QED BY ONLY <2>4, <3>1, <3>2
  <2>6. CASE i # 1
    <3>1. i - 1 \in 1 .. Len(s)  BY <1>0, <2>6
    <3>2. d = Append(SubSeq(s, 1, i - 2), s[i - 1]) /\ SubSeq(s, 1, i - 2) \in Lists
      <4> DEFINE l == i - 1
      <4>1. l \in 1 .. Len(s) /\ l - 1 = i - 2  BY <1>0, <3>1
      <4> HIDE DEF l
      <4>2. SubSeq(s, 1, l) = Append(SubSeq(s, 1, l - 1), s[l]) /\ SubSeq(s, 1, l - 1) \in Lists
        BY <4>1, PrefixIs
      <4> QED BY <4>1, <4>2 DEF l
    <3>3. s[i - 1] \in Seq(Int)  BY <1>0, <3>1
    <3>4. <<s[i - 1], P>> # m
      <4> HIDE DEF P
      <4>1. ASSUME <<s[i - 1], P>> = m PROVE FALSE
        <5>1. m[2] = P  BY <4>1
        <5> QED BY <1>4, <5>1
      <4> QED BY <4>1
    <3>5. Push(Append(SubSeq(s, 1, i - 2), s[i - 1]), P, m)
            = Append(Append(SubSeq(s, 1, i - 2), s[i - 1]), P)
      <4> DEFINE e == SubSeq(s, 1, i - 2)
                 x == s[i - 1]
      <4>1. e \in Lists /\ x \in Seq(Int) /\ P \in Seq(Int) /\ <<x, P>> # m
        BY <1>4, <3>2, <3>3, <3>4
      <4> HIDE DEF e, x, P
      <4>2. Push(Append(e, x), P, m) = Append(Append(e, x), P)
        BY ONLY <4>1, PushCopies, m \in Pairs
      <4> QED BY <4>2 DEF e, x
    <3> HIDE DEF ht, d, P
    <3> QED BY ONLY <2>4, <3>2, <3>5
  <2> QED BY <2>5, <2>6
<1> HIDE DEF hs, ht, d, P
<1>7. 0 \in S
  <2>1. 0 \in 0 .. N - i /\ i + 0 = i /\ i + 0 + 1 = i + 1  BY <1>0
  <2> QED BY <1>5, <1>6, <2>1
<1>8. ASSUME NEW k \in 0 .. (N - i) - 1, k \in S PROVE k + 1 \in S
  <2>1. i + k + 1 \in 1 .. N /\ i + k + 2 \in 1 .. Len(s) /\ i + k + 1 \in i + 1 .. N  BY <1>0
  <2>2. t[i + k + 1] = s[i + k + 2]  BY <1>0, <2>1 DEF MergedAt
  <2>3. ht[i + k + 1] = Push(ht[i + k], t[i + k + 1], m)  BY <1>0, <1>2, <2>1
  <2>4. hs[i + k + 2] = Push(hs[i + k + 1], s[i + k + 2], m)  BY <1>0, <1>1, <2>1
  <2>5. ht[i + k] = hs[i + k + 1]  BY <1>8
  <2>6. ht[i + k + 1] = hs[i + k + 2]  BY <2>2, <2>3, <2>4, <2>5
  <2>7. i + (k + 1) = i + k + 1 /\ i + (k + 1) + 1 = i + k + 2 /\ k + 1 \in 0 .. N - i  BY <1>0
  <2> QED BY <2>6, <2>7
<1> HIDE DEF S
<1>9. N - i \in Nat  BY <1>0
<1>10. N - i \in S
  <2> DEFINE n == N - i
  <2>1. n \in Nat /\ n \in 0 .. n  BY <1>9
  <2>2. \A k \in 0 .. n - 1 : k \in S => k + 1 \in S  BY <1>8
  <2> HIDE DEF n
  <2>3. \A k \in 0 .. n : k \in S  BY ONLY <1>7, <2>1, <2>2, Induct
  <2> QED BY <2>1, <2>3 DEF n
<1>11. ht[i + (N - i)] = hs[i + (N - i) + 1]  BY <1>10 DEF S
<1>12. ht[N] = hs[Len(s)]  BY <1>0, <1>11
<1> QED BY <1>12 DEF Sweep, hs, ht
-----------------------------------------------------------------------------
LEMMA SweepType ==
  ASSUME NEW s \in Lists, NEW m \in Pairs  PROVE  Sweep(s, m) \in Lists
<1>1. Len(s) \in 0 .. Len(s)  BY DEF Lists
<1> QED BY <1>1, SweptIs DEF Sweep

LEMMA AfterIs ==
  ASSUME merges \in Seq(Pairs), NEW s \in Lists
  PROVE  /\ After(s) \in [0 .. Len(merges) -> Lists]
         /\ After(s)[0] = s
         /\ \A k \in 1 .. Len(merges) : After(s)[k] = Sweep(After(s)[k - 1], merges[k])
<1> DEFINE N == Len(merges)
           Is(f) == f = [k \in 0 .. N |-> IF k = 0 THEN s ELSE Sweep(f[k - 1], merges[k])]
           g == [p \in (1 .. N) \X Lists |-> Sweep(p[2], merges[p[1]])]
<1>0. N \in Nat /\ \A k \in 1 .. N : merges[k] \in Pairs  OBVIOUS
<1> HIDE DEF N
<1>1. g \in [(1 .. N) \X Lists -> Lists]  BY <1>0, SweepType
<1>2. PICK f \in [0 .. N -> Lists] : Iterates(f, N, s, g)
  <2> HIDE DEF g
  <2> QED BY <1>0, <1>1, RecursionExists
<1>3. Is(f)
  <2>1. ASSUME NEW k \in 1 .. N PROVE f[k] = Sweep(f[k - 1], merges[k])
    <3>1. k - 1 \in 0 .. N  BY <1>0
    <3>2. f[k - 1] \in Lists  BY <3>1
    <3>3. f[k] = g[<<k, f[k - 1]>>]
      <4> HIDE DEF g
      <4> QED BY <1>2 DEF Iterates
    <3> QED BY <3>2, <3>3
  <2> QED BY <1>0, <1>2, <2>1 DEF Iterates
<1>4. Is(CHOOSE h : Is(h))  BY <1>3
<1>5. Is(After(s))  BY <1>4 DEF After, N
<1> DEFINE h == After(s)
           S == {k \in 0 .. N : h[k] \in Lists}
<1> HIDE DEF h
<1>6. h = [k \in 0 .. N |-> IF k = 0 THEN s ELSE Sweep(h[k - 1], merges[k])]
  BY <1>5 DEF h
<1>7. h[0] = s  BY <1>0, <1>6
<1>8. \A k \in 1 .. N : h[k] = Sweep(h[k - 1], merges[k])  BY <1>0, <1>6
<1>9. 0 \in S  BY <1>0, <1>7
<1>10. ASSUME NEW k \in 0 .. N - 1, k \in S PROVE k + 1 \in S
  <2>1. k + 1 \in 1 .. N /\ h[k] \in Lists  BY <1>0, <1>10
  <2>2. h[k + 1] = Sweep(h[k], merges[k + 1])  BY <1>0, <1>8, <2>1
  <2>3. h[k + 1] \in Lists  BY <1>0, <2>1, <2>2, SweepType
  <2> QED BY <1>0, <2>1, <2>3
<1> HIDE DEF S
<1>11. \A k \in 0 .. N : k \in S  BY <1>0, <1>9, <1>10, Induct
<1>12. h \in [0 .. N -> Lists]  BY <1>6, <1>11 DEF S
<1> QED BY <1>7, <1>8, <1>12 DEF h, N

\* No pair of a rank below k stands in s.
NoneBelow(s, k) == \A j \in 1 .. k - 1 : \A i \in 1 .. Len(s) - 1 : Pair(s, i) # merges[j]

\* Sweeps of pairs that do not occur change nothing.
LEMMA AfterNothing ==
  ASSUME merges \in Seq(Pairs), NEW s \in Lists, NEW k \in 1 .. Len(merges) + 1, NoneBelow(s, k)
  PROVE  After(s)[k - 1] = s
<1> DEFINE h == After(s)
           S == {j \in 0 .. k - 1 : h[j] = s}
<1>0. Len(merges) \in Nat /\ k \in Nat \ {0} /\ k - 1 \in Nat
      /\ \A j \in 1 .. Len(merges) : merges[j] \in Pairs
  OBVIOUS
<1>1. h[0] = s /\ \A j \in 1 .. Len(merges) : h[j] = Sweep(h[j - 1], merges[j])  BY AfterIs
<1> HIDE DEF h
<1>2. 0 \in S  BY <1>0, <1>1
<1>3. ASSUME NEW j \in 0 .. (k - 1) - 1, j \in S PROVE j + 1 \in S
  <2>1. j + 1 \in 1 .. Len(merges) /\ j + 1 \in 1 .. k - 1 /\ h[j] = s  BY <1>0, <1>3
  <2>2. h[j + 1] = Sweep(s, merges[j + 1])  BY <1>0, <1>1, <2>1
  <2>3. Sweep(s, merges[j + 1]) = s  BY <1>0, <2>1, SweepNothing DEF NoneBelow
  <2> QED BY <1>0, <2>1, <2>2, <2>3
<1> HIDE DEF S
<1>4. k - 1 \in S
  <2> DEFINE n == k - 1
  <2>1. n \in Nat /\ n \in 0 .. n  BY <1>0
  <2>2. \A j \in 0 .. n - 1 : j \in S => j + 1 \in S  BY <1>3
  <2> HIDE DEF n
  <2>3. \A j \in 0 .. n : j \in S  BY ONLY <1>2, <2>1, <2>2, Induct
  <2> QED BY <2>1, <2>3 DEF n
<1> QED BY <1>4 DEF S, h

\* Lists that the sweep of rank k makes equal, and those before it leave alone,
\* have the same reference.
LEMMA SameReference ==
  ASSUME merges \in Seq(Pairs), NEW s \in Lists, NEW t \in Lists, NEW k \in 1 .. Len(merges),
         NoneBelow(s, k), NoneBelow(t, k), Sweep(s, merges[k]) = Sweep(t, merges[k])
  PROVE  Reference(s) = Reference(t)
<1> DEFINE hs == After(s)
           ht == After(t)
           N == Len(merges)
           S == {j \in 0 .. N - k : hs[k + j] = ht[k + j]}
<1>0. N \in Nat /\ k \in 1 .. N /\ k \in 1 .. N + 1  OBVIOUS
<1>1. \A j \in 1 .. N : hs[j] = Sweep(hs[j - 1], merges[j])  BY AfterIs
<1>2. \A j \in 1 .. N : ht[j] = Sweep(ht[j - 1], merges[j])  BY AfterIs
<1>3. hs[k - 1] = s /\ ht[k - 1] = t  BY <1>0, AfterNothing
<1> HIDE DEF hs, ht
<1>4. hs[k] = ht[k]  BY <1>0, <1>1, <1>2, <1>3
<1>5. 0 \in S  BY <1>0, <1>4
<1>6. ASSUME NEW j \in 0 .. (N - k) - 1, j \in S PROVE j + 1 \in S
  <2>1. k + j + 1 \in 1 .. N /\ hs[k + j] = ht[k + j]  BY <1>0, <1>6
  <2>2. hs[k + j + 1] = Sweep(hs[k + j], merges[k + j + 1])  BY <1>0, <1>1, <2>1
  <2>3. ht[k + j + 1] = Sweep(ht[k + j], merges[k + j + 1])  BY <1>0, <1>2, <2>1
  <2>4. k + (j + 1) = k + j + 1 /\ j + 1 \in 0 .. N - k  BY <1>0
  <2> QED BY <2>1, <2>2, <2>3, <2>4
<1>7. N - k \in Nat  BY <1>0
<1> HIDE DEF S
<1>8. N - k \in S
  <2> DEFINE n == N - k
  <2>1. n \in Nat /\ n \in 0 .. n  BY <1>7
  <2>2. \A j \in 0 .. n - 1 : j \in S => j + 1 \in S  BY <1>6
  <2> HIDE DEF n
  <2>3. \A j \in 0 .. n : j \in S  BY ONLY <1>5, <2>1, <2>2, Induct
  <2> QED BY <2>1, <2>3 DEF n
<1>9. hs[k + (N - k)] = ht[k + (N - k)]  BY <1>8 DEF S
<1>10. k + (N - k) = N  BY <1>0
<1> QED BY <1>9, <1>10 DEF Reference, hs, ht

-----------------------------------------------------------------------------
(* The choice of a pair *)

LEMMA RankIs ==
  ASSUME merges \in Seq(Pairs), NEW s, NEW i \in Ranked(s)
  PROVE  /\ get_pair_rank(s, i) \in 1 .. Len(merges)
         /\ merges[get_pair_rank(s, i)] = Pair(s, i)
         /\ \A j \in get_pair_rank(s, i) + 1 .. Len(merges) : merges[j] # Pair(s, i)
<1> DEFINE K == {k \in 1 .. Len(merges) : merges[k] = Pair(s, i)}
           IsRank(k) == merges[k] = Pair(s, i) /\ \A j \in k + 1 .. Len(merges) : merges[j] # Pair(s, i)
<1>1. K # {} /\ K \in SUBSET (1 .. Len(merges)) /\ Len(merges) \in Nat  BY DEF Ranked
<1>2. PICK k \in K : \A j \in K : j <= k
  <2> HIDE DEF K
  <2> QED BY <1>1, GreatestOf
<1>3. k \in 1 .. Len(merges) /\ IsRank(k)
  <2>1. \A j \in k + 1 .. Len(merges) : j \notin K  BY <1>1, <1>2
  <2> QED BY <1>1, <1>2, <2>1
<1>4. get_pair_rank(s, i) = CHOOSE r \in 1 .. Len(merges) : IsRank(r)
  BY DEF get_pair_rank
<1> HIDE DEF IsRank
<1>5. get_pair_rank(s, i) \in 1 .. Len(merges) /\ IsRank(get_pair_rank(s, i))
  BY <1>3, <1>4
<1> QED BY <1>5 DEF IsRank

LEMMA BestPosIs ==
  ASSUME merges \in Seq(Pairs), NEW s \in Lists, Ranked(s) # {}
  PROVE  /\ best_pos(s) \in Ranked(s)
         /\ \A j \in Ranked(s) :
               \/ get_pair_rank(s, best_pos(s)) < get_pair_rank(s, j)
               \/ get_pair_rank(s, best_pos(s)) = get_pair_rank(s, j) /\ best_pos(s) <= j
<1> DEFINE r(i) == get_pair_rank(s, i)
           R == {r(i) : i \in Ranked(s)}
<1>0. \A i \in Ranked(s) : r(i) \in Nat /\ i \in Nat
  <2>1. Len(merges) \in Nat /\ Len(s) \in Nat  BY DEF Lists
  <2> QED BY <2>1, RankIs DEF Ranked
<1> HIDE DEF r
<1>1. R \in SUBSET Nat /\ R # {}  BY <1>0
<1>2. PICK k \in R : \A l \in R : k <= l
  <2> HIDE DEF R
  <2> QED BY <1>1, LeastOf
<1> DEFINE I == {i \in Ranked(s) : r(i) = k}
<1>3. I \in SUBSET Nat /\ I # {}  BY <1>0, <1>2
<1>4. PICK b \in I : \A j \in I : b <= j
  <2> HIDE DEF I
  <2> QED BY <1>3, LeastOf
<1> DEFINE Best(i) == \A j \in Ranked(s) : r(i) < r(j) \/ (r(i) = r(j) /\ i <= j)
<1>5. b \in Ranked(s) /\ Best(b)
  <2> SUFFICES ASSUME NEW j \in Ranked(s) PROVE r(b) < r(j) \/ (r(b) = r(j) /\ b <= j)
    OBVIOUS
  <2>1. r(b) = k /\ k <= r(j) /\ r(j) \in Nat /\ k \in Nat  BY <1>0, <1>1, <1>2
  <2>2. CASE r(j) = k  BY <1>4, <2>1, <2>2
  <2>3. CASE r(j) # k  BY <2>1, <2>3
  <2> QED BY <2>2, <2>3
<1>6. best_pos(s) = CHOOSE i \in Ranked(s) : Best(i)
  BY DEF best_pos, r
<1> HIDE DEF Best
<1>7. best_pos(s) \in Ranked(s) /\ Best(best_pos(s))  BY <1>5, <1>6
<1> QED BY <1>7 DEF Best, r
-----------------------------------------------------------------------------
(* Types *)

\* The symbols of a text are tokens.
LEMMA SymbolsType ==
  ASSUME NEW text \in Texts  PROVE  Symbols(text) \in Seq(Vocab)
<1> DEFINE N == Len(text)
           T == Seq(Vocab)
           Step(ids, n) == IF CharToken(text[n]) \in Vocab THEN Append(ids, CharToken(text[n])) ELSE ids
           Is(f) == f = [n \in 0 .. N |-> IF n = 0 THEN <<>>
                           ELSE IF CharToken(text[n]) \in Vocab THEN Append(f[n - 1], CharToken(text[n]))
                           ELSE f[n - 1]]
           g == [p \in (1 .. N) \X T |-> Step(p[2], p[1])]
           b == <<>>
<1>0. N \in Nat /\ b \in T  BY BpeAssumption
<1>1. \A ids \in T : \A n \in 1 .. N : Step(ids, n) \in T  OBVIOUS
<1>2. g \in [(1 .. N) \X T -> T]
  <2> HIDE DEF Step, T, N
  <2> QED BY <1>1
<1>3. PICK f \in [0 .. N -> T] : Iterates(f, N, b, g)
  <2> HIDE DEF g, b, N, T
  <2> QED BY <1>0, <1>2, RecursionExists
<1>4. Is(f)
  <2>1. ASSUME NEW n \in 1 .. N PROVE f[n] = Step(f[n - 1], n)
    <3>1. n - 1 \in 0 .. N  BY <1>0
    <3>2. f[n - 1] \in T  BY <3>1
    <3>3. f[n] = g[<<n, f[n - 1]>>]
      <4> HIDE DEF g
      <4> QED BY <1>3 DEF Iterates
    <3> HIDE DEF Step, T, N
    <3> QED BY <3>2, <3>3
  <2>2. f[0] = <<>>  BY <1>3 DEF Iterates
  <2>3. f = [n \in 0 .. N |-> IF n = 0 THEN <<>> ELSE Step(f[n - 1], n)]
    <3>1. \A n \in 0 .. N : n # 0 => n \in 1 .. N  BY <1>0
    <3>2. f = [n \in 0 .. N |-> f[n]]  BY <1>3
    <3> HIDE DEF N, T, g, b, Step
    <3> QED BY <2>1, <2>2, <3>1, <3>2
  <2> QED BY <2>3
<1>5. Is(CHOOSE h : Is(h))  BY <1>4
<1> DEFINE h == CHOOSE h : Is(h)
           S == {n \in 0 .. N : h[n] \in T}
<1>6. Symbols(text) = h[N]  BY DEF Symbols
<1>7. h = [n \in 0 .. N |-> IF n = 0 THEN <<>> ELSE Step(h[n - 1], n)]  BY <1>5
<1> HIDE DEF h, N, Step, T
<1>8. 0 \in S  BY <1>0, <1>7 DEF b
<1>9. ASSUME NEW n \in 0 .. N - 1, n \in S PROVE n + 1 \in S
  <2>1. n + 1 \in 1 .. N /\ h[n] \in T /\ (n + 1) - 1 = n /\ n + 1 \in 0 .. N /\ n + 1 # 0
    BY <1>0, <1>9
  <2>2. h[n + 1] = Step(h[n], n + 1)  BY <1>7, <2>1
  <2>3. h[n + 1] \in T  BY <1>1, <2>1, <2>2
  <2> QED BY <2>1, <2>3
<1> HIDE DEF S
<1>10. N \in S
  <2>1. N \in Nat /\ N \in 0 .. N  BY <1>0
  <2>2. \A n \in 0 .. N - 1 : n \in S => n + 1 \in S  BY <1>9
  <2>3. \A n \in 0 .. N : n \in S  BY ONLY <1>8, <2>1, <2>2, Induct
  <2> QED BY <2>1, <2>3
<1> QED BY <1>6, <1>10 DEF S, T

LEMMA Typed ==
  ASSUME TypeOK
  PROVE  merges \in Seq(Pairs) /\ start \in Lists /\ symbols \in Lists
<1>1. Seq(Vocab) \subseteq Lists  BY BpeAssumption DEF Lists
<1> QED BY <1>1, BpeAssumption DEF TypeOK, Pairs

\* What a round makes of the symbols: one token of two, or nothing.
LEMMA RoundIs ==
  ASSUME TypeOK, Round, NEW i, i = best_pos(symbols)
  PROVE  /\ i \in Ranked(symbols) /\ i \in 1 .. Len(symbols) - 1
         /\ symbols' \in Seq(Vocab)
         /\ symbols' = symbols \/ MergedAt(symbols', symbols, i, symbols[i] \o symbols[i + 1])
<1>1. merges \in Seq(Pairs) /\ symbols \in Lists /\ symbols \in Seq(Vocab)  BY Typed DEF TypeOK
<1>2. i \in Ranked(symbols)  BY <1>1, BestPosIs DEF Round
<1>3. i \in 1 .. Len(symbols) - 1 /\ Len(symbols) \in Nat  BY <1>1, <1>2 DEF Ranked
<1>4. symbols' = SubSeq(symbols, 1, i - 1) \o Merged(symbols, i) \o SubSeq(symbols, i + 2, Len(symbols))
  BY DEF Round
<1> DEFINE a == SubSeq(symbols, 1, i - 1)
           c == SubSeq(symbols, i + 2, Len(symbols))
           P == symbols[i] \o symbols[i + 1]
<1>5. /\ a \in Seq(Vocab) /\ c \in Seq(Vocab) /\ Len(a) = i - 1 /\ Len(c) = Len(symbols) - i - 1
      /\ \A j \in 1 .. i - 1 : a[j] = symbols[j]
      /\ \A j \in 1 .. Len(c) : c[j] = symbols[i + 1 + j]
      /\ symbols[i] \in Vocab /\ symbols[i + 1] \in Vocab
  <2> DEFINE o == i + 1
             n == Len(symbols) - i - 1
  <2>1. o \in Nat /\ n \in Nat /\ o + n = Len(symbols) /\ i - 1 \in Nat /\ i - 1 <= Len(symbols)
        /\ o + 1 = i + 2 /\ 0 + (i - 1) = i - 1
    BY <1>3
  <2>2. a \in Seq(Vocab) /\ c \in Seq(Vocab)  BY <1>1, <1>3
  <2>3. Len(a) = i - 1 /\ \A j \in 1 .. i - 1 : a[j] = symbols[j]
    <3> DEFINE l == i - 1
    <3>1. l \in Nat /\ 0 \in Nat /\ 0 + l <= Len(symbols)  BY <2>1
    <3> HIDE DEF l
    <3>2. Len(SubSeq(symbols, 0 + 1, 0 + l)) = l
          /\ \A j \in 1 .. l : SubSeq(symbols, 0 + 1, 0 + l)[j] = symbols[0 + j]
      BY ONLY <1>1, <3>1, PartOf
    <3>3. 0 + l = l /\ 0 + 1 = 1 /\ \A j \in 1 .. l : 0 + j = j  BY <3>1
    <3> QED BY <3>2, <3>3 DEF l
  <2>4. Len(c) = n /\ \A j \in 1 .. n : c[j] = symbols[o + j]
    <3> HIDE DEF o, n
    <3>1. o + n <= Len(symbols)  BY <2>1, <1>3
    <3>2. Len(SubSeq(symbols, o + 1, o + n)) = n
          /\ \A j \in 1 .. n : SubSeq(symbols, o + 1, o + n)[j] = symbols[o + j]
      BY ONLY <1>1, <2>1, <3>1, PartOf
    <3> QED BY <2>1, <3>2
  <2>5. symbols[i] \in Vocab /\ symbols[i + 1] \in Vocab  BY <1>1, <1>3
  <2> HIDE DEF a, c
  <2> QED BY <2>2, <2>3, <2>4, <2>5
<1>6. CASE P \in Vocab
  <2> HIDE DEF a, c, P
  <2>1. symbols' = a \o <<P>> \o c  BY <1>4, <1>6 DEF Merged, a, c, P
  <2>a. <<P>> \in Seq(Vocab) /\ Len(<<P>>) = 1 /\ <<P>>[1] = P /\ 1 \in 1 .. 1  BY <1>6
  <2> DEFINE q == <<P>>
  <2>b. /\ symbols' \in Seq(Vocab) /\ Len(symbols') = Len(a) + Len(q) + Len(c)
        /\ \A j \in 1 .. Len(a) : symbols'[j] = a[j]
        /\ \A j \in 1 .. Len(q) : symbols'[Len(a) + j] = q[j]
        /\ \A j \in 1 .. Len(c) : symbols'[Len(a) + Len(q) + j] = c[j]
    <3>1. symbols' = a \o q \o c /\ q \in Seq(Vocab)  BY <2>1, <2>a
    <3>2. a \in Seq(Vocab) /\ q \in Seq(Vocab) /\ c \in Seq(Vocab)  BY <1>5, <3>1
    <3> HIDE DEF q
    <3> DEFINE abc == a \o q \o c
    <3>3. /\ abc \in Seq(Vocab) /\ Len(abc) = Len(a) + Len(q) + Len(c)
          /\ \A j \in 1 .. Len(a) : abc[j] = a[j]
          /\ \A j \in 1 .. Len(q) : abc[Len(a) + j] = q[j]
          /\ \A j \in 1 .. Len(c) : abc[Len(a) + Len(q) + j] = c[j]
      BY ONLY <3>2, ConcatOf3
    <3>4. symbols' = abc  BY <3>1
    <3> HIDE DEF abc
    <3> QED BY ONLY <3>3, <3>4
  <2>c. Len(q) = 1 /\ q[1] = P /\ Len(a) + 1 = i /\ Len(a) + Len(q) = i /\ 1 \in 1 .. Len(q)
    BY <1>3, <1>5, <2>a
  <2> HIDE DEF q
  <2>2. symbols' \in Seq(Vocab) /\ Len(symbols') = Len(symbols) - 1
    <3>1. Len(a) = i - 1 /\ Len(c) = Len(symbols) - i - 1  BY <1>5
    <3>2. Len(symbols') = Len(a) + 1 + Len(c)  BY <2>b, <2>c
    <3>3. Len(symbols') = Len(symbols) - 1  BY ONLY <1>3, <3>1, <3>2
    <3> QED BY <2>b, <3>3
  <2>3. \A j \in 1 .. i - 1 : symbols'[j] = symbols[j]  BY <1>5, <2>b
  <2>4. symbols'[i] = P  BY <2>b, <2>c
  <2>5. ASSUME NEW j \in i + 1 .. Len(symbols') PROVE symbols'[j] = symbols[j + 1]
    <3> DEFINE l == j - i
    <3>a. Len(c) = Len(symbols) - i - 1 /\ Len(symbols') = Len(symbols) - 1  BY <1>5, <2>2
    <3>1. l \in 1 .. Len(c) /\ i + 1 + l = j + 1 /\ i + l = j  BY ONLY <1>3, <3>a
    <3> HIDE DEF l
    <3>2. symbols'[i + l] = c[l]  BY <2>b, <2>c, <3>1
    <3> QED BY <1>5, <3>1, <3>2
  <2>6. symbols' \in Lists  BY <2>2, BpeAssumption DEF Lists
  <2>7. MergedAt(symbols', symbols, i, P)  BY <2>2, <2>3, <2>4, <2>5, <2>6 DEF MergedAt
  <2> QED BY <1>2, <1>3, <2>2, <2>7 DEF P
<1>7. CASE P \notin Vocab
  <2> HIDE DEF a, c
  <2>1. symbols' = a \o <<symbols[i], symbols[i + 1]>> \o c
    BY <1>4, <1>7 DEF Merged, Pair, a, c
  <2> DEFINE q == <<symbols[i], symbols[i + 1]>>
  <2>b. /\ symbols' \in Seq(Vocab) /\ Len(symbols') = Len(a) + Len(q) + Len(c)
        /\ \A j \in 1 .. Len(a) : symbols'[j] = a[j]
        /\ \A j \in 1 .. Len(q) : symbols'[Len(a) + j] = q[j]
        /\ \A j \in 1 .. Len(c) : symbols'[Len(a) + Len(q) + j] = c[j]
    <3>1. symbols' = a \o q \o c /\ q \in Seq(Vocab)  BY <1>5, <2>1
    <3>2. a \in Seq(Vocab) /\ q \in Seq(Vocab) /\ c \in Seq(Vocab)  BY <1>5, <3>1
    <3> HIDE DEF q
    <3> DEFINE abc == a \o q \o c
    <3>3. /\ abc \in Seq(Vocab) /\ Len(abc) = Len(a) + Len(q) + Len(c)
          /\ \A j \in 1 .. Len(a) : abc[j] = a[j]
          /\ \A j \in 1 .. Len(q) : abc[Len(a) + j] = q[j]
          /\ \A j \in 1 .. Len(c) : abc[Len(a) + Len(q) + j] = c[j]
      BY ONLY <3>2, ConcatOf3
    <3>4. symbols' = abc  BY <3>1
    <3> HIDE DEF abc
    <3> QED BY ONLY <3>3, <3>4
  <2>c. /\ Len(q) = 2 /\ q[1] = symbols[i] /\ q[2] = symbols[i + 1] /\ 1 \in 1 .. 2 /\ 2 \in 1 .. 2
        /\ Len(a) + 1 = i /\ Len(a) + 2 = i + 1
    BY <1>3, <1>5
  <2> HIDE DEF q
  <2>2. symbols' \in Seq(Vocab) /\ Len(symbols') = Len(symbols)
    <3>1. Len(a) = i - 1 /\ Len(c) = Len(symbols) - i - 1  BY <1>5
    <3>2. Len(symbols') = Len(a) + 2 + Len(c)  BY <2>b, <2>c
    <3>3. Len(symbols') = Len(symbols)  BY ONLY <1>3, <3>1, <3>2
    <3> QED BY <2>b, <3>3
  <2>3. ASSUME NEW j \in 1 .. Len(symbols) PROVE symbols'[j] = symbols[j]
    <3>1. CASE j <= i - 1
      <4>1. j \in 1 .. i - 1  BY <1>3, <3>1
      <4> QED BY <1>5, <2>b, <4>1
    <3>2. CASE j = i  BY <2>b, <2>c, <3>2
    <3>3. CASE j = i + 1  BY <2>b, <2>c, <3>3
    <3>4. CASE j > i + 1
      <4> DEFINE l == j - (i + 1)
      <4>a. Len(a) = i - 1 /\ Len(c) = Len(symbols) - i - 1 /\ Len(q) = 2  BY <1>5, <2>c
      <4>1. l \in 1 .. Len(c) /\ i + 1 + l = j /\ Len(a) + Len(q) + l = j  BY ONLY <1>3, <3>4, <4>a
      <4> HIDE DEF l
      <4>2. symbols'[j] = c[l]  BY <2>b, <4>1
      <4> QED BY <1>5, <4>1, <4>2
    <3> QED BY <1>3, <3>1, <3>2, <3>3, <3>4
  <2>4. symbols' = symbols  BY <1>1, <2>2, <2>3
  <2> QED BY <1>1, <1>2, <1>3, <2>4
<1> QED BY <1>6, <1>7

\* Every list of symbols is one of tokens.
THEOREM BpeTypes == Spec => []TypeOK
<1>1. Init => TypeOK  BY SymbolsType DEF Init, TypeOK
<1>2. TypeOK /\ [Next]_vars => TypeOK'
  <2> SUFFICES ASSUME TypeOK, [Next]_vars PROVE TypeOK'  OBVIOUS
  <2>1. CASE Round
    <3>1. symbols' \in Seq(Vocab)  BY <2>1, RoundIs
    <3> QED BY <2>1, <3>1 DEF Round, TypeOK
  <2>2. CASE Finish  BY <2>2 DEF Finish, TypeOK
  <2>3. CASE UNCHANGED vars  BY <2>3 DEF vars, TypeOK
  <2> QED BY <2>1, <2>2, <2>3 DEF Next
<1> QED BY <1>1, <1>2, PTL DEF Spec

-----------------------------------------------------------------------------
(* The reference is kept *)

\* In a list without repetitions a pair has the rank of its one place.
LEMMA RankOf ==
  ASSUME merges \in Seq(Pairs), Trained(merges), NEW s, NEW k \in 1 .. Len(merges),
         NEW i \in 1 .. Len(s) - 1, Pair(s, i) = merges[k]
  PROVE  i \in Ranked(s) /\ get_pair_rank(s, i) = k
<1>1. i \in Ranked(s)  BY DEF Ranked
<1> DEFINE r == get_pair_rank(s, i)
<1>2. r \in 1 .. Len(merges) /\ merges[r] = merges[k] /\ Len(merges) \in Nat  BY <1>1, RankIs
<1> HIDE DEF r
<1>3. ASSUME NEW x \in 1 .. Len(merges), NEW y \in 1 .. Len(merges), x < y
      PROVE  merges[x] # merges[y]
  <2>1. x \in 1 .. y - 1  BY <1>2, <1>3
  <2> QED BY <2>1 DEF Trained
<1>4. ~ (k < r) /\ ~ (r < k)  BY <1>2, <1>3
<1> QED BY <1>1, <1>2, <1>4 DEF r

LEMMA RoundKeepsReference ==
  ASSUME TypeOK, Trained(merges), Round
  PROVE  Reference(symbols)' = Reference(symbols)
<1> DEFINE s == symbols
           t == symbols'
           i == best_pos(symbols)
           k == get_pair_rank(symbols, i)
<1>1. merges \in Seq(Pairs) /\ s \in Lists /\ Len(merges) \in Nat /\ Len(s) \in Nat
  BY Typed DEF Lists
<1>2. i \in Ranked(s) /\ i \in 1 .. Len(s) - 1 /\ (t = s \/ MergedAt(t, s, i, s[i] \o s[i + 1]))
  BY RoundIs
<1>3. k \in 1 .. Len(merges) /\ merges[k] = Pair(s, i)  BY <1>1, <1>2, RankIs
<1>4. \A j \in Ranked(s) : k < get_pair_rank(s, j) \/ (k = get_pair_rank(s, j) /\ i <= j)
  BY <1>1, <1>2, BestPosIs
<1>5. merges' = merges  BY DEF Round
<1>6. Reference(symbols)' = Reference(t)  BY <1>5 DEF Reference, After
<1> HIDE DEF i, k, t
<1>7. CASE t = s  BY <1>6, <1>7
<1>8. CASE MergedAt(t, s, i, s[i] \o s[i + 1])
  <2> DEFINE m == merges[k]
             P == m[1] \o m[2]
  <2>1. m \in Pairs /\ m[1] = s[i] /\ m[2] = s[i + 1]  BY <1>1, <1>3 DEF Pair
  <2>2. MergedAt(t, s, i, P)  BY <1>8, <2>1
  <2>3. \A j \in 1 .. i - 1 : Pair(s, j) # m
    <3> SUFFICES ASSUME NEW j \in 1 .. i - 1, Pair(s, j) = m PROVE FALSE  OBVIOUS
    <3>1. j \in 1 .. Len(s) - 1 /\ j < i  BY <1>1, <1>2
    <3>2. j \in Ranked(s) /\ get_pair_rank(s, j) = k  BY <1>1, <1>3, <3>1, RankOf
    <3>3. k < k \/ i <= j  BY <1>4, <3>2
    <3>4. k \in Int /\ i \in Int /\ j \in Int  BY <1>1, <1>2, <1>3
    <3> QED BY ONLY <3>1, <3>3, <3>4
  <2>4. NoneBelow(s, k)
    <3> SUFFICES ASSUME NEW j \in 1 .. k - 1, NEW l \in 1 .. Len(s) - 1, Pair(s, l) = merges[j]
                 PROVE  FALSE
      BY DEF NoneBelow
    <3>1. j \in 1 .. Len(merges) /\ j < k  BY <1>1, <1>3
    <3>2. l \in Ranked(s) /\ get_pair_rank(s, l) = j  BY <1>1, <3>1, RankOf
    <3> QED BY <1>1, <1>3, <1>4, <3>1, <3>2
  <2>5. NoneBelow(t, k)
    <3> SUFFICES ASSUME NEW j \in 1 .. k - 1, NEW l \in 1 .. Len(t) - 1, Pair(t, l) = merges[j]
                 PROVE  FALSE
      BY DEF NoneBelow
    <3>1. P # merges[j][1] /\ P # merges[j][2]  BY <1>1, <1>3 DEF Trained
    <3>2. merges[j][1] = t[l] /\ merges[j][2] = t[l + 1]  BY DEF Pair
    <3>3. Len(t) = Len(s) - 1 /\ t[i] = P  BY <2>2 DEF MergedAt
    <3>4. l # i /\ l + 1 # i  BY <3>1, <3>2, <3>3
    <3> HIDE DEF P, m
    <3>5. CASE l < i
      <4>1. l \in 1 .. i - 1 /\ l + 1 \in 1 .. i - 1  BY <1>1, <1>2, <3>4, <3>5
      <4>2. t[l] = s[l] /\ t[l + 1] = s[l + 1]  BY <2>2, <4>1 DEF MergedAt
      <4>3. Pair(s, l) = merges[j] /\ l \in 1 .. Len(s) - 1  BY <1>1, <1>2, <4>1, <4>2 DEF Pair
      <4> QED BY <2>4, <4>3 DEF NoneBelow
    <3>6. CASE l > i
      <4>1. l \in i + 1 .. Len(t) /\ l + 1 \in i + 1 .. Len(t)  BY <1>1, <1>2, <3>3, <3>6
      <4>2. t[l] = s[l + 1] /\ t[l + 1] = s[l + 1 + 1]  BY <2>2, <4>1 DEF MergedAt
      <4>3. Pair(s, l + 1) = merges[j] /\ l + 1 \in 1 .. Len(s) - 1
        BY <1>1, <1>2, <3>3, <4>1, <4>2 DEF Pair
      <4> QED BY <2>4, <4>3 DEF NoneBelow
    <3> QED BY <1>1, <1>2, <3>3, <3>4, <3>5, <3>6
  <2>6. t \in Lists  BY <2>2 DEF MergedAt
  <2>7. Pair(s, i) = m  BY <1>3
  <2>8. Sweep(t, m) = Sweep(s, m)
    <3> HIDE DEF m
    <3> QED BY ONLY <1>1, <1>2, <2>1, <2>2, <2>3, <2>7, SweepMerged DEF P
  <2>9. Reference(s) = Reference(t)
    BY <1>1, <1>3, <2>4, <2>5, <2>6, <2>8, SameReference
  <2> QED BY <1>6, <2>9
<1> QED BY <1>2, <1>7, <1>8

\* The rounds move the symbols, never where the reference takes them.
BpeInv ==
    /\ TypeOK
    /\ Trained(merges) => Reference(symbols) = Reference(start)
    /\ pc = "done" => Ranked(symbols) = {}

\* Where no pair has a rank the reference has nothing to do.
LEMMA ReferenceOfDone ==
  ASSUME TypeOK, Ranked(symbols) = {}  PROVE  Reference(symbols) = symbols
<1>1. merges \in Seq(Pairs) /\ symbols \in Lists /\ Len(merges) \in Nat  BY Typed
<1> DEFINE k == Len(merges) + 1
<1>2. k \in 1 .. Len(merges) + 1 /\ k - 1 = Len(merges)  BY <1>1
<1>3. NoneBelow(symbols, k)  BY <1>2 DEF NoneBelow, Ranked
<1> HIDE DEF k
<1>4. After(symbols)[k - 1] = symbols  BY <1>1, <1>2, <1>3, AfterNothing
<1> QED BY <1>2, <1>4 DEF Reference

LEMMA BpeInvStep == BpeInv /\ [Next]_vars => BpeInv'
<1> SUFFICES ASSUME BpeInv, [Next]_vars PROVE BpeInv'  OBVIOUS
<1>1. TypeOK /\ merges \in Seq(Pairs)  BY Typed DEF BpeInv
<1>2. CASE Round
  <2>1. symbols' \in Seq(Vocab)  BY <1>1, <1>2, RoundIs
  <2>2. TypeOK' /\ merges' = merges /\ start' = start /\ pc' = "merge"
    BY <1>1, <1>2, <2>1 DEF Round, TypeOK
  <2>3. Reference(start)' = Reference(start)  BY <2>2 DEF Reference, After
  <2>4. Trained(merges) => Reference(symbols)' = Reference(symbols)
    BY <1>1, <1>2, RoundKeepsReference
  <2>5. Trained(merges)' = Trained(merges)  BY <2>2
  <2> QED BY <2>2, <2>3, <2>4, <2>5 DEF BpeInv
<1>3. CASE Finish
  <2>1. merges' = merges /\ start' = start /\ symbols' = symbols  BY <1>3 DEF Finish
  <2>2. TypeOK'  BY <1>1, <1>3 DEF Finish, TypeOK
  <2>3. Reference(symbols)' = Reference(symbols) /\ Reference(start)' = Reference(start)
    BY <2>1 DEF Reference, After
  <2>4. Ranked(symbols) = {}
    <3>1. CASE Len(symbols) <= 1
      <4>1. 1 .. Len(symbols) - 1 = {}  BY <1>1, <3>1, Typed DEF Lists
      <4> QED BY <4>1 DEF Ranked
    <3> QED BY <1>3, <3>1 DEF Finish
  <2>5. Ranked(symbols)' = Ranked(symbols)  BY <2>1 DEF Ranked, Pair
  <2> QED BY <2>1, <2>2, <2>3, <2>4, <2>5 DEF BpeInv
<1>4. CASE UNCHANGED vars
  <2>1. merges' = merges /\ start' = start /\ symbols' = symbols /\ pc' = pc  BY <1>4 DEF vars
  <2>2. Reference(symbols)' = Reference(symbols) /\ Reference(start)' = Reference(start)
    BY <2>1 DEF Reference, After
  <2> QED BY <2>1, <2>2 DEF BpeInv, TypeOK, Ranked, Pair
<1> QED BY <1>2, <1>3, <1>4 DEF Next

\* For every list of merges in which none makes what a merge of a lower rank
\* takes, whatever else is in the vocabulary: bpe_merge() gives what
\* applying the merges in order gives.
THEOREM EncodingIsTheReference == Spec => []EncodesLikeReference
<1>1. Init => BpeInv
  <2>1. Init => TypeOK  BY SymbolsType DEF Init, TypeOK
  <2> QED BY <2>1 DEF Init, BpeInv
<1>2. BpeInv => EncodesLikeReference
  BY ReferenceOfDone DEF BpeInv, EncodesLikeReference
<1> QED BY <1>1, <1>2, BpeInvStep, PTL DEF Spec
=============================================================================
