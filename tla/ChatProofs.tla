----------------------------- MODULE ChatProofs -----------------------------
(* Theorems about Chat and ToolCalls, for every row of calls, prose and stray tags
   that the model may set out to write and wherever it is cut off: detection ends
   and finds the calls that are there, and the prompts of later turns show them as
   they were made. *)
EXTENDS Chat, Lemmas, FiniteSetTheorems

-----------------------------------------------------------------------------
(* Rows of rows *)

\* t is the rows ss one after the other; off[k] is the length of the first k.
Laid(t, ss, off) ==
    /\ off \in [0 .. Len(ss) -> Nat] /\ off[0] = 0 /\ off[Len(ss)] = Len(t)
    /\ \A k \in 1 .. Len(ss) : off[k] = off[k - 1] + Len(ss[k])
    /\ \A k \in 1 .. Len(ss) : \A j \in 1 .. Len(ss[k]) : t[off[k - 1] + j] = ss[k][j]
    /\ \A i \in 1 .. Len(t) : \E k \in 1 .. Len(ss) : \E j \in 1 .. Len(ss[k]) : i = off[k - 1] + j

\* F[i] is the first i rows.
Joins(F, ss) == F[0] = <<>> /\ \A i \in 1 .. Len(ss) : F[i] = F[i - 1] \o ss[i]

LEMMA FlattenIs ==
  ASSUME NEW T, NEW ss \in Seq(Seq(T))
  PROVE  \E F \in [0 .. Len(ss) -> Seq(T)] : Joins(F, ss) /\ FlattenSeq(ss) = F[Len(ss)]
<1> DEFINE N == Len(ss)
           R == Seq(T)
           b == <<>>
           g == [p \in (1 .. N) \X R |-> p[2] \o ss[p[1]]]
           Is(f) == f = [i \in 1 .. N |-> IF i = 1 THEN ss[i] ELSE f[i - 1] \o ss[i]]
<1>1. N \in Nat /\ \A i \in 1 .. N : ss[i] \in Seq(T)
  <2> HIDE DEF R
  <2>1. ss \in Seq(R)  BY DEF R
  <2> QED BY <2>1 DEF R
<1>2. g \in [(1 .. N) \X R -> R]
  <2> HIDE DEF N
  <2> QED BY <1>1
<1>3. PICK F \in [0 .. N -> R] : Iterates(F, N, b, g)
  <2>1. b \in R  OBVIOUS
  <2> HIDE DEF N, R, b, g
  <2> QED BY <1>1, <1>2, <2>1, RecursionExists
<1>4. Joins(F, ss)
  <2>1. ASSUME NEW i \in 1 .. N PROVE F[i] = F[i - 1] \o ss[i]
    <3>1. i - 1 \in 0 .. N  BY <1>1
    <3>2. F[i - 1] \in R  BY <3>1
    <3>3. F[i] = g[<<i, F[i - 1]>>]
      <4> HIDE DEF g
      <4> QED BY <1>3 DEF Iterates
    <3> HIDE DEF N, R
    <3> QED BY <3>2, <3>3
  <2> QED BY <1>3, <2>1 DEF Joins, Iterates
<1>5. CASE N = 0
  <2>1. ss = <<>>  BY <1>5
  <2>2. F[N] = <<>>  BY <1>4, <1>5 DEF Joins
  <2> QED BY <1>4, <1>5, <2>1, <2>2 DEF FlattenSeq
<1>6. CASE N # 0
  <2> DEFINE f == [i \in 1 .. N |-> F[i]]
  <2>1. \A i \in 1 .. N : f[i] = IF i = 1 THEN ss[i] ELSE f[i - 1] \o ss[i]
    <3> SUFFICES ASSUME NEW i \in 1 .. N PROVE f[i] = IF i = 1 THEN ss[i] ELSE f[i - 1] \o ss[i]
      OBVIOUS
    <3>1. f[i] = F[i - 1] \o ss[i]  BY <1>4 DEF Joins
    <3>2. CASE i = 1
      <4>1. F[i - 1] = <<>>  BY <1>4, <3>2 DEF Joins
      <4>2. <<>> \o ss[i] = ss[i]  BY <1>1
      <4> QED BY <3>1, <3>2, <4>1, <4>2
    <3>3. CASE i # 1
      <4>1. i - 1 \in 1 .. N  BY <1>1, <3>3
      <4> QED BY <3>1, <3>3, <4>1
    <3> QED BY <3>2, <3>3
  <2>2. Is(f)
    <3>1. f = [i \in 1 .. N |-> f[i]]  OBVIOUS
    <3> HIDE DEF f, N
    <3> QED BY <2>1, <3>1
  <2>3. Is(CHOOSE h : Is(h))
    <3> HIDE DEF f
    <3> QED BY <2>2
  <2> DEFINE h == CHOOSE h : Is(h)
  <2>4. FlattenSeq(ss) = h[N]  BY <1>6 DEF FlattenSeq
  <2> HIDE DEF h
  <2>5. h = [i \in 1 .. N |-> IF i = 1 THEN ss[i] ELSE h[i - 1] \o ss[i]]  BY <2>3 DEF h
  <2> DEFINE S == {i \in 0 .. N : i # 0 => h[i] = F[i]}
  <2>6. 0 \in S  BY <1>1
  <2>7. ASSUME NEW i \in 0 .. N - 1, i \in S PROVE i + 1 \in S
    <3>1. i + 1 \in 1 .. N /\ i + 1 \in 0 .. N /\ (i + 1) - 1 = i  BY <1>1
    <3>2. F[i + 1] = F[i] \o ss[i + 1]
      <4> DEFINE l == i + 1
      <4> HIDE DEF l
      <4>1. F[l] = F[l - 1] \o ss[l]  BY <1>4, <3>1 DEF Joins, l
      <4> QED BY <3>1, <4>1 DEF l
    <3>3. CASE i = 0
      <4>1. h[1] = ss[1]  BY <2>5, <3>1, <3>3
      <4>2. F[0] = <<>> /\ <<>> \o ss[1] = ss[1]  BY <1>1, <1>4, <3>1, <3>3 DEF Joins
      <4> QED BY <3>1, <3>2, <3>3, <4>1, <4>2
    <3>4. CASE i # 0
      <4>1. h[i + 1] = h[i] \o ss[i + 1]
        <5> DEFINE l == i + 1
        <5>1. l \in 1 .. N /\ l # 1 /\ l - 1 = i  BY <3>1, <3>4
        <5> HIDE DEF l, N
        <5>2. h[l] = h[l - 1] \o ss[l]  BY <2>5, <5>1
        <5> QED BY <5>1, <5>2 DEF l
      <4>2. h[i] = F[i]  BY <2>7, <3>4
      <4> QED BY <3>1, <3>2, <4>1, <4>2
    <3> QED BY <3>3, <3>4
  <2> HIDE DEF S, N
  <2>8. \A i \in 0 .. N : i \in S  BY ONLY <1>1, <2>6, <2>7, Induct
  <2>9. N \in S  BY <1>1, <2>8
  <2> QED BY <1>4, <1>6, <2>4, <2>9 DEF S, N
<1> QED BY <1>5, <1>6

\* The first rows are laid out the same way by themselves.
LEMMA JoinsAgree ==
  ASSUME NEW T, NEW ss \in Seq(Seq(T)), NEW pp \in Seq(Seq(T)), NEW F, Joins(F, ss),
         NEW k \in 0 .. Len(ss), Len(pp) = k, \A i \in 1 .. k : pp[i] = ss[i]
  PROVE  FlattenSeq(pp) = F[k]
<1>1. PICK G \in [0 .. Len(pp) -> Seq(T)] : Joins(G, pp) /\ FlattenSeq(pp) = G[Len(pp)]
  BY FlattenIs
<1> DEFINE S == {i \in 0 .. k : G[i] = F[i]}
<1>0. k \in Nat /\ k <= Len(ss) /\ Len(ss) \in Nat
  <2> DEFINE R == Seq(T)
  <2>1. ss \in Seq(R)  OBVIOUS
  <2> HIDE DEF R
  <2> QED BY <2>1
<1>2. 0 \in S  BY <1>0, <1>1 DEF Joins
<1>3. ASSUME NEW i \in 0 .. k - 1, i \in S PROVE i + 1 \in S
  <2> DEFINE l == i + 1
  <2>1. l \in 1 .. k /\ l \in 1 .. Len(ss) /\ l \in 0 .. k /\ l - 1 = i  BY <1>0
  <2>2. G[i] = F[i]  BY <1>3
  <2> HIDE DEF l
  <2>3. G[l] = G[l - 1] \o pp[l] /\ F[l] = F[l - 1] \o ss[l] /\ pp[l] = ss[l]
    BY <1>1, <2>1 DEF Joins
  <2>4. G[l] = F[l]  BY <2>1, <2>2, <2>3
  <2> QED BY <2>1, <2>4 DEF l
<1> HIDE DEF S
<1>4. \A i \in 0 .. k : i \in S  BY ONLY <1>0, <1>2, <1>3, Induct
<1>5. k \in S  BY <1>0, <1>4
<1> QED BY <1>1, <1>5 DEF S

\* What F says of the first n rows.
LaidUpTo(n, F, ss) ==
    /\ \A k \in 1 .. n : \A j \in 1 .. Len(ss[k]) :
          Len(F[k - 1]) + j <= Len(F[n]) /\ F[n][Len(F[k - 1]) + j] = ss[k][j]
    /\ \A i \in 1 .. Len(F[n]) :
          \E k \in 1 .. n : \E j \in 1 .. Len(ss[k]) : i = Len(F[k - 1]) + j

LEMMA LaidStep ==
  ASSUME NEW T, NEW ss \in Seq(Seq(T)), NEW F \in [0 .. Len(ss) -> Seq(T)], Joins(F, ss),
         NEW n \in 1 .. Len(ss), LaidUpTo(n - 1, F, ss)
  PROVE  LaidUpTo(n, F, ss)
<1> DEFINE N == Len(ss)
           R == Seq(T)
<1>0. N \in Nat /\ n \in Nat \ {0} /\ n - 1 \in 0 .. N /\ n \in 0 .. N /\ \A i \in 1 .. N : ss[i] \in R
  <2>1. ss \in Seq(R)  OBVIOUS
  <2> HIDE DEF R
  <2> QED BY <2>1
<1>1. \A i \in 0 .. N : F[i] \in R  OBVIOUS
<1> DEFINE a == F[n - 1]
           x == ss[n]
<1>2. a \in Seq(T) /\ x \in Seq(T) /\ Len(a) \in Nat /\ Len(x) \in Nat  BY <1>0, <1>1
<1>3. F[n] = a \o x  BY DEF Joins
<1> HIDE DEF N
<1>5. ASSUME NEW k \in 1 .. n, NEW j \in 1 .. Len(ss[k])
      PROVE  Len(F[k - 1]) + j <= Len(F[n]) /\ F[n][Len(F[k - 1]) + j] = ss[k][j]
  <2> DEFINE p == Len(F[k - 1]) + j
  <2>1. k \in 1 .. N /\ k - 1 \in 0 .. N  BY <1>0
  <2>2. F[k - 1] \in Seq(T) /\ ss[k] \in Seq(T)  BY <1>0, <1>1, <2>1
  <2>3. Len(F[k - 1]) \in Nat /\ j \in Nat \ {0}  BY <2>2
  <2>4. CASE k = n
    <3>1. p = Len(a) + j /\ j \in 1 .. Len(x)  BY <2>4
    <3> HIDE DEF p, a, x
    <3>2. p \in 1 .. Len(a) + Len(x) /\ ~ (p <= Len(a)) /\ p - Len(a) = j  BY <1>2, <3>1
    <3>3. /\ Len(a \o x) = Len(a) + Len(x)
          /\ \A i \in 1 .. Len(a) + Len(x) : (a \o x)[i] = IF i <= Len(a) THEN a[i] ELSE x[i - Len(a)]
      BY ONLY <1>2, ConcatProperties
    <3>4. (a \o x)[p] = x[j]  BY <3>2, <3>3
    <3> QED BY <1>2, <1>3, <2>4, <3>2, <3>3, <3>4 DEF p, x
  <2>5. CASE k # n
    <3>1. k \in 1 .. n - 1  BY <1>0, <2>5
    <3>2. p <= Len(a) /\ a[p] = ss[k][j]  BY <3>1 DEF LaidUpTo
    <3>3. p \in Nat \ {0}  BY <2>3
    <3> HIDE DEF p, a, x
    <3>4. p \in 1 .. Len(a) + Len(x)  BY <1>2, <3>2, <3>3
    <3>5. /\ Len(a \o x) = Len(a) + Len(x)
          /\ \A i \in 1 .. Len(a) + Len(x) : (a \o x)[i] = IF i <= Len(a) THEN a[i] ELSE x[i - Len(a)]
      BY ONLY <1>2, ConcatProperties
    <3>6. (a \o x)[p] = a[p] /\ p <= Len(a \o x)  BY <1>2, <3>2, <3>4, <3>5
    <3> QED BY <1>3, <3>2, <3>6 DEF p
  <2> QED BY <2>4, <2>5
<1>6. ASSUME NEW i \in 1 .. Len(F[n])
      PROVE  \E k \in 1 .. n : \E j \in 1 .. Len(ss[k]) : i = Len(F[k - 1]) + j
  <2>1. Len(F[n]) = Len(a) + Len(x)
    <3> HIDE DEF a, x
    <3> QED BY <1>2, <1>3
  <2>2. CASE i <= Len(a)
    <3>1. i \in 1 .. Len(F[n - 1])  BY <1>2, <2>2
    <3>2. PICK k \in 1 .. n - 1 : \E j \in 1 .. Len(ss[k]) : i = Len(F[k - 1]) + j
      BY <3>1 DEF LaidUpTo
    <3>3. k \in 1 .. n  BY <1>0
    <3> QED BY <3>2, <3>3
  <2>3. CASE i > Len(a)
    <3> DEFINE j == i - Len(a)
    <3>1. j \in 1 .. Len(ss[n]) /\ i = Len(F[n - 1]) + j
      <4>1. j \in 1 .. Len(x) /\ i = Len(a) + j
        <5> HIDE DEF a, x
        <5> QED BY <1>2, <2>1, <2>3
      <4> QED BY <4>1
    <3>2. n \in 1 .. n  BY <1>0
    <3> HIDE DEF j
    <3> QED BY <3>1, <3>2
  <2> QED BY <1>2, <2>2, <2>3
<1> QED BY <1>5, <1>6 DEF LaidUpTo

LEMMA FlattenLaid ==
  ASSUME NEW T, NEW ss \in Seq(Seq(T))
  PROVE  /\ FlattenSeq(ss) \in Seq(T)
         /\ \E off : /\ Laid(FlattenSeq(ss), ss, off)
                     /\ \A pp \in Seq(Seq(T)) :
                           Len(pp) <= Len(ss) /\ (\A i \in 1 .. Len(pp) : pp[i] = ss[i])
                              => Len(FlattenSeq(pp)) = off[Len(pp)]
<1>1. PICK F \in [0 .. Len(ss) -> Seq(T)] : Joins(F, ss) /\ FlattenSeq(ss) = F[Len(ss)]
  BY FlattenIs
<1> DEFINE N == Len(ss)
           S == {n \in 0 .. N : LaidUpTo(n, F, ss)}
           off == [k \in 0 .. N |-> Len(F[k])]
           R == Seq(T)
<1>0. N \in Nat /\ N \in 0 .. N /\ 0 \in 0 .. N /\ \A i \in 1 .. N : ss[i] \in R
  <2>1. ss \in Seq(R)  OBVIOUS
  <2> HIDE DEF R
  <2> QED BY <2>1
<1>2. \A k \in 0 .. N : F[k] \in Seq(T)  OBVIOUS
<1>3. 0 \in S
  <2>1. F[0] = <<>> /\ Len(F[0]) = 0 /\ 1 .. 0 = {}  BY <1>1 DEF Joins
  <2> QED BY <1>0, <2>1 DEF LaidUpTo
<1>4. ASSUME NEW n \in 0 .. N - 1, n \in S PROVE n + 1 \in S
  <2> DEFINE l == n + 1
  <2>1. l \in 1 .. Len(ss) /\ l \in 0 .. N /\ l - 1 = n  BY <1>0
  <2>2. LaidUpTo(n, F, ss)  BY <1>4
  <2> HIDE DEF l
  <2>3. LaidUpTo(l - 1, F, ss)  BY <2>1, <2>2
  <2>4. LaidUpTo(l, F, ss)  BY ONLY <1>1, <2>1, <2>3, ss \in Seq(Seq(T)), F \in [0 .. Len(ss) -> Seq(T)], LaidStep
  <2> QED BY <2>1, <2>4 DEF l
<1>5. LaidUpTo(N, F, ss)
  <2> HIDE DEF S
  <2>1. \A n \in 0 .. N : n \in S
    <3> HIDE DEF N
    <3> QED BY ONLY <1>0, <1>3, <1>4, Induct
  <2> QED BY <1>0, <2>1 DEF S
<1>6. \A k \in 1 .. N : Len(F[k]) = Len(F[k - 1]) + Len(ss[k])
  <2> SUFFICES ASSUME NEW k \in 1 .. N PROVE Len(F[k]) = Len(F[k - 1]) + Len(ss[k])  OBVIOUS
  <2>1. k - 1 \in 0 .. N  BY <1>0
  <2>2. F[k - 1] \in Seq(T) /\ ss[k] \in Seq(T)  BY <1>0, <1>2, <2>1
  <2>3. F[k] = F[k - 1] \o ss[k]  BY <1>1 DEF Joins
  <2> QED BY <2>2, <2>3
<1>7. Laid(FlattenSeq(ss), ss, off)
  <2>1. off \in [0 .. N -> Nat] /\ off[0] = 0 /\ off[N] = Len(FlattenSeq(ss))
    <3>1. \A k \in 0 .. N : Len(F[k]) \in Nat  BY <1>2
    <3>2. Len(F[0]) = 0  BY <1>1 DEF Joins
    <3> QED BY <1>0, <1>1, <3>1, <3>2
  <2>2. \A k \in 1 .. N : off[k] = Len(F[k]) /\ off[k - 1] = Len(F[k - 1])  BY <1>0
  <2> HIDE DEF off
  <2>3. \A k \in 1 .. N : off[k] = off[k - 1] + Len(ss[k])  BY <1>6, <2>2
  <2>4. \A k \in 1 .. N : \A j \in 1 .. Len(ss[k]) : F[N][off[k - 1] + j] = ss[k][j]
    BY <1>5, <2>2 DEF LaidUpTo
  <2>5. \A i \in 1 .. Len(F[N]) : \E k \in 1 .. N : \E j \in 1 .. Len(ss[k]) : i = off[k - 1] + j
    <3> SUFFICES ASSUME NEW i \in 1 .. Len(F[N])
                 PROVE  \E k \in 1 .. N : \E j \in 1 .. Len(ss[k]) : i = off[k - 1] + j
      OBVIOUS
    <3>1. PICK k \in 1 .. N : \E j \in 1 .. Len(ss[k]) : i = Len(F[k - 1]) + j
      BY <1>5 DEF LaidUpTo
    <3> QED BY <2>2, <3>1
  <2> DEFINE t == FlattenSeq(ss)
  <2>6. t = F[N]  BY <1>1
  <2> HIDE DEF t
  <2>7. Laid(t, ss, off)  BY <2>1, <2>3, <2>4, <2>5, <2>6 DEF Laid, t
  <2> QED BY <2>7 DEF t
<1>8. ASSUME NEW pp \in Seq(Seq(T)), Len(pp) <= Len(ss), \A i \in 1 .. Len(pp) : pp[i] = ss[i]
      PROVE  Len(FlattenSeq(pp)) = off[Len(pp)]
  <2> DEFINE k == Len(pp)
  <2>1. k \in 0 .. Len(ss)
    <3>1. pp \in Seq(R)  OBVIOUS
    <3> HIDE DEF R
    <3> QED BY <1>0, <1>8, <3>1
  <2>2. FlattenSeq(pp) = F[k]
    <3>1. Len(pp) = k /\ \A i \in 1 .. k : pp[i] = ss[i]  BY <1>8
    <3> HIDE DEF k
    <3> QED BY <1>1, <2>1, <3>1, JoinsAgree
  <2> QED BY <2>1, <2>2
<1>9. FlattenSeq(ss) \in Seq(T)  BY <1>0, <1>1, <1>2
<1> HIDE DEF off
<1> QED BY <1>7, <1>8, <1>9

-----------------------------------------------------------------------------
(* Markup *)

Kinds == {"<function", "name", "open", ">", "<param", "</param>", "</function>", "text", "far"}
Token == [t : Kinds, v : Seq(STRING)]
Parameter == [name : Seq(STRING), value : Seq(STRING)]

\* The five tokens of parameter q stand behind place p of m.
ParamAt(m, p, q) ==
    /\ m[p + 1].t = "<param"
    /\ m[p + 2].t = "name" /\ m[p + 2].v = q.name
    /\ m[p + 3].t = ">"
    /\ m[p + 4].t = "text" /\ m[p + 4].v = q.value
    /\ m[p + 5].t = "</param>"

\* m is the markup of a call.
IsCall(m, name, params) ==
    /\ m \in Seq(Token) /\ Len(m) = 4 + 5 * Len(params)
    /\ m[1].t = "<function" /\ m[2].t = "name" /\ m[2].v = name /\ m[3].t = ">"
    /\ \A j \in 1 .. Len(params) : ParamAt(m, 3 + 5 * (j - 1), params[j])
    /\ \A i \in 4 .. Len(m) - 1 : m[i].t \in {"<param", "name", ">", "text", "</param>"}
    /\ m[Len(m)].t = "</function>"

LEMMA TokIs == \A k \in Kinds : Tag(k) \in Token /\ \A v \in Seq(STRING) : Tok(k, v) \in Token
<1> DEFINE V == Seq(STRING)
<1>1. <<>> \in V  OBVIOUS
<1> HIDE DEF V
<1>2. \A k \in Kinds : \A v \in V : Tok(k, v) \in Token  BY DEF Tok, Token, V
<1> QED BY <1>1, <1>2 DEF Tag, V

LEMMA ParamMarkupIs ==
  ASSUME NEW q \in Parameter
  PROVE  LET m == ParamMarkup(q.name, q.value)
         IN  /\ m \in Seq(Token) /\ Len(m) = 5 /\ ParamAt(m, 0, q)
             /\ \A i \in 1 .. 5 : m[i].t \in {"<param", "name", ">", "text", "</param>"}
<1> DEFINE n == q.name
           v == q.value
           m == ParamMarkup(n, v)
<1>1. n \in Seq(STRING) /\ v \in Seq(STRING) /\ <<>> \in Seq(STRING)  BY DEF Parameter
<1>2. m = <<Tag("<param"), Tok("name", n), Tag(">"), Tok("text", v), Tag("</param>")>>
  BY DEF ParamMarkup
<1> HIDE DEF n, v, m
<1>3. /\ Tag("<param") \in Token /\ Tok("name", n) \in Token /\ Tag(">") \in Token
      /\ Tok("text", v) \in Token /\ Tag("</param>") \in Token
  BY <1>1, TokIs DEF Kinds
<1>4. m \in Seq(Token) /\ Len(m) = 5  BY <1>2, <1>3
<1>5. /\ m[1] = Tag("<param") /\ m[2] = Tok("name", n) /\ m[3] = Tag(">")
      /\ m[4] = Tok("text", v) /\ m[5] = Tag("</param>")
  BY <1>2
<1>6. /\ m[1].t = "<param" /\ m[2].t = "name" /\ m[2].v = n /\ m[3].t = ">"
      /\ m[4].t = "text" /\ m[4].v = v /\ m[5].t = "</param>"
  BY <1>5 DEF Tag, Tok
<1>7. ParamAt(m, 0, q)
  <2>1. 0 + 1 = 1 /\ 0 + 2 = 2 /\ 0 + 3 = 3 /\ 0 + 4 = 4 /\ 0 + 5 = 5  OBVIOUS
  <2> QED BY <1>6, <2>1 DEF ParamAt, n, v
<1>8. ASSUME NEW i \in 1 .. 5 PROVE m[i].t \in {"<param", "name", ">", "text", "</param>"}
  <2>1. i = 1 \/ i = 2 \/ i = 3 \/ i = 4 \/ i = 5  OBVIOUS
  <2> QED BY <1>6, <2>1
<1> QED BY <1>4, <1>7, <1>8 DEF m, n, v

LEMMA CallMarkupIs ==
  ASSUME NEW name \in Seq(STRING), NEW params \in Seq(Parameter)
  PROVE  IsCall(CallMarkup(name, params), name, params)
<1> DEFINE N == Len(params)
           ss == [i \in DOMAIN params |-> ParamMarkup(params[i].name, params[i].value)]
           R == Seq(Token)
           t == FlattenSeq(ss)
<1>0. N \in Nat /\ DOMAIN params = 1 .. N /\ \A i \in 1 .. N : params[i] \in Parameter  OBVIOUS
<1>1. \A i \in 1 .. N : /\ ss[i] \in R /\ Len(ss[i]) = 5 /\ ParamAt(ss[i], 0, params[i])
                        /\ \A j \in 1 .. 5 : ss[i][j].t \in {"<param", "name", ">", "text", "</param>"}
  BY <1>0, ParamMarkupIs
<1>2. ss \in Seq(R) /\ Len(ss) = N
  <2>1. ss \in [1 .. N -> R]  BY <1>0, <1>1
  <2> HIDE DEF ss, R, N
  <2> QED BY <1>0, <2>1
<1>3. t \in Seq(Token) /\ \E off : Laid(t, ss, off)
  <2> HIDE DEF ss
  <2>1. ss \in Seq(Seq(Token))  BY <1>2
  <2> QED BY <2>1, FlattenLaid
<1>4. PICK off : Laid(t, ss, off)  BY <1>3
<1> DEFINE S == {k \in 0 .. N : off[k] = 5 * k}
<1> HIDE DEF t, ss, N
<1>5. \A k \in 0 .. N : k \in S
  <2>1. 0 \in S  BY <1>0, <1>4 DEF Laid
  <2>2. ASSUME NEW k \in 0 .. N - 1, k \in S PROVE k + 1 \in S
    <3> DEFINE l == k + 1
    <3>1. l \in 1 .. N /\ l - 1 = k /\ l \in 0 .. N /\ off[k] = 5 * k  BY <1>0, <2>2
    <3> HIDE DEF l
    <3>2. off[l] = off[l - 1] + 5  BY <1>1, <1>2, <1>4, <3>1 DEF Laid
    <3>3. off[l] = 5 * l  BY <3>1, <3>2
    <3> QED BY <3>1, <3>3 DEF l
  <2> HIDE DEF S
  <2> QED BY ONLY <1>0, <2>1, <2>2, Induct
<1>6. \A k \in 0 .. N : off[k] = 5 * k  BY <1>5
<1>7. Len(t) = 5 * N  BY <1>0, <1>2, <1>4, <1>6 DEF Laid
<1>8. ASSUME NEW j \in 1 .. N, NEW i \in 1 .. 5 PROVE t[5 * (j - 1) + i] = ss[j][i]
  <2>1. j - 1 \in 0 .. N /\ i \in 1 .. Len(ss[j])  BY <1>0, <1>1
  <2>2. t[off[j - 1] + i] = ss[j][i]  BY <1>2, <1>4, <2>1 DEF Laid
  <2> QED BY <1>6, <2>1, <2>2
<1>9. ASSUME NEW i \in 1 .. Len(t) PROVE t[i].t \in {"<param", "name", ">", "text", "</param>"}
  <2>1. PICK k \in 1 .. N : \E j \in 1 .. Len(ss[k]) : i = off[k - 1] + j
    BY <1>2, <1>4 DEF Laid
  <2>2. PICK j \in 1 .. 5 : i = off[k - 1] + j  BY <1>1, <2>1
  <2>3. t[i] = ss[k][j]  BY <1>1, <1>2, <1>4, <2>2 DEF Laid
  <2> QED BY <1>1, <2>3
<1> DEFINE a == <<Tag("<function"), Tok("name", name), Tag(">")>>
           c == <<Tag("</function>")>>
           m == CallMarkup(name, params)
<1>10. m = a \o t \o c  BY DEF CallMarkup, t, ss
<1>11. /\ a \in Seq(Token) /\ Len(a) = 3 /\ c \in Seq(Token) /\ Len(c) = 1
       /\ a[1].t = "<function" /\ a[2].t = "name" /\ a[2].v = name /\ a[3].t = ">"
       /\ c[1].t = "</function>"
  <2>1. /\ Tag("<function") \in Token /\ Tok("name", name) \in Token /\ Tag(">") \in Token
        /\ Tag("</function>") \in Token
    BY TokIs DEF Kinds
  <2>2. a \in Seq(Token) /\ Len(a) = 3 /\ c \in Seq(Token) /\ Len(c) = 1  BY <2>1
  <2>3. a[1] = Tag("<function") /\ a[2] = Tok("name", name) /\ a[3] = Tag(">")
        /\ c[1] = Tag("</function>")
    OBVIOUS
  <2> QED BY <2>2, <2>3 DEF Tag, Tok
<1> HIDE DEF a, c, m
<1>12. /\ m \in Seq(Token) /\ Len(m) = 3 + Len(t) + 1
       /\ \A j \in 1 .. 3 : m[j] = a[j]
       /\ \A j \in 1 .. Len(t) : m[3 + j] = t[j]
       /\ \A j \in 1 .. 1 : m[3 + Len(t) + j] = c[j]
  <2> DEFINE abc == a \o t \o c
  <2>1. /\ abc \in Seq(Token) /\ Len(abc) = Len(a) + Len(t) + Len(c)
        /\ \A j \in 1 .. Len(a) : abc[j] = a[j]
        /\ \A j \in 1 .. Len(t) : abc[Len(a) + j] = t[j]
        /\ \A j \in 1 .. Len(c) : abc[Len(a) + Len(t) + j] = c[j]
    <3>1. a \in Seq(Token) /\ t \in Seq(Token) /\ c \in Seq(Token)  BY <1>3, <1>11
    <3> QED BY ONLY <3>1, ConcatOf3
  <2>2. m = abc  BY <1>10
  <2> HIDE DEF abc
  <2> QED BY <1>11, <2>1, <2>2
<1>13. m[1].t = "<function" /\ m[2].t = "name" /\ m[2].v = name /\ m[3].t = ">"
  <2>1. 1 \in 1 .. 3 /\ 2 \in 1 .. 3 /\ 3 \in 1 .. 3  OBVIOUS
  <2> QED BY <1>11, <1>12, <2>1
<1>14. Len(m) = 4 + 5 * N /\ m[Len(m)].t = "</function>"
  <2>1. 1 \in 1 .. 1 /\ 3 + Len(t) + 1 = 4 + 5 * N  BY <1>0, <1>7
  <2> QED BY <1>11, <1>12, <2>1
<1>15. ASSUME NEW j \in 1 .. N PROVE ParamAt(m, 3 + 5 * (j - 1), params[j])
  <2> DEFINE p == 5 * (j - 1)
  <2>1. ASSUME NEW i \in 1 .. 5 PROVE m[3 + p + i] = ss[j][i]
    <3>1. p + i \in 1 .. Len(t) /\ 3 + (p + i) = 3 + p + i  BY <1>0, <1>7
    <3>2. t[p + i] = ss[j][i]  BY <1>8
    <3> HIDE DEF p
    <3>3. m[3 + (p + i)] = t[p + i]  BY <1>12, <3>1
    <3> QED BY <3>1, <3>2, <3>3
  <2>2. /\ 1 \in 1 .. 5 /\ 2 \in 1 .. 5 /\ 3 \in 1 .. 5 /\ 4 \in 1 .. 5 /\ 5 \in 1 .. 5
        /\ 0 + 1 = 1 /\ 0 + 2 = 2 /\ 0 + 3 = 3 /\ 0 + 4 = 4 /\ 0 + 5 = 5
    OBVIOUS
  <2>3. ParamAt(ss[j], 0, params[j])  BY <1>1
  <2> HIDE DEF p
  <2>4. /\ m[3 + p + 1] = ss[j][1] /\ m[3 + p + 2] = ss[j][2] /\ m[3 + p + 3] = ss[j][3]
        /\ m[3 + p + 4] = ss[j][4] /\ m[3 + p + 5] = ss[j][5]
    BY <2>1, <2>2
  <2> DEFINE q == 3 + p
  <2>5. ParamAt(m, q, params[j])
    <3>1. /\ m[q + 1] = ss[j][1] /\ m[q + 2] = ss[j][2] /\ m[q + 3] = ss[j][3]
          /\ m[q + 4] = ss[j][4] /\ m[q + 5] = ss[j][5]
      BY <2>4
    <3> HIDE DEF q
    <3> QED BY ONLY <2>2, <2>3, <3>1 DEF ParamAt
  <2> QED BY <2>5 DEF p
<1>16. ASSUME NEW i \in 4 .. Len(m) - 1
       PROVE  m[i].t \in {"<param", "name", ">", "text", "</param>"}
  <2> DEFINE j == i - 3
  <2>1. j \in 1 .. Len(t) /\ 3 + j = i  BY <1>0, <1>7, <1>14
  <2> HIDE DEF j
  <2>2. m[3 + j] = t[j]  BY <1>12, <2>1
  <2> QED BY <1>9, <2>1, <2>2
<1> QED BY <1>12, <1>13, <1>14, <1>15, <1>16 DEF IsCall, m, N

-----------------------------------------------------------------------------
(* find() *)

LEMMA FindIs ==
  ASSUME NEW out, NEW kinds, NEW from \in Nat \ {0}, NEW upto \in Int
  PROVE  \/ Find(out, kinds, from, upto) = 0 /\ \A i \in from .. upto : out[i].t \notin kinds
         \/ /\ Find(out, kinds, from, upto) \in from .. upto
            /\ out[Find(out, kinds, from, upto)].t \in kinds
            /\ \A i \in from .. Find(out, kinds, from, upto) - 1 : out[i].t \notin kinds
<1> DEFINE at == {i \in from .. upto : out[i].t \in kinds}
           f == Find(out, kinds, from, upto)
<1>1. CASE at = {}
  <2>1. f = 0  BY <1>1 DEF Find
  <2> QED BY <1>1, <2>1
<1>2. CASE at # {}
  <2>1. at \in SUBSET Nat  OBVIOUS
  <2>2. \E x \in at : \A y \in at : x <= y
    <3> HIDE DEF at
    <3> QED BY <1>2, <2>1, LeastOf
  <2>3. f = CHOOSE i \in at : \A j \in at : i <= j  BY <1>2 DEF Find
  <2>4. f \in at /\ \A j \in at : f <= j
    <3> HIDE DEF at, f
    <3> QED BY <2>2, <2>3
  <2> HIDE DEF f
  <2>5. \A i \in from .. f - 1 : i \notin at  BY <2>1, <2>4
  <2>6. \A i \in from .. f - 1 : out[i].t \notin kinds  BY <2>4, <2>5
  <2> QED BY <2>4, <2>6 DEF f
<1> QED BY <1>1, <1>2

LEMMA FindType ==
  ASSUME NEW out, NEW kinds, NEW from \in Nat \ {0}, NEW upto \in Int
  PROVE  Find(out, kinds, from, upto) = 0 \/ Find(out, kinds, from, upto) \in Nat \ {0}
<1> DEFINE f == Find(out, kinds, from, upto)
<1>1. f = 0 \/ f \in from .. upto  BY FindIs
<1> HIDE DEF f
<1> QED BY <1>1 DEF f

LEMMA FindAt ==
  ASSUME NEW out, NEW kinds, NEW from \in Nat \ {0}, NEW upto \in Int, NEW p \in from .. upto,
         out[p].t \in kinds, \A i \in from .. p - 1 : out[i].t \notin kinds
  PROVE  Find(out, kinds, from, upto) = p
<1> DEFINE f == Find(out, kinds, from, upto)
<1>1. \/ f = 0 /\ \A i \in from .. upto : out[i].t \notin kinds
      \/ f \in from .. upto /\ out[f].t \in kinds /\ \A i \in from .. f - 1 : out[i].t \notin kinds
  BY FindIs
<1> HIDE DEF f
<1>2. f \in from .. upto /\ out[f].t \in kinds /\ \A i \in from .. f - 1 : out[i].t \notin kinds
  BY <1>1
<1>3. ~ (f < p)
  <2> SUFFICES ASSUME f < p PROVE FALSE  OBVIOUS
  <2>1. f \in from .. p - 1  BY <1>2
  <2> QED BY <1>2, <2>1
<1>4. ~ (p < f)
  <2> SUFFICES ASSUME p < f PROVE FALSE  OBVIOUS
  <2>1. p \in from .. f - 1  BY <1>2
  <2> QED BY <1>2, <2>1
<1> QED BY <1>2, <1>3, <1>4 DEF f

LEMMA FindNone ==
  ASSUME NEW out, NEW kinds, NEW from \in Nat \ {0}, NEW upto \in Int,
         \A i \in from .. upto : out[i].t \notin kinds
  PROVE  Find(out, kinds, from, upto) = 0
BY FindIs

-----------------------------------------------------------------------------
(* The parameters of a call *)

ParamsFound(out) == {[name |-> out[i].v, value |-> Chars(out, b, c)] : i \in Int, b \in Int, c \in Int}
ParamState(out) == [pos : Nat \ {0}, found : Seq(ParamsFound(out)), over : BOOLEAN]

LEMMA ParamStepType ==
  ASSUME NEW out, NEW upto \in Int, NEW s \in ParamState(out)
  PROVE  ParamStep(out, upto, s) \in ParamState(out)
<1> DEFINE U == ParamsFound(out)
           start == Find(out, {"<param"}, s.pos, upto)
           name  == Find(out, {"name", "open"}, start, upto)
           body  == Find(out, {">", "</param>"}, name + 1, upto)
           close == Find(out, {"</param>"}, body + 1, upto)
           param == [name |-> out[name].v, value |-> Chars(out, body + 1, close - 1)]
           F == Seq(U)
<1>1. s.pos \in Nat \ {0} /\ s.found \in F /\ s.over \in BOOLEAN
      /\ s = [pos |-> s.pos, found |-> s.found, over |-> s.over]
  <2> HIDE DEF U, F
  <2> QED BY DEF ParamState, U, F
<1>2. start = 0 \/ start \in Nat \ {0}  BY <1>1, FindType
<1>3. CASE start = 0
  <2>1. ParamStep(out, upto, s) = [s EXCEPT !.over = TRUE]  BY <1>3 DEF ParamStep
  <2> QED BY <2>1 DEF ParamState
<1>4. CASE start \in Nat \ {0}
  <2> HIDE DEF start
  <2>1. name = 0 \/ name \in Nat \ {0}  BY <1>4, FindType
  <2>2. CASE name = 0 \/ TooFar(out, start, name)
    <3>1. ParamStep(out, upto, s) = [s EXCEPT !.pos = start + 1]  BY <1>4, <2>2 DEF ParamStep, start
    <3>2. start + 1 \in Nat \ {0}  BY <1>4
    <3> QED BY <3>1, <3>2 DEF ParamState
  <2>3. CASE ~ (name = 0 \/ TooFar(out, start, name))
    <3>1. name \in Nat \ {0}  BY <2>1, <2>3
    <3> HIDE DEF name
    <3>2. body = 0 \/ body \in Nat \ {0}
      <4>1. name + 1 \in Nat \ {0}  BY <3>1
      <4> QED BY <4>1, FindType
    <3>3. CASE out[name].t = "open" \/ body = 0 \/ close = 0
      <4>1. ParamStep(out, upto, s) = [s EXCEPT !.over = TRUE]
        BY <1>4, <2>3, <3>3 DEF ParamStep, start, name
      <4> QED BY <4>1 DEF ParamState
    <3>4. CASE ~ (out[name].t = "open" \/ body = 0 \/ close = 0)
      <4>1. body \in Nat \ {0}  BY <3>2, <3>4
      <4>2. close \in Nat \ {0}
        <5> HIDE DEF body
        <5>1. body + 1 \in Nat \ {0}  BY <4>1
        <5>2. close = 0 \/ close \in Nat \ {0}  BY <5>1, FindType
        <5> QED BY <3>4, <5>2 DEF body
      <4>3. ParamStep(out, upto, s) = [s EXCEPT !.pos = close + 1, !.found = Append(@, param)]
        BY <1>4, <2>3, <3>4 DEF ParamStep, start, name
      <4> HIDE DEF body, close
      <4>4. param \in U
        <5>1. name \in Int /\ body + 1 \in Int /\ close - 1 \in Int  BY <3>1, <4>1, <4>2
        <5> QED BY <5>1 DEF ParamsFound
      <4> HIDE DEF param, U
      <4>5. Append(s.found, param) \in Seq(U)  BY <1>1, <4>4
      <4>6. close + 1 \in Nat \ {0}  BY <4>2
      <4>7. [pos |-> close + 1, found |-> Append(s.found, param), over |-> s.over] \in ParamState(out)
        BY <1>1, <4>5, <4>6 DEF ParamState, U
      <4>8. ParamStep(out, upto, s) = [pos |-> close + 1, found |-> Append(s.found, param), over |-> s.over]
        BY <1>1, <4>3
      <4> QED BY <4>7, <4>8
    <3> QED BY <3>3, <3>4
  <2> QED BY <2>2, <2>3
<1> QED BY <1>2, <1>3, <1>4

\* P is the rounds of the loop.
ParamRounds(P, n, out, from, upto) ==
    /\ P[0] = NewParams(from)
    /\ \A i \in 1 .. n : P[i] = IF P[i - 1].over THEN P[i - 1] ELSE ParamStep(out, upto, P[i - 1])

LEMMA ParamsIs ==
  ASSUME NEW out, NEW from \in Nat \ {0}, NEW upto \in Int, from <= upto + 2
  PROVE  \E P : /\ ParamRounds(P, upto - from + 2, out, from, upto)
                /\ Params(out, from, upto) = P[upto - from + 2].found
<1> DEFINE n == upto - from + 2
           T == ParamState(out)
           b == NewParams(from)
           Step(s) == IF s.over THEN s ELSE ParamStep(out, upto, s)
           g == [p \in (1 .. n) \X T |-> Step(p[2])]
           Is(f) == f = [i \in 0 .. n |-> IF i = 0 THEN NewParams(from)
                          ELSE IF f[i - 1].over THEN f[i - 1] ELSE ParamStep(out, upto, f[i - 1])]
<1>0. n \in Nat  OBVIOUS
<1>1. b \in T  BY DEF NewParams, ParamState
<1>2. \A s \in T : Step(s) \in T  BY ParamStepType
<1>3. g \in [(1 .. n) \X T -> T]
  <2> HIDE DEF n, T, Step
  <2> QED BY <1>2
<1>4. PICK f \in [0 .. n -> T] : Iterates(f, n, b, g)
  <2> HIDE DEF n, T, b, g
  <2> QED BY <1>0, <1>1, <1>3, RecursionExists
<1>5. Is(f)
  <2>1. ASSUME NEW i \in 1 .. n PROVE f[i] = Step(f[i - 1])
    <3>1. i - 1 \in 0 .. n  BY <1>0
    <3>2. f[i - 1] \in T  BY <3>1
    <3>3. f[i] = g[<<i, f[i - 1]>>]
      <4> HIDE DEF g, n
      <4> QED BY <1>4 DEF Iterates
    <3> HIDE DEF Step, T, n
    <3> QED BY <3>2, <3>3
  <2>2. f[0] = NewParams(from)  BY <1>4 DEF Iterates
  <2>3. f = [i \in 0 .. n |-> IF i = 0 THEN NewParams(from) ELSE Step(f[i - 1])]
    <3>1. \A i \in 0 .. n : i # 0 => i \in 1 .. n  BY <1>0
    <3>2. f = [i \in 0 .. n |-> f[i]]  BY <1>4
    <3> HIDE DEF n, T, g, b, Step
    <3> QED BY <2>1, <2>2, <3>1, <3>2
  <2> QED BY <2>3
<1>6. Is(CHOOSE h : Is(h))  BY <1>5
<1> DEFINE h == CHOOSE h : Is(h)
<1>7. Params(out, from, upto) = h[n].found  BY DEF Params
<1>8. h = [i \in 0 .. n |-> IF i = 0 THEN NewParams(from)
              ELSE IF h[i - 1].over THEN h[i - 1] ELSE ParamStep(out, upto, h[i - 1])]
  BY <1>6
<1> HIDE DEF h, n
<1>9. ParamRounds(h, n, out, from, upto)
  <2>1. \A i \in 1 .. n : i \in 0 .. n /\ i # 0  BY <1>0
  <2>2. 0 \in 0 .. n  BY <1>0
  <2> QED BY <1>8, <2>1, <2>2 DEF ParamRounds
<1> QED BY <1>7, <1>9 DEF n

LEMMA CharsOfOne == ASSUME NEW out, NEW p \in Int, out[p].v \in Seq(STRING) PROVE Chars(out, p, p) = out[p].v
<1> DEFINE ss == [i \in 1 .. p - p + 1 |-> out[p + i - 1].v]
           R == Seq(STRING)
           v == out[p].v
<1>1. p - p + 1 = 1  OBVIOUS
<1>2. ss = [i \in 1 .. 1 |-> out[p + i - 1].v]  BY <1>1
<1>3. \A i \in 1 .. 1 : p + i - 1 = p  OBVIOUS
<1>4. ss = [i \in 1 .. 1 |-> v]  BY <1>2, <1>3
<1> HIDE DEF ss, v
<1>5. v \in R  BY DEF v
<1>6. ss \in Seq(R) /\ Len(ss) = 1 /\ ss[1] = v
  <2> HIDE DEF R
  <2> QED BY <1>4, <1>5
<1>7. PICK F \in [0 .. Len(ss) -> Seq(STRING)] : Joins(F, ss) /\ FlattenSeq(ss) = F[Len(ss)]
  BY <1>6, FlattenIs
<1>8. F[0] = <<>> /\ F[1] = F[1 - 1] \o ss[1] /\ 1 - 1 = 0
  BY <1>6, <1>7 DEF Joins
<1>9. <<>> \o v = v  BY <1>5
<1>10. FlattenSeq(ss) = v  BY <1>6, <1>7, <1>8, <1>9
<1> QED BY <1>10 DEF Chars, ss, v

\* A round reads the parameter it comes to.
LEMMA ParamStepReads ==
  ASSUME NEW out, NEW a \in Nat, NEW upto \in Int, a + 5 <= upto, NEW q \in Parameter,
         ParamAt(out, a, q), NEW f
  PROVE  ParamStep(out, upto, [pos |-> a + 1, found |-> f, over |-> FALSE])
            = [pos |-> a + 6, found |-> Append(f, q), over |-> FALSE]
<1> DEFINE s == [pos |-> a + 1, found |-> f, over |-> FALSE]
           start == Find(out, {"<param"}, s.pos, upto)
           name  == Find(out, {"name", "open"}, start, upto)
           body  == Find(out, {">", "</param>"}, name + 1, upto)
           close == Find(out, {"</param>"}, body + 1, upto)
           param == [name |-> out[name].v, value |-> Chars(out, body + 1, close - 1)]
<1>0. /\ out[a + 1].t = "<param" /\ out[a + 2].t = "name" /\ out[a + 2].v = q.name
      /\ out[a + 3].t = ">" /\ out[a + 4].t = "text" /\ out[a + 4].v = q.value
      /\ out[a + 5].t = "</param>"
  BY DEF ParamAt
<1>1. start = a + 1
  <2> DEFINE p == a + 1
  <2>1. p \in Nat \ {0} /\ p \in p .. upto /\ p .. p - 1 = {}  OBVIOUS
  <2>2. out[p].t \in {"<param"} /\ s.pos = p  BY <1>0
  <2> HIDE DEF p
  <2>3. Find(out, {"<param"}, p, upto) = p  BY <2>1, <2>2, FindAt
  <2> QED BY <2>2, <2>3 DEF p
<1>2. name = a + 2
  <2> DEFINE p == a + 1
             z == a + 2
  <2>1. p \in Nat \ {0} /\ z \in p .. upto /\ \A i \in p .. z - 1 : i = a + 1  OBVIOUS
  <2>2. out[z].t \in {"name", "open"} /\ \A i \in p .. z - 1 : out[i].t \notin {"name", "open"}
    BY <1>0, <2>1
  <2> HIDE DEF p, z
  <2>3. Find(out, {"name", "open"}, p, upto) = z  BY <2>1, <2>2, FindAt
  <2> QED BY <1>1, <2>3 DEF p, z
<1>3. body = a + 3
  <2> DEFINE p == a + 3
  <2>1. p \in Nat \ {0} /\ p \in p .. upto /\ p .. p - 1 = {} /\ a + 2 + 1 = p  OBVIOUS
  <2>2. out[p].t \in {">", "</param>"}  BY <1>0
  <2>3. name + 1 = p  BY <1>2
  <2> HIDE DEF p, name
  <2>4. Find(out, {">", "</param>"}, p, upto) = p  BY <2>1, <2>2, FindAt
  <2> QED BY <2>3, <2>4 DEF p
<1>4. close = a + 5
  <2> DEFINE p == a + 4
             z == a + 5
  <2>1. p \in Nat \ {0} /\ z \in p .. upto /\ \A i \in p .. z - 1 : i = a + 4  OBVIOUS
  <2>2. out[z].t \in {"</param>"} /\ \A i \in p .. z - 1 : out[i].t \notin {"</param>"}
    BY <1>0, <2>1
  <2>3. body + 1 = p
    <3> HIDE DEF body
    <3> QED BY <1>3
  <2> HIDE DEF p, z, body
  <2>4. Find(out, {"</param>"}, p, upto) = z  BY <2>1, <2>2, FindAt
  <2> QED BY <2>3, <2>4 DEF z
<1> HIDE DEF start, name, body, close
<1>5. param = q
  <2>1. out[name].v = q.name  BY <1>0, <1>2
  <2>2. Chars(out, body + 1, close - 1) = q.value
    <3> DEFINE p == a + 4
    <3>1. body + 1 = p /\ close - 1 = p /\ p \in Int  BY <1>3, <1>4
    <3>2. out[p].v = q.value /\ q.value \in Seq(STRING)  BY <1>0 DEF Parameter
    <3> HIDE DEF p
    <3>3. Chars(out, p, p) = out[p].v  BY <3>1, <3>2, CharsOfOne
    <3> QED BY <3>1, <3>2, <3>3
  <2>3. q = [name |-> q.name, value |-> q.value]  BY DEF Parameter
  <2> QED BY <2>1, <2>2, <2>3
<1>6. ~ TooFar(out, start, name)
  <2>1. \A i \in start .. name - 1 : i = a + 1  BY <1>1, <1>2
  <2> QED BY <1>0, <2>1 DEF TooFar
<1>7. start # 0 /\ name # 0 /\ body # 0 /\ close # 0 /\ close + 1 = a + 6 /\ out[name].t # "open"
  BY <1>0, <1>1, <1>2, <1>3, <1>4
<1>8. ParamStep(out, upto, s) = [s EXCEPT !.pos = close + 1, !.found = Append(@, param)]
  <2> HIDE DEF param
  <2> QED BY <1>6, <1>7 DEF ParamStep, start, name, body, close, param
<1> HIDE DEF param
<1>9. [s EXCEPT !.pos = a + 6, !.found = Append(@, q)]
         = [pos |-> a + 6, found |-> Append(f, q), over |-> FALSE]
  <2> DEFINE x == a + 1
             y == a + 6
             g == Append(f, q)
             r == [s EXCEPT !.pos = y, !.found = Append(@, q)]
  <2> HIDE DEF x, y
  <2>1. r \in [pos : {y}, found : {g}, over : {FALSE}]
    <3>1. s = [pos |-> x, found |-> f, over |-> FALSE]  BY DEF x
    <3>2. [[pos |-> x, found |-> f, over |-> FALSE] EXCEPT !.pos = y, !.found = Append(@, q)]
             \in [pos : {y}, found : {g}, over : {FALSE}]
      OBVIOUS
    <3> HIDE DEF s
    <3> QED BY <3>1, <3>2
  <2> HIDE DEF r
  <2>2. r = [pos |-> y, found |-> g, over |-> FALSE]  BY <2>1
  <2> QED BY <2>2 DEF r, y
<1> HIDE DEF s
<1>10. ParamStep(out, upto, s) = [s EXCEPT !.pos = a + 6, !.found = Append(@, q)]
  BY <1>5, <1>7, <1>8
<1> QED BY <1>9, <1>10 DEF s

\* The state after k parameters.
ParamsRead(s, a, k, params) ==
    s = [pos |-> a + 5 * k + 1, found |-> [i \in 1 .. k |-> params[i]], over |-> FALSE]

\* The loop finds the parameters that are there.
LEMMA ParamsAre ==
  ASSUME NEW out, NEW a \in Nat, NEW params \in Seq(Parameter),
         \A j \in 1 .. Len(params) : ParamAt(out, a + 5 * (j - 1), params[j])
  PROVE  Params(out, a + 1, a + 5 * Len(params)) = params
<1> DEFINE N == Len(params)
           upto == a + 5 * N
           from == a + 1
           n == upto - from + 2
<1>0. N \in Nat /\ upto \in Int /\ from \in Nat \ {0} /\ from <= upto + 2 /\ n \in Nat /\ N + 1 \in 0 .. n
      /\ (N # 0 => N + 1 <= n) /\ \A i \in 1 .. N : params[i] \in Parameter
  OBVIOUS
<1> HIDE DEF N, n, from, upto
<1>1. PICK P : ParamRounds(P, n, out, from, upto) /\ Params(out, from, upto) = P[n].found
  BY <1>0, ParamsIs DEF n
<1>2. \A i \in 1 .. n : P[i] = IF P[i - 1].over THEN P[i - 1] ELSE ParamStep(out, upto, P[i - 1])
  BY <1>1 DEF ParamRounds
<1> DEFINE S == {k \in 0 .. N : ParamsRead(P[k], a, k, params)}
<1>3. 0 \in S
  <2>1. 1 .. 0 = {} /\ a + 5 * 0 + 1 = from /\ 0 \in 0 .. N  BY <1>0 DEF from
  <2>2. [i \in 1 .. 0 |-> params[i]] = <<>>  BY <2>1
  <2>3. P[0] = [pos |-> from, found |-> <<>>, over |-> FALSE]  BY <1>1 DEF ParamRounds, NewParams
  <2> QED BY <2>1, <2>2, <2>3 DEF ParamsRead
<1>4. ASSUME NEW k \in 0 .. N - 1, k \in S PROVE k + 1 \in S
  <2> DEFINE l == k + 1
             b == a + 5 * k
             s == P[k]
             q == params[l]
  <2>1. l \in 1 .. N /\ l \in 1 .. n /\ l \in 0 .. N /\ l - 1 = k /\ b \in Nat /\ b + 5 <= upto /\ b + 6 = a + 5 * l + 1
    BY <1>0 DEF upto
  <2>2. /\ s = [pos |-> b + 1, found |-> [i \in 1 .. k |-> params[i]], over |-> FALSE]
        /\ s.pos = b + 1 /\ s.over = FALSE
    BY <1>4 DEF ParamsRead
  <2>3. q \in Parameter /\ ParamAt(out, b, q)
    <3>1. ParamAt(out, a + 5 * (l - 1), params[l])  BY <2>1 DEF N
    <3> QED BY <1>0, <2>1, <3>1
  <2> DEFINE f == [i \in 1 .. k |-> params[i]]
  <2>4. ParamStep(out, upto, s) = [pos |-> b + 6, found |-> Append(f, q), over |-> FALSE]
    <3>1. b \in Nat /\ upto \in Int /\ b + 5 <= upto /\ q \in Parameter /\ ParamAt(out, b, q)
      BY <1>0, <2>1, <2>3
    <3>2. s = [pos |-> b + 1, found |-> f, over |-> FALSE]  BY <2>2
    <3> HIDE DEF b, s, q, l, f
    <3>3. ParamStep(out, upto, [pos |-> b + 1, found |-> f, over |-> FALSE])
            = [pos |-> b + 6, found |-> Append(f, q), over |-> FALSE]
      BY ONLY <3>1, ParamStepReads
    <3> QED BY <3>2, <3>3
  <2>5. P[l] = ParamStep(out, upto, s)
    <3> HIDE DEF l
    <3>1. P[l] = IF P[l - 1].over THEN P[l - 1] ELSE ParamStep(out, upto, P[l - 1])  BY <1>2, <2>1
    <3> QED BY <2>1, <2>2, <3>1
  <2>6. Append(f, q) = [i \in 1 .. l |-> params[i]]
    <3>1. f \in Seq(Parameter) /\ Len(f) = k /\ k \in Nat  BY <1>0
    <3>2. Append(f, q) = [i \in 1 .. k + 1 |-> IF i <= k THEN f[i] ELSE q]
      <4> DEFINE h == Append(f, q)
      <4> HIDE DEF f, q
      <4>1. /\ h \in Seq(Parameter) /\ Len(h) = Len(f) + 1 /\ h[Len(f) + 1] = q
            /\ \A i \in 1 .. Len(f) : h[i] = f[i]
        BY ONLY <2>3, <3>1, AppendProperties
      <4> HIDE DEF h
      <4>2. Len(h) = k + 1 /\ h = [i \in 1 .. Len(h) |-> h[i]]  BY <3>1, <4>1
      <4>3. \A i \in 1 .. k + 1 : h[i] = IF i <= k THEN f[i] ELSE q  BY <3>1, <4>1
      <4> QED BY <4>2, <4>3 DEF h
    <3>3. \A i \in 1 .. l : (IF i <= k THEN f[i] ELSE q) = params[i]  BY <3>1
    <3> HIDE DEF f, q
    <3> QED BY <3>2, <3>3
  <2> HIDE DEF b, q
  <2>7. P[l] = [pos |-> b + 6, found |-> Append(f, q), over |-> FALSE]
    BY <2>4, <2>5
  <2> HIDE DEF l, s
  <2>8. ParamsRead(P[l], a, l, params)  BY <2>1, <2>6, <2>7 DEF ParamsRead, l
  <2> QED BY <2>1, <2>8 DEF l
<1>5. ParamsRead(P[N], a, N, params)
  <2> HIDE DEF S
  <2>1. \A k \in 0 .. N : k \in S  BY ONLY <1>0, <1>3, <1>4, Induct
  <2> QED BY <1>0, <2>1 DEF S
<1>6. P[N].found = params /\ P[N].over = FALSE /\ P[N].pos = upto + 1
  <2>1. params = [i \in 1 .. N |-> params[i]]  BY DEF N
  <2> QED BY <1>5, <2>1 DEF ParamsRead, upto
<1> DEFINE U == {k \in 0 .. n - (N + 1) : P[N + 1 + k].over = TRUE /\ P[N + 1 + k].found = params}
<1>7. 0 \in U
  <2> DEFINE l == N + 1
  <2>1. l \in 1 .. n /\ l - 1 = N /\ N + 1 + 0 = l  BY <1>0
  <2>2. ParamStep(out, upto, P[N]) = [P[N] EXCEPT !.over = TRUE]
    <3>1. upto + 1 \in Nat \ {0} /\ (upto + 1) .. upto = {}  BY <1>0 DEF upto
    <3>2. Find(out, {"<param"}, upto + 1, upto) = 0  BY <1>0, <3>1, FindNone
    <3> QED BY <1>6, <3>2 DEF ParamStep
  <2> HIDE DEF l
  <2>3. P[l] = IF P[l - 1].over THEN P[l - 1] ELSE ParamStep(out, upto, P[l - 1])  BY <1>2, <2>1
  <2>4. P[l] = [P[N] EXCEPT !.over = TRUE]  BY <1>6, <2>1, <2>2, <2>3
  <2>5. P[N] = [pos |-> upto + 1, found |-> params, over |-> FALSE]
    <3>1. params = [i \in 1 .. N |-> params[i]]  BY DEF N
    <3> QED BY <1>5, <3>1 DEF ParamsRead, upto
  <2>6. P[l].over = TRUE /\ P[l].found = params  BY <2>4, <2>5
  <2>7. 0 \in 0 .. n - (N + 1)  BY <1>0
  <2> QED BY <2>1, <2>6, <2>7
<1>8. ASSUME NEW k \in 0 .. (n - (N + 1)) - 1, k \in U PROVE k + 1 \in U
  <2> DEFINE l == N + 1 + (k + 1)
             b == N + 1 + k
  <2>1. l \in 1 .. n /\ l - 1 = b /\ k + 1 \in 0 .. n - (N + 1)  BY <1>0
  <2>2. P[b].over = TRUE /\ P[b].found = params  BY <1>8
  <2> HIDE DEF l, b
  <2>3. P[l] = IF P[l - 1].over THEN P[l - 1] ELSE ParamStep(out, upto, P[l - 1])  BY <1>2, <2>1
  <2>4. P[l] = P[b]  BY <2>1, <2>2, <2>3
  <2> QED BY <2>1, <2>2, <2>4 DEF l
<1>9. P[n].found = params
  <2> DEFINE m == n - (N + 1)
  <2>1. m \in Nat /\ m \in 0 .. m /\ N + 1 + m = n  BY <1>0
  <2>2. \A k \in 0 .. m - 1 : k \in U => k + 1 \in U  BY <1>8
  <2> HIDE DEF U, m
  <2>3. \A k \in 0 .. m : k \in U  BY ONLY <1>7, <2>1, <2>2, Induct
  <2>4. m \in U  BY <2>1, <2>3
  <2> QED BY <2>1, <2>4 DEF U
<1> QED BY <1>1, <1>9 DEF from, upto, N

-----------------------------------------------------------------------------
(* The pieces of the output *)

LEMMA MarkupIs ==
  ASSUME NEW p \in Pieces
  PROVE  /\ Markup(p) \in Seq(Token)
         /\ \/ p.kind = "prose" /\ Len(Markup(p)) = 1 /\ Markup(p)[1].t = "text"
            \/ /\ p.kind = "stray" /\ Len(Markup(p)) = 2
               /\ Markup(p)[1].t = "<function" /\ Markup(p)[2].t = "far"
            \/ /\ p.kind = "call" /\ p.name \in Seq(STRING) /\ p.params \in Seq(Parameter)
               /\ IsCall(Markup(p), p.name, p.params)
<1>1. CASE p = Prose
  <2>1. p.kind = "prose"  BY <1>1 DEF Prose
  <2>2. Markup(p) = <<Tag("text")>>  BY <2>1 DEF Markup
  <2>3. Tag("text") \in Token /\ Tag("text").t = "text"  BY TokIs DEF Kinds, Tag, Tok
  <2> DEFINE x == Tag("text")
             m == Markup(p)
  <2> HIDE DEF x, m
  <2>4. m = <<x>> /\ x \in Token /\ x.t = "text"  BY <2>2, <2>3 DEF x, m
  <2>5. m \in Seq(Token) /\ Len(m) = 1 /\ m[1].t = "text"  BY <2>4
  <2> QED BY <2>1, <2>5 DEF m
<1>2. CASE p = Stray
  <2>1. p.kind = "stray"  BY <1>2 DEF Stray
  <2>2. Markup(p) = <<Tag("<function"), Tag("far")>>  BY <2>1 DEF Markup
  <2>3. /\ Tag("<function") \in Token /\ Tag("<function").t = "<function"
        /\ Tag("far") \in Token /\ Tag("far").t = "far"
    BY TokIs DEF Kinds, Tag, Tok
  <2> DEFINE x == Tag("<function")
             y == Tag("far")
             m == Markup(p)
  <2> HIDE DEF x, y, m
  <2>4. m = <<x, y>> /\ x \in Token /\ x.t = "<function" /\ y \in Token /\ y.t = "far"
    BY <2>2, <2>3 DEF x, y, m
  <2>5. m \in Seq(Token) /\ Len(m) = 2 /\ m[1].t = "<function" /\ m[2].t = "far"  BY <2>4
  <2> QED BY <2>1, <2>5 DEF m
<1>3. CASE p \notin {Prose, Stray}
  <2>1. p.kind = "call" /\ p.name \in Seq(STRING) /\ p.params \in Seq(Parameter)
    BY <1>3 DEF Pieces, Parameter
  <2>2. Markup(p) = CallMarkup(p.name, p.params)  BY <2>1 DEF Markup
  <2>3. IsCall(Markup(p), p.name, p.params)  BY <2>1, <2>2, CallMarkupIs
  <2> QED BY <2>1, <2>3 DEF IsCall
<1> QED BY <1>1, <1>2, <1>3

\* Where the pieces of the script are in the output: piece k behind off[k - 1].
Places(off) ==
    /\ Len(output) \in Nat /\ Len(script) \in Nat /\ \A k \in 1 .. Len(script) : script[k] \in Pieces
    /\ off \in [0 .. Len(script) -> Nat] /\ off[0] = 0 /\ Len(output) <= off[Len(script)]
    /\ \A k \in 1 .. Len(script) : off[k] = off[k - 1] + Len(Markup(script[k]))
    /\ \A k \in 1 .. Len(script) : \A j \in 1 .. Len(Markup(script[k])) :
          off[k - 1] + j <= Len(output) =>
             \/ output[off[k - 1] + j] = Markup(script[k])[j]
             \/ /\ off[k - 1] + j = Len(output) /\ Markup(script[k])[j].t = "name"
                /\ output[off[k - 1] + j].t = "open"
    /\ \A i \in 1 .. Len(output) :
          \E k \in 1 .. Len(script) : \E j \in 1 .. Len(Markup(script[k])) : i = off[k - 1] + j
    /\ \A k \in 0 .. Len(script) : Len(Written(SubSeq(script, 1, k))) = off[k]

LEMMA CutIs ==
  ASSUME NEW text \in Seq(Token), NEW o, NEW n \in 0 .. Len(text),
         \/ o = SubSeq(text, 1, n)
         \/ n # 0 /\ text[n].t = "name" /\ o = [SubSeq(text, 1, n) EXCEPT ![n] = Tag("open")]
  PROVE  /\ Len(o) = n
         /\ \A i \in 1 .. n : o[i] = text[i] \/ (i = n /\ text[i].t = "name" /\ o[i].t = "open")
<1> DEFINE c == SubSeq(text, 1, n)
<1>1. n \in Nat /\ n <= Len(text) /\ Len(text) \in Nat  OBVIOUS
<1>2. Len(c) = n /\ \A i \in 1 .. n : c[i] = text[i]
  <2>1. 0 + n = n /\ 0 + 1 = 1 /\ \A i \in 1 .. n : 0 + i = i  BY <1>1
  <2>2. 0 \in Nat /\ 0 + n <= Len(text)  BY <1>1
  <2>3. /\ Len(SubSeq(text, 0 + 1, 0 + n)) = n
        /\ \A k \in 1 .. n : SubSeq(text, 0 + 1, 0 + n)[k] = text[0 + k]
    BY ONLY <1>1, <2>2, text \in Seq(Token), PartOf
  <2> QED BY <2>1, <2>3
<1>3. c \in Seq(Token)  BY <1>1
<1> HIDE DEF c
<1>4. CASE o = c  BY <1>2, <1>4
<1>5. CASE n # 0 /\ text[n].t = "name" /\ o = [c EXCEPT ![n] = Tag("open")]
  <2>1. DOMAIN c = 1 .. n  BY <1>2, <1>3
  <2>2. DOMAIN o = 1 .. n  BY <1>5, <2>1
  <2>3. o \in Seq(Token \cup {Tag("open")})
    <3> DEFINE x == Tag("open")
    <3>1. o = [c EXCEPT ![n] = x]  BY <1>5
    <3>2. c \in [1 .. n -> Token]  BY <1>3, <2>1
    <3> HIDE DEF x
    <3>3. o \in [1 .. n -> Token \cup {x}]  BY <3>1, <3>2
    <3> QED BY <1>1, <3>3 DEF x
  <2>4. Len(o) = n  BY <1>1, <2>2, <2>3
  <2>5. Tag("open").t = "open"  BY DEF Tag, Tok
  <2>6. ASSUME NEW i \in 1 .. n PROVE o[i] = text[i] \/ (i = n /\ text[i].t = "name" /\ o[i].t = "open")
    <3>1. CASE i = n  BY <1>5, <2>1, <2>5, <3>1
    <3>2. CASE i # n  BY <1>2, <1>5, <2>1, <3>2
    <3> QED BY <3>1, <3>2
  <2> QED BY <2>4, <2>6
<1> QED BY <1>4, <1>5 DEF c

LEMMA PlacesExist ==
  ASSUME script \in Seq(Pieces), output \in Cuts(script)
  PROVE  \E off : Places(off)
<1> DEFINE N == Len(script)
           ss == [i \in DOMAIN script |-> Markup(script[i])]
           R == Seq(Token)
           text == Written(script)
<1>0. N \in Nat /\ DOMAIN script = 1 .. N /\ \A k \in 1 .. N : script[k] \in Pieces  OBVIOUS
<1>1. ss \in Seq(R) /\ Len(ss) = N
  <2>1. \A k \in 1 .. N : Markup(script[k]) \in R  BY <1>0, MarkupIs
  <2>2. ss \in [1 .. N -> R]  BY <1>0, <2>1
  <2> HIDE DEF ss, R, N
  <2> QED BY <1>0, <2>2
<1>2. \A k \in 1 .. N : ss[k] = Markup(script[k])  BY <1>0
<1>3. text = FlattenSeq(ss)  BY DEF Written
<1> HIDE DEF ss, text, N
<1>4. /\ FlattenSeq(ss) \in Seq(Token)
      /\ \E off : /\ Laid(FlattenSeq(ss), ss, off)
                  /\ \A pp \in Seq(Seq(Token)) :
                        Len(pp) <= Len(ss) /\ (\A i \in 1 .. Len(pp) : pp[i] = ss[i])
                           => Len(FlattenSeq(pp)) = off[Len(pp)]
  <2>1. ss \in Seq(Seq(Token))  BY <1>1
  <2> QED BY ONLY <2>1, FlattenLaid
<1>5. PICK off : /\ Laid(FlattenSeq(ss), ss, off)
                 /\ \A pp \in Seq(Seq(Token)) :
                       Len(pp) <= Len(ss) /\ (\A i \in 1 .. Len(pp) : pp[i] = ss[i])
                          => Len(FlattenSeq(pp)) = off[Len(pp)]
  BY <1>4
<1>6. text \in Seq(Token) /\ Len(text) \in Nat /\ Laid(text, ss, off)
  <2>1. text \in Seq(Token)  BY <1>3, <1>4
  <2> QED BY <1>3, <1>5, <2>1
<1>7. PICK n \in 0 .. Len(text) :
         \/ output = SubSeq(text, 1, n)
         \/ n # 0 /\ text[n].t = "name" /\ output = [SubSeq(text, 1, n) EXCEPT ![n] = Tag("open")]
  <2>1. \A n \in 1 .. Len(text) : n \in 0 .. Len(text) /\ n # 0  BY <1>6
  <2> QED BY <2>1 DEF Cuts, text
<1>8. /\ Len(output) = n /\ n \in Nat /\ n <= Len(text)
      /\ \A i \in 1 .. n : \/ output[i] = text[i]
                           \/ i = n /\ text[i].t = "name" /\ output[i].t = "open"
  BY <1>6, <1>7, CutIs
<1>9. /\ off \in [0 .. N -> Nat] /\ off[0] = 0 /\ off[N] = Len(text)
      /\ \A k \in 1 .. N : off[k] = off[k - 1] + Len(ss[k])
      /\ \A k \in 1 .. N : \A j \in 1 .. Len(ss[k]) : text[off[k - 1] + j] = ss[k][j]
      /\ \A i \in 1 .. Len(text) : \E k \in 1 .. N : \E j \in 1 .. Len(ss[k]) : i = off[k - 1] + j
  BY <1>1, <1>6 DEF Laid
<1>10. \A k \in 1 .. N : off[k] = off[k - 1] + Len(Markup(script[k]))  BY <1>2, <1>9
<1>11. ASSUME NEW k \in 1 .. N, NEW j \in 1 .. Len(Markup(script[k])), off[k - 1] + j <= n
       PROVE  \/ output[off[k - 1] + j] = Markup(script[k])[j]
              \/ /\ off[k - 1] + j = n /\ Markup(script[k])[j].t = "name"
                 /\ output[off[k - 1] + j].t = "open"
  <2> DEFINE i == off[k - 1] + j
  <2>1. k - 1 \in 0 .. N  BY <1>0
  <2>2. Len(Markup(script[k])) \in Nat  BY <1>0, MarkupIs
  <2>3. i \in 1 .. n
    <3>1. off[k - 1] \in Nat /\ j \in Nat \ {0}  BY <1>9, <2>1, <2>2
    <3> QED BY <1>8, <1>11, <3>1
  <2>4. text[i] = Markup(script[k])[j]  BY <1>2, <1>9
  <2> HIDE DEF i
  <2>5. \/ output[i] = text[i]
        \/ i = n /\ text[i].t = "name" /\ output[i].t = "open"
    BY <1>8, <2>3
  <2> QED BY <2>4, <2>5 DEF i
<1>12. ASSUME NEW i \in 1 .. n
       PROVE  \E k \in 1 .. N : \E j \in 1 .. Len(Markup(script[k])) : i = off[k - 1] + j
  <2>1. i \in 1 .. Len(text)  BY <1>6, <1>8
  <2>2. PICK k \in 1 .. N : \E j \in 1 .. Len(ss[k]) : i = off[k - 1] + j  BY <1>9, <2>1
  <2> QED BY <1>2, <2>2
<1>13. ASSUME NEW k \in 0 .. N PROVE Len(Written(SubSeq(script, 1, k))) = off[k]
  <2> DEFINE q == SubSeq(script, 1, k)
             pp == [i \in DOMAIN q |-> Markup(q[i])]
  <2>1. q \in Seq(Pieces) /\ Len(q) = k /\ \A i \in 1 .. k : q[i] = script[i]
    <3>1. 0 + k = k /\ 0 + 1 = 1 /\ (\A i \in 1 .. k : 0 + i = i) /\ k \in Nat /\ 0 \in Nat /\ k <= N
      BY <1>0
    <3>2. 0 + k <= Len(script)  BY <3>1 DEF N
    <3>3. /\ Len(SubSeq(script, 0 + 1, 0 + k)) = k
          /\ \A i \in 1 .. k : SubSeq(script, 0 + 1, 0 + k)[i] = script[0 + i]
      BY ONLY <3>1, <3>2, script \in Seq(Pieces), PartOf
    <3>4. q \in Seq(Pieces)  BY <1>0, <3>1 DEF N
    <3> QED BY <3>1, <3>3, <3>4
  <2> HIDE DEF q
  <2>2. DOMAIN q = 1 .. k /\ k \in Nat /\ k <= N  BY <1>0, <2>1
  <2>3. \A i \in 1 .. k : i \in 1 .. N  BY <1>0, <2>2
  <2>4. \A i \in 1 .. k : pp[i] = ss[i] /\ pp[i] \in R
    <3>1. \A i \in 1 .. k : Markup(script[i]) \in R  BY <1>0, <2>3, MarkupIs
    <3> QED BY <1>2, <2>1, <2>2, <2>3, <3>1
  <2>5. pp \in [1 .. k -> R]  BY <2>2, <2>4
  <2>6. Written(q) = FlattenSeq(pp)  BY DEF Written
  <2> HIDE DEF pp
  <2>7. pp \in Seq(R) /\ Len(pp) = k
    <3> HIDE DEF R
    <3> QED BY <2>2, <2>5
  <2>8. pp \in Seq(Seq(Token)) /\ Len(pp) <= Len(ss) /\ (\A i \in 1 .. Len(pp) : pp[i] = ss[i])
    BY <1>1, <2>2, <2>4, <2>7
  <2>9. Len(FlattenSeq(pp)) = off[Len(pp)]
    <3> HIDE DEF R
    <3> QED BY <1>5, <2>8
  <2> QED BY <2>6, <2>7, <2>9 DEF q
<1>14. Len(output) \in Nat /\ N \in Nat /\ Len(output) <= off[N]  BY <1>0, <1>8, <1>9
<1>15. Places(off)  BY <1>0, <1>8, <1>9, <1>10, <1>11, <1>12, <1>13, <1>14 DEF Places, N
<1> QED BY <1>15

LEMMA PlacesGrow ==
  ASSUME NEW off, Places(off), NEW k \in 0 .. Len(script), NEW m \in k .. Len(script)
  PROVE  off[k] <= off[m] /\ off[k] \in Nat /\ off[m] \in Nat
<1> DEFINE N == Len(script)
           n == m - k
           S == {i \in 0 .. n : off[k] <= off[k + i]}
<1>0. N \in Nat /\ n \in Nat /\ off \in [0 .. N -> Nat] /\ k \in 0 .. N /\ m \in 0 .. N /\ k + n = m
  BY DEF Places
<1>1. \A j \in 1 .. N : off[j - 1] <= off[j]
  <2> SUFFICES ASSUME NEW j \in 1 .. N PROVE off[j - 1] <= off[j]  OBVIOUS
  <2>1. j - 1 \in 0 .. N /\ j \in 0 .. N  BY <1>0
  <2>2. Len(Markup(script[j])) \in Nat
    <3>1. script[j] \in Pieces  BY DEF Places
    <3> QED BY <3>1, MarkupIs
  <2>3. off[j] = off[j - 1] + Len(Markup(script[j]))  BY DEF Places
  <2> QED BY <1>0, <2>1, <2>2, <2>3
<1> HIDE DEF N, n
<1>2. 0 \in S
  <2>1. k + 0 = k /\ off[k] \in Nat /\ 0 \in 0 .. n  BY <1>0
  <2> QED BY <2>1
<1>3. ASSUME NEW i \in 0 .. n - 1, i \in S PROVE i + 1 \in S
  <2> DEFINE l == k + (i + 1)
             b == k + i
  <2>1. l \in 1 .. N /\ l - 1 = b /\ i + 1 \in 0 .. n /\ b \in 0 .. N /\ l \in 0 .. N  BY <1>0
  <2>2. off[k] <= off[b]  BY <1>3
  <2> HIDE DEF l, b
  <2>3. off[b] <= off[l]  BY <1>1, <2>1
  <2>4. off[k] <= off[l]
    <3>1. off[k] \in Nat /\ off[b] \in Nat /\ off[l] \in Nat  BY <1>0, <2>1
    <3> QED BY <2>2, <2>3, <3>1
  <2> QED BY <2>1, <2>4 DEF l
<1>4. n \in S
  <2> HIDE DEF S
  <2>1. \A i \in 0 .. n : i \in S  BY ONLY <1>0, <1>2, <1>3, Induct
  <2>2. n \in 0 .. n  BY <1>0
  <2> QED BY <2>1, <2>2
<1> QED BY <1>0, <1>4

\* What stands behind place a of the output, up to place b, as far as it goes.
ProseAt(a, b) == b = a + 1 /\ (b <= Len(output) => output[b].t = "text")
StrayAt(a, b) ==
    /\ b = a + 2
    /\ a + 1 <= Len(output) => output[a + 1].t = "<function"
    /\ a + 2 <= Len(output) => output[a + 2].t = "far"
CallAt(a, b, p) ==
    /\ p.name \in Seq(STRING) /\ p.params \in Seq(Parameter) /\ b = a + 4 + 5 * Len(p.params)
    /\ a + 1 <= Len(output) => output[a + 1].t = "<function"
    /\ a + 2 <= Len(output) => \/ output[a + 2].t = "name" /\ output[a + 2].v = p.name
                               \/ output[a + 2].t = "open" /\ a + 2 = Len(output)
    /\ a + 3 <= Len(output) => output[a + 3].t = ">"
    /\ \A i \in a + 4 .. b - 1 : i <= Len(output) =>
          output[i].t \in {"<param", "name", "open", ">", "text", "</param>"}
    /\ b <= Len(output) =>
          /\ output[b].t = "</function>"
          /\ \A j \in 1 .. Len(p.params) : ParamAt(output, a + 3 + 5 * (j - 1), p.params[j])

LEMMA CallIsAt ==
  ASSUME NEW a \in Nat, NEW p, NEW m, IsCall(m, p.name, p.params), Len(output) \in Nat,
         p.name \in Seq(STRING), p.params \in Seq(Parameter),
         \A j \in 1 .. Len(m) : a + j <= Len(output) =>
            \/ output[a + j] = m[j]
            \/ a + j = Len(output) /\ m[j].t = "name" /\ output[a + j].t = "open"
  PROVE  CallAt(a, a + Len(m), p)
<1> DEFINE L == Len(output)
           n == Len(p.params)
           b == a + Len(m)
<1>0. n \in Nat /\ L \in Nat  OBVIOUS
<1>1. /\ Len(m) = 4 + 5 * n
      /\ m[1].t = "<function" /\ m[2].t = "name" /\ m[2].v = p.name /\ m[3].t = ">"
      /\ \A j \in 1 .. n : ParamAt(m, 3 + 5 * (j - 1), p.params[j])
      /\ \A i \in 4 .. Len(m) - 1 : m[i].t \in {"<param", "name", ">", "text", "</param>"}
      /\ m[Len(m)].t = "</function>"
  BY DEF IsCall
<1> HIDE DEF L, n
<1>2. 1 \in 1 .. Len(m) /\ 2 \in 1 .. Len(m) /\ 3 \in 1 .. Len(m) /\ Len(m) \in 1 .. Len(m)
  BY <1>0, <1>1
<1>3. a + 1 <= L => output[a + 1].t = "<function"  BY <1>1, <1>2 DEF L
<1>4. a + 2 <= L => \/ output[a + 2].t = "name" /\ output[a + 2].v = p.name
                    \/ output[a + 2].t = "open" /\ a + 2 = L
  BY <1>1, <1>2 DEF L
<1>5. a + 3 <= L => output[a + 3].t = ">"  BY <1>1, <1>2 DEF L
<1>6. ASSUME NEW i \in a + 4 .. b - 1, i <= L
      PROVE  output[i].t \in {"<param", "name", "open", ">", "text", "</param>"}
  <2> DEFINE j == i - a
  <2>1. j \in 4 .. Len(m) - 1 /\ j \in 1 .. Len(m) /\ a + j = i  BY <1>0, <1>1
  <2> HIDE DEF j
  <2>2. \/ output[a + j] = m[j]
        \/ m[j].t = "name" /\ output[a + j].t = "open"
    BY <1>6, <2>1 DEF L
  <2>3. m[j].t \in {"<param", "name", ">", "text", "</param>"}  BY <1>1, <2>1
  <2> QED BY <2>1, <2>2, <2>3
<1>7. ASSUME b <= L PROVE output[b].t = "</function>"
  BY <1>1, <1>2, <1>7 DEF L
<1>8. ASSUME b <= L, NEW j \in 1 .. n PROVE ParamAt(output, a + 3 + 5 * (j - 1), p.params[j])
  <2> DEFINE q == 3 + 5 * (j - 1)
  <2>1. ASSUME NEW i \in 1 .. 5 PROVE output[a + q + i] = m[q + i]
    <3> DEFINE l == q + i
    <3>1. l \in 1 .. Len(m) /\ a + l < b /\ a + l = a + q + i  BY <1>0, <1>1
    <3> HIDE DEF l, q
    <3>2. a + l <= L /\ a + l # L  BY <1>0, <1>1, <1>8, <3>1
    <3>3. output[a + l] = m[l]  BY <3>1, <3>2 DEF L
    <3> QED BY <3>1, <3>3 DEF l
  <2>2. 1 \in 1 .. 5 /\ 2 \in 1 .. 5 /\ 3 \in 1 .. 5 /\ 4 \in 1 .. 5 /\ 5 \in 1 .. 5  OBVIOUS
  <2>3. ParamAt(m, q, p.params[j])  BY <1>1
  <2>4. a + 3 + 5 * (j - 1) = a + q  BY <1>0
  <2> HIDE DEF q
  <2>5. /\ output[a + q + 1] = m[q + 1] /\ output[a + q + 2] = m[q + 2]
        /\ output[a + q + 3] = m[q + 3] /\ output[a + q + 4] = m[q + 4]
        /\ output[a + q + 5] = m[q + 5]
    BY <2>1, <2>2
  <2> DEFINE y == a + q
  <2>6. ParamAt(output, y, p.params[j])
    <3>1. /\ output[y + 1] = m[q + 1] /\ output[y + 2] = m[q + 2]
          /\ output[y + 3] = m[q + 3] /\ output[y + 4] = m[q + 4]
          /\ output[y + 5] = m[q + 5]
      BY <2>5
    <3> HIDE DEF y
    <3> QED BY ONLY <2>3, <3>1 DEF ParamAt
  <2> QED BY <2>4, <2>6
<1>9. b = a + 4 + 5 * n  BY <1>0, <1>1
<1> HIDE DEF b
<1>10. CallAt(a, b, p)  BY <1>3, <1>4, <1>5, <1>6, <1>7, <1>8, <1>9 DEF CallAt, L, n
<1> QED BY <1>10 DEF b

LEMMA PieceIs ==
  ASSUME NEW off, Places(off), NEW k \in 1 .. Len(script)
  PROVE  /\ off[k - 1] \in Nat /\ off[k] \in Nat /\ off[k - 1] < off[k]
         /\ \/ script[k].kind = "prose" /\ ProseAt(off[k - 1], off[k])
            \/ script[k].kind = "stray" /\ StrayAt(off[k - 1], off[k])
            \/ script[k].kind = "call" /\ CallAt(off[k - 1], off[k], script[k])
<1> DEFINE a == off[k - 1]
           b == off[k]
           p == script[k]
           m == Markup(p)
           L == Len(output)
<1>0. p \in Pieces /\ a \in Nat /\ b = a + Len(m) /\ L \in Nat
  <2>1. Len(script) \in Nat /\ off \in [0 .. Len(script) -> Nat]  BY DEF Places
  <2>2. k - 1 \in 0 .. Len(script)  BY <2>1
  <2> QED BY <2>1, <2>2 DEF Places
<1>1. \A j \in 1 .. Len(m) : a + j <= L =>
         output[a + j] = m[j] \/ (a + j = L /\ m[j].t = "name" /\ output[a + j].t = "open")
  BY DEF Places
<1>2. /\ m \in Seq(Token)
      /\ \/ p.kind = "prose" /\ Len(m) = 1 /\ m[1].t = "text"
         \/ p.kind = "stray" /\ Len(m) = 2 /\ m[1].t = "<function" /\ m[2].t = "far"
         \/ /\ p.kind = "call" /\ p.name \in Seq(STRING) /\ p.params \in Seq(Parameter)
            /\ IsCall(m, p.name, p.params)
  BY <1>0, MarkupIs
<1> HIDE DEF a, b, p, m, L
<1>3. CASE p.kind = "prose" /\ Len(m) = 1 /\ m[1].t = "text"
  <2>1. b = a + 1 /\ 1 \in 1 .. 1 /\ b \in Nat /\ a < b  BY <1>0, <1>3
  <2>2. b <= L => output[b].t = "text"  BY <1>1, <1>3, <2>1
  <2> QED BY <1>0, <1>3, <2>1, <2>2 DEF ProseAt, a, b, p, L
<1>4. CASE p.kind = "stray" /\ Len(m) = 2 /\ m[1].t = "<function" /\ m[2].t = "far"
  <2>1. b = a + 2 /\ 1 \in 1 .. 2 /\ 2 \in 1 .. 2 /\ b \in Nat /\ a < b  BY <1>0, <1>4
  <2>2. a + 1 <= L => output[a + 1].t = "<function"  BY <1>1, <1>4, <2>1
  <2>3. a + 2 <= L => output[a + 2].t = "far"  BY <1>1, <1>4, <2>1
  <2> QED BY <1>0, <1>4, <2>1, <2>2, <2>3 DEF StrayAt, a, b, p, L
<1>5. CASE /\ p.kind = "call" /\ p.name \in Seq(STRING) /\ p.params \in Seq(Parameter)
           /\ IsCall(m, p.name, p.params)
  <2>1. CallAt(a, a + Len(m), p)  BY <1>0, <1>1, <1>5, CallIsAt DEF L
  <2>2. a + Len(m) \in Nat /\ a < a + Len(m)
    <3>1. Len(m) = 4 + 5 * Len(p.params) /\ Len(p.params) \in Nat  BY <1>5 DEF IsCall
    <3> QED BY <1>0, <3>1
  <2> QED BY <1>0, <1>5, <2>1, <2>2 DEF a, b, p
<1> QED BY <1>2, <1>3, <1>4, <1>5

-----------------------------------------------------------------------------
(* The calls the script made *)

Called == [name : Seq(STRING), params : Seq(Parameter)]
CallOf(k) == [name |-> script[k].name, params |-> script[k].params]
Answered == {[name |-> x.name, args |-> ArgsJson(x.params)] : x \in Called}

\* M[k] is the calls that the output has whole among the first k pieces.
Counts(M) ==
    /\ \A k \in 0 .. Len(script) : M[k] \in Seq(Called) /\ Len(M[k]) <= MaxCalls
    /\ M[0] = <<>>
    /\ \A k \in 1 .. Len(script) :
          M[k] = IF IsWhole(k) /\ Len(M[k - 1]) < MaxCalls
                 THEN Append(M[k - 1], CallOf(k)) ELSE M[k - 1]

LEMMA MadeIs ==
  ASSUME script \in Seq(Pieces)
  PROVE  \E M : Counts(M) /\ CallsMade = M[Len(script)]
<1> DEFINE N == Len(script)
           T == {c \in Seq(Called) : Len(c) <= MaxCalls}
           b == <<>>
           Step(i, c) == IF IsWhole(i) /\ Len(c) < MaxCalls THEN Append(c, CallOf(i)) ELSE c
           g == [p \in (1 .. N) \X T |-> Step(p[1], p[2])]
           Is(f) == f = [k \in 0 .. N |->
                           IF k = 0 THEN <<>>
                           ELSE IF IsWhole(k) /\ Len(f[k - 1]) < MaxCalls
                             THEN Append(f[k - 1], [name |-> script[k].name, params |-> script[k].params])
                             ELSE f[k - 1]]
<1>0. N \in Nat /\ \A k \in 1 .. N : script[k] \in Pieces  OBVIOUS
<1>1. MaxCalls \in Nat  BY ToolCallsAssumption
<1>2. b \in T
  <2>1. Len(b) = 0 /\ b \in Seq(Called)  OBVIOUS
  <2> HIDE DEF b
  <2> QED BY <1>1, <2>1
<1>3. ASSUME NEW i \in 1 .. N, NEW c \in T PROVE Step(i, c) \in T
  <2>1. CASE IsWhole(i) /\ Len(c) < MaxCalls
    <3>1. script[i].kind = "call"  BY <2>1 DEF IsWhole
    <3>2. script[i].name \in Seq(STRING) /\ script[i].params \in Seq(Parameter)
      BY <1>0, <3>1, MarkupIs
    <3>3. CallOf(i) \in Called  BY <3>2 DEF CallOf, Called
    <3> DEFINE x == CallOf(i)
    <3> HIDE DEF x
    <3>4. c \in Seq(Called) /\ x \in Called  BY <3>3 DEF x
    <3>5. Append(c, x) \in Seq(Called) /\ Len(Append(c, x)) = Len(c) + 1 /\ Len(c) \in Nat  BY <3>4
    <3>6. Append(c, x) \in T  BY <1>1, <2>1, <3>5
    <3> QED BY <2>1, <3>6 DEF x
  <2> HIDE DEF T
  <2>2. CASE ~ (IsWhole(i) /\ Len(c) < MaxCalls)  BY <2>2
  <2> QED BY <2>1, <2>2
<1>4. g \in [(1 .. N) \X T -> T]
  <2> HIDE DEF N, T, Step
  <2> QED BY <1>3
<1>5. PICK f \in [0 .. N -> T] : Iterates(f, N, b, g)
  <2> HIDE DEF N, T, b, g
  <2> QED BY <1>0, <1>2, <1>4, RecursionExists
<1>6. Is(f)
  <2>1. ASSUME NEW i \in 1 .. N PROVE f[i] = Step(i, f[i - 1])
    <3>1. i - 1 \in 0 .. N  BY <1>0
    <3>2. f[i - 1] \in T  BY <3>1
    <3>3. f[i] = g[<<i, f[i - 1]>>]
      <4> HIDE DEF g, N
      <4> QED BY <1>5 DEF Iterates
    <3> HIDE DEF Step, T, N
    <3> QED BY <3>2, <3>3
  <2>2. f[0] = <<>>  BY <1>5 DEF Iterates
  <2>3. f = [i \in 0 .. N |-> IF i = 0 THEN <<>> ELSE Step(i, f[i - 1])]
    <3>1. \A i \in 0 .. N : i # 0 => i \in 1 .. N  BY <1>0
    <3>2. f = [i \in 0 .. N |-> f[i]]  BY <1>5
    <3> HIDE DEF N, T, g, b, Step
    <3> QED BY <2>1, <2>2, <3>1, <3>2
  <2> QED BY <2>3 DEF CallOf
<1>7. Is(CHOOSE h : Is(h))  BY <1>6
<1> DEFINE h == CHOOSE h : Is(h)
<1>8. CallsMade = h[N]  BY DEF CallsMade
<1>9. Is(h)  BY <1>7
<1> HIDE DEF h
<1>10. h = [k \in 0 .. N |-> IF k = 0 THEN <<>> ELSE Step(k, h[k - 1])]
  BY <1>9 DEF CallOf
<1> DEFINE S == {k \in 0 .. N : h[k] \in T}
<1>11. 0 \in S
  <2>1. 0 \in 0 .. N  BY <1>0
  <2> HIDE DEF N, T, Step
  <2>2. h[0] = <<>>  BY <1>10, <2>1
  <2> QED BY <1>2, <2>1, <2>2
<1>12. ASSUME NEW k \in 0 .. N - 1, k \in S PROVE k + 1 \in S
  <2> DEFINE l == k + 1
  <2>1. l \in 1 .. N /\ l \in 0 .. N /\ l # 0 /\ l - 1 = k /\ h[k] \in T  BY <1>0, <1>12
  <2> HIDE DEF l, N, T, Step
  <2>2. h[l] = Step(l, h[l - 1])  BY <1>10, <2>1
  <2>3. h[l] \in T  BY <1>3, <2>1, <2>2
  <2> QED BY <2>1, <2>3 DEF l
<1>13. \A k \in 0 .. N : h[k] \in T
  <2> HIDE DEF S, N
  <2>1. \A k \in 0 .. N : k \in S  BY ONLY <1>0, <1>11, <1>12, Induct
  <2> QED BY <2>1 DEF S
<1>14. Counts(h)
  <2>1. \A k \in 0 .. N : h[k] \in Seq(Called) /\ Len(h[k]) <= MaxCalls  BY <1>13
  <2> HIDE DEF T
  <2>2. 0 \in 0 .. N /\ \A k \in 1 .. N : k \in 0 .. N /\ k # 0  BY <1>0
  <2>3. h[0] = <<>>
    <3> HIDE DEF N, Step
    <3> QED BY <1>10, <2>2
  <2>4. \A k \in 1 .. N : h[k] = Step(k, h[k - 1])
    <3> HIDE DEF N, Step
    <3> QED BY <1>10, <2>2
  <2> QED BY <2>1, <2>3, <2>4 DEF Counts
<1> QED BY <1>8, <1>14

\* Pieces that are no whole calls add nothing, and at the limit none does.
LEMMA MadeStays ==
  ASSUME NEW M, Counts(M), Len(script) \in Nat, NEW k \in 0 .. Len(script), NEW m \in k .. Len(script),
         (\A i \in k + 1 .. m : ~ IsWhole(i)) \/ Len(M[k]) = MaxCalls
  PROVE  M[m] = M[k]
<1> DEFINE n == m - k
           S == {i \in 0 .. n : M[k + i] = M[k]}
<1>0. n \in Nat /\ k + n = m /\ k + 0 = k  OBVIOUS
<1>1. 0 \in S  BY <1>0
<1>2. ASSUME NEW i \in 0 .. n - 1, i \in S PROVE i + 1 \in S
  <2> DEFINE l == k + (i + 1)
             b == k + i
  <2>1. l \in 1 .. Len(script) /\ l \in k + 1 .. m /\ l - 1 = b /\ i + 1 \in 0 .. n  OBVIOUS
  <2>2. M[b] = M[k]  BY <1>2
  <2> HIDE DEF l, b
  <2>3. M[l] = IF IsWhole(l) /\ Len(M[l - 1]) < MaxCalls
               THEN Append(M[l - 1], CallOf(l)) ELSE M[l - 1]
    BY <2>1 DEF Counts
  <2>4. ~ IsWhole(l) \/ ~ (Len(M[l - 1]) < MaxCalls)
    <3>1. CASE \A j \in k + 1 .. m : ~ IsWhole(j)  BY <2>1, <3>1
    <3>2. CASE Len(M[k]) = MaxCalls
      <4>1. Len(M[l - 1]) = MaxCalls /\ MaxCalls \in Nat  BY <2>1, <2>2, <3>2, ToolCallsAssumption
      <4> QED BY <4>1
    <3> QED BY <3>1, <3>2
  <2>5. M[l] = M[k]  BY <2>1, <2>2, <2>3, <2>4
  <2> QED BY <2>1, <2>5 DEF l
<1>3. n \in S
  <2>1. n \in 0 .. n  BY <1>0
  <2> HIDE DEF S, n
  <2>2. \A i \in 0 .. n : i \in S  BY ONLY <1>0, <1>1, <1>2, Induct
  <2> QED BY <2>1, <2>2
<1> QED BY <1>0, <1>3

-----------------------------------------------------------------------------
(* The scan *)

ScanFound(out) == {[name |-> out[i].v, args |-> ArgsJson(Params(out, b, c))] : i \in Int, b \in Int, c \in Int}
ScanState(out) == [pos : Nat \ {0}, calls : Seq(ScanFound(out)), over : BOOLEAN]

LEMMA ScanStepType ==
  ASSUME NEW out, Len(out) \in Nat, NEW s \in ScanState(out)
  PROVE  ScanStep(out, s) \in ScanState(out)
<1> DEFINE end   == Len(out)
           fn    == Find(out, {"<function"}, s.pos, end)
           name  == Find(out, {"name", "open"}, fn, end)
           close == Find(out, {"</function>"}, fn, end)
           body  == Find(out, {">", "</param>", "</function>"}, fn, end)
           call  == [name |-> out[name].v, args |-> ArgsJson(Params(out, body + 1, close - 1))]
           U == ScanFound(out)
           F == Seq(U)
<1>1. s.pos \in Nat \ {0} /\ s.calls \in F /\ s.over \in BOOLEAN
      /\ s = [pos |-> s.pos, calls |-> s.calls, over |-> s.over]
  <2> HIDE DEF U, F
  <2> QED BY DEF ScanState, U, F
<1>2. fn = 0 \/ fn \in Nat \ {0}  BY <1>1, FindType
<1>3. CASE AtLimit(s) \/ fn = 0
  <2>1. ScanStep(out, s) = [s EXCEPT !.over = TRUE]  BY <1>3 DEF ScanStep
  <2> QED BY <2>1 DEF ScanState
<1>4. CASE ~ (AtLimit(s) \/ fn = 0)
  <2>0. fn \in Nat \ {0}  BY <1>2, <1>4
  <2> HIDE DEF fn
  <2>1. (name = 0 \/ name \in Nat \ {0}) /\ (close = 0 \/ close \in Nat \ {0})
        /\ (body = 0 \/ body \in Nat \ {0})
    BY <2>0, FindType
  <2> HIDE DEF name, close, body
  <2>2. CASE name = 0 \/ TooFar(out, fn, name)
    <3>1. ScanStep(out, s) = [s EXCEPT !.pos = fn + 1]  BY <1>4, <2>2 DEF ScanStep, fn, name
    <3>2. fn + 1 \in Nat \ {0}  BY <2>0
    <3> QED BY <3>1, <3>2 DEF ScanState
  <2>3. CASE ~ (name = 0 \/ TooFar(out, fn, name)) /\ out[name].t = "open"
    <3>1. ScanStep(out, s) = [s EXCEPT !.over = TRUE]  BY <1>4, <2>3 DEF ScanStep, fn, name
    <3> QED BY <3>1 DEF ScanState
  <2>4. CASE ~ (name = 0 \/ TooFar(out, fn, name)) /\ out[name].t # "open" /\ out[name].v = <<>>
    <3>1. ScanStep(out, s) = [s EXCEPT !.pos = name + 1]
      BY <1>4, <2>4 DEF ScanStep, SkipUnnamed, fn, name
    <3>2. name + 1 \in Nat \ {0}  BY <2>1, <2>4
    <3> QED BY <3>1, <3>2 DEF ScanState
  <2>5. CASE /\ ~ (name = 0 \/ TooFar(out, fn, name)) /\ out[name].t # "open" /\ out[name].v # <<>>
             /\ close = 0 \/ body = 0 \/ body >= close
    <3>1. ScanStep(out, s) = [s EXCEPT !.over = TRUE]
      BY <1>4, <2>5 DEF ScanStep, fn, name, close, body
    <3> QED BY <3>1 DEF ScanState
  <2>6. CASE /\ ~ (name = 0 \/ TooFar(out, fn, name)) /\ out[name].t # "open" /\ out[name].v # <<>>
             /\ ~ (close = 0 \/ body = 0 \/ body >= close)
    <3>1. ScanStep(out, s) = [s EXCEPT !.pos = close + 1, !.calls = Append(@, call)]
      BY <1>4, <2>6 DEF ScanStep, Take, fn, name, close, body
    <3>2. call \in U
      <4>1. name \in Int /\ body + 1 \in Int /\ close - 1 \in Int  BY <2>1
      <4> QED BY <4>1 DEF ScanFound
    <3> HIDE DEF call, U
    <3>3. Append(s.calls, call) \in Seq(U)  BY <1>1, <3>2
    <3>4. close + 1 \in Nat \ {0}  BY <2>1
    <3>5. [pos |-> close + 1, calls |-> Append(s.calls, call), over |-> s.over] \in ScanState(out)
      BY <1>1, <3>3, <3>4 DEF ScanState, U
    <3>6. ScanStep(out, s) = [pos |-> close + 1, calls |-> Append(s.calls, call), over |-> s.over]
      BY <1>1, <3>1
    <3> QED BY <3>5, <3>6
  <2> QED BY <2>2, <2>3, <2>4, <2>5, <2>6
<1> QED BY <1>3, <1>4

\* S is the rounds of the loop.
ScanRounds(S, out) ==
    /\ S \in [0 .. Len(out) + 1 -> ScanState(out)] /\ S[0] = NewScan
    /\ \A i \in 1 .. Len(out) + 1 :
          S[i] = IF S[i - 1].over THEN S[i - 1] ELSE ScanStep(out, S[i - 1])

LEMMA ScannedIs ==
  ASSUME NEW out, Len(out) \in Nat
  PROVE  \E S : ScanRounds(S, out) /\ Scanned(out) = S[Len(out) + 1]
<1> DEFINE n == Len(out) + 1
           T == ScanState(out)
           b == NewScan
           Step(s) == IF s.over THEN s ELSE ScanStep(out, s)
           g == [p \in (1 .. n) \X T |-> Step(p[2])]
           Is(f) == f = [i \in 0 .. n |-> IF i = 0 THEN NewScan
                          ELSE IF f[i - 1].over THEN f[i - 1] ELSE ScanStep(out, f[i - 1])]
<1>0. n \in Nat  OBVIOUS
<1>1. b \in T  BY DEF NewScan, ScanState
<1>2. \A s \in T : Step(s) \in T  BY ScanStepType
<1>3. g \in [(1 .. n) \X T -> T]
  <2> HIDE DEF n, T, Step
  <2> QED BY <1>2
<1>4. PICK f \in [0 .. n -> T] : Iterates(f, n, b, g)
  <2> HIDE DEF n, T, b, g
  <2> QED BY <1>0, <1>1, <1>3, RecursionExists
<1>5. Is(f)
  <2>1. ASSUME NEW i \in 1 .. n PROVE f[i] = Step(f[i - 1])
    <3>1. i - 1 \in 0 .. n  BY <1>0
    <3>2. f[i - 1] \in T  BY <3>1
    <3>3. f[i] = g[<<i, f[i - 1]>>]
      <4> HIDE DEF g, n
      <4> QED BY <1>4 DEF Iterates
    <3> HIDE DEF Step, T, n
    <3> QED BY <3>2, <3>3
  <2>2. f[0] = NewScan  BY <1>4 DEF Iterates
  <2>3. f = [i \in 0 .. n |-> IF i = 0 THEN NewScan ELSE Step(f[i - 1])]
    <3>1. \A i \in 0 .. n : i # 0 => i \in 1 .. n  BY <1>0
    <3>2. f = [i \in 0 .. n |-> f[i]]  BY <1>4
    <3> HIDE DEF n, T, g, b, Step
    <3> QED BY <2>1, <2>2, <3>1, <3>2
  <2> QED BY <2>3
<1>6. Is(CHOOSE h : Is(h))  BY <1>5
<1> DEFINE h == CHOOSE h : Is(h)
<1>7. Scanned(out) = h[n]  BY DEF Scanned
<1>8. h = [i \in 0 .. n |-> IF i = 0 THEN NewScan ELSE Step(h[i - 1])]  BY <1>6
<1> HIDE DEF h
<1> DEFINE R == {i \in 0 .. n : h[i] \in T}
<1>9. 0 \in R
  <2>1. 0 \in 0 .. n  BY <1>0
  <2> HIDE DEF n, T, Step
  <2>2. h[0] = NewScan  BY <1>8, <2>1
  <2> QED BY <1>1, <2>1, <2>2
<1>10. ASSUME NEW i \in 0 .. n - 1, i \in R PROVE i + 1 \in R
  <2> DEFINE l == i + 1
  <2>1. l \in 0 .. n /\ l # 0 /\ l - 1 = i /\ h[i] \in T  BY <1>0, <1>10
  <2> HIDE DEF l, n, T, Step
  <2>2. h[l] = Step(h[l - 1])  BY <1>8, <2>1
  <2>3. h[l] \in T  BY <1>2, <2>1, <2>2
  <2> QED BY <2>1, <2>3 DEF l
<1>11. \A i \in 0 .. n : h[i] \in T
  <2> HIDE DEF R, n
  <2>1. \A i \in 0 .. n : i \in R  BY ONLY <1>0, <1>9, <1>10, Induct
  <2> QED BY <2>1 DEF R
<1>12. ScanRounds(h, out)
  <2>1. 0 \in 0 .. n /\ \A i \in 1 .. n : i \in 0 .. n /\ i # 0  BY <1>0
  <2>2. h[0] = NewScan
    <3> HIDE DEF n, Step
    <3> QED BY <1>8, <2>1
  <2>3. \A i \in 1 .. n : h[i] = Step(h[i - 1])
    <3> HIDE DEF n, Step
    <3> QED BY <1>8, <2>1
  <2>4. h \in [0 .. n -> T]
    <3> HIDE DEF n, Step, T
    <3> QED BY <1>8, <1>11
  <2> QED BY <2>2, <2>3, <2>4 DEF ScanRounds
<1> QED BY <1>7, <1>12

\* The calls of a script as the answer has them.
Json(calls) == [i \in DOMAIN calls |-> [name |-> calls[i].name, args |-> ArgsJson(calls[i].params)]]

LEMMA JsonIs ==
  ASSUME NEW c \in Seq(Called)
  PROVE  /\ Json(c) \in Seq(Answered) /\ Len(Json(c)) = Len(c)
         /\ \A x \in Called :
               Json(Append(c, x)) = Append(Json(c), [name |-> x.name, args |-> ArgsJson(x.params)])
<1> DEFINE n == Len(c)
           Of(x) == [name |-> x.name, args |-> ArgsJson(x.params)]
           U == {Of(x) : x \in Called}
           j == Json(c)
<1>0. n \in Nat /\ DOMAIN c = 1 .. n /\ \A i \in 1 .. n : c[i] \in Called  OBVIOUS
<1>1. j = [i \in 1 .. n |-> Of(c[i])]  BY <1>0 DEF Json
<1> HIDE DEF Of, j, n
<1>2. j \in Seq(U) /\ Len(j) = n
  <2>1. \A i \in 1 .. n : Of(c[i]) \in U  BY <1>0
  <2> HIDE DEF U
  <2>2. j \in [1 .. n -> U]  BY <1>1, <2>1
  <2> QED BY <1>0, <1>1, <2>2
<1>3. ASSUME NEW x \in Called PROVE Json(Append(c, x)) = Append(j, Of(x))
  <2> DEFINE d == Append(c, x)
             l == n + 1
             y == Of(x)
             e == Append(j, y)
  <2>1. d \in Seq(Called) /\ Len(d) = l /\ d[l] = x /\ \A i \in 1 .. n : d[i] = c[i]
    BY AppendProperties DEF n
  <2>2. y \in U  OBVIOUS
  <2> HIDE DEF d, y, U
  <2>3. e \in Seq(U) /\ Len(e) = Len(j) + 1 /\ e[Len(j) + 1] = y /\ \A i \in 1 .. Len(j) : e[i] = j[i]
    <3>1. j \in Seq(U)  BY <1>2
    <3> QED BY ONLY <2>2, <3>1, AppendProperties
  <2>4. DOMAIN d = 1 .. l /\ DOMAIN e = 1 .. l /\ l \in Nat  BY <1>0, <1>2, <2>1, <2>3
  <2>5. Json(d) = [i \in 1 .. l |-> Of(d[i])]  BY <2>4 DEF Json, Of
  <2>6. ASSUME NEW i \in 1 .. l PROVE Of(d[i]) = e[i]
    <3>1. CASE i = l  BY <1>2, <2>1, <2>3, <3>1 DEF y
    <3>2. CASE i # l
      <4>1. i \in 1 .. n  BY <1>0, <3>2
      <4> HIDE DEF e, l
      <4> QED BY <1>1, <1>2, <2>1, <2>3, <4>1
    <3> QED BY <3>1, <3>2
  <2>7. e = [i \in 1 .. l |-> e[i]]
    <3> HIDE DEF e, l
    <3> QED BY <2>3, <2>4
  <2> HIDE DEF e, l
  <2>8. Json(d) = e  BY <2>5, <2>6, <2>7
  <2> QED BY <2>8 DEF d, e, y
<1> QED BY <1>2, <1>3 DEF j, n, Of, Answered

NoTag(from, to) == \A i \in from .. to : i <= Len(output) => output[i].t # "<function"

\* Pieces that the scan sees no tag of are no whole calls.
LEMMA NoneWhole ==
  ASSUME NEW off, Places(off), NEW k \in 0 .. Len(script), NEW m \in k .. Len(script),
         NEW pos \in Nat, pos <= off[k] + 1, NoTag(pos, off[m]), NEW i \in k + 1 .. m
  PROVE  ~ IsWhole(i)
<1> DEFINE L == Len(output)
<1>0. /\ L \in Nat /\ Len(script) \in Nat /\ i \in 1 .. Len(script) /\ i - 1 \in k .. Len(script)
      /\ i - 1 \in 0 .. Len(script) /\ m \in i .. Len(script) /\ i \in 0 .. Len(script)
  BY DEF Places
<1>1. off[k] <= off[i - 1] /\ off[k] \in Nat  BY <1>0, PlacesGrow
<1>2. off[i] <= off[m] /\ off[m] \in Nat  BY <1>0, PlacesGrow
<1>3. off[i - 1] \in Nat /\ off[i] \in Nat /\ off[i - 1] < off[i]  BY <1>0, PieceIs
<1>4. SUFFICES ASSUME IsWhole(i) PROVE FALSE  OBVIOUS
<1>5. script[i].kind = "call" /\ off[i] <= L  BY <1>0, <1>4 DEF IsWhole, Places
<1>6. CallAt(off[i - 1], off[i], script[i])  BY <1>0, <1>5, PieceIs
<1> DEFINE a == off[i - 1] + 1
<1>7. a <= L /\ a \in pos .. off[m]
  <2>1. a <= off[i] /\ off[k] + 1 <= a /\ a \in Nat  BY <1>1, <1>3
  <2>2. pos <= off[k] + 1 /\ pos \in Nat  OBVIOUS
  <2>3. off[k] \in Nat /\ off[i] \in Nat /\ off[m] \in Nat /\ L \in Nat
        /\ off[i] <= off[m] /\ off[i] <= L
    BY <1>0, <1>1, <1>2, <1>3, <1>5
  <2> HIDE DEF a, L
  <2> QED BY ONLY <2>1, <2>2, <2>3
<1>8. output[a].t = "<function"  BY <1>6, <1>7 DEF CallAt
<1> HIDE DEF a
<1> QED BY <1>7, <1>8 DEF NoTag

\* A tag is the first token of a piece.
LEMMA TagIsAt ==
  ASSUME NEW off, Places(off), NEW f \in 1 .. Len(output), output[f].t = "<function"
  PROVE  \E m \in 1 .. Len(script) :
            /\ f = off[m - 1] + 1
            /\ \/ script[m].kind = "stray" /\ StrayAt(off[m - 1], off[m])
               \/ script[m].kind = "call" /\ CallAt(off[m - 1], off[m], script[m])
<1>1. PICK m \in 1 .. Len(script) : \E j \in 1 .. Len(Markup(script[m])) : f = off[m - 1] + j
  BY DEF Places
<1>2. PICK j \in 1 .. Len(Markup(script[m])) : f = off[m - 1] + j  BY <1>1
<1> DEFINE a == off[m - 1]
           b == off[m]
           p == script[m]
           L == Len(output)
<1>3. /\ a \in Nat /\ b \in Nat /\ a < b
      /\ \/ p.kind = "prose" /\ ProseAt(a, b)
         \/ p.kind = "stray" /\ StrayAt(a, b)
         \/ p.kind = "call" /\ CallAt(a, b, p)
  BY PieceIs
<1>4. f = a + j /\ j \in Nat \ {0} /\ f <= b /\ f <= L /\ L \in Nat
  <2>1. b = a + Len(Markup(p)) /\ p \in Pieces  BY DEF Places
  <2>2. Len(Markup(p)) \in Nat  BY <2>1, MarkupIs
  <2> HIDE DEF a, b, p, L
  <2>3. j \in 1 .. Len(Markup(p))  BY DEF p
  <2>4. f = a + j  BY <1>2 DEF a
  <2>5. L \in Nat /\ f <= L  BY DEF L, Places
  <2> QED BY <1>3, <2>1, <2>2, <2>3, <2>4, <2>5
<1> HIDE DEF a, b, p
<1>5. CASE ProseAt(a, b)
  <2>1. f = b  BY <1>3, <1>4, <1>5 DEF ProseAt
  <2> QED BY <1>4, <1>5, <2>1 DEF ProseAt
<1>6. CASE p.kind = "stray" /\ StrayAt(a, b)
  <2>1. f = a + 1 \/ f = a + 2  BY <1>3, <1>4, <1>6 DEF StrayAt
  <2>2. f # a + 2  BY <1>4, <1>6 DEF StrayAt
  <2>3. f = a + 1  BY <2>1, <2>2
  <2> QED BY <1>6, <2>3 DEF a, b, p
<1>7. CASE p.kind = "call" /\ CallAt(a, b, p)
  <2>1. f # a + 2 /\ f # a + 3 /\ f # b  BY <1>4, <1>7 DEF CallAt
  <2>2. f \notin a + 4 .. b - 1  BY <1>4, <1>7 DEF CallAt
  <2>3. f = a + 1  BY <1>3, <1>4, <2>1, <2>2
  <2> QED BY <1>7, <2>3 DEF a, b, p
<1> QED BY <1>3, <1>5, <1>6, <1>7

\* The scan has passed the first k pieces and found the calls among them.
Scanning(s, k, off, M) ==
    /\ s \in ScanState(output) /\ s.over = FALSE
    /\ k \in 0 .. Len(script) /\ s.pos \in 1 .. Len(output) + 1 /\ s.pos <= off[k] + 1
    /\ NoTag(s.pos, off[k])
    /\ s.calls = Json(M[k])
ScanDone(s, M) ==
    s.over = TRUE /\ s.calls = Json(M[Len(script)]) /\ s.pos \in 1 .. Len(output) + 1
\* A round from s to r ends the scan or moves it forward.
Goes(s, r, off, M) ==
    \/ ScanDone(r, M)
    \/ r.pos > s.pos /\ \E m \in 0 .. Len(script) : Scanning(r, m, off, M)

LEMMA ScanStops ==
  ASSUME NEW off, NEW M, NEW s, NEW k, Scanning(s, k, off, M), M[Len(script)] = M[k]
  PROVE  Goes(s, [s EXCEPT !.over = TRUE], off, M)
<1> DEFINE r == [s EXCEPT !.over = TRUE]
<1>1. r.over = TRUE /\ r.calls = s.calls /\ r.pos = s.pos  BY DEF Scanning, ScanState
<1> HIDE DEF r
<1>2. ScanDone(r, M)  BY <1>1 DEF ScanDone, Scanning
<1> QED BY <1>2 DEF Goes, r

LEMMA ScanMoves ==
  ASSUME NEW off, NEW M, NEW s, NEW k, Scanning(s, k, off, M),
         NEW m \in 0 .. Len(script), M[m] = M[k],
         NEW pos \in 1 .. Len(output) + 1, pos > s.pos, pos <= off[m] + 1, NoTag(pos, off[m])
  PROVE  Goes(s, [s EXCEPT !.pos = pos], off, M)
<1> DEFINE r == [s EXCEPT !.pos = pos]
<1>1. /\ r.over = FALSE /\ r.calls = s.calls /\ r.pos = pos
      /\ s \in ScanState(output) /\ s.calls = Json(M[k])
  BY DEF Scanning, ScanState
<1>2. pos \in Nat \ {0}  OBVIOUS
<1>3. r \in ScanState(output)  BY <1>1, <1>2 DEF ScanState
<1> HIDE DEF r
<1>4. Scanning(r, m, off, M)  BY <1>1, <1>3 DEF Scanning
<1> QED BY <1>1, <1>4 DEF Goes, r

LEMMA ScanTakes ==
  ASSUME NEW off, NEW M, NEW s, NEW k, Scanning(s, k, off, M), NEW call,
         NEW m \in 0 .. Len(script), Json(M[m]) = Append(s.calls, call),
         NEW close \in 1 .. Len(output), close >= s.pos, close = off[m],
         [s EXCEPT !.pos = close + 1, !.calls = Append(@, call)] \in ScanState(output)
  PROVE  Goes(s, [s EXCEPT !.pos = close + 1, !.calls = Append(@, call)], off, M)
<1> DEFINE pos == close + 1
           r == [s EXCEPT !.pos = pos, !.calls = Append(@, call)]
<1>1. r.over = FALSE /\ r.calls = Append(s.calls, call) /\ r.pos = pos
  <2> HIDE DEF pos
  <2> QED BY DEF Scanning, ScanState
<1>2. pos \in 1 .. Len(output) + 1 /\ pos > s.pos /\ pos <= off[m] + 1 /\ pos .. off[m] = {}
  <2>1. s.pos \in Nat /\ close \in Nat /\ close >= s.pos  BY DEF Scanning, ScanState
  <2> QED BY <2>1
<1>3. r \in ScanState(output)  OBVIOUS
<1> HIDE DEF r, pos
<1>4. NoTag(pos, off[m])  BY <1>2 DEF NoTag
<1>5. Scanning(r, m, off, M)  BY <1>1, <1>2, <1>3, <1>4 DEF Scanning
<1>6. r.pos > s.pos  BY <1>1, <1>2
<1> QED BY <1>5, <1>6 DEF Goes, r, pos

\* The scan has come to the tag of piece m, and the pieces since k have none.
Reached(s, k, m, off, M) ==
    /\ Len(script) \in Nat /\ Len(output) \in Nat
    /\ Scanning(s, k, off, M) /\ ~ AtLimit(s)
    /\ m \in 1 .. Len(script) /\ M[m - 1] = M[k] /\ off[m - 1] \in Nat
    /\ off[m - 1] + 1 <= Len(output) /\ s.pos <= off[m - 1] + 1
    /\ Find(output, {"<function"}, s.pos, Len(output)) = off[m - 1] + 1

LEMMA OverStray ==
  ASSUME NEW off, NEW M, Counts(M), NEW s, NEW k, NEW m, Reached(s, k, m, off, M),
         script[m].kind = "stray", StrayAt(off[m - 1], off[m])
  PROVE  Goes(s, ScanStep(output, s), off, M)
<1> DEFINE a == off[m - 1]
           L == Len(output)
           fn == a + 1
           name == Find(output, {"name", "open"}, fn, L)
<1>1. /\ a \in Nat /\ L \in Nat /\ fn <= L /\ fn \in Nat \ {0} /\ s.pos <= fn /\ s.pos \in Nat
      /\ off[m] = a + 2 /\ output[fn].t = "<function" /\ (a + 2 <= L => output[a + 2].t = "far")
  <2>1. a \in Nat /\ L \in Nat /\ fn <= L /\ s.pos <= fn  BY DEF Reached
  <2>2. s.pos \in Nat  BY DEF Reached, Scanning, ScanState
  <2>3. off[m] = a + 2 /\ (fn <= L => output[fn].t = "<function")
        /\ (a + 2 <= L => output[a + 2].t = "far")
    BY DEF StrayAt
  <2> QED BY ONLY <2>1, <2>2, <2>3
<1>2. Find(output, {"<function"}, s.pos, L) = fn /\ ~ AtLimit(s) /\ fn # 0  BY <1>1 DEF Reached
<1> HIDE DEF a, L, name
<1>3. name = 0 \/ TooFar(output, fn, name)
  <2>1. \/ name = 0
        \/ name \in fn .. L /\ output[name].t \in {"name", "open"}
    <3> HIDE DEF fn
    <3> QED BY <1>1, FindIs DEF name
  <2>2. CASE name \in fn .. L /\ output[name].t \in {"name", "open"}
    <3>1. name # fn /\ name # a + 2  BY <1>1, <2>2
    <3>2. a + 2 \in fn .. name - 1 /\ a + 2 <= L  BY <1>1, <2>2, <3>1
    <3>3. output[a + 2].t = "far"  BY <1>1, <3>2
    <3> DEFINE i == a + 2
    <3>4. i \in fn .. name - 1 /\ output[i].t = "far"  BY <3>2, <3>3
    <3> HIDE DEF i, fn
    <3> QED BY <3>4 DEF TooFar
  <2> QED BY <2>1, <2>2
<1>4. ScanStep(output, s) = [s EXCEPT !.pos = fn + 1]
  <2> HIDE DEF fn
  <2> QED BY <1>2, <1>3 DEF ScanStep, name, L
<1>5. M[m] = M[k] /\ m \in 0 .. Len(script)
  <2>1. Len(script) \in Nat /\ m \in 1 .. Len(script) /\ M[m - 1] = M[k]  BY DEF Reached
  <2>2. m - 1 \in 0 .. Len(script) /\ m \in m - 1 .. Len(script) /\ \A i \in (m - 1) + 1 .. m : i = m
    BY <2>1
  <2>3. \A i \in (m - 1) + 1 .. m : ~ IsWhole(i)  BY <2>2 DEF IsWhole
  <2> DEFINE l == m - 1
  <2> HIDE DEF l
  <2>4. l \in 0 .. Len(script) /\ m \in l .. Len(script) /\ \A i \in l + 1 .. m : ~ IsWhole(i)
    BY <2>2, <2>3 DEF l
  <2>5. M[m] = M[l]  BY <2>1, <2>4, MadeStays
  <2> QED BY <2>1, <2>5 DEF l
<1>6. fn + 1 \in 1 .. L + 1 /\ fn + 1 > s.pos /\ fn + 1 <= off[m] + 1 /\ fn + 1 .. off[m] = {a + 2}
  BY <1>1
<1>7. NoTag(fn + 1, off[m])  BY <1>1, <1>6 DEF NoTag, L
<1>8. Scanning(s, k, off, M)  BY DEF Reached
<1> DEFINE pos == fn + 1
<1>9. pos \in 1 .. L + 1 /\ pos > s.pos /\ pos <= off[m] + 1 /\ NoTag(pos, off[m])  BY <1>6, <1>7
<1> HIDE DEF pos
<1>10. Goes(s, [s EXCEPT !.pos = pos], off, M)  BY <1>5, <1>8, <1>9, ScanMoves DEF L
<1> QED BY <1>4, <1>10 DEF pos

LEMMA OverCall ==
  ASSUME NEW off, Places(off), NEW M, Counts(M), NEW s, NEW k, NEW m, Reached(s, k, m, off, M),
         script[m].kind = "call", CallAt(off[m - 1], off[m], script[m])
  PROVE  Goes(s, ScanStep(output, s), off, M)
<1> DEFINE a == off[m - 1]
           b == off[m]
           p == script[m]
           L == Len(output)
           N == Len(script)
           fn == a + 1
           name == Find(output, {"name", "open"}, fn, L)
           close == Find(output, {"</function>"}, fn, L)
           body == Find(output, {">", "</param>", "</function>"}, fn, L)
           call == [name |-> output[name].v, args |-> ArgsJson(Params(output, body + 1, close - 1))]
<1>1. /\ a \in Nat /\ L \in Nat /\ N \in Nat /\ m \in 1 .. N /\ m - 1 \in 0 .. N /\ m \in 0 .. N
      /\ fn <= L /\ fn \in Nat \ {0} /\ fn # 0 /\ s.pos <= fn /\ s.pos \in Nat \ {0}
  BY DEF Reached, Scanning, ScanState
<1>2. Find(output, {"<function"}, s.pos, L) = fn /\ ~ AtLimit(s)  BY DEF Reached
<1>3. Scanning(s, k, off, M) /\ M[m - 1] = M[k]  BY DEF Reached
<1> DEFINE n == Len(p.params)
<1>4. b \in Nat /\ n \in Nat /\ b = a + 4 + 5 * n /\ p.params \in Seq(Parameter)
  <2>1. b \in Nat  BY <1>1, PieceIs
  <2> HIDE DEF a, b, p, n
  <2>2. p.params \in Seq(Parameter) /\ b = a + 4 + 5 * n  BY DEF CallAt, a, b, p, n
  <2>3. n \in Nat  BY <2>2 DEF n
  <2> QED BY <2>1, <2>2, <2>3
<1>5. /\ output[fn].t = "<function"
      /\ a + 2 <= L => \/ output[a + 2].t = "name" /\ output[a + 2].v = p.name
                       \/ output[a + 2].t = "open" /\ a + 2 = L
      /\ a + 3 <= L => output[a + 3].t = ">"
      /\ \A i \in a + 4 .. b - 1 : i <= L =>
            output[i].t \in {"<param", "name", "open", ">", "text", "</param>"}
  BY <1>1 DEF CallAt
<1>6. b <= L => /\ output[b].t = "</function>"
                /\ \A j \in 1 .. n : ParamAt(output, a + 3 + 5 * (j - 1), p.params[j])
  BY DEF CallAt
<1> HIDE DEF a, b, p, L, N, n
<1>7. ASSUME ~ IsWhole(m) PROVE M[m] = M[k]
  <2> DEFINE l == m - 1
  <2>1. l \in 0 .. N /\ m \in l .. N /\ (\A i \in l + 1 .. m : i = m) /\ M[l] = M[k]  BY <1>1, <1>3
  <2> HIDE DEF l
  <2>2. \A i \in l + 1 .. m : ~ IsWhole(i)  BY <1>7, <2>1
  <2>3. M[m] = M[l]  BY <1>1, <2>1, <2>2, MadeStays DEF N
  <2> QED BY <2>1, <2>3
<1>8. ASSUME b > L PROVE M[m] = M[k] /\ M[N] = M[k]
  <2>1. ASSUME NEW i \in m .. N PROVE ~ IsWhole(i)
    <3>1. i \in 1 .. N /\ i \in 0 .. N  BY <1>1
    <3>2. b <= off[i] /\ off[i] \in Nat  BY <1>1, PlacesGrow DEF b, N
    <3>3. ~ (off[i] <= L)  BY <1>1, <1>4, <1>8, <3>2
    <3> QED BY <3>1, <3>3 DEF IsWhole, Places, L, N
  <2>2. m \in m .. N  BY <1>1
  <2> DEFINE l == m - 1
  <2>3. l \in 0 .. N /\ N \in l .. N /\ (\A i \in l + 1 .. N : i \in m .. N) /\ M[l] = M[k]
    BY <1>1, <1>3
  <2> HIDE DEF l
  <2>4. \A i \in l + 1 .. N : ~ IsWhole(i)  BY <2>1, <2>3
  <2>5. M[N] = M[l]  BY <1>1, <2>3, <2>4, MadeStays DEF N
  <2> QED BY <1>7, <2>1, <2>2, <2>3, <2>5
<1>9. CASE a + 2 > L
  <2>1. name = 0
    <3>1. \A i \in fn .. L : i = fn  BY <1>1, <1>9
    <3> HIDE DEF fn
    <3>2. \A i \in fn .. L : output[i].t \notin {"name", "open"}  BY <1>5, <3>1
    <3> QED BY <1>1, <3>2, FindNone
  <2> DEFINE pos == fn + 1
  <2>2. ScanStep(output, s) = [s EXCEPT !.pos = pos]
    <3> HIDE DEF fn
    <3> QED BY <1>1, <1>2, <2>1 DEF ScanStep, L
  <2>3. pos \in 1 .. L + 1 /\ pos > s.pos /\ pos <= b + 1 /\ b > L /\ pos > L
    BY <1>1, <1>4, <1>9
  <2>4. NoTag(pos, b)
    <3>1. \A i \in pos .. b : ~ (i <= L)  BY <1>1, <2>3
    <3> HIDE DEF pos
    <3> QED BY <3>1 DEF NoTag, L
  <2>5. M[m] = M[k]  BY <1>8, <2>3
  <2> HIDE DEF pos
  <2>6. Goes(s, [s EXCEPT !.pos = pos], off, M)
    BY <1>1, <1>3, <2>3, <2>4, <2>5, ScanMoves DEF L, N, b
  <2> QED BY <2>2, <2>6
<1>10. CASE a + 2 <= L
  <2>1. name = a + 2
    <3> DEFINE z == a + 2
    <3>1. z \in fn .. L /\ \A i \in fn .. z - 1 : i = fn  BY <1>1, <1>10
    <3>2. output[z].t \in {"name", "open"}  BY <1>5, <1>10
    <3> HIDE DEF fn, z
    <3>3. \A i \in fn .. z - 1 : output[i].t \notin {"name", "open"}  BY <1>5, <3>1
    <3>4. name = z  BY <1>1, <3>1, <3>2, <3>3, FindAt
    <3> QED BY <3>4 DEF z
  <2>2. ~ (name = 0 \/ TooFar(output, fn, name))
    <3>1. name # 0  BY <1>1, <2>1
    <3>2. \A i \in fn .. name - 1 : i = fn
      <4> HIDE DEF name
      <4> QED BY <1>1, <2>1
    <3> HIDE DEF fn, name
    <3>3. ~ TooFar(output, fn, name)  BY <1>5, <3>2 DEF TooFar
    <3> QED BY <3>1, <3>3
  <2> HIDE DEF name, close, body
  <2>3. CASE output[name].t = "open"
    <3>1. a + 2 = L /\ b > L  BY <1>1, <1>4, <1>5, <1>10, <2>1, <2>3
    <3>2. ScanStep(output, s) = [s EXCEPT !.over = TRUE]
      <4> HIDE DEF fn
      <4> QED BY <1>1, <1>2, <2>2, <2>3 DEF ScanStep, name, L
    <3>3. M[N] = M[k]  BY <1>8, <3>1
    <3> QED BY <1>3, <3>2, <3>3, ScanStops DEF N
  <2>4. CASE output[name].t # "open"
    <3>1. output[name].t = "name" /\ output[name].v = p.name  BY <1>5, <1>10, <2>1, <2>4
    <3>2. CASE p.name = <<>>
      <4> DEFINE pos == name + 1
      <4>1. ScanStep(output, s) = [s EXCEPT !.pos = pos]
        <5> HIDE DEF fn
        <5> QED BY <1>1, <1>2, <2>2, <2>4, <3>1, <3>2 DEF ScanStep, SkipUnnamed, name, L
      <4>2. pos = a + 3 /\ pos \in 1 .. L + 1 /\ pos > s.pos /\ pos <= b + 1
        BY <1>1, <1>4, <1>10, <2>1
      <4> HIDE DEF pos
      <4>3. NoTag(pos, b)
        <5>1. ASSUME NEW i \in pos .. b, i <= L PROVE output[i].t # "<function"
          <6>1. i = a + 3 \/ i \in a + 4 .. b - 1 \/ i = b  BY <1>1, <1>4, <4>2
          <6> QED BY <1>5, <1>6, <5>1, <6>1
        <5> QED BY <5>1 DEF NoTag, L
      <4>4. M[m] = M[k]
        <5>1. ~ IsWhole(m)  BY <3>2 DEF IsWhole, p
        <5> QED BY <1>7, <5>1
      <4>5. Goes(s, [s EXCEPT !.pos = pos], off, M)
        BY <1>1, <1>3, <4>2, <4>3, <4>4, ScanMoves DEF L, N, b
      <4> QED BY <4>1, <4>5
    <3>3. CASE p.name # <<>> /\ b > L
      <4>b. b \in Nat /\ b >= a + 4  BY <1>1, <1>4
      <4>1. close = 0
        <5>1. ASSUME NEW i \in fn .. L PROVE output[i].t \notin {"</function>"}
          <6>1. i = fn \/ i = a + 2 \/ i = a + 3 \/ i \in a + 4 .. b - 1
            <7>1. i \in Int /\ a + 1 <= i /\ i <= L  BY <1>1
            <7> QED BY <1>1, <3>3, <4>b, <7>1
          <6> QED BY <1>1, <1>5, <2>1, <3>1, <6>1
        <5> HIDE DEF fn
        <5> QED BY <1>1, <5>1, FindNone DEF close
      <4>2. ScanStep(output, s) = [s EXCEPT !.over = TRUE]
        <5> HIDE DEF fn
        <5> QED BY <1>1, <1>2, <2>2, <2>4, <3>1, <3>3, <4>1 DEF ScanStep, name, close, L
      <4>3. M[N] = M[k]  BY <1>8, <3>3
      <4> QED BY <1>3, <4>2, <4>3, ScanStops DEF N
    <3>4. CASE p.name # <<>> /\ b <= L
      <4>b. b \in Nat /\ b >= a + 4  BY <1>1, <1>4
      <4>1. close = b
        <5>1. b \in fn .. L /\ output[b].t \in {"</function>"}  BY <1>1, <1>4, <1>6, <3>4
        <5>2. ASSUME NEW i \in fn .. b - 1 PROVE output[i].t \notin {"</function>"}
          <6>1. i <= L /\ (i = fn \/ i = a + 2 \/ i = a + 3 \/ i \in a + 4 .. b - 1)
            <7>1. i \in Int /\ a + 1 <= i /\ i <= b - 1  BY <1>1, <4>b
            <7> QED BY <1>1, <3>4, <4>b, <7>1
          <6> QED BY <1>1, <1>5, <2>1, <3>1, <6>1
        <5>3. fn \in Nat \ {0} /\ L \in Int  BY <1>1
        <5> HIDE DEF fn
        <5>4. Find(output, {"</function>"}, fn, L) = b  BY ONLY <5>1, <5>2, <5>3, FindAt
        <5> QED BY <5>4 DEF close
      <4>2. body = a + 3
        <5> DEFINE z == a + 3
        <5>1. z \in fn .. L /\ output[z].t \in {">", "</param>", "</function>"}
          BY <1>1, <1>4, <1>5, <3>4
        <5>2. ASSUME NEW i \in fn .. z - 1
              PROVE  output[i].t \notin {">", "</param>", "</function>"}
          <6>1. i = fn \/ i = a + 2  BY <1>1
          <6> QED BY <1>5, <2>1, <3>1, <6>1
        <5>3. fn \in Nat \ {0} /\ L \in Int  BY <1>1
        <5> HIDE DEF fn, z
        <5>4. Find(output, {">", "</param>", "</function>"}, fn, L) = z
          BY ONLY <5>1, <5>2, <5>3, FindAt
        <5> QED BY <5>4 DEF body, z
      <4>3. ~ (close = 0 \/ body = 0 \/ body >= close)  BY <1>1, <1>4, <4>1, <4>2
      <4>4. ScanStep(output, s) = [s EXCEPT !.pos = close + 1, !.calls = Append(@, call)]
        <5> HIDE DEF fn
        <5> QED BY <1>1, <1>2, <2>2, <2>4, <3>1, <3>4, <4>3 DEF ScanStep, Take, name, close, body, L
      <4>5. call = [name |-> p.name, args |-> ArgsJson(p.params)]
        <5> DEFINE q == a + 3
        <5>1. body + 1 = q + 1 /\ close - 1 = q + 5 * n /\ q \in Nat  BY <1>1, <1>4, <4>1, <4>2
        <5>3. \A j \in 1 .. n : ParamAt(output, q + 5 * (j - 1), p.params[j])  BY <1>6, <3>4
        <5> DEFINE r == p.params
        <5>2. r \in Seq(Parameter) /\ Len(r) = n  BY <1>4 DEF n
        <5> HIDE DEF q, r
        <5>4. Params(output, q + 1, q + 5 * Len(r)) = r
          <6>1. q \in Nat /\ r \in Seq(Parameter)
                /\ \A j \in 1 .. Len(r) : ParamAt(output, q + 5 * (j - 1), r[j])
            BY <5>1, <5>2, <5>3 DEF r
          <6> QED BY ONLY <6>1, ParamsAre
        <5>5. Params(output, body + 1, close - 1) = r  BY <5>1, <5>2, <5>4
        <5> QED BY <3>1, <5>5 DEF r
      <4>6. M[m] = Append(M[m - 1], CallOf(m)) /\ M[m - 1] \in Seq(Called) /\ CallOf(m) \in Called
        <5>1. IsWhole(m)  BY <1>1, <3>4 DEF IsWhole, Places, p, b, L, N
        <5>2. M[m - 1] \in Seq(Called) /\ Len(M[m - 1]) <= MaxCalls  BY <1>1 DEF Counts, N
        <5>3. Len(M[m - 1]) # MaxCalls
          <6>1. Len(Json(M[m - 1])) = Len(M[m - 1])  BY <5>2, JsonIs
          <6>2. s.calls = Json(M[m - 1])  BY <1>3 DEF Scanning
          <6> QED BY <1>2, <6>1, <6>2 DEF AtLimit
        <5>4. Len(M[m - 1]) < MaxCalls
          <6>1. Len(M[m - 1]) \in Nat  BY <5>2
          <6> QED BY <5>2, <5>3, <6>1, ToolCallsAssumption
        <5>5. CallOf(m) \in Called  BY DEF CallAt, CallOf, Called, p
        <5> QED BY <1>1, <5>1, <5>2, <5>4, <5>5 DEF Counts, N
      <4>7. Json(M[m]) = Append(s.calls, call)
        <5>1. s.calls = Json(M[m - 1])  BY <1>3 DEF Scanning
        <5>2. CallOf(m).name = p.name /\ CallOf(m).params = p.params  BY DEF CallOf, p
        <5> DEFINE x == CallOf(m)
                   c == M[m - 1]
        <5> HIDE DEF x, c, call
        <5>3. Json(Append(c, x)) = Append(Json(c), [name |-> x.name, args |-> ArgsJson(x.params)])
          BY <4>6, JsonIs DEF x, c
        <5> QED BY <4>5, <4>6, <5>1, <5>2, <5>3 DEF x, c
      <4>8. [s EXCEPT !.pos = close + 1, !.calls = Append(@, call)] \in ScanState(output)
        <5>1. s \in ScanState(output)  BY <1>3 DEF Scanning
        <5>2. ScanStep(output, s) \in ScanState(output)  BY <1>1, <5>1, ScanStepType DEF L
        <5> QED BY <4>4, <5>2
      <4>9. close \in 1 .. L /\ close >= s.pos  BY <1>1, <1>4, <3>4, <4>1
      <4> HIDE DEF call
      <4>10. Goes(s, [s EXCEPT !.pos = close + 1, !.calls = Append(@, call)], off, M)
        BY <1>1, <1>3, <4>1, <4>7, <4>8, <4>9, ScanTakes DEF L, N, b
      <4> QED BY <4>4, <4>10 DEF call
    <3> QED BY <1>1, <1>4, <3>2, <3>3, <3>4
  <2> QED BY <2>3, <2>4
<1> QED BY <1>1, <1>9, <1>10

LEMMA ScanGoes ==
  ASSUME NEW off, Places(off), NEW M, Counts(M), NEW s, NEW k, Scanning(s, k, off, M)
  PROVE  Goes(s, ScanStep(output, s), off, M)
<1> DEFINE L == Len(output)
           N == Len(script)
           fn == Find(output, {"<function"}, s.pos, L)
<1>1. /\ L \in Nat /\ N \in Nat /\ k \in 0 .. N /\ N \in k .. N /\ N \in 0 .. N
      /\ s.pos \in Nat \ {0} /\ s.pos <= off[k] + 1 /\ s.calls = Json(M[k])
      /\ off[k] \in Nat /\ off[N] \in Nat /\ L <= off[N]
  BY DEF Places, Scanning, ScanState
<1>2. /\ M[k] \in Seq(Called) /\ Len(M[k]) \in Nat /\ Len(M[k]) = Len(s.calls)
  <2>1. M[k] \in Seq(Called)  BY <1>1 DEF Counts
  <2> QED BY <1>1, <2>1, JsonIs
<1>3. \/ fn = 0 /\ \A i \in s.pos .. L : output[i].t \notin {"<function"}
      \/ /\ fn \in s.pos .. L /\ output[fn].t \in {"<function"}
         /\ \A i \in s.pos .. fn - 1 : output[i].t \notin {"<function"}
  <2>1. s.pos \in Nat \ {0} /\ L \in Int  BY <1>1
  <2> HIDE DEF L
  <2> QED BY ONLY <2>1, FindIs
<1> HIDE DEF fn
<1>4. CASE AtLimit(s)
  <2>1. M[N] = M[k]  BY <1>1, <1>2, <1>4, MadeStays DEF AtLimit
  <2>2. ScanStep(output, s) = [s EXCEPT !.over = TRUE]  BY <1>4 DEF ScanStep
  <2> QED BY <2>1, <2>2, ScanStops
<1>5. CASE fn = 0
  <2>1. NoTag(s.pos, off[N])
    <3>1. ASSUME NEW i \in s.pos .. off[N], i <= L PROVE output[i].t # "<function"
      <4>1. i \in s.pos .. L  BY <1>1, <3>1
      <4>2. fn \notin s.pos .. L  BY <1>1, <1>5
      <4> QED BY <1>3, <4>1, <4>2
    <3> QED BY <3>1 DEF NoTag
  <2>2. \A i \in k + 1 .. N : ~ IsWhole(i)
    <3>1. s.pos \in Nat  BY <1>1
    <3> QED BY <1>1, <2>1, <3>1, NoneWhole
  <2>3. M[N] = M[k]  BY <1>1, <2>2, MadeStays
  <2>4. ScanStep(output, s) = [s EXCEPT !.over = TRUE]  BY <1>5 DEF ScanStep, fn
  <2> QED BY <2>3, <2>4, ScanStops
<1>6. CASE ~ AtLimit(s) /\ fn # 0
  <2>1. /\ fn \in s.pos .. L /\ fn \in 1 .. L /\ output[fn].t = "<function"
        /\ \A i \in s.pos .. fn - 1 : output[i].t # "<function"
    BY <1>1, <1>3, <1>6
  <2>2. PICK m \in 1 .. N : /\ fn = off[m - 1] + 1
                            /\ \/ script[m].kind = "stray" /\ StrayAt(off[m - 1], off[m])
                               \/ script[m].kind = "call" /\ CallAt(off[m - 1], off[m], script[m])
    BY <2>1, TagIsAt
  <2>3. off[m - 1] \in Nat /\ off[m] \in Nat /\ off[m - 1] < off[m]  BY PieceIs
  <2>4. fn > off[k]
    <3>1. SUFFICES ASSUME fn <= off[k] PROVE FALSE  BY <1>1, <2>1
    <3>2. fn \in s.pos .. off[k] /\ fn <= L  BY <1>1, <2>1, <3>1
    <3> QED BY <2>1, <3>2 DEF NoTag, Scanning
  <2>5. m - 1 \in k .. N /\ m - 1 \in 0 .. N
    <3>1. SUFFICES ASSUME m <= k PROVE FALSE  BY <1>1
    <3>2. m \in 0 .. N /\ k \in m .. N  BY <1>1, <3>1
    <3>3. off[m] <= off[k]  BY <3>2, PlacesGrow
    <3> QED BY <1>1, <2>2, <2>3, <2>4, <3>3
  <2> DEFINE l == m - 1
  <2>6. M[l] = M[k]
    <3>1. NoTag(s.pos, off[l])
      <4>1. off[l] = fn - 1  BY <2>2, <2>3
      <4> HIDE DEF l
      <4> QED BY <2>1, <4>1 DEF NoTag
    <3>2. l \in k .. N /\ s.pos \in Nat  BY <1>1, <2>5
    <3> HIDE DEF l
    <3>3. \A i \in k + 1 .. l : ~ IsWhole(i)  BY <1>1, <3>1, <3>2, NoneWhole
    <3> QED BY <1>1, <3>2, <3>3, MadeStays
  <2>7. Reached(s, k, m, off, M)
    <3>1. off[m - 1] + 1 <= L /\ s.pos <= off[m - 1] + 1  BY <1>1, <2>1, <2>2
    <3>2. Find(output, {"<function"}, s.pos, L) = off[m - 1] + 1  BY <2>2 DEF fn
    <3> QED BY <1>1, <1>6, <2>3, <2>6, <3>1, <3>2 DEF Reached
  <2>8. CASE script[m].kind = "stray" /\ StrayAt(off[m - 1], off[m])  BY <2>7, <2>8, OverStray
  <2>9. CASE script[m].kind = "call" /\ CallAt(off[m - 1], off[m], script[m])
    BY <2>7, <2>9, OverCall
  <2> QED BY <2>2, <2>8, <2>9
<1> QED BY <1>4, <1>5, <1>6

\* Detection ends, wherever the output is cut off, and has found what is there.
LEMMA DetectionIsRight ==
  ASSUME script \in Seq(Pieces), output \in Cuts(script)
  PROVE  /\ Scanned(output).over = TRUE /\ Scanned(output).calls = Json(CallsMade)
         /\ Scanned(output).pos \in 1 .. Len(output) + 1
         /\ Len(Scanned(output).calls) <= MaxCalls
         /\ CallsMade \in Seq(Called) /\ Len(output) \in Nat
<1> DEFINE L == Len(output)
           N == Len(script)
<1>1. PICK off : Places(off)  BY PlacesExist
<1>2. PICK M : Counts(M) /\ CallsMade = M[N]  BY MadeIs
<1>3. L \in Nat /\ N \in Nat /\ off[0] = 0 /\ M[0] = <<>>  BY <1>1, <1>2 DEF Places, Counts
<1>4. PICK S : ScanRounds(S, output) /\ Scanned(output) = S[L + 1]  BY <1>3, ScannedIs
<1>5. /\ S[0] = NewScan /\ \A i \in 0 .. L + 1 : S[i] \in ScanState(output)
      /\ \A i \in 1 .. L + 1 : S[i] = IF S[i - 1].over THEN S[i - 1] ELSE ScanStep(output, S[i - 1])
  BY <1>4 DEF ScanRounds
<1> DEFINE R == {n \in 0 .. L + 1 :
                    \/ ScanDone(S[n], M)
                    \/ S[n].pos >= n + 1 /\ \E k \in 0 .. N : Scanning(S[n], k, off, M)}
           e == L + 1
<1>6. 0 \in R
  <2>1. S[0].pos = 1 /\ S[0].calls = <<>> /\ S[0].over = FALSE /\ S[0] \in ScanState(output)
    <3>1. 0 \in 0 .. L + 1  BY <1>3
    <3> QED BY <1>5, <3>1 DEF NewScan
  <2>2. NoTag(1, off[0])  BY <1>3 DEF NoTag
  <2>3. Json(M[0]) = <<>>  BY <1>3 DEF Json
  <2>4. Scanning(S[0], 0, off, M)  BY <1>3, <2>1, <2>2, <2>3 DEF Scanning
  <2>5. 0 \in 0 .. N /\ 0 \in 0 .. L + 1 /\ S[0].pos >= 0 + 1  BY <1>3, <2>1
  <2> QED BY <2>4, <2>5
<1>7. ASSUME NEW n \in 0 .. e - 1, n \in R PROVE n + 1 \in R
  <2> DEFINE l == n + 1
             s == S[n]
  <2>1. l \in 1 .. L + 1 /\ l \in 0 .. L + 1 /\ l - 1 = n /\ n \in Nat  BY <1>3
  <2>2. \/ ScanDone(s, M)
        \/ s.pos >= n + 1 /\ \E k \in 0 .. N : Scanning(s, k, off, M)
    BY <1>7
  <2> HIDE DEF l, s
  <2>3. S[l] = IF s.over THEN s ELSE ScanStep(output, s)  BY <1>5, <2>1 DEF s
  <2>4. CASE ScanDone(s, M)
    <3>1. S[l] = s  BY <2>3, <2>4 DEF ScanDone
    <3> QED BY <2>1, <2>4, <3>1 DEF l
  <2>5. CASE s.pos >= n + 1 /\ \E k \in 0 .. N : Scanning(s, k, off, M)
    <3>1. PICK k \in 0 .. N : Scanning(s, k, off, M)  BY <2>5
    <3>2. S[l] = ScanStep(output, s)  BY <2>3, <3>1 DEF Scanning
    <3>3. Goes(s, S[l], off, M)  BY <1>1, <1>2, <3>1, <3>2, ScanGoes
    <3>4. \/ ScanDone(S[l], M)
          \/ S[l].pos > s.pos /\ \E m \in 0 .. N : Scanning(S[l], m, off, M)
      BY <3>3 DEF Goes
    <3>5. S[l].pos > s.pos => S[l].pos >= l + 1
      <4>1. s.pos \in Nat  BY <3>1 DEF Scanning, ScanState
      <4>2. S[l].pos \in Nat
        <5>1. S[l] \in ScanState(output)  BY <1>5, <2>1
        <5> QED BY <5>1 DEF ScanState
      <4> QED BY <2>1, <2>5, <4>1, <4>2 DEF l
    <3>6. l \in R  BY <2>1, <3>4, <3>5
    <3> QED BY <3>6 DEF l
  <2> QED BY <2>2, <2>4, <2>5
<1>8. ScanDone(S[e], M)
  <2>1. e \in Nat /\ e \in 0 .. e  BY <1>3
  <2>2. e \in R
    <3> HIDE DEF R, e
    <3>1. \A n \in 0 .. e : n \in R  BY ONLY <1>6, <1>7, <2>1, Induct
    <3> QED BY <2>1, <3>1
  <2>3. ASSUME S[e].pos >= e + 1, NEW k \in 0 .. N, Scanning(S[e], k, off, M) PROVE FALSE
    <3>1. S[e].pos \in 1 .. L + 1  BY <2>3 DEF Scanning
    <3> QED BY <1>3, <2>3, <3>1
  <2> QED BY <2>2, <2>3
<1>9. CallsMade \in Seq(Called) /\ Len(CallsMade) <= MaxCalls
  <2>1. N \in 0 .. N  BY <1>3
  <2> QED BY <1>2, <2>1 DEF Counts
<1>10. Len(Json(CallsMade)) <= MaxCalls  BY <1>9, JsonIs
<1> HIDE DEF e
<1>11. Scanned(output).over = TRUE /\ Scanned(output).calls = Json(CallsMade)
       /\ Scanned(output).pos \in 1 .. L + 1
  BY <1>2, <1>4, <1>8 DEF ScanDone, e
<1> QED BY <1>3, <1>9, <1>10, <1>11

-----------------------------------------------------------------------------
(* JsonValue::parse() *)

Char == STRING \cup {"{", "}", ",", ":", "QUOTE"}
Place == Nat \ {0}
Literal == [chars : Seq(Char), next : Place]
Member == [name : Seq(Char), value : Seq(Char)]

\* R is what there is to read of a string literal, from each place on.
Reads(R, s) ==
    /\ R \in [Place -> Literal]
    /\ \A i \in Place :
          R[i] = IF i > Len(s) THEN [chars |-> <<>>, next |-> i]
                 ELSE IF s[i] = "QUOTE" \/ (s[i] = "BACKSLASH" /\ i = Len(s))
                   THEN [chars |-> <<>>, next |-> i + 1]
                 ELSE IF s[i] = "BACKSLASH"
                   THEN [chars |-> <<s[i + 1]>> \o R[i + 2].chars, next |-> R[i + 2].next]
                 ELSE [chars |-> <<s[i]>> \o R[i + 1].chars, next |-> R[i + 1].next]

LEMMA ConsType ==
  ASSUME NEW T, NEW c \in T, NEW r \in Seq(T) PROVE <<c>> \o r \in Seq(T)
<1>1. <<c>> \in Seq(T)  OBVIOUS
<1> QED BY ONLY <1>1, r \in Seq(T), ConcatProperties

LEMMA ReadStringIs ==
  ASSUME NEW s \in Seq(Char)
  PROVE  \E R : Reads(R, s) /\ \A from \in Place : ReadString(s, from) = R[from]
<1> DEFINE n == Len(s)
           U == [Place -> Literal]
           Empty(i) == [chars |-> <<>>, next |-> i]
           With(c, rest) == [chars |-> <<c>> \o rest.chars, next |-> rest.next]
           Step(i, f) == IF s[i] = "QUOTE" \/ (s[i] = "BACKSLASH" /\ i = n) THEN Empty(i + 1)
                         ELSE IF s[i] = "BACKSLASH" THEN With(s[i + 1], f[i + 2])
                         ELSE With(s[i], f[i + 1])
           h == [i \in Place |-> Empty(i)]
           g == [p \in (1 .. n) \X U |-> Step(p[1], p[2])]
           Is(f) == f = [i \in Place |-> IF i > n THEN Empty(i) ELSE Step(i, f)]
<1>0. n \in Nat /\ \A i \in 1 .. n : s[i] \in Char  OBVIOUS
<1>1. \A i \in Place : Empty(i) \in Literal
  <2>1. <<>> \in Seq(Char)  OBVIOUS
  <2> QED BY <2>1 DEF Literal
<1>2. \A c \in Char, rest \in Literal : With(c, rest) \in Literal
  <2> SUFFICES ASSUME NEW c \in Char, NEW rest \in Literal PROVE With(c, rest) \in Literal
    OBVIOUS
  <2>1. rest.chars \in Seq(Char) /\ rest.next \in Place  BY DEF Literal
  <2>2. <<c>> \o rest.chars \in Seq(Char)  BY <2>1, ConsType
  <2> QED BY <2>1, <2>2 DEF Literal
<1>3. ASSUME NEW i \in 1 .. n, NEW f \in U PROVE Step(i, f) \in Literal
  <2> HIDE DEF Empty, With
  <2>1. i + 1 \in Place /\ i + 2 \in Place  BY DEF Place
  <2>2. s[i] \in Char /\ (i # n => s[i + 1] \in Char)  BY <1>0
  <2> QED BY <1>1, <1>2, <2>1, <2>2
<1>4. h \in U /\ g \in [(1 .. n) \X U -> Literal]
  <2>1. h \in U  BY <1>1
  <2> HIDE DEF Step, U
  <2> QED BY <1>3, <2>1
<1>5. \A i \in 1 .. n : \A f, e \in U : Above(f, e, i) => g[<<i, f>>] = g[<<i, e>>]
  <2> SUFFICES ASSUME NEW i \in 1 .. n, NEW f \in U, NEW e \in U, Above(f, e, i)
               PROVE  Step(i, f) = Step(i, e)
    <3> HIDE DEF Step, U
    <3> QED OBVIOUS
  <2>1. f[i + 1] = e[i + 1] /\ f[i + 2] = e[i + 2]  BY DEF Above
  <2> QED BY <2>1
<1>6. PICK R \in U : Descends(R, n, h, g)
  <2>1. /\ n \in Nat /\ h \in [Nat \ {0} -> Literal]
        /\ g \in [(1 .. n) \X [Nat \ {0} -> Literal] -> Literal]
        /\ \A i \in 1 .. n : \A f, e \in [Nat \ {0} -> Literal] :
              Above(f, e, i) => g[<<i, f>>] = g[<<i, e>>]
    BY <1>0, <1>4, <1>5 DEF Place
  <2> HIDE DEF n, g, h
  <2>2. \E f \in [Nat \ {0} -> Literal] : Descends(f, n, h, g)  BY ONLY <2>1, DescentExists
  <2> QED BY <2>2 DEF Place
<1>7. \A i \in Place : R[i] = IF i > n THEN Empty(i) ELSE Step(i, R)
  <2> SUFFICES ASSUME NEW i \in Place PROVE R[i] = IF i > n THEN Empty(i) ELSE Step(i, R)
    OBVIOUS
  <2>1. R[i] = IF i > n THEN h[i] ELSE g[<<i, R>>]
    <3> HIDE DEF n, g, h
    <3> QED BY <1>6 DEF Descends, Place
  <2>2. h[i] = Empty(i)  OBVIOUS
  <2>3. ~ (i > n) => g[<<i, R>>] = Step(i, R)
    <3>1. ~ (i > n) => i \in 1 .. n  BY <1>0 DEF Place
    <3> HIDE DEF Step, U, n
    <3> QED BY <3>1
  <2> HIDE DEF g, h, Step, Empty
  <2> QED BY <2>1, <2>2, <2>3
<1>8. Is(R)
  <2> HIDE DEF Step, Empty
  <2>1. R = [i \in Place |-> R[i]]  OBVIOUS
  <2> QED BY <1>7, <2>1
<1> DEFINE f == CHOOSE f : Is(f)
<1>9. Is(f)
  <2> HIDE DEF Is
  <2> QED BY <1>8
<1>10. \A i \in Place : f[i] = R[i]
  <2> DEFINE S == {i \in Place : f[i] = R[i]}
  <2>1. \A i \in Place : f[i] = IF i > n THEN Empty(i) ELSE Step(i, f)
    <3> HIDE DEF f, Step, Empty
    <3> QED BY <1>9
  <2>2. ASSUME NEW i \in 1 .. n, \A j \in Nat \ {0} : j > i => j \in S PROVE i \in S
    <3>1. i + 1 \in S /\ i + 2 \in S
      <4>1. i + 1 \in Nat \ {0} /\ i + 1 > i /\ i + 2 \in Nat \ {0} /\ i + 2 > i  BY <1>0
      <4> HIDE DEF S, f
      <4> QED BY <2>2, <4>1
    <3>2. Step(i, f) = Step(i, R)
      <4> HIDE DEF f
      <4> QED BY <3>1
    <3>3. i \in Place /\ ~ (i > n)  BY <1>0 DEF Place
    <3> HIDE DEF f, Step, Empty
    <3> QED BY <1>7, <2>1, <3>2, <3>3
  <2>3. \A i \in Nat \ {0} : i > n => i \in S
    <3> HIDE DEF f, Step, Empty
    <3> QED BY <1>7, <2>1 DEF Place
  <2> HIDE DEF S
  <2>4. \A i \in Nat \ {0} : i \in S  BY ONLY <1>0, <2>2, <2>3, Descend
  <2> QED BY <2>4 DEF S, Place
<1>11. \A from \in Place : ReadString(s, from) = f[from]
  BY DEF ReadString, Place
<1>12. Reads(R, s)
  <2>1. \A i \in Place : R[i] = IF i > n THEN Empty(i) ELSE Step(i, R)  BY <1>7
  <2> QED BY <2>1 DEF Reads
<1> HIDE DEF f
<1> QED BY <1>10, <1>11, <1>12

\* What is read ends behind its first place.
LEMMA ReadsOn ==
  ASSUME NEW s \in Seq(Char), NEW from \in Place
  PROVE  ReadString(s, from) \in Literal /\ ReadString(s, from).next >= from
<1>1. PICK R : Reads(R, s) /\ \A i \in Place : ReadString(s, i) = R[i]  BY ReadStringIs
<1> DEFINE n == Len(s)
           S == {i \in Place : R[i].next >= i}
<1>0. n \in Nat  OBVIOUS
<1>2. \A i \in Place : R[i] \in Literal /\ R[i].next \in Nat  BY <1>1 DEF Reads, Literal, Place
<1>3. \A i \in Nat \ {0} : i > n => i \in S
  <2> SUFFICES ASSUME NEW i \in Place, i > n PROVE R[i].next >= i  BY DEF Place
  <2>1. R[i] = [chars |-> <<>>, next |-> i]  BY <1>1, i > Len(s) DEF Reads
  <2> QED BY <2>1 DEF Place
<1>4. ASSUME NEW i \in 1 .. n, \A j \in Nat \ {0} : j > i => j \in S PROVE i \in S
  <2>1. i + 1 \in S /\ i + 2 \in S /\ i \in Place /\ ~ (i > n)  BY <1>4 DEF Place
  <2>2. R[i].next = i + 1 \/ R[i].next = R[i + 1].next \/ R[i].next = R[i + 2].next
    <3>1. \/ R[i] = [chars |-> <<>>, next |-> i + 1]
          \/ R[i] = [chars |-> <<s[i + 1]>> \o R[i + 2].chars, next |-> R[i + 2].next]
          \/ R[i] = [chars |-> <<s[i]>> \o R[i + 1].chars, next |-> R[i + 1].next]
      BY <1>1, <2>1, ~ (i > Len(s)) DEF Reads
    <3> QED BY <3>1
  <2> QED BY <1>2, <2>1, <2>2 DEF Place
<1> HIDE DEF S
<1>5. \A i \in Nat \ {0} : i \in S  BY ONLY <1>0, <1>3, <1>4, Descend
<1> QED BY <1>1, <1>2, <1>5 DEF S, Place

\* A literal without quote and backslash is read as it is.
LEMMA PlainIsRead ==
  ASSUME NEW s \in Seq(Char), NEW from \in Place, NEW text \in Seq(Char),
         from + Len(text) <= Len(s), s[from + Len(text)] = "QUOTE",
         \A j \in 1 .. Len(text) : /\ s[from + j - 1] = text[j]
                                   /\ text[j] # "QUOTE" /\ text[j] # "BACKSLASH"
  PROVE  ReadString(s, from) = [chars |-> text, next |-> from + Len(text) + 1]
<1>1. PICK R : Reads(R, s) /\ \A i \in Place : ReadString(s, i) = R[i]  BY ReadStringIs
<1> DEFINE n == Len(text)
           L == Len(s)
           Read(k) == [chars |-> SubSeq(text, n - k + 1, n), next |-> from + n + 1]
           S == {k \in 0 .. n : R[from + n - k] = Read(k)}
<1>0. n \in Nat /\ L \in Nat /\ from \in Nat /\ from >= 1  BY DEF Place
<1>2. 0 \in S
  <2> DEFINE p == from + n
  <2>1. p \in Place /\ ~ (p > L) /\ s[p] = "QUOTE"  BY <1>0 DEF Place
  <2> HIDE DEF p
  <2>2. R[p] = [chars |-> <<>>, next |-> p + 1]  BY <1>1, <2>1 DEF Reads
  <2>3. SubSeq(text, n - 0 + 1, n) = <<>>  BY <1>0
  <2>4. p = from + n - 0  BY <1>0 DEF p
  <2> QED BY <1>0, <2>2, <2>3, <2>4 DEF p
<1>3. ASSUME NEW k \in 0 .. n - 1, k \in S PROVE k + 1 \in S
  <2> DEFINE l == k + 1
             a == n - k
             p == from + n - l
             rest == SubSeq(text, a + 1, n)
  <2>1. a \in 1 .. n /\ p = from + a - 1 /\ p + 1 = from + n - k /\ p \in Place /\ ~ (p > L)
        /\ l \in 0 .. n /\ n - l + 1 = a /\ n - k + 1 = a + 1
    BY <1>0 DEF Place
  <2>2. R[p + 1] = [chars |-> rest, next |-> from + n + 1]  BY <1>3, <2>1
  <2>3. s[p] = text[a] /\ text[a] # "QUOTE" /\ text[a] # "BACKSLASH"  BY <2>1
  <2>4. <<text[a]>> \o SubSeq(text, a + 1, n) = SubSeq(text, a, n)
    BY ONLY <2>1, text \in Seq(Char), RestFrom
  <2> HIDE DEF p, rest, a, l
  <2>5. R[p] = [chars |-> <<s[p]>> \o R[p + 1].chars, next |-> R[p + 1].next]
    BY <1>1, <2>1, <2>3 DEF Reads
  <2>6. R[p + 1].chars = rest /\ R[p + 1].next = from + n + 1  BY <2>2
  <2>7. R[p] = [chars |-> SubSeq(text, a, n), next |-> from + n + 1]
    BY <2>3, <2>4, <2>5, <2>6 DEF rest
  <2>8. R[from + n - l] = Read(l)  BY <2>1, <2>7 DEF p
  <2> QED BY <2>1, <2>8 DEF l
<1> HIDE DEF S
<1>4. \A k \in 0 .. n : k \in S  BY ONLY <1>0, <1>2, <1>3, Induct
<1>5. n \in 0 .. n /\ from + n - n = from /\ n - n + 1 = 1  BY <1>0
<1>6. R[from] = Read(n)  BY <1>4, <1>5 DEF S
<1>7. SubSeq(text, 1, n) = text  OBVIOUS
<1> QED BY <1>1, <1>5, <1>6, <1>7

LEMMA FirstIs ==
  ASSUME NEW s \in Seq(Char), NEW kinds, NEW from \in Place
  PROVE  /\ First(s, kinds, from) \in Place
         /\ First(s, kinds, from) <= Len(s) => First(s, kinds, from) >= from
         /\ from <= Len(s) /\ s[from] \in kinds => First(s, kinds, from) = from
<1> DEFINE at == {i \in from .. Len(s) : s[i] \in kinds}
           f == First(s, kinds, from)
<1>0. Len(s) \in Nat /\ from \in Nat \ {0} /\ Len(s) + 1 \in Nat \ {0}  BY DEF Place
<1>1. CASE at = {}
  <2>1. f = Len(s) + 1  BY <1>1 DEF First
  <2>2. ~ (from <= Len(s) /\ s[from] \in kinds)  BY <1>0, <1>1
  <2> HIDE DEF f
  <2> QED BY <1>0, <2>1, <2>2 DEF Place, f
<1>2. CASE at # {}
  <2>1. at \in SUBSET Nat  BY <1>0
  <2>2. \E i \in at : \A j \in at : i <= j
    <3> HIDE DEF at
    <3> QED BY ONLY <1>2, <2>1, LeastOf
  <2>3. f = CHOOSE i \in at : \A j \in at : i <= j  BY <1>2 DEF First
  <2>4. f \in at /\ \A j \in at : f <= j
    <3> HIDE DEF at, f
    <3> QED BY <2>2, <2>3
  <2>5. f \in from .. Len(s)  BY <2>4
  <2>6. from <= Len(s) /\ s[from] \in kinds => from \in at  BY <1>0
  <2> HIDE DEF f, at
  <2>7. f \in Nat \ {0} /\ f >= from  BY <1>0, <2>5
  <2>8. from <= Len(s) /\ s[from] \in kinds => f = from
    <3> SUFFICES ASSUME from <= Len(s), s[from] \in kinds PROVE f = from  OBVIOUS
    <3>1. f <= from  BY <2>4, <2>6
    <3> QED BY <1>0, <2>7, <3>1
  <2> QED BY <2>7, <2>8 DEF Place, f
<1> QED BY <1>1, <1>2

\* One member of an object, whose name opens at place i, and where the next may open.
KeyAt(s, i)   == ReadString(s, i + 1)
ValueAt(s, i) == ReadString(s, KeyAt(s, i).next + 2)
MemberAt(s, i) == [name |-> KeyAt(s, i).chars, value |-> ValueAt(s, i).chars]
EndOf(s, i)   == First(s, {",", "}"}, ValueAt(s, i).next)

LEMMA MemberIs ==
  ASSUME NEW s \in Seq(Char), NEW i \in Place
  PROVE  /\ MemberAt(s, i) \in Member /\ EndOf(s, i) \in Place
         /\ EndOf(s, i) <= Len(s) => EndOf(s, i) > i
<1> DEFINE a == i + 1
           key == KeyAt(s, i)
           b == key.next + 2
           value == ValueAt(s, i)
           e == EndOf(s, i)
<1>1. a \in Place /\ i \in Nat  BY DEF Place
<1>2. key \in Literal /\ key.next >= a
  <2> HIDE DEF a
  <2>1. ReadString(s, a) \in Literal /\ ReadString(s, a).next >= a  BY <1>1, ReadsOn
  <2> QED BY <2>1 DEF KeyAt, a
<1> HIDE DEF key
<1>3. key.chars \in Seq(Char) /\ key.next \in Nat  BY <1>2 DEF Literal, Place
<1>4. b \in Place /\ b > i  BY <1>1, <1>2, <1>3 DEF Place
<1>5. value \in Literal /\ value.next >= b
  <2> HIDE DEF b
  <2>1. ReadString(s, b) \in Literal /\ ReadString(s, b).next >= b  BY <1>4, ReadsOn
  <2> QED BY <2>1 DEF ValueAt, b, key
<1> HIDE DEF value, b
<1>6. value.chars \in Seq(Char) /\ value.next \in Place  BY <1>5 DEF Literal
<1>7. e \in Place /\ (e <= Len(s) => e >= value.next)
  <2> DEFINE v == value.next
  <2>1. v \in Place  BY <1>6
  <2> HIDE DEF v
  <2>2. First(s, {",", "}"}, v) \in Place
        /\ (First(s, {",", "}"}, v) <= Len(s) => First(s, {",", "}"}, v) >= v)
    BY <2>1, FirstIs
  <2> QED BY <2>2 DEF EndOf, v, value
<1>8. MemberAt(s, i) \in Member
  <2>1. [name |-> key.chars, value |-> value.chars] \in Member  BY <1>3, <1>6 DEF Member
  <2> QED BY <2>1 DEF MemberAt, key, value
<1> HIDE DEF e
<1>9. e <= Len(s) => e > i
  <2> DEFINE v == value.next
  <2>1. v \in Nat /\ e \in Nat /\ b \in Nat /\ v >= b  BY <1>4, <1>5, <1>6, <1>7 DEF Place
  <2>2. e <= Len(s) => e >= v  BY <1>7
  <2> HIDE DEF v
  <2> QED BY <1>1, <1>4, <2>1, <2>2
<1> QED BY <1>7, <1>8, <1>9 DEF e

\* M is what there is to read of an object, from each place on.
MembersFrom(M, s) ==
    /\ M \in [Place -> Seq(Member)]
    /\ \A i \in Place :
          M[i] = IF i > Len(s) \/ s[i] # "QUOTE" THEN <<>>
                 ELSE <<MemberAt(s, i)>>
                      \o IF EndOf(s, i) <= Len(s) /\ s[EndOf(s, i)] = "," THEN M[EndOf(s, i) + 1] ELSE <<>>

LEMMA ReadMembersIs ==
  ASSUME NEW s \in Seq(Char)
  PROVE  \E M : MembersFrom(M, s) /\ \A from \in Place : ReadMembers(s, from) = M[from]
<1> DEFINE n == Len(s)
           R == Seq(Member)
           U == [Place -> R]
           More(i) == EndOf(s, i) <= n /\ s[EndOf(s, i)] = ","
           Rest(i, f) == IF More(i) THEN f[EndOf(s, i) + 1] ELSE <<>>
           Step(i, f) == IF s[i] # "QUOTE" THEN <<>> ELSE <<MemberAt(s, i)>> \o Rest(i, f)
           h == [i \in Place |-> <<>>]
           g == [p \in (1 .. n) \X U |-> Step(p[1], p[2])]
           Is(f) == f = [i \in Place |-> IF i > n \/ s[i] # "QUOTE" THEN <<>>
                                          ELSE <<MemberAt(s, i)>> \o Rest(i, f)]
<1>0. n \in Nat  OBVIOUS
<1>e. <<>> \in R  OBVIOUS
<1>m. \A i \in Place : MemberAt(s, i) \in Member /\ EndOf(s, i) + 1 \in Place
                       /\ (More(i) => EndOf(s, i) + 1 > i)
  <2> SUFFICES ASSUME NEW i \in Place
               PROVE  MemberAt(s, i) \in Member /\ EndOf(s, i) + 1 \in Place
                      /\ (More(i) => EndOf(s, i) + 1 > i)
    OBVIOUS
  <2>1. /\ MemberAt(s, i) \in Member /\ EndOf(s, i) \in Place
        /\ EndOf(s, i) <= Len(s) => EndOf(s, i) > i
    BY MemberIs
  <2> DEFINE e == EndOf(s, i)
  <2>2. e \in Place /\ (e <= n => e > i) /\ i \in Nat  BY <2>1 DEF Place
  <2>3. More(i) => e <= n  OBVIOUS
  <2> HIDE DEF e, n, More
  <2>4. e + 1 \in Place /\ (More(i) => e + 1 > i)  BY <2>2, <2>3 DEF Place
  <2> QED BY <2>1, <2>4 DEF e
<1>3. ASSUME NEW i \in 1 .. n, NEW f \in U PROVE Step(i, f) \in R
  <2>1. i \in Place  BY DEF Place
  <2>2. Rest(i, f) \in R
    <3> HIDE DEF R, More
    <3> QED BY <1>e, <1>m, <2>1
  <2> DEFINE m == MemberAt(s, i)
             r == Rest(i, f)
  <2>3. m \in Member  BY <1>m, <2>1
  <2> HIDE DEF m, r
  <2>4. <<m>> \o r \in R  BY <2>2, <2>3, ConsType DEF r
  <2> QED BY <1>e, <2>4 DEF m, r
<1>4. h \in U /\ g \in [(1 .. n) \X U -> R]
  <2>1. h \in U  BY <1>e
  <2> HIDE DEF Step, U, R
  <2> QED BY <1>3, <2>1
<1>5. \A i \in 1 .. n : \A f, e \in U : Above(f, e, i) => g[<<i, f>>] = g[<<i, e>>]
  <2> SUFFICES ASSUME NEW i \in 1 .. n, NEW f \in U, NEW e \in U, Above(f, e, i)
               PROVE  Step(i, f) = Step(i, e)
    <3> HIDE DEF Step, U
    <3> QED OBVIOUS
  <2>1. i \in Place  BY DEF Place
  <2>2. Rest(i, f) = Rest(i, e)
    <3> HIDE DEF More
    <3> QED BY <1>m, <2>1 DEF Above, Place
  <2> HIDE DEF Rest
  <2> QED BY <2>2
<1>6. PICK M \in U : Descends(M, n, h, g)
  <2>1. /\ n \in Nat /\ h \in [Nat \ {0} -> R]
        /\ g \in [(1 .. n) \X [Nat \ {0} -> R] -> R]
        /\ \A i \in 1 .. n : \A f, e \in [Nat \ {0} -> R] :
              Above(f, e, i) => g[<<i, f>>] = g[<<i, e>>]
    BY <1>0, <1>4, <1>5 DEF Place
  <2> HIDE DEF n, g, h, R
  <2>2. \E f \in [Nat \ {0} -> R] : Descends(f, n, h, g)  BY ONLY <2>1, DescentExists
  <2> QED BY <2>2 DEF Place
<1>7. \A i \in Place : M[i] = IF i > n THEN <<>> ELSE Step(i, M)
  <2> SUFFICES ASSUME NEW i \in Place PROVE M[i] = IF i > n THEN <<>> ELSE Step(i, M)
    OBVIOUS
  <2>1. M[i] = IF i > n THEN h[i] ELSE g[<<i, M>>]
    <3> HIDE DEF n, g, h
    <3> QED BY <1>6 DEF Descends, Place
  <2>2. h[i] = <<>>  OBVIOUS
  <2>3. ~ (i > n) => g[<<i, M>>] = Step(i, M)
    <3>1. ~ (i > n) => i \in 1 .. n  BY <1>0 DEF Place
    <3> HIDE DEF Step, U, n
    <3> QED BY <3>1
  <2> HIDE DEF g, h, Step
  <2> QED BY <2>1, <2>2, <2>3
<1>8. \A i \in Place : M[i] = IF i > n \/ s[i] # "QUOTE" THEN <<>>
                              ELSE <<MemberAt(s, i)>> \o Rest(i, M)
  <2> HIDE DEF Rest
  <2> QED BY <1>7
<1>9. Is(M)
  <2> HIDE DEF Rest
  <2>1. M = [i \in Place |-> M[i]]  OBVIOUS
  <2> QED BY <1>8, <2>1
<1> DEFINE f == CHOOSE f : Is(f)
<1>10. Is(f)
  <2> HIDE DEF Is
  <2> QED BY <1>9
<1>11. \A i \in Place : f[i] = M[i]
  <2> DEFINE S == {i \in Place : f[i] = M[i]}
  <2>1. \A i \in Place : f[i] = IF i > n \/ s[i] # "QUOTE" THEN <<>>
                                 ELSE <<MemberAt(s, i)>> \o Rest(i, f)
    <3> HIDE DEF f, Rest
    <3> QED BY <1>10
  <2>2. ASSUME NEW i \in 1 .. n, \A j \in Nat \ {0} : j > i => j \in S PROVE i \in S
    <3>1. i \in Place  BY DEF Place
    <3>2. Rest(i, f) = Rest(i, M)
      <4> DEFINE e == EndOf(s, i) + 1
      <4>1. More(i) => e \in Nat \ {0} /\ e > i  BY <1>m, <3>1 DEF Place
      <4>2. More(i) => e \in S
        <5> HIDE DEF S, e, More
        <5> QED BY <2>2, <4>1
      <4> HIDE DEF f, More
      <4> QED BY <4>2
    <3> HIDE DEF f, Rest
    <3> QED BY <1>8, <2>1, <3>1, <3>2
  <2>3. \A i \in Nat \ {0} : i > n => i \in S
    <3> HIDE DEF f, Rest
    <3> QED BY <1>8, <2>1 DEF Place
  <2> HIDE DEF S
  <2>4. \A i \in Nat \ {0} : i \in S  BY ONLY <1>0, <2>2, <2>3, Descend
  <2> QED BY <2>4 DEF S, Place
<1>12. \A from \in Place : ReadMembers(s, from) = f[from]
  BY DEF ReadMembers, Place, MemberAt, KeyAt, ValueAt, EndOf
<1>13. MembersFrom(M, s)
  <2>1. M \in [Place -> Seq(Member)]  OBVIOUS
  <2> QED BY <1>8, <2>1 DEF MembersFrom
<1> HIDE DEF f
<1> QED BY <1>11, <1>12, <1>13

-----------------------------------------------------------------------------
(* The JSON of the arguments *)

\* x is the text of parameter q, behind c commas.
IsPair(x, c, q) ==
    LET n == Len(q.name)
        v == Len(q.value)
    IN  /\ x \in Seq(Char) /\ Len(x) = c + n + v + 5
        /\ c = 1 => x[1] = ","
        /\ x[c + 1] = "QUOTE" /\ \A j \in 1 .. n : x[c + 1 + j] = q.name[j]
        /\ x[c + n + 2] = "QUOTE" /\ x[c + n + 3] = ":" /\ x[c + n + 4] = "QUOTE"
        /\ \A j \in 1 .. v : x[c + n + 4 + j] = q.value[j]
        /\ x[c + n + v + 5] = "QUOTE"

LEMMA CharsAre == \A x \in Seq(STRING) : x \in Seq(Char)
<1> DEFINE A == STRING
<1>1. A \subseteq Char  BY DEF Char
<1> HIDE DEF A
<1>2. \A x \in Seq(A) : x \in Seq(Char)
  <2> SUFFICES ASSUME NEW x \in Seq(A) PROVE x \in Seq(Char)  OBVIOUS
  <2>1. Len(x) \in Nat /\ x \in [1 .. Len(x) -> A]  OBVIOUS
  <2>2. x \in [1 .. Len(x) -> Char]  BY <1>1, <2>1
  <2> QED BY <2>1, <2>2
<1> QED BY <1>2 DEF A

LEMMA RowOf1 ==
  ASSUME NEW T, NEW a \in T PROVE <<a>> \in Seq(T) /\ Len(<<a>>) = 1 /\ <<a>>[1] = a
OBVIOUS

LEMMA RowOf3 ==
  ASSUME NEW T, NEW a \in T, NEW b \in T, NEW c \in T
  PROVE  /\ <<a, b, c>> \in Seq(T) /\ Len(<<a, b, c>>) = 3
         /\ <<a, b, c>>[1] = a /\ <<a, b, c>>[2] = b /\ <<a, b, c>>[3] = c
OBVIOUS

Commas(c) == IF c = 1 THEN <<",">> ELSE <<>>
LEMMA PairIs ==
  ASSUME NEW q \in Parameter, NEW c \in {0, 1}
  PROVE  IsPair(Commas(c) \o <<"QUOTE">> \o q.name \o <<"QUOTE", ":", "QUOTE">> \o q.value \o <<"QUOTE">>, c, q)
<1> DEFINE T == Char
           Q == "QUOTE"
           name == q.name
           value == q.value
           n == Len(name)
           v == Len(value)
           open == Commas(c) \o <<Q>>
           mid == <<Q, ":", Q>>
           close == <<Q>>
           head == open \o name \o mid
           x == head \o value \o close
<1>1. name \in Seq(Char) /\ value \in Seq(Char)  BY CharsAre DEF Parameter
<1>2. Q \in T /\ ":" \in T /\ "," \in T  BY DEF Char
<1> HIDE DEF T, Q
<1>3. open \in Seq(T) /\ Len(open) = c + 1 /\ open[c + 1] = Q /\ (c = 1 => open[1] = ",")
  <2>1. CASE c = 1
    <3> DEFINE a == <<",">>
               b == <<Q>>
    <3>1. a \in Seq(T) /\ b \in Seq(T) /\ Len(a) = 1 /\ Len(b) = 1 /\ a[1] = "," /\ b[1] = Q
      BY ONLY <1>2, RowOf1
    <3>3. open = a \o b  BY <2>1 DEF Commas
    <3> HIDE DEF a, b, open
    <3>4. /\ a \o b \in Seq(T) /\ Len(a \o b) = Len(a) + Len(b)
          /\ \A i \in 1 .. Len(a) + Len(b) : (a \o b)[i] = IF i <= Len(a) THEN a[i] ELSE b[i - Len(a)]
      BY ONLY <3>1, ConcatProperties
    <3>5. Len(a) = 1 /\ Len(b) = 1  BY <3>1
    <3>6. open \in Seq(T) /\ Len(open) = 2 /\ open[1] = a[1] /\ open[2] = b[1]  BY ONLY <3>3, <3>4, <3>5
    <3>2. open \in Seq(T) /\ Len(open) = 2 /\ open[1] = "," /\ open[2] = Q  BY <3>1, <3>6
    <3>7. c + 1 = 2  BY <2>1
    <3> QED BY <3>2, <3>7
  <2>2. CASE c = 0
    <3>1. open = <<Q>>
      <4>1. Commas(c) = <<>>  BY <2>2 DEF Commas
      <4>2. <<Q>> \in Seq(T)  BY ONLY <1>2, RowOf1
      <4>3. <<>> \o <<Q>> = <<Q>>  BY ONLY <4>2, ConcatEmptySeq
      <4> QED BY <4>1, <4>3
    <3>2. <<Q>> \in Seq(T) /\ Len(<<Q>>) = 1 /\ <<Q>>[1] = Q  BY ONLY <1>2, RowOf1
    <3> HIDE DEF open
    <3>3. c + 1 = 1 /\ c # 1  BY <2>2
    <3> QED BY <3>1, <3>2, <3>3
  <2> QED BY <2>1, <2>2
<1>4. /\ mid \in Seq(T) /\ Len(mid) = 3 /\ mid[1] = Q /\ mid[2] = ":" /\ mid[3] = Q
      /\ close \in Seq(T) /\ Len(close) = 1 /\ close[1] = Q
  BY ONLY <1>2, RowOf1, RowOf3
<1>5. n \in Nat /\ v \in Nat /\ c \in Nat  BY <1>1
<1> HIDE DEF T, Q, name, value, open, mid, close
<1>6. /\ head \in Seq(T) /\ Len(head) = Len(open) + n + Len(mid)
      /\ \A j \in 1 .. Len(open) : head[j] = open[j]
      /\ \A j \in 1 .. n : head[Len(open) + j] = name[j]
      /\ \A j \in 1 .. Len(mid) : head[Len(open) + n + j] = mid[j]
  <2>1. open \in Seq(T) /\ name \in Seq(T) /\ mid \in Seq(T)  BY <1>1, <1>3, <1>4 DEF T
  <2> QED BY ONLY <2>1, ConcatOf3
<1>7. head \in Seq(T)  BY <1>6
<1> HIDE DEF head
<1>8. /\ x \in Seq(T) /\ Len(x) = Len(head) + v + Len(close)
      /\ \A j \in 1 .. Len(head) : x[j] = head[j]
      /\ \A j \in 1 .. v : x[Len(head) + j] = value[j]
      /\ \A j \in 1 .. Len(close) : x[Len(head) + v + j] = close[j]
  <2>1. value \in Seq(T) /\ close \in Seq(T)  BY <1>1, <1>4 DEF T
  <2> QED BY ONLY <1>7, <2>1, ConcatOf3
<1> HIDE DEF x, n, v
<1>l. Len(open) = c + 1 /\ Len(mid) = 3 /\ Len(close) = 1  BY <1>3, <1>4
<1>9. Len(head) = c + n + 4 /\ Len(x) = c + n + v + 5
  <2>2. Len(head) = Len(open) + n + Len(mid) /\ Len(x) = Len(head) + v + Len(close)  BY <1>6, <1>8
  <2> QED BY ONLY <1>5, <1>l, <2>2
<1>10. x[c + 1] = Q /\ (c = 1 => x[1] = ",")
  <2>1. c + 1 \in 1 .. Len(head) /\ c + 1 \in 1 .. Len(open) /\ (c = 1 => 1 \in 1 .. Len(head) /\ 1 \in 1 .. Len(open))
    BY ONLY <1>l, <1>5, <1>9
  <2> QED BY <1>3, <1>6, <1>8, <2>1
<1>11. ASSUME NEW j \in 1 .. n PROVE x[c + 1 + j] = name[j]
  <2> DEFINE i == c + 1 + j
  <2>1. i \in 1 .. Len(head) /\ i = Len(open) + j  BY ONLY <1>l, <1>5, <1>9, j \in 1 .. n
  <2> HIDE DEF i
  <2>2. x[i] = head[i] /\ head[i] = name[j]  BY <1>6, <1>8, <2>1
  <2> QED BY <2>2 DEF i
<1>12. \A j \in 1 .. 3 : x[c + n + 1 + j] = mid[j]
  <2> SUFFICES ASSUME NEW j \in 1 .. 3 PROVE x[c + n + 1 + j] = mid[j]  OBVIOUS
  <2> DEFINE i == c + n + 1 + j
  <2>1. i \in 1 .. Len(head) /\ i = Len(open) + n + j /\ j \in 1 .. Len(mid)  BY ONLY <1>l, <1>5, <1>9, j \in 1 .. 3
  <2> HIDE DEF i
  <2>2. x[i] = head[i] /\ head[i] = mid[j]  BY <1>6, <1>8, <2>1
  <2> QED BY <2>2 DEF i
<1>13. x[c + n + 2] = Q /\ x[c + n + 3] = ":" /\ x[c + n + 4] = Q
  <2>1. c + n + 1 + 1 = c + n + 2 /\ c + n + 1 + 2 = c + n + 3 /\ c + n + 1 + 3 = c + n + 4  BY <1>5
  <2>2. x[c + n + 1 + 1] = mid[1] /\ x[c + n + 1 + 2] = mid[2] /\ x[c + n + 1 + 3] = mid[3]  BY <1>12
  <2> QED BY <1>4, <2>1, <2>2
<1>14. \A j \in 1 .. v : x[c + n + 4 + j] = value[j]  BY <1>8, <1>9
<1>15. x[c + n + v + 5] = Q
  <2>1. Len(head) + v + 1 = c + n + v + 5 /\ 1 \in 1 .. Len(close)  BY <1>4, <1>5, <1>9
  <2> QED BY <1>4, <1>8, <2>1
<1>16. x \in Seq(Char) BY <1>8 DEF T
<1>17. IsPair(x, c, q)
  BY <1>9, <1>10, <1>11, <1>13, <1>14, <1>15, <1>16 DEF IsPair, n, v, name, value, Q
<1> QED BY <1>17 DEF x, head, open, mid, close, name, value, Q

\* Parameter q, whose name opens at place a of s.
PairAt(s, a, q) ==
    LET n == Len(q.name)
        v == Len(q.value)
    IN  /\ s[a] = "QUOTE" /\ \A j \in 1 .. n : s[a + j] = q.name[j]
        /\ s[a + n + 1] = "QUOTE" /\ s[a + n + 2] = ":" /\ s[a + n + 3] = "QUOTE"
        /\ \A j \in 1 .. v : s[a + n + 3 + j] = q.value[j]
        /\ s[a + n + v + 4] = "QUOTE"

\* The places where the names of the parameters open, and behind the last of them.
OpensAt(s, params, at) ==
    /\ at \in [1 .. Len(params) + 1 -> Place] /\ at[1] = 2
    /\ Len(params) = 0 => s[2] = "}"
    /\ \A k \in 1 .. Len(params) :
          LET a == at[k]
              e == a + Len(params[k].name) + Len(params[k].value) + 5
          IN  /\ PairAt(s, a, params[k])
              /\ e <= Len(s) /\ s[e] = IF k < Len(params) THEN "," ELSE "}"
              /\ at[k + 1] = e + 1

\* s is text in braces.
InBraces(s, t) ==
    /\ s \in Seq(Char) /\ Len(s) = Len(t) + 2 /\ s[1] = "{" /\ s[Len(t) + 2] = "}"
    /\ \A i \in 1 .. Len(t) : s[1 + i] = t[i]

LEMMA BracesAre == ASSUME NEW t \in Seq(Char) PROVE InBraces(<<"{">> \o t \o <<"}">>, t)
<1> DEFINE T == Char
           a == <<"{">>
           c == <<"}">>
           l == Len(t)
           s == a \o t \o c
<1>1. "{" \in T /\ "}" \in T  BY DEF Char
<1> HIDE DEF T
<1>2. a \in Seq(T) /\ Len(a) = 1 /\ a[1] = "{" /\ c \in Seq(T) /\ Len(c) = 1 /\ c[1] = "}"
  BY ONLY <1>1, RowOf1
<1>3. t \in Seq(T) /\ l \in Nat  BY DEF T
<1> HIDE DEF a, c
<1>4. /\ s \in Seq(T) /\ Len(s) = Len(a) + l + Len(c)
      /\ \A j \in 1 .. Len(a) : s[j] = a[j]
      /\ \A j \in 1 .. l : s[Len(a) + j] = t[j]
      /\ \A j \in 1 .. Len(c) : s[Len(a) + l + j] = c[j]
  <2>1. a \in Seq(T) /\ t \in Seq(T) /\ c \in Seq(T)  BY <1>2, <1>3
  <2> QED BY ONLY <2>1, ConcatOf3
<1> HIDE DEF s, l
<1>5. Len(a) = 1 /\ Len(c) = 1  BY <1>2
<1>6. /\ s \in Seq(T) /\ Len(s) = 1 + l + 1
      /\ \A j \in 1 .. 1 : s[j] = a[j]
      /\ \A j \in 1 .. l : s[1 + j] = t[j]
      /\ \A j \in 1 .. 1 : s[1 + l + j] = c[j]
  BY <1>4, <1>5
<1>7. 1 \in 1 .. 1 /\ 1 + l + 1 = l + 2  BY <1>3
<1>8. s[1] = "{" /\ s[l + 2] = "}" /\ Len(s) = l + 2
  <2>1. s[1] = a[1] /\ s[1 + l + 1] = c[1]  BY <1>6, <1>7
  <2> QED BY <1>2, <1>6, <1>7, <2>1
<1>9. InBraces(s, t)  BY <1>6, <1>8 DEF InBraces, T, l
<1> QED BY <1>9 DEF s, a, c

\* The text of the parameters, row by row.
Pairs(params) ==
    [i \in DOMAIN params |->
        (IF i > 1 THEN <<",">> ELSE <<>>)
        \o <<"QUOTE">> \o params[i].name \o <<"QUOTE", ":", "QUOTE">>
        \o params[i].value \o <<"QUOTE">>]
Lead(i) == IF i > 1 THEN 1 ELSE 0

LEMMA PairsAre ==
  ASSUME NEW params \in Seq(Parameter)
  PROVE  /\ Pairs(params) \in Seq(Seq(Char)) /\ Len(Pairs(params)) = Len(params)
         /\ \A i \in 1 .. Len(params) : IsPair(Pairs(params)[i], Lead(i), params[i])
<1> DEFINE N == Len(params)
           ss == Pairs(params)
           R == Seq(Char)
<1>1. N \in Nat /\ DOMAIN params = 1 .. N /\ \A i \in 1 .. N : params[i] \in Parameter  OBVIOUS
<1>2. \A i \in 1 .. N : IsPair(ss[i], Lead(i), params[i])
  <2> SUFFICES ASSUME NEW i \in 1 .. N PROVE IsPair(ss[i], Lead(i), params[i])  OBVIOUS
  <2> DEFINE q == params[i]
             x(lead) == lead \o <<"QUOTE">> \o q.name \o <<"QUOTE", ":", "QUOTE">> \o q.value \o <<"QUOTE">>
  <2>1. q \in Parameter  BY <1>1
  <2>2. Lead(i) \in {0, 1} /\ Commas(Lead(i)) = IF i > 1 THEN <<",">> ELSE <<>>
    <3>1. CASE i > 1
      <4>1. Lead(i) = 1  BY <3>1 DEF Lead
      <4> QED BY <3>1, <4>1 DEF Commas
    <3>2. CASE ~ (i > 1)
      <4>1. Lead(i) = 0  BY <3>2 DEF Lead
      <4> QED BY <3>2, <4>1 DEF Commas
    <3> QED BY <3>1, <3>2
  <2>3. ss[i] = x(IF i > 1 THEN <<",">> ELSE <<>>)  BY <1>1 DEF Pairs
  <2>4. IsPair(x(Commas(Lead(i))), Lead(i), q)
    <3> HIDE DEF q
    <3> QED BY <2>1, <2>2, PairIs
  <2> HIDE DEF x, ss
  <2> QED BY <2>2, <2>3, <2>4
<1>3. \A i \in 1 .. N : ss[i] \in R  BY <1>2 DEF IsPair
<1>4. ss \in Seq(R) /\ Len(ss) = N
  <2>1. DOMAIN ss = 1 .. N /\ ss = [i \in 1 .. N |-> ss[i]]  BY <1>1 DEF Pairs
  <2> HIDE DEF ss, R, N
  <2>2. ss \in [1 .. N -> R]  BY <1>3, <2>1
  <2> QED BY <1>1, <2>1, <2>2
<1> QED BY <1>2, <1>4

LEMMA LaidWithin ==
  ASSUME NEW T, NEW ss \in Seq(Seq(T)), NEW t \in Seq(T), NEW off, Laid(t, ss, off)
  PROVE  \A k \in 0 .. Len(ss) : off[k] <= Len(t)
<1> DEFINE N == Len(ss)
           L == Len(t)
           S == {j \in 0 .. N : off[N - j] <= L}
           R == Seq(T)
<1>0. N \in Nat /\ L \in Nat /\ \A i \in 1 .. N : Len(ss[i]) \in Nat
  <2>1. ss \in Seq(R)  OBVIOUS
  <2> HIDE DEF R
  <2>2. N \in Nat /\ \A i \in 1 .. N : ss[i] \in R  BY <2>1
  <2> QED BY <2>2 DEF R
<1>1. 0 \in S  BY <1>0 DEF Laid
<1>2. ASSUME NEW j \in 0 .. N - 1, j \in S PROVE j + 1 \in S
  <2> DEFINE k == N - j
             l == j + 1
             m == Len(ss[k])
  <2>1. k \in 1 .. N /\ k \in 0 .. N /\ k - 1 = N - l /\ k - 1 \in 0 .. N /\ l \in 0 .. N  BY <1>0
  <2>2. off[k] <= L  BY <1>2
  <2>3. off[k] \in Nat /\ off[k - 1] \in Nat /\ m \in Nat  BY <1>0, <2>1 DEF Laid
  <2>4. off[k] = off[k - 1] + m  BY <2>1 DEF Laid
  <2> HIDE DEF k, l, m, L
  <2>5. off[k - 1] <= L  BY <1>0, <2>2, <2>3, <2>4
  <2>6. off[N - l] <= L  BY <2>1, <2>5
  <2> QED BY <2>1, <2>6 DEF l, L
<1> HIDE DEF S
<1>3. \A j \in 0 .. N : j \in S  BY ONLY <1>0, <1>1, <1>2, Induct
<1> SUFFICES ASSUME NEW k \in 0 .. N PROVE off[k] <= L  OBVIOUS
<1> DEFINE j == N - k
<1>4. j \in 0 .. N /\ N - j = k  BY <1>0
<1> HIDE DEF j
<1> QED BY <1>3, <1>4 DEF S

PlainPair(q) == IsPlain(q.name) /\ IsPlain(q.value)

\* Where the parameters are in the JSON.
LEMMA ArgsJsonIs ==
  ASSUME NEW params \in Seq(Parameter)
  PROVE  /\ ArgsJson(params) \in Seq(Char) /\ \E at : OpensAt(ArgsJson(params), params, at)
         /\ (\A k \in 1 .. Len(params) : PlainPair(params[k])) =>
               \A i \in 1 .. Len(ArgsJson(params)) : ArgsJson(params)[i] # "NEWLINE"
<1> DEFINE N == Len(params)
           ss == Pairs(params)
           t == FlattenSeq(ss)
           s == ArgsJson(params)
           L == Len(t)
<1>1. /\ ss \in Seq(Seq(Char)) /\ Len(ss) = N
      /\ \A k \in 1 .. N : IsPair(ss[k], Lead(k), params[k])
  BY PairsAre
<1>2. t \in Seq(Char) /\ \E off : Laid(t, ss, off)  BY <1>1, FlattenLaid
<1>3. PICK off : Laid(t, ss, off)  BY <1>2
<1>4. InBraces(s, t)
  <2>1. s = <<"{">> \o t \o <<"}">>  BY DEF ArgsJson, Pairs
  <2> HIDE DEF s, t
  <2> QED BY <1>2, <2>1, BracesAre
<1>5. \A k \in 0 .. Len(ss) : off[k] <= Len(t)
  <2> HIDE DEF t, ss
  <2> QED BY ONLY <1>1, <1>2, <1>3, LaidWithin
<1>6. N \in Nat /\ L \in Nat /\ \A k \in 1 .. N : params[k] \in Parameter  BY <1>2
<1> HIDE DEF s, t, ss, L, N
<1>7. /\ off \in [0 .. N -> Nat] /\ off[0] = 0 /\ off[N] = L
      /\ \A k \in 0 .. N : off[k] <= L
      /\ \A k \in 1 .. N : off[k] = off[k - 1] + Len(ss[k])
      /\ \A k \in 1 .. N : \A j \in 1 .. Len(ss[k]) : t[off[k - 1] + j] = ss[k][j]
      /\ \A i \in 1 .. L : \E k \in 1 .. N : \E j \in 1 .. Len(ss[k]) : i = off[k - 1] + j
  BY <1>1, <1>3, <1>5 DEF Laid, L
<1>8. s \in Seq(Char) /\ Len(s) = L + 2 /\ s[1] = "{" /\ s[L + 2] = "}" /\ \A i \in 1 .. L : s[1 + i] = t[i]
  BY <1>4 DEF InBraces, L
<1>9. ASSUME NEW k \in 1 .. N
      PROVE  /\ off[k - 1] \in Nat /\ off[k] \in Nat /\ Len(ss[k]) \in Nat
             /\ \A j \in 1 .. Len(ss[k]) : s[off[k - 1] + 1 + j] = ss[k][j]
  <2> DEFINE p == off[k - 1]
             m == Len(ss[k])
  <2>1. k - 1 \in 0 .. N /\ k \in 0 .. N  BY <1>6
  <2>2. p \in Nat /\ off[k] \in Nat /\ off[k] <= L /\ off[k] = p + m  BY <1>7, <2>1
  <2>3. m \in Nat
    <3>1. ss[k] \in Seq(Char)  BY <1>1 DEF IsPair
    <3> QED BY <3>1
  <2>4. ASSUME NEW j \in 1 .. m PROVE s[p + 1 + j] = ss[k][j]
    <3> DEFINE i == p + j
    <3>1. t[i] = ss[k][j]  BY <1>7
    <3> HIDE DEF m, p
    <3>2. i \in 1 .. L /\ 1 + i = p + 1 + j  BY <1>6, <2>2, <2>3
    <3> HIDE DEF i
    <3>3. s[1 + i] = t[i]  BY <1>8, <3>2
    <3> QED BY <3>1, <3>2, <3>3
  <2> QED BY <2>2, <2>3, <2>4
<1> DEFINE at == [k \in 1 .. N + 1 |-> 2 + off[k - 1] + Lead(k)]
<1>10. at \in [1 .. N + 1 -> Place] /\ at[1] = 2
  <2>1. \A k \in 1 .. N + 1 : 2 + off[k - 1] + Lead(k) \in Place
    <3> SUFFICES ASSUME NEW k \in 1 .. N + 1 PROVE 2 + off[k - 1] + Lead(k) \in Place  OBVIOUS
    <3>1. k - 1 \in 0 .. N /\ Lead(k) \in 0 .. 1  BY <1>6 DEF Lead
    <3>2. off[k - 1] \in Nat  BY <1>7, <3>1
    <3> QED BY <3>1, <3>2 DEF Place
  <2>2. 1 \in 1 .. N + 1 /\ 1 - 1 = 0 /\ Lead(1) = 0  BY <1>6 DEF Lead
  <2> QED BY <1>7, <2>1, <2>2
<1>11. N = 0 => s[2] = "}"
  <2> SUFFICES ASSUME N = 0 PROVE s[2] = "}"  OBVIOUS
  <2>1. L + 2 = 2  BY <1>7
  <2> QED BY <1>8, <2>1
<1>12. ASSUME NEW k \in 1 .. N
       PROVE  LET a == at[k]
                  e == a + Len(params[k].name) + Len(params[k].value) + 5
              IN  /\ PairAt(s, a, params[k])
                  /\ e <= Len(s) /\ s[e] = IF k < N THEN "," ELSE "}"
                  /\ at[k + 1] = e + 1
  <2> DEFINE q == params[k]
             name == q.name
             value == q.value
             n == Len(name)
             v == Len(value)
             c == Lead(k)
             p == off[k - 1]
             x == ss[k]
             m == Len(x)
             a == at[k]
             e == a + n + v + 5
  <2>1. a = 2 + p + c
    <3>1. k \in 1 .. N + 1  BY <1>6
    <3> QED BY <3>1
  <2>2. n \in Nat /\ v \in Nat
    <3>1. q.name \in Seq(STRING) /\ q.value \in Seq(STRING)  BY <1>6 DEF Parameter
    <3> QED BY <3>1
  <2>3. c \in Nat /\ p \in Nat /\ off[k] \in Nat /\ off[k] = p + m /\ off[k] <= L /\ k \in Nat
    <3>1. c \in Nat /\ k \in 0 .. N /\ k \in Nat  BY <1>6 DEF Lead
    <3> QED BY <1>7, <1>9, <3>1
  <2>4. /\ m = c + n + v + 5
        /\ x[c + 1] = "QUOTE" /\ \A j \in 1 .. n : x[c + 1 + j] = name[j]
        /\ x[c + n + 2] = "QUOTE" /\ x[c + n + 3] = ":" /\ x[c + n + 4] = "QUOTE"
        /\ \A j \in 1 .. v : x[c + n + 4 + j] = value[j]
        /\ x[c + n + v + 5] = "QUOTE"
    <3>1. IsPair(x, c, q)  BY <1>1
    <3> HIDE DEF q, c, x
    <3> QED BY <3>1 DEF IsPair
  <2>5. \A j \in 1 .. m : s[p + 1 + j] = x[j]  BY <1>9
  <2>6. at[k + 1] = 2 + off[k] + 1
    <3>1. k + 1 \in 1 .. N + 1 /\ (k + 1) - 1 = k /\ Lead(k + 1) = 1  BY <1>6 DEF Lead
    <3> QED BY <3>1
  <2> HIDE DEF q, name, value, n, v, c, p, x, m, a, at
  <2>7. e = off[k] + 2 /\ at[k + 1] = e + 1 /\ e <= L + 2
    <3>1. e = off[k] + 2  BY ONLY <2>1, <2>2, <2>3, <2>4
    <3> QED BY <1>6, <2>3, <2>6, <3>1
  <2>8. PairAt(s, a, q)
    <3>1. \A j \in 1 .. m : s[p + 1 + j] = x[j]  BY <2>5
    <3>2. s[a] = "QUOTE"
      <4>1. c + 1 \in 1 .. m /\ p + 1 + (c + 1) = a  BY <2>1, <2>2, <2>3, <2>4
      <4> QED BY <2>4, <3>1, <4>1
    <3>3. ASSUME NEW j \in 1 .. n PROVE s[a + j] = name[j]
      <4> DEFINE i == c + 1 + j
      <4>1. i \in 1 .. m /\ p + 1 + i = a + j  BY <2>1, <2>2, <2>3, <2>4
      <4>2. x[i] = name[j]  BY <2>4
      <4> HIDE DEF i
      <4> QED BY <3>1, <4>1, <4>2
    <3>4. s[a + n + 1] = "QUOTE" /\ s[a + n + 2] = ":" /\ s[a + n + 3] = "QUOTE"
      <4>1. /\ c + n + 2 \in 1 .. m /\ p + 1 + (c + n + 2) = a + n + 1
            /\ c + n + 3 \in 1 .. m /\ p + 1 + (c + n + 3) = a + n + 2
            /\ c + n + 4 \in 1 .. m /\ p + 1 + (c + n + 4) = a + n + 3
        BY <2>1, <2>2, <2>3, <2>4
      <4> QED BY <2>4, <3>1, <4>1
    <3>5. ASSUME NEW j \in 1 .. v PROVE s[a + n + 3 + j] = value[j]
      <4> DEFINE i == c + n + 4 + j
      <4>1. i \in 1 .. m /\ p + 1 + i = a + n + 3 + j  BY <2>1, <2>2, <2>3, <2>4
      <4>2. x[i] = value[j]  BY <2>4
      <4> HIDE DEF i
      <4> QED BY <3>1, <4>1, <4>2
    <3>6. s[a + n + v + 4] = "QUOTE"
      <4>1. c + n + v + 5 \in 1 .. m /\ p + 1 + (c + n + v + 5) = a + n + v + 4
        BY <2>1, <2>2, <2>3, <2>4
      <4> QED BY <2>4, <3>1, <4>1
    <3> QED BY <3>2, <3>3, <3>4, <3>5, <3>6 DEF PairAt, n, v, name, value
  <2>9. s[e] = IF k < N THEN "," ELSE "}"
    <3>1. CASE k < N
      <4> DEFINE l == k + 1
      <4>1. l \in 1 .. N /\ l - 1 = k /\ Lead(l) = 1  BY <1>6, <2>3, <3>1 DEF Lead
      <4> HIDE DEF l
      <4>2. IsPair(ss[l], 1, params[l])  BY <1>1, <4>1
      <4>3. ss[l][1] = "," /\ Len(ss[l]) = 1 + Len(params[l].name) + Len(params[l].value) + 5
        BY <4>2 DEF IsPair
      <4>4. 1 \in 1 .. Len(ss[l])
        <5> DEFINE n1 == Len(params[l].name)
                   v1 == Len(params[l].value)
                   m1 == Len(ss[l])
        <5>1. n1 \in Nat /\ v1 \in Nat
          <6>1. params[l] \in Parameter  BY <1>6, <4>1
          <6>2. params[l].name \in Seq(STRING) /\ params[l].value \in Seq(STRING)  BY <6>1 DEF Parameter
          <6> QED BY <6>2
        <5>2. m1 = 1 + n1 + v1 + 5  BY <4>3
        <5> HIDE DEF n1, v1, m1
        <5>3. 1 \in 1 .. m1  BY <5>1, <5>2
        <5> QED BY <5>3 DEF m1
      <4>5. s[off[l - 1] + 1 + 1] = ss[l][1]  BY <1>9, <4>1, <4>4
      <4>6. off[l - 1] + 1 + 1 = e
        <5>1. off[l - 1] = off[k]  BY <4>1
        <5> QED BY <2>3, <2>7, <5>1
      <4> QED BY <3>1, <4>3, <4>5, <4>6
    <3>2. CASE ~ (k < N)
      <4>1. k = N  BY <1>6, <2>3, <3>2
      <4>2. off[k] = L  BY <1>7, <4>1
      <4>3. e = L + 2  BY <2>7, <4>2
      <4> QED BY <1>8, <3>2, <4>3
    <3> QED BY <3>1, <3>2
  <2> QED BY <1>8, <2>7, <2>8, <2>9 DEF q, name, value, n, v, a
<1>13. OpensAt(s, params, at)
  <2> HIDE DEF at
  <2> QED BY <1>8, <1>10, <1>11, <1>12 DEF OpensAt, N
<1>14. (\A k \in 1 .. N : PlainPair(params[k])) => \A i \in 1 .. Len(s) : s[i] # "NEWLINE"
  <2> SUFFICES ASSUME \A k \in 1 .. N : PlainPair(params[k]), NEW i \in 1 .. Len(s)
               PROVE  s[i] # "NEWLINE"
    OBVIOUS
  <2>1. CASE i = 1  BY <1>8, <2>1
  <2>2. CASE i = L + 2  BY <1>8, <2>2
  <2>3. CASE i # 1 /\ i # L + 2
    <3> DEFINE h == i - 1
    <3>1. h \in 1 .. L /\ 1 + h = i
      <4>1. Len(s) = L + 2  BY <1>8
      <4> QED BY ONLY <1>6, <2>3, <4>1, i \in 1 .. Len(s)
    <3> HIDE DEF h
    <3>2. PICK k \in 1 .. N : \E j \in 1 .. Len(ss[k]) : h = off[k - 1] + j  BY <1>7, <3>1
    <3>3. PICK j \in 1 .. Len(ss[k]) : h = off[k - 1] + j  BY <3>2
    <3>4. s[i] = ss[k][j]
      <4>1. s[1 + h] = t[h] /\ t[h] = ss[k][j]  BY <1>7, <1>8, <3>1, <3>3
      <4> QED BY <3>1, <4>1
    <3> DEFINE q == params[k]
               x == ss[k]
               c == Lead(k)
               n == Len(q.name)
               v == Len(q.value)
    <3>5. IsPair(x, c, q) /\ PlainPair(q) /\ q \in Parameter /\ c \in {0, 1}  BY <1>1, <1>6 DEF Lead
    <3> HIDE DEF q, x, c
    <3>6. q.name \in Seq(STRING) /\ q.value \in Seq(STRING)  BY <3>5 DEF Parameter
    <3>7. n \in Nat /\ v \in Nat /\ c \in Nat /\ j \in 1 .. Len(x)  BY <3>5, <3>6 DEF x
    <3>8. /\ \A r \in 1 .. n : q.name[r] # "NEWLINE"
          /\ \A r \in 1 .. v : q.value[r] # "NEWLINE"
      BY <3>5, <3>6 DEF PlainPair, IsPlain
    <3>9. /\ Len(x) = c + n + v + 5 /\ (c = 1 => x[1] = ",")
          /\ x[c + 1] = "QUOTE" /\ \A r \in 1 .. n : x[c + 1 + r] = q.name[r]
          /\ x[c + n + 2] = "QUOTE" /\ x[c + n + 3] = ":" /\ x[c + n + 4] = "QUOTE"
          /\ \A r \in 1 .. v : x[c + n + 4 + r] = q.value[r]
          /\ x[c + n + v + 5] = "QUOTE"
      BY <3>5 DEF IsPair
    <3> HIDE DEF n, v
    <3>10. \/ c = 1 /\ j = 1
           \/ j = c + 1 \/ j = c + n + 2 \/ j = c + n + 3 \/ j = c + n + 4 \/ j = c + n + v + 5
           \/ \E r \in 1 .. n : j = c + 1 + r
           \/ \E r \in 1 .. v : j = c + n + 4 + r
      <4>0. j \in Int /\ j >= 1 /\ j <= c + n + v + 5 /\ c \in {0, 1}
        <5>1. Len(x) = c + n + v + 5  BY <3>9
        <5> QED BY ONLY <3>5, <3>7, <5>1
      <4>1. CASE j < c + 1
        <5>1. c = 1 /\ j = 1  BY <4>0, <4>1
        <5> QED BY <5>1
      <4>2. CASE j > c + 1 /\ j < c + n + 2
        <5> DEFINE r == j - c - 1
        <5>1. r \in 1 .. n /\ j = c + 1 + r  BY <3>7, <4>0, <4>2
        <5> HIDE DEF r
        <5> QED BY <5>1
      <4>3. CASE j > c + n + 4 /\ j < c + n + v + 5
        <5> DEFINE r == j - c - n - 4
        <5>1. r \in 1 .. v /\ j = c + n + 4 + r  BY <3>7, <4>0, <4>3
        <5> HIDE DEF r
        <5> QED BY <5>1
      <4>4. \/ j < c + 1 \/ (j > c + 1 /\ j < c + n + 2) \/ (j > c + n + 4 /\ j < c + n + v + 5)
            \/ j = c + 1 \/ j = c + n + 2 \/ j = c + n + 3 \/ j = c + n + 4 \/ j = c + n + v + 5
        BY <3>7, <4>0
      <4> QED BY <4>1, <4>2, <4>3, <4>4
    <3>11. x[j] # "NEWLINE"
      <4>1. ASSUME NEW r \in 1 .. n, j = c + 1 + r PROVE x[j] # "NEWLINE"  BY <3>8, <3>9, <4>1
      <4>2. ASSUME NEW r \in 1 .. v, j = c + n + 4 + r PROVE x[j] # "NEWLINE"  BY <3>8, <3>9, <4>2
      <4>3. CASE c = 1 /\ j = 1
        <5>1. x[j] = ","  BY <3>9, <4>3
        <5> QED BY <5>1
      <4>4. CASE j = c + 1 \/ j = c + n + 2 \/ j = c + n + 4 \/ j = c + n + v + 5
        <5>1. x[j] = "QUOTE"  BY <3>9, <4>4
        <5> QED BY <5>1
      <4>5. CASE j = c + n + 3
        <5>1. x[j] = ":"  BY <3>9, <4>5
        <5> QED BY <5>1
      <4> QED BY <3>10, <4>1, <4>2, <4>3, <4>4, <4>5
    <3> QED BY <3>4, <3>11 DEF x
  <2> QED BY <2>1, <2>2, <2>3
<1> HIDE DEF at
<1> QED BY <1>8, <1>13, <1>14 DEF s, N

LEMMA RowIs == ASSUME NEW T, NEW s \in Seq(T) PROVE Len(s) \in Nat /\ DOMAIN s = 1 .. Len(s)
OBVIOUS

\* One plain parameter is read, and the reader stops at what follows it.
LEMMA PairIsRead ==
  ASSUME NEW s \in Seq(Char), NEW a \in Place, NEW q \in Parameter, PlainPair(q), PairAt(s, a, q),
         NEW e, e = a + Len(q.name) + Len(q.value) + 5, e <= Len(s), s[e] \in {",", "}"}
  PROVE  MemberAt(s, a) = q /\ EndOf(s, a) = e
<1> DEFINE name == q.name
           value == q.value
           n == Len(name)
           v == Len(value)
           L == Len(s)
           b == a + 1
           c == a + n + 4
<1>1. name \in Seq(Char) /\ value \in Seq(Char) /\ name \in Seq(STRING) /\ value \in Seq(STRING)
  BY CharsAre DEF Parameter
<1>2. n \in Nat /\ v \in Nat /\ L \in Nat /\ a \in Nat /\ DOMAIN name = 1 .. n /\ DOMAIN value = 1 .. v
  <2>1. n \in Nat /\ v \in Nat /\ DOMAIN name = 1 .. n /\ DOMAIN value = 1 .. v
    BY ONLY <1>1, RowIs
  <2>2. L \in Nat  BY ONLY s \in Seq(Char), RowIs
  <2>3. a \in Nat  BY DEF Place
  <2> HIDE DEF name, value, n, v, L
  <2> QED BY <2>1, <2>2, <2>3
<1>3. /\ \A j \in 1 .. n : name[j] # "QUOTE" /\ name[j] # "BACKSLASH"
      /\ \A j \in 1 .. v : value[j] # "QUOTE" /\ value[j] # "BACKSLASH"
  BY <1>2 DEF PlainPair, IsPlain
<1>4. /\ s[a] = "QUOTE" /\ \A j \in 1 .. n : s[a + j] = name[j]
      /\ s[a + n + 1] = "QUOTE" /\ s[a + n + 2] = ":" /\ s[a + n + 3] = "QUOTE"
      /\ \A j \in 1 .. v : s[a + n + 3 + j] = value[j]
      /\ s[a + n + v + 4] = "QUOTE"
  BY DEF PairAt
<1>5. e = a + n + v + 5 /\ e <= L  OBVIOUS
<1>q. q = [name |-> name, value |-> value]  BY DEF Parameter
<1> HIDE DEF name, value, n, v, L, b, c
<1>6. KeyAt(s, a) = [chars |-> name, next |-> a + n + 2]
  <2>1. b \in Place /\ b + n = a + n + 1 /\ b + n <= L /\ b + n + 1 = a + n + 2
    BY ONLY <1>2, <1>5 DEF b, Place
  <2>2. \A j \in 1 .. n : s[b + j - 1] = name[j] /\ name[j] # "QUOTE" /\ name[j] # "BACKSLASH"
    <3> SUFFICES ASSUME NEW j \in 1 .. n PROVE s[b + j - 1] = name[j]  BY <1>3
    <3>1. b + j - 1 = a + j  BY ONLY <1>2, j \in 1 .. n DEF b
    <3> QED BY <1>4, <3>1
  <2>3. s[b + n] = "QUOTE"  BY <1>4, <2>1
  <2>4. ReadString(s, b) = [chars |-> name, next |-> b + n + 1]
    BY ONLY <1>1, <2>1, <2>2, <2>3, s \in Seq(Char), PlainIsRead DEF n, L
  <2> QED BY <2>1, <2>4 DEF KeyAt, b
<1>7. ValueAt(s, a) = [chars |-> value, next |-> e]
  <2>1. c \in Place /\ c + v = a + n + v + 4 /\ c + v <= L /\ c + v + 1 = e
    BY ONLY <1>2, <1>5 DEF c, Place
  <2>2. \A j \in 1 .. v : s[c + j - 1] = value[j] /\ value[j] # "QUOTE" /\ value[j] # "BACKSLASH"
    <3> SUFFICES ASSUME NEW j \in 1 .. v PROVE s[c + j - 1] = value[j]  BY <1>3
    <3>1. c + j - 1 = a + n + 3 + j  BY ONLY <1>2, j \in 1 .. v DEF c
    <3> QED BY <1>4, <3>1
  <2>3. s[c + v] = "QUOTE"  BY <1>4, <2>1
  <2>4. ReadString(s, c) = [chars |-> value, next |-> c + v + 1]
    BY ONLY <1>1, <2>1, <2>2, <2>3, s \in Seq(Char), PlainIsRead DEF v, L
  <2>5. KeyAt(s, a).next + 2 = c
    <3>1. KeyAt(s, a).next = a + n + 2  BY ONLY <1>6
    <3> QED BY ONLY <1>2, <3>1 DEF c
  <2> QED BY <2>1, <2>4, <2>5 DEF ValueAt
<1>8. KeyAt(s, a).chars = name /\ ValueAt(s, a).chars = value /\ ValueAt(s, a).next = e
  BY ONLY <1>6, <1>7
<1>9. MemberAt(s, a) = q  BY <1>8, <1>q DEF MemberAt
<1>10. EndOf(s, a) = e
  <2>1. e \in Place  BY ONLY <1>2, <1>5 DEF Place
  <2>2. First(s, {",", "}"}, e) = e  BY <1>5, <2>1, FirstIs DEF L
  <2> QED BY <1>8, <2>2 DEF EndOf
<1> QED BY <1>9, <1>10

\* What parse() reads of args_json is the parameters, if they are plain.
LEMMA ReadsBack ==
  ASSUME NEW params \in Seq(Parameter), \A k \in 1 .. Len(params) : PlainPair(params[k])
  PROVE  ReadMembers(ArgsJson(params), 2) = params
<1> DEFINE s == ArgsJson(params)
           N == Len(params)
<1>1. s \in Seq(Char) /\ \E at : OpensAt(s, params, at)  BY ArgsJsonIs
<1> HIDE DEF s
<1>2. PICK at : OpensAt(s, params, at)  BY <1>1
<1>3. PICK M : MembersFrom(M, s) /\ \A from \in Place : ReadMembers(s, from) = M[from]
  BY <1>1, ReadMembersIs
<1>4. N \in Nat /\ \A k \in 1 .. N : params[k] \in Parameter  OBVIOUS
<1>5. ReadMembers(s, 2) = M[2] /\ at[1] = 2 /\ (N = 0 => s[2] = "}")
  <2>1. 2 \in Place  BY DEF Place
  <2> QED BY <1>2, <1>3, <2>1 DEF OpensAt
<1>6. CASE N = 0
  <2>1. params = <<>>  BY <1>6
  <2>2. 2 \in Place /\ s[2] # "QUOTE"
    <3>1. s[2] = "}"  BY <1>5, <1>6
    <3>2. "}" # "QUOTE"  OBVIOUS
    <3>3. 2 \in Place  BY DEF Place
    <3> QED BY ONLY <3>1, <3>2, <3>3
  <2>3. M[2] = <<>>  BY <1>3, <2>2 DEF MembersFrom
  <2> QED BY <1>5, <2>1, <2>3 DEF s
<1>7. CASE N # 0
  <2> DEFINE rest(k) == SubSeq(params, k, N)
  <2>1. ASSUME NEW k \in 1 .. N
        PROVE  M[at[k]] = <<params[k]>> \o IF k < N THEN M[at[k + 1]] ELSE <<>>
    <3> DEFINE a == at[k]
               q == params[k]
               e == a + Len(q.name) + Len(q.value) + 5
    <3>1. k \in 1 .. N + 1  BY <1>4
    <3>2. /\ a \in Place /\ PairAt(s, a, q) /\ e <= Len(s) /\ s[e] = IF k < N THEN "," ELSE "}"
          /\ at[k + 1] = e + 1
      BY <1>2, <3>1 DEF OpensAt
    <3>3. q \in Parameter /\ PlainPair(q)  BY <1>4
    <3>4. a + Len(q.name) + Len(q.value) + 5 = e  OBVIOUS
    <3> HIDE DEF e, a, q
    <3>5. s[e] \in {",", "}"}  BY <3>2
    <3>6. MemberAt(s, a) = q /\ EndOf(s, a) = e
      BY ONLY <1>1, <3>2, <3>3, <3>4, <3>5, PairIsRead
    <3>7. ~ (a > Len(s)) /\ s[a] = "QUOTE"
      <4> DEFINE n == Len(q.name)
                 v == Len(q.value)
                 L == Len(s)
      <4>1. n \in Nat /\ v \in Nat
        <5>1. q.name \in Seq(STRING) /\ q.value \in Seq(STRING)  BY <3>3 DEF Parameter
        <5> QED BY <5>1
      <4>2. a \in Nat /\ L \in Nat
        <5>1. a \in Place  BY <3>2
        <5>2. a \in Nat  BY ONLY <5>1 DEF Place
        <5>3. L \in Nat  BY ONLY <1>1, RowIs
        <5> QED BY <5>2, <5>3
      <4>4. e = a + n + v + 5 /\ e <= L  BY <3>2, <3>4
      <4> HIDE DEF n, v, L
      <4>3. ~ (a > L)  BY ONLY <4>1, <4>2, <4>4
      <4> QED BY <3>2, <4>3 DEF L, PairAt
    <3>8. M[a] = <<MemberAt(s, a)>>
                 \o IF EndOf(s, a) <= Len(s) /\ s[EndOf(s, a)] = "," THEN M[EndOf(s, a) + 1] ELSE <<>>
      BY <1>3, <3>2, <3>7 DEF MembersFrom
    <3>9. M[a] = <<q>> \o IF s[e] = "," THEN M[e + 1] ELSE <<>>  BY <3>2, <3>6, <3>8
    <3>10. CASE k < N
      <4>1. s[e] = "," /\ e + 1 = at[k + 1]  BY <3>2, <3>10
      <4> QED BY <3>9, <3>10, <4>1 DEF a, q
    <3>11. CASE ~ (k < N)
      <4>1. s[e] = "}"  BY <3>2, <3>11
      <4> QED BY <3>9, <3>11, <4>1 DEF a, q
    <3> QED BY <3>10, <3>11
  <2>2. ASSUME NEW k \in 1 .. N PROVE <<params[k]>> \o rest(k + 1) = rest(k)
    BY <2>2, RestFrom
  <2> DEFINE m == N - 1
             S == {j \in 0 .. m : M[at[N - j]] = rest(N - j)}
  <2>3. m \in Nat  BY <1>4, <1>7
  <2>4. 0 \in S
    <3>1. N \in 1 .. N /\ N - 0 = N /\ 0 \in 0 .. m  BY <1>4, <1>7
    <3>2. M[at[N]] = <<params[N]>> \o <<>>
      <4>1. ~ (N < N)  BY <1>4
      <4> HIDE DEF N
      <4> QED BY <2>1, <3>1, <4>1
    <3>3. rest(N + 1) = <<>>  BY <1>4
    <3>4. M[at[N]] = rest(N)
      <4> HIDE DEF N, rest
      <4> QED BY <2>2, <3>1, <3>2, <3>3
    <3> HIDE DEF rest
    <3> QED BY <3>1, <3>4
  <2>5. ASSUME NEW j \in 0 .. m - 1, j \in S PROVE j + 1 \in S
    <3> DEFINE l == j + 1
               k == N - l
    <3>1. k \in 1 .. N /\ k < N /\ k + 1 = N - j /\ l \in 0 .. m  BY <1>4, <1>7
    <3>2. M[at[N - j]] = rest(N - j)  BY <2>5
    <3> HIDE DEF k, l, rest, N
    <3>3. M[at[k]] = <<params[k]>> \o M[at[k + 1]]  BY <2>1, <3>1
    <3>4. M[at[k]] = rest(k)  BY <2>2, <3>1, <3>2, <3>3
    <3>5. M[at[N - l]] = rest(N - l)  BY <3>4 DEF k
    <3> QED BY <3>1, <3>5 DEF l
  <2> HIDE DEF S, m
  <2>6. \A j \in 0 .. m : j \in S  BY ONLY <2>3, <2>4, <2>5, Induct
  <2>7. m \in 0 .. m /\ N - m = 1  BY <1>4, <2>3 DEF m
  <2>8. M[at[1]] = rest(1)  BY <2>6, <2>7 DEF S
  <2>9. rest(1) = params  OBVIOUS
  <2> QED BY <1>5, <2>8, <2>9 DEF s
<1> QED BY <1>6, <1>7

\* A call of plain texts comes back through the client as it was.
LEMMA CallIsReadBack ==
  ASSUME NEW x \in Called, AllPlain(x)
  PROVE  WrittenCall([name |-> x.name, args |-> ArgsJson(x.params)]) = MapMarkup(x.name, AsMap(x.params))
<1> DEFINE s == ArgsJson(x.params)
           call == [name |-> x.name, args |-> s]
<1>1. x.name \in Seq(STRING) /\ x.params \in Seq(Parameter)  BY DEF Called
<1>2. DOMAIN x.params = 1 .. Len(x.params)  BY <1>1
<1>3. \A k \in 1 .. Len(x.params) : PlainPair(x.params[k])
  BY <1>2 DEF AllPlain, PlainPair
<1>4. Received(x.name) = x.name
  <2>1. \A i \in DOMAIN x.name : x.name[i] # "NEWLINE"  BY DEF AllPlain, IsPlain
  <2>2. x.name = [i \in DOMAIN x.name |-> x.name[i]]  BY <1>1
  <2> QED BY <2>1, <2>2 DEF Received
<1>5. Received(s) = s
  <2>1. s \in Seq(Char) /\ \A i \in 1 .. Len(s) : s[i] # "NEWLINE"  BY <1>1, <1>3, ArgsJsonIs
  <2> HIDE DEF s
  <2>2. DOMAIN s = 1 .. Len(s) /\ s = [i \in DOMAIN s |-> s[i]]  BY <2>1
  <2> QED BY <2>1, <2>2 DEF Received
<1>6. ReadMembers(s, 2) = x.params  BY <1>1, <1>3, ReadsBack
<1> HIDE DEF s
<1>7. call.name = x.name /\ call.args = s  OBVIOUS
<1> HIDE DEF call
<1>8. WrittenCall(call) = MapMarkup(x.name, AsMap(x.params))
  BY <1>4, <1>5, <1>6, <1>7 DEF WrittenCall, ReadArgs
<1> QED BY <1>8 DEF call, s

-----------------------------------------------------------------------------
(* The messages of a conversation *)

Talk == [role : {"user", "assistant", "tool"}, calls : Seq(Answered), made : Seq(Called)]

\* The messages of a role behind place i, the place of the last answer, and the
\* calls of that answer that have no result yet.
Of(ms, i, role) == {j \in i + 1 .. Len(ms) : ms[j].role = role}
IsLast(ms, i) ==
    /\ i > 0 => ms[i].role = "assistant"
    /\ \A j \in i + 1 .. Len(ms) : ms[j].role # "assistant"
LeftOpen(ms) ==
    LET from == CHOOSE i \in 0 .. Len(ms) : IsLast(ms, i)
    IN  IF from = 0 THEN 0 ELSE Len(ms[from].calls) - Cardinality(Of(ms, from, "tool"))

LEMMA AppendIs ==
  ASSUME NEW ms \in Seq(Talk), NEW x \in Talk
  PROVE  /\ Append(ms, x) \in Seq(Talk) /\ Len(ms) \in Nat /\ Len(Append(ms, x)) = Len(ms) + 1
         /\ Append(ms, x)[Len(ms) + 1] = x /\ \A j \in 1 .. Len(ms) : Append(ms, x)[j] = ms[j]
BY AppendProperties

LEMMA CountGrows ==
  ASSUME NEW ms \in Seq(Talk), NEW x \in Talk, NEW i \in 0 .. Len(ms), NEW role
  PROVE  /\ Cardinality(Of(ms, i, role)) \in Nat
         /\ Cardinality(Of(Append(ms, x), i, role))
              = Cardinality(Of(ms, i, role)) + IF x.role = role THEN 1 ELSE 0
<1> DEFINE new == Append(ms, x)
           n == Len(ms)
           S == Of(ms, i, role)
<1>1. n \in Nat /\ Len(new) = n + 1 /\ new[n + 1] = x /\ \A j \in 1 .. n : new[j] = ms[j]
  BY AppendIs
<1>2. IsFiniteSet(S) /\ n + 1 \notin S /\ \A j \in S : j \in 1 .. n
  <2>1. IsFiniteSet(i + 1 .. n)
    <3>1. i + 1 \in Int /\ n \in Int  BY <1>1
    <3> HIDE DEF n
    <3> QED BY <3>1, FS_Interval
  <2>2. S \in SUBSET (i + 1 .. n)  BY DEF Of
  <2> QED BY <1>1, <2>1, <2>2, FS_Subset
<1>3. Of(new, i, role) = IF x.role = role THEN S \cup {n + 1} ELSE S
  <2>1. i + 1 .. n + 1 = (i + 1 .. n) \cup {n + 1}  BY <1>1
  <2>2. \A j \in i + 1 .. n : new[j].role = role <=> ms[j].role = role  BY <1>1
  <2>3. Of(new, i, role) = {j \in i + 1 .. n + 1 : new[j].role = role}  BY <1>1 DEF Of
  <2>4. S = {j \in i + 1 .. n : ms[j].role = role}  BY DEF Of
  <2> HIDE DEF n, new, S
  <2> QED BY <1>1, <2>1, <2>2, <2>3, <2>4
<1> HIDE DEF S, new, n
<1>4. Cardinality(S) \in Nat  BY <1>2, FS_CardinalityType
<1>5. Cardinality(S \cup {n + 1}) = Cardinality(S) + 1  BY <1>2, FS_AddElement
<1> QED BY <1>3, <1>4, <1>5 DEF S, new

LEMMA LastIs ==
  ASSUME NEW ms \in Seq(Talk)
  PROVE  \E i \in 0 .. Len(ms) :
            /\ IsLast(ms, i) /\ \A j \in 0 .. Len(ms) : IsLast(ms, j) => j = i
            /\ LeftOpen(ms) = IF i = 0 THEN 0
                              ELSE Len(ms[i].calls) - Cardinality(Of(ms, i, "tool"))
<1> DEFINE n == Len(ms)
           S == {i \in 0 .. n : \A j \in i + 1 .. n : ms[j].role # "assistant"}
<1>0. n \in Nat  OBVIOUS
<1> HIDE DEF n
<1>1. n \in S /\ S \in SUBSET Nat
  <2>1. n \in 0 .. n /\ n + 1 .. n = {}  BY <1>0
  <2> QED BY <2>1
<1>2. PICK i \in S : \A j \in S : i <= j
  <2> HIDE DEF S
  <2> QED BY <1>1, LeastOf
<1>3. i \in 0 .. n /\ \A j \in i + 1 .. n : ms[j].role # "assistant"  BY <1>2
<1>4. ASSUME i > 0 PROVE ms[i].role = "assistant"
  <2>1. SUFFICES ASSUME ms[i].role # "assistant" PROVE FALSE  OBVIOUS
  <2>2. i - 1 \in 0 .. n /\ \A j \in (i - 1) + 1 .. n : j = i \/ j \in i + 1 .. n  BY <1>0, <1>3, <1>4
  <2>3. i - 1 \in S  BY <1>3, <2>1, <2>2
  <2> QED BY <1>0, <1>2, <1>3, <2>3
<1>5. IsLast(ms, i)  BY <1>3, <1>4 DEF IsLast, n
<1>6. ASSUME NEW j \in 0 .. n, IsLast(ms, j) PROVE j = i
  <2>1. ~ (j < i)
    <3>1. SUFFICES ASSUME j < i PROVE FALSE  OBVIOUS
    <3>2. i > 0 /\ i \in j + 1 .. n  BY <1>0, <1>3, <3>1
    <3> QED BY <1>5, <1>6, <3>2 DEF IsLast, n
  <2>2. ~ (i < j)
    <3>1. SUFFICES ASSUME i < j PROVE FALSE  OBVIOUS
    <3>2. j > 0 /\ j \in i + 1 .. n  BY <1>0, <1>3, <3>1
    <3> QED BY <1>5, <1>6, <3>2 DEF IsLast, n
  <2> QED BY <1>0, <1>3, <2>1, <2>2
<1> DEFINE from == CHOOSE j \in 0 .. n : IsLast(ms, j)
<1>7. from = i
  <2>1. from \in 0 .. n /\ IsLast(ms, from)  BY <1>3, <1>5
  <2> HIDE DEF from
  <2> QED BY <1>6, <2>1
<1>8. LeftOpen(ms) = IF from = 0 THEN 0 ELSE Len(ms[from].calls) - Cardinality(Of(ms, from, "tool"))
  BY DEF LeftOpen, n
<1> HIDE DEF from
<1> QED BY <1>3, <1>5, <1>6, <1>7, <1>8 DEF n

LEMMA LeftOpenIs ==
  ASSUME NEW ms \in Seq(Talk), NEW x \in Talk
  PROVE  /\ LeftOpen(ms) \in Int
         /\ x.role = "user" => LeftOpen(Append(ms, x)) = LeftOpen(ms)
         /\ x.role = "tool" /\ LeftOpen(ms) > 0 => LeftOpen(Append(ms, x)) = LeftOpen(ms) - 1
         /\ x.role = "assistant" => LeftOpen(Append(ms, x)) = Len(x.calls)
<1> DEFINE new == Append(ms, x)
           n == Len(ms)
<1>1. /\ n \in Nat /\ new \in Seq(Talk) /\ Len(new) = n + 1 /\ new[n + 1] = x
      /\ \A j \in 1 .. n : new[j] = ms[j] /\ ms[j] \in Talk
  BY AppendIs
<1>2. PICK i \in 0 .. n : /\ IsLast(ms, i)
                          /\ LeftOpen(ms) = IF i = 0 THEN 0
                               ELSE Len(ms[i].calls) - Cardinality(Of(ms, i, "tool"))
  BY LastIs
<1> HIDE DEF new
<1>3. PICK k \in 0 .. Len(new) :
         /\ \A j \in 0 .. Len(new) : IsLast(new, j) => j = k
         /\ LeftOpen(new) = IF k = 0 THEN 0
                            ELSE Len(new[k].calls) - Cardinality(Of(new, k, "tool"))
  BY <1>1, LastIs
<1>4. /\ Cardinality(Of(ms, i, "tool")) \in Nat
      /\ Cardinality(Of(new, i, "tool")) = Cardinality(Of(ms, i, "tool")) + IF x.role = "tool" THEN 1 ELSE 0
  BY CountGrows DEF new
<1> HIDE DEF n
<1>5. LeftOpen(ms) \in Int
  <2>1. ASSUME i # 0 PROVE Len(ms[i].calls) \in Nat
    <3>1. i \in 1 .. n  BY <1>1, <2>1
    <3>2. ms[i].calls \in Seq(Answered)  BY <1>1, <3>1 DEF Talk
    <3> QED BY <3>2
  <2> QED BY <1>2, <1>4, <2>1
<1>6. CASE x.role # "assistant"
  <2>1. IsLast(new, i)
    <3>1. i > 0 => new[i].role = "assistant"
      <4>1. i > 0 => i \in 1 .. n  BY <1>1
      <4> QED BY <1>1, <1>2, <4>1 DEF IsLast
    <3>2. ASSUME NEW j \in i + 1 .. Len(new) PROVE new[j].role # "assistant"
      <4>1. j = n + 1 \/ (j \in i + 1 .. n /\ j \in 1 .. n)  BY <1>1
      <4> QED BY <1>1, <1>2, <1>6, <4>1 DEF IsLast, n
    <3> QED BY <3>1, <3>2 DEF IsLast
  <2>2. k = i
    <3>1. i \in 0 .. Len(new)  BY <1>1
    <3> QED BY <1>3, <2>1, <3>1
  <2>3. i # 0 => new[i] = ms[i] /\ Len(ms[i].calls) \in Nat
    <3>1. i # 0 => i \in 1 .. n  BY <1>1
    <3>2. i # 0 => new[i] = ms[i] /\ ms[i].calls \in Seq(Answered)  BY <1>1, <3>1 DEF Talk
    <3> QED BY <3>2
  <2>4. LeftOpen(new) = IF i = 0 THEN 0
                        ELSE Len(ms[i].calls) - Cardinality(Of(new, i, "tool"))
    BY <1>3, <2>2, <2>3
  <2>5. x.role = "user" => LeftOpen(new) = LeftOpen(ms)
    <3>1. x.role = "user" => Cardinality(Of(new, i, "tool")) = Cardinality(Of(ms, i, "tool"))
      BY <1>4
    <3> QED BY <1>2, <2>4, <3>1
  <2>6. x.role = "tool" /\ LeftOpen(ms) > 0 => LeftOpen(new) = LeftOpen(ms) - 1
    <3> DEFINE old == LeftOpen(ms)
               left == LeftOpen(new)
               had == Cardinality(Of(ms, i, "tool"))
               has == Cardinality(Of(new, i, "tool"))
               of == Len(ms[i].calls)
    <3>1. had \in Nat /\ (x.role = "tool" => has = had + 1) /\ (i # 0 => of \in Nat)  BY <1>4, <2>3
    <3>2. old = (IF i = 0 THEN 0 ELSE of - had) /\ left = (IF i = 0 THEN 0 ELSE of - has)
      BY <1>2, <2>4
    <3> HIDE DEF old, left, had, has, of
    <3>3. x.role = "tool" /\ old > 0 => left = old - 1  BY <3>1, <3>2
    <3> QED BY <3>3 DEF old, left
  <2> QED BY <1>5, <1>6, <2>5, <2>6 DEF new
<1>7. CASE x.role = "assistant"
  <2>1. IsLast(new, n + 1)
    <3>1. (n + 1) + 1 .. Len(new) = {}  BY <1>1
    <3> QED BY <1>1, <1>7, <3>1 DEF IsLast
  <2>2. k = n + 1 /\ k # 0
    <3>1. n + 1 \in 0 .. Len(new)  BY <1>1
    <3> QED BY <1>1, <1>3, <2>1, <3>1
  <2>3. Of(new, k, "tool") = {}
    <3>1. k + 1 .. Len(new) = {}  BY <1>1, <2>2
    <3> QED BY <3>1 DEF Of
  <2>4. Len(x.calls) \in Nat
    <3>1. x.calls \in Seq(Answered)  BY DEF Talk
    <3> QED BY <3>1
  <2>5. LeftOpen(new) = Len(x.calls) - 0
    <3>1. new[k] = x  BY <1>1, <2>2
    <3>2. Cardinality({}) = 0  BY FS_EmptySet
    <3> QED BY <1>3, <2>2, <2>3, <3>1, <3>2
  <2> QED BY <1>5, <1>7, <2>4, <2>5 DEF new
<1> QED BY <1>6, <1>7

-----------------------------------------------------------------------------
(* The invariant of the conversation *)

\* Nothing is written yet; or the output is a cut of a script, and the scan is new
\* or has been run on it.
Settled ==
    \/ script = <<>> /\ output = <<>> /\ scan = NewScan
    \/ /\ script \in Scripts /\ output \in Cuts(script)
       /\ scan = NewScan \/ scan = Scanned(output)

\* An answer is under way only where one more is allowed.
TalkOK ==
    /\ messages \in Seq(Talk) /\ LeftOpen(messages) >= 0
    /\ Cardinality(Of(messages, 0, "assistant")) <= MaxReplies
    /\ phase # "client" => Cardinality(Of(messages, 0, "assistant")) < MaxReplies
    /\ Len(prompt) <= Len(messages)

ChatInv ==
    /\ phase \in {"client", "generate", "scan", "reply"}
    /\ tools \in Tools /\ choice \in Policies /\ status \in {200, 400}
    /\ TalkOK /\ Settled
    /\ phase \in {"scan", "reply"} => script \in Scripts /\ output \in Cuts(script)
    /\ phase = "reply" /\ Detecting => scan = Scanned(output)

LEMMA SettledIs ==
  ASSUME Settled
  PROVE  /\ script \in Scripts \cup {<<>>} /\ scan.calls \in Seq(Answered)
         /\ scan.pos \in 1 .. Len(output) + 1 /\ Len(scan.calls) <= MaxCalls
<1>1. ASSUME scan = NewScan
      PROVE  scan.pos = 1 /\ scan.calls \in Seq(Answered) /\ Len(scan.calls) <= MaxCalls
  <2>1. scan.pos = 1 /\ scan.calls = <<>>  BY <1>1 DEF NewScan
  <2>2. <<>> \in Seq(Answered) /\ Len(<<>>) = 0 /\ 0 <= MaxCalls  BY ToolCallsAssumption
  <2> QED BY <2>1, <2>2
<1>2. CASE script = <<>> /\ output = <<>> /\ scan = NewScan
  <2>1. Len(output) = 0 /\ 1 \in 1 .. Len(output) + 1  BY <1>2
  <2> QED BY <1>1, <1>2, <2>1
<1>3. CASE /\ script \in Scripts /\ output \in Cuts(script)
           /\ scan = NewScan \/ scan = Scanned(output)
  <2>1. script \in Seq(Pieces)  BY <1>3, ChatAssumption
  <2>2. /\ Scanned(output).calls = Json(CallsMade) /\ Len(Scanned(output).calls) <= MaxCalls
        /\ Scanned(output).pos \in 1 .. Len(output) + 1 /\ CallsMade \in Seq(Called)
        /\ Len(output) \in Nat
    BY <1>3, <2>1, DetectionIsRight
  <2>3. Json(CallsMade) \in Seq(Answered)  BY <2>2, JsonIs
  <2>4. CASE scan = NewScan
    <3>1. 1 \in 1 .. Len(output) + 1  BY <2>2
    <3> QED BY <1>1, <1>3, <2>4, <3>1
  <2>5. CASE scan = Scanned(output)  BY <1>3, <2>2, <2>3, <2>5
  <2> QED BY <1>3, <2>4, <2>5
<1> QED BY <1>2, <1>3 DEF Settled

LEMMA RepliesIs == Replies = Cardinality(Of(messages, 0, "assistant")) \/ messages \notin Seq(Talk)
<1> SUFFICES ASSUME messages \in Seq(Talk) PROVE Replies = Cardinality(Of(messages, 0, "assistant"))
  OBVIOUS
<1>1. DOMAIN messages = 0 + 1 .. Len(messages)  OBVIOUS
<1> QED BY <1>1 DEF Replies, Of

LEMMA UnansweredIs == Unanswered = LeftOpen(messages)
BY DEF Unanswered, LeftOpen, IsLast, Of

LEMMA InitInv == Init => ChatInv
<1> SUFFICES ASSUME Init PROVE ChatInv  OBVIOUS
<1>1. messages = <<>> /\ prompt = <<>> /\ messages \in Seq(Talk) /\ Len(messages) = 0  BY DEF Init
<1>2. Of(messages, 0, "assistant") = {} /\ Cardinality({}) = 0  BY <1>1, FS_EmptySet DEF Of
<1>3. LeftOpen(messages) = 0
  <2>1. PICK i \in 0 .. Len(messages) :
           LeftOpen(messages) = IF i = 0 THEN 0
                                ELSE Len(messages[i].calls) - Cardinality(Of(messages, i, "tool"))
    BY <1>1, LastIs
  <2>2. i = 0  BY <1>1
  <2> QED BY <2>1, <2>2
<1>4. Len(prompt) <= Len(messages) /\ phase = "client" /\ 0 <= MaxReplies
  <2>1. Len(prompt) = 0  BY <1>1
  <2> QED BY <1>1, <2>1, ChatAssumption DEF Init
<1>5. TalkOK  BY <1>1, <1>2, <1>3, <1>4 DEF TalkOK
<1>6. Settled  BY DEF Settled, Init
<1> QED BY <1>5, <1>6 DEF ChatInv, Init

\* A message that is no answer changes neither the answers nor what is typed.
LEMMA MessageIs ==
  ASSUME NEW role \in {"user", "assistant", "tool"}, NEW calls \in Seq(Answered), NEW made \in Seq(Called)
  PROVE  /\ Message(role, calls, made) \in Talk /\ Message(role, calls, made).role = role
         /\ Message(role, calls, made).calls = calls
BY DEF Message, Talk

LEMMA AskUserInv == ASSUME ChatInv, AskUser PROVE ChatInv'
<1> DEFINE x == Message("user", <<>>, <<>>)
           answers == Of(messages, 0, "assistant")
<1>1. x \in Talk /\ x.role = "user"
  <2>1. <<>> \in Seq(Answered) /\ <<>> \in Seq(Called)  OBVIOUS
  <2> QED BY <2>1 DEF Message, Talk
<1>2. messages' = Append(messages, x) /\ messages \in Seq(Talk)  BY DEF AskUser, ChatInv, TalkOK
<1>3. Cardinality(answers) < MaxReplies  BY <1>2, RepliesIs DEF AskUser
<1> HIDE DEF x
<1>4. /\ messages' \in Seq(Talk) /\ Len(messages') = Len(messages) + 1 /\ Len(messages) \in Nat
      /\ 0 \in 0 .. Len(messages)
  BY <1>1, <1>2, AppendIs
<1>5. /\ Cardinality(answers) \in Nat
      /\ Cardinality(Of(messages', 0, "assistant")) = Cardinality(answers) + 0
  <2>1. /\ Cardinality(Of(messages, 0, "assistant")) \in Nat
        /\ Cardinality(Of(Append(messages, x), 0, "assistant"))
             = Cardinality(Of(messages, 0, "assistant")) + IF x.role = "assistant" THEN 1 ELSE 0
    BY <1>1, <1>2, <1>4, CountGrows
  <2> QED BY <1>1, <1>2, <2>1
<1>6. LeftOpen(messages') >= 0
  <2>1. LeftOpen(Append(messages, x)) = LeftOpen(messages)  BY <1>1, <1>2, LeftOpenIs
  <2> QED BY <1>2, <2>1 DEF ChatInv, TalkOK
<1>7. Cardinality(Of(messages', 0, "assistant")) < MaxReplies
  BY <1>3, <1>5
<1>8. Len(prompt') <= Len(messages')
  <2>1. prompt' = prompt /\ Len(prompt) <= Len(messages)  BY DEF AskUser, ChatInv, TalkOK
  <2> QED BY <1>4, <2>1
<1>9. TalkOK'
  <2>1. Cardinality(Of(messages', 0, "assistant")) <= MaxReplies
    BY <1>5, <1>7, ChatAssumption
  <2> QED BY <1>4, <1>6, <1>7, <1>8, <2>1 DEF TalkOK
<1>10. Settled'
  <2>1. script' = script /\ output' = output /\ scan' = scan  BY DEF AskUser
  <2> QED BY <2>1 DEF ChatInv, Settled
<1>11. phase' = "generate" /\ tools' \in Tools /\ choice' \in Policies /\ status' \in {200, 400}
  BY DEF AskUser, ChatInv
<1> QED BY <1>9, <1>10, <1>11 DEF ChatInv

LEMMA ToolResultInv == ASSUME ChatInv, ToolResult PROVE ChatInv'
<1> DEFINE x == Message("tool", <<>>, <<>>)
           answers == Of(messages, 0, "assistant")
<1>1. x \in Talk /\ x.role = "tool"
  <2>1. <<>> \in Seq(Answered) /\ <<>> \in Seq(Called)  OBVIOUS
  <2> QED BY <2>1 DEF Message, Talk
<1>2. messages' = Append(messages, x) /\ messages \in Seq(Talk)  BY DEF ToolResult, ChatInv, TalkOK
<1> HIDE DEF x
<1>3. /\ messages' \in Seq(Talk) /\ Len(messages') = Len(messages) + 1 /\ Len(messages) \in Nat
      /\ 0 \in 0 .. Len(messages)
  BY <1>1, <1>2, AppendIs
<1>4. Cardinality(Of(messages', 0, "assistant")) = Cardinality(answers)
  <2>1. /\ Cardinality(Of(messages, 0, "assistant")) \in Nat
        /\ Cardinality(Of(Append(messages, x), 0, "assistant"))
             = Cardinality(Of(messages, 0, "assistant")) + IF x.role = "assistant" THEN 1 ELSE 0
    BY <1>1, <1>2, <1>3, CountGrows
  <2>2. x.role # "assistant"  BY <1>1
  <2> QED BY <1>2, <2>1, <2>2
<1>5. LeftOpen(messages') >= 0
  <2>1. LeftOpen(messages) > 0  BY UnansweredIs DEF ToolResult
  <2>2. LeftOpen(messages) \in Int /\ LeftOpen(Append(messages, x)) = LeftOpen(messages) - 1
    BY <1>1, <1>2, <2>1, LeftOpenIs
  <2> DEFINE z == LeftOpen(messages)
             y == LeftOpen(messages')
  <2>3. z \in Int /\ z > 0 /\ y = z - 1  BY <1>2, <2>1, <2>2
  <2> HIDE DEF y, z
  <2>4. y >= 0  BY <2>3
  <2> QED BY <2>4 DEF y
<1>6. Len(prompt') <= Len(messages')
  <2>1. prompt' = prompt /\ Len(prompt) <= Len(messages)  BY DEF ToolResult, ChatInv, TalkOK
  <2> QED BY <1>3, <2>1
<1>7. TalkOK'
  <2>1. phase' = phase  BY DEF ToolResult
  <2> QED BY <1>3, <1>4, <1>5, <1>6, <2>1 DEF TalkOK, ChatInv
<1>8. Settled'
  <2>1. script' = script /\ output' = output /\ scan' = scan  BY DEF ToolResult
  <2> QED BY <2>1 DEF ChatInv, Settled
<1>9. phase = "client" /\ phase' = phase /\ tools' = tools /\ choice' = choice /\ status' = status
  BY DEF ToolResult, request
<1> QED BY <1>7, <1>8, <1>9 DEF ChatInv

LEMMA AskAgainInv == ASSUME ChatInv, AskAgain PROVE ChatInv'
<1>1. /\ messages' = messages /\ tools' = tools /\ choice' = choice /\ script' = script
      /\ output' = output /\ scan' = scan /\ prompt' = prompt /\ status' = status
      /\ phase' = "generate"
  BY DEF AskAgain, request
<1>2. messages \in Seq(Talk)  BY DEF ChatInv, TalkOK
<1>3. Cardinality(Of(messages, 0, "assistant")) < MaxReplies  BY <1>2, RepliesIs DEF AskAgain
<1>4. TalkOK'  BY <1>1, <1>3 DEF ChatInv, TalkOK
<1>5. Settled'  BY <1>1 DEF ChatInv, Settled
<1> QED BY <1>1, <1>4, <1>5 DEF ChatInv

LEMMA AskNothingInv == ASSUME ChatInv, AskNothing PROVE ChatInv'
<1>1. /\ messages' = messages /\ tools' = tools /\ choice' = choice /\ script' = script
      /\ output' = output /\ scan' = scan /\ prompt' = prompt /\ status' = 400
      /\ phase' = phase /\ phase = "client"
  BY DEF AskNothing, request
<1>2. TalkOK'  BY <1>1 DEF ChatInv, TalkOK
<1>3. Settled'  BY <1>1 DEF ChatInv, Settled
<1> QED BY <1>1, <1>2, <1>3 DEF ChatInv

LEMMA GenerateInv == ASSUME ChatInv, Generate PROVE ChatInv'
<1>1. /\ messages' = messages /\ tools' = tools /\ choice' = choice /\ status' = status
      /\ script' \in Scripts /\ output' \in Cuts(script') /\ scan' = NewScan
      /\ phase = "generate" /\ phase' \in {"scan", "reply"} /\ (Detecting => phase' = "scan")
      /\ prompt' = [i \in DOMAIN messages |-> WrittenCalls(messages[i].calls)]
  BY DEF Generate, request
<1>2. messages \in Seq(Talk) /\ DOMAIN messages = 1 .. Len(messages) /\ Len(messages) \in Nat
  BY DEF ChatInv, TalkOK
<1>3. Len(prompt') <= Len(messages')
  <2> DEFINE n == Len(messages)
             U == {WrittenCalls(messages[i].calls) : i \in 1 .. n}
  <2>1. prompt' \in [1 .. n -> U]  BY <1>1, <1>2
  <2>2. n \in Nat  BY <1>2
  <2> HIDE DEF U, n
  <2>3. Len(prompt') = n  BY <2>1, <2>2
  <2> QED BY <1>1, <2>2, <2>3 DEF n
<1>4. TalkOK'  BY <1>1, <1>3 DEF ChatInv, TalkOK
<1>5. Settled'  BY <1>1 DEF Settled
<1>6. Detecting' = Detecting  BY <1>1 DEF Detecting
<1> QED BY <1>1, <1>4, <1>5, <1>6 DEF ChatInv

LEMMA ScanInv == ASSUME ChatInv, Scan PROVE ChatInv'
<1>1. /\ messages' = messages /\ tools' = tools /\ choice' = choice /\ script' = script
      /\ output' = output /\ scan' = Scanned(output) /\ prompt' = prompt /\ status' = status
      /\ phase = "scan" /\ phase' = "reply"
  BY DEF Scan, request
<1>2. script \in Scripts /\ output \in Cuts(script)  BY <1>1 DEF ChatInv
<1>3. TalkOK'  BY <1>1 DEF ChatInv, TalkOK
<1>4. Settled'  BY <1>1, <1>2 DEF Settled
<1> QED BY <1>1, <1>2, <1>3, <1>4 DEF ChatInv

LEMMA ReplyInv == ASSUME ChatInv, Reply PROVE ChatInv'
<1> DEFINE made == IF Detecting THEN CallsMade ELSE <<>>
           x == Message("assistant", scan.calls, made)
           answers == Of(messages, 0, "assistant")
<1>1. /\ tools' = tools /\ choice' = choice /\ script' = script /\ output' = output
      /\ scan' = scan /\ prompt' = prompt /\ status' = 200 /\ phase = "reply" /\ phase' = "client"
      /\ messages' = Append(messages, x)
  BY DEF Reply, request
<1>2. messages \in Seq(Talk) /\ Cardinality(answers) < MaxReplies  BY <1>1 DEF ChatInv, TalkOK
<1>3. x \in Talk /\ x.role = "assistant" /\ x.calls = scan.calls
  <2>1. scan.calls \in Seq(Answered)  BY SettledIs DEF ChatInv
  <2>2. made \in Seq(Called)
    <3>1. script \in Seq(Pieces) /\ output \in Cuts(script)  BY <1>1, ChatAssumption DEF ChatInv
    <3>2. CallsMade \in Seq(Called)  BY <3>1, DetectionIsRight
    <3>3. <<>> \in Seq(Called)  OBVIOUS
    <3> QED BY <3>2, <3>3
  <2> HIDE DEF made
  <2> QED BY <2>1, <2>2, MessageIs
<1> HIDE DEF x
<1>4. /\ messages' \in Seq(Talk) /\ Len(messages') = Len(messages) + 1 /\ Len(messages) \in Nat
      /\ 0 \in 0 .. Len(messages)
  BY <1>1, <1>2, <1>3, AppendIs
<1>5. Cardinality(Of(messages', 0, "assistant")) <= MaxReplies
  <2>1. /\ Cardinality(Of(messages, 0, "assistant")) \in Nat
        /\ Cardinality(Of(Append(messages, x), 0, "assistant"))
             = Cardinality(Of(messages, 0, "assistant")) + IF x.role = "assistant" THEN 1 ELSE 0
    BY <1>2, <1>3, <1>4, CountGrows
  <2> DEFINE z == Cardinality(answers)
             y == Cardinality(Of(messages', 0, "assistant"))
  <2>2. z \in Nat /\ y = z + 1 /\ z < MaxReplies /\ MaxReplies \in Nat
    BY <1>1, <1>2, <1>3, <2>1, ChatAssumption
  <2> HIDE DEF y, z
  <2>3. y <= MaxReplies  BY <2>2
  <2> QED BY <2>3 DEF y
<1>6. LeftOpen(messages') >= 0
  <2>1. LeftOpen(Append(messages, x)) = Len(x.calls)  BY <1>2, <1>3, LeftOpenIs
  <2>2. Len(x.calls) \in Nat
    <3>1. x.calls \in Seq(Answered)  BY <1>3 DEF Talk
    <3> QED BY <3>1
  <2> QED BY <1>1, <2>1, <2>2
<1>7. Len(prompt') <= Len(messages')
  <2>1. prompt' = prompt /\ Len(prompt) <= Len(messages)  BY <1>1 DEF ChatInv, TalkOK
  <2> QED BY <1>4, <2>1
<1>8. TalkOK'  BY <1>1, <1>4, <1>5, <1>6, <1>7 DEF TalkOK
<1>9. Settled'  BY <1>1 DEF ChatInv, Settled
<1> QED BY <1>1, <1>8, <1>9 DEF ChatInv

(* The invariant behind the theorems: what is being answered, and on which text the
   scan has run (forge_server.cpp, the handler of /v1/chat/completions). *)
THEOREM ChatInvariant == Spec => []ChatInv
<1>1. Init => ChatInv  BY InitInv
<1>2. ChatInv /\ [Next]_vars => ChatInv'
  <2> SUFFICES ASSUME ChatInv, [Next]_vars PROVE ChatInv'  OBVIOUS
  <2>1. CASE AskUser  BY <2>1, AskUserInv
  <2>2. CASE ToolResult  BY <2>2, ToolResultInv
  <2>3. CASE AskAgain  BY <2>3, AskAgainInv
  <2>4. CASE AskNothing  BY <2>4, AskNothingInv
  <2>5. CASE Generate  BY <2>5, GenerateInv
  <2>6. CASE Scan  BY <2>6, ScanInv
  <2>7. CASE Reply  BY <2>7, ReplyInv
  <2>8. CASE UNCHANGED vars
    BY <2>8 DEF vars, ChatInv, TalkOK, Settled, Detecting
  <2> QED BY <2>1, <2>2, <2>3, <2>4, <2>5, <2>6, <2>7, <2>8 DEF Next, Client, Server
<1> QED BY <1>1, <1>2, PTL DEF Spec

(* Type correctness of a conversation of any length, with any scripts: the bound on
   answers is kept, no more results than calls are typed, the scan stays inside
   the output. *)
THEOREM ChatTypeCorrect == Spec => []TypeOK
<1>1. ChatInv => TypeOK
  <2> SUFFICES ASSUME ChatInv PROVE TypeOK  OBVIOUS
  <2>1. messages \in Seq(Talk)  BY DEF ChatInv, TalkOK
  <2>2. \A i \in DOMAIN messages : messages[i].role \in {"user", "assistant", "tool"}
    <3>1. \A i \in DOMAIN messages : messages[i] \in Talk  BY <2>1
    <3> QED BY <3>1 DEF Talk
  <2>3. Replies <= MaxReplies /\ Unanswered >= 0
    BY <2>1, RepliesIs, UnansweredIs DEF ChatInv, TalkOK
  <2>4. /\ script \in Scripts \cup {<<>>}
        /\ scan.pos \in 1 .. Len(output) + 1 /\ Len(scan.calls) <= MaxCalls
    BY SettledIs DEF ChatInv
  <2> QED BY <2>2, <2>3, <2>4 DEF ChatInv, TalkOK, TypeOK
<1> QED BY <1>1, ChatInvariant, PTL

(* Whatever row of calls, prose and stray tags the model sets out to write, and
   wherever max_tokens ends it, detect_tool_call() leaves its loop and has found
   the calls that are there to their end, up to the limit, in order, each once,
   with all their arguments. *)
THEOREM CompleteCallsAreDetected == Spec => []CompleteCallsDetected
<1>1. ChatInv => CompleteCallsDetected
  <2> SUFFICES ASSUME ChatInv, phase = "reply", Detecting
               PROVE  scan.over /\ scan.calls = Json(CallsMade)
    BY DEF CompleteCallsDetected, Json
  <2>1. script \in Scripts /\ output \in Cuts(script) /\ scan = Scanned(output)  BY DEF ChatInv
  <2>2. script \in Seq(Pieces)  BY <2>1, ChatAssumption
  <2> QED BY <2>1, <2>2, DetectionIsRight
<1> QED BY <1>1, ChatInvariant, PTL

-----------------------------------------------------------------------------
(* The calls of the prompt *)

\* What the messages carry of the calls that were made, what the prompt shows of
\* the first messages, and what the next answer will carry.
Carried == \A i \in 1 .. Len(messages) : messages[i].calls = Json(messages[i].made)
Shown ==
    \E k \in 0 .. Len(messages) :
       /\ DOMAIN prompt = 1 .. k
       /\ \A i \in 1 .. k : prompt[i] = WrittenCalls(messages[i].calls)
Pending ==
    /\ phase = "scan" => Detecting
    /\ phase = "reply" /\ ~ Detecting => scan = NewScan
Remembered == Carried /\ Shown /\ Pending

LEMMA JsonOfNone == Json(<<>>) = <<>>
BY DEF Json

\* One message more.
LEMMA RememberMore ==
  ASSUME ChatInv, Carried, Shown, prompt' = prompt,
         NEW x \in Talk, messages' = Append(messages, x), x.calls = Json(x.made)
  PROVE  Carried' /\ Shown'
<1> DEFINE n == Len(messages)
           new == messages'
<1>1. messages \in Seq(Talk)  BY DEF ChatInv, TalkOK
<1>2. n \in Nat /\ Len(new) = n + 1 /\ new[n + 1] = x /\ \A i \in 1 .. n : new[i] = messages[i]
  BY <1>1, AppendProperties
<1> HIDE DEF n, new
<1>3. Carried'
  <2> SUFFICES ASSUME NEW i \in 1 .. Len(new) PROVE new[i].calls = Json(new[i].made)
    BY DEF Carried, Json, new
  <2>1. CASE i \in 1 .. n  BY <1>2, <2>1 DEF Carried, n
  <2>2. CASE i \notin 1 .. n
    <3>1. i = n + 1  BY <1>2, <2>2
    <3> QED BY <1>2, <3>1
  <2> QED BY <2>1, <2>2
<1>4. Shown'
  <2>1. PICK k \in 0 .. n : /\ DOMAIN prompt = 1 .. k
                            /\ \A i \in 1 .. k : prompt[i] = WrittenCalls(messages[i].calls)
    BY DEF Shown, n
  <2>2. k \in 0 .. Len(new) /\ \A i \in 1 .. k : new[i] = messages[i]  BY <1>2, <2>1
  <2>3. DOMAIN prompt' = 1 .. k /\ \A i \in 1 .. k : prompt'[i] = WrittenCalls(new[i].calls)
    BY <2>1, <2>2
  <2> QED BY <2>2, <2>3 DEF Shown, new
<1> QED BY <1>3, <1>4

LEMMA QuestionRemembered ==
  ASSUME ChatInv, Carried, Shown, prompt' = prompt, NEW role \in {"user", "tool"},
         messages' = Append(messages, Message(role, <<>>, <<>>))
  PROVE  Carried' /\ Shown'
<1> DEFINE x == Message(role, <<>>, <<>>)
<1>1. x \in Talk
  <2>1. <<>> \in Seq(Answered) /\ <<>> \in Seq(Called)  OBVIOUS
  <2> QED BY <2>1 DEF Message, Talk
<1>2. x.calls = <<>> /\ x.made = <<>>  BY DEF Message
<1>3. x.calls = Json(x.made)  BY <1>2, JsonOfNone
<1> HIDE DEF x
<1>4. messages' = Append(messages, x)  BY DEF x
<1> QED BY <1>1, <1>3, <1>4, RememberMore

LEMMA RememberedNext == ASSUME ChatInv, Remembered, [Next]_vars PROVE Remembered'
<1> USE DEF Remembered
<1>1. ASSUME messages' = messages, prompt' = prompt PROVE Carried' /\ Shown'
  BY <1>1 DEF Carried, Shown
<1>2. CASE AskUser
  <2>1. /\ messages' = Append(messages, Message("user", <<>>, <<>>)) /\ prompt' = prompt
        /\ phase' = "generate"
    BY <1>2 DEF AskUser
  <2>2. Carried' /\ Shown'  BY <2>1, QuestionRemembered
  <2> QED BY <2>1, <2>2 DEF Pending
<1>3. CASE ToolResult
  <2>1. /\ messages' = Append(messages, Message("tool", <<>>, <<>>)) /\ prompt' = prompt
        /\ phase' = "client"
    BY <1>3 DEF ToolResult
  <2>2. Carried' /\ Shown'  BY <2>1, QuestionRemembered
  <2> QED BY <2>1, <2>2 DEF Pending
<1>4. CASE AskAgain
  <2>1. messages' = messages /\ prompt' = prompt /\ phase' = "generate"  BY <1>4 DEF AskAgain
  <2> QED BY <1>1, <2>1 DEF Pending
<1>5. CASE AskNothing
  <2>1. messages' = messages /\ prompt' = prompt /\ phase' = "client"  BY <1>5 DEF AskNothing
  <2> QED BY <1>1, <2>1 DEF Pending
<1>6. CASE Generate
  <2>1. /\ messages' = messages /\ tools' = tools /\ choice' = choice /\ scan' = NewScan
        /\ phase' = IF Detecting THEN "scan" ELSE "reply"
        /\ prompt' = [i \in DOMAIN messages |-> WrittenCalls(messages[i].calls)]
    BY <1>6 DEF Generate, request
  <2>2. Carried'  BY <2>1 DEF Carried
  <2>3. Shown'
    <3> DEFINE n == Len(messages)
    <3>1. messages \in Seq(Talk)  BY DEF ChatInv, TalkOK
    <3>2. DOMAIN messages = 1 .. n /\ n \in 0 .. n  BY <3>1
    <3>3. DOMAIN prompt' = 1 .. n /\ \A i \in 1 .. n : prompt'[i] = WrittenCalls(messages[i].calls)
      BY <2>1, <3>2
    <3> HIDE DEF n
    <3>4. n = Len(messages')  BY <2>1 DEF n
    <3> QED BY <2>1, <3>2, <3>3, <3>4 DEF Shown
  <2>4. Pending'  BY <2>1 DEF Pending, Detecting
  <2> QED BY <2>2, <2>3, <2>4
<1>7. CASE Scan
  <2>1. /\ messages' = messages /\ prompt' = prompt /\ tools' = tools /\ choice' = choice
        /\ phase = "scan" /\ phase' = "reply"
    BY <1>7 DEF Scan, request
  <2>2. Pending'  BY <2>1 DEF Pending, Detecting
  <2> QED BY <1>1, <2>1, <2>2
<1>8. CASE Reply
  <2> DEFINE made == IF Detecting THEN CallsMade ELSE <<>>
             x == Message("assistant", scan.calls, made)
  <2>1. /\ messages' = Append(messages, x) /\ prompt' = prompt /\ phase = "reply" /\ phase' = "client"
    BY <1>8 DEF Reply
  <2>2. scan.calls = Json(made) /\ made \in Seq(Called)
    <3>1. CASE Detecting
      <4>1. script \in Seq(Pieces) /\ output \in Cuts(script) /\ scan = Scanned(output)
        BY <2>1, <3>1, ChatAssumption DEF ChatInv
      <4>2. Scanned(output).calls = Json(CallsMade) /\ CallsMade \in Seq(Called)
        BY <4>1, DetectionIsRight
      <4> QED BY <3>1, <4>1, <4>2
    <3>2. CASE ~ Detecting
      <4>1. scan = NewScan  BY <2>1, <3>2 DEF Pending
      <4>2. scan.calls = <<>>  BY <4>1 DEF NewScan
      <4>3. made = <<>> /\ <<>> \in Seq(Called)  BY <3>2
      <4> QED BY <4>2, <4>3, JsonOfNone
    <3> QED BY <3>1, <3>2
  <2> HIDE DEF made
  <2>3. x \in Talk /\ x.calls = Json(x.made)
    <3>1. scan.calls \in Seq(Answered)  BY SettledIs DEF ChatInv
    <3>2. x \in Talk  BY <2>2, <3>1, MessageIs
    <3>3. x.calls = scan.calls /\ x.made = made  BY DEF Message
    <3> QED BY <2>2, <3>2, <3>3
  <2> HIDE DEF x
  <2>4. Carried' /\ Shown'  BY <2>1, <2>3, RememberMore
  <2> QED BY <2>1, <2>4 DEF Pending
<1>9. CASE UNCHANGED vars
  BY <1>9 DEF vars, Carried, Shown, Pending, Detecting
<1> QED BY <1>2, <1>3, <1>4, <1>5, <1>6, <1>7, <1>8, <1>9 DEF Next, Client, Server

(* The prompt of every later request shows the model the calls it made, whatever it
   set out to write and however many turns ago: what detect_tool_call() made of a
   call, parse() reads back (types.hpp:190, http_server.cpp:74), for texts without
   quote, backslash and line break. *)
THEOREM CallsSurvive == Spec => []CallsSurviveTheTurn
<1>1. Init => Remembered
  <2> SUFFICES ASSUME Init PROVE Remembered  OBVIOUS
  <2>1. messages = <<>> /\ prompt = <<>> /\ phase = "client"  BY DEF Init
  <2>2. Len(messages) = 0 /\ DOMAIN prompt = 1 .. 0  BY <2>1
  <2>3. Carried  BY <2>2 DEF Carried
  <2>4. Shown
    <3>1. 0 \in 0 .. Len(messages) /\ 1 .. 0 = {}  BY <2>2
    <3> QED BY <2>2, <3>1 DEF Shown
  <2> QED BY <2>1, <2>3, <2>4 DEF Remembered, Pending
<1>2. ChatInv /\ Remembered /\ [Next]_vars => Remembered'  BY RememberedNext
<1>3. ChatInv /\ Remembered => CallsSurviveTheTurn
  <2> SUFFICES ASSUME ChatInv, Carried, Shown, NEW i \in DOMAIN prompt,
                      \A k \in DOMAIN messages[i].made : AllPlain(messages[i].made[k])
               PROVE  prompt[i] = FlattenSeq([k \in DOMAIN messages[i].made |->
                         MapMarkup(messages[i].made[k].name, AsMap(messages[i].made[k].params))])
    BY DEF CallsSurviveTheTurn, Remembered
  <2> DEFINE made == messages[i].made
             n == Len(made)
             calls == Json(made)
  <2>1. i \in 1 .. Len(messages) /\ prompt[i] = WrittenCalls(messages[i].calls)
    <3>1. messages \in Seq(Talk)  BY DEF ChatInv, TalkOK
    <3>2. Len(messages) \in Nat  BY <3>1
    <3>3. PICK k \in 0 .. Len(messages) :
             DOMAIN prompt = 1 .. k /\ \A j \in 1 .. k : prompt[j] = WrittenCalls(messages[j].calls)
      BY DEF Shown
    <3> QED BY <3>2, <3>3
  <2>2. messages[i].calls = calls  BY <2>1 DEF Carried
  <2>3. made \in Seq(Called)
    <3>1. messages \in Seq(Talk)  BY DEF ChatInv, TalkOK
    <3>2. messages[i] \in Talk  BY <2>1, <3>1
    <3> QED BY <3>2 DEF Talk
  <2>4. \A k \in DOMAIN made : AllPlain(made[k])  OBVIOUS
  <2> HIDE DEF made
  <2>5. /\ DOMAIN calls = DOMAIN made /\ \A k \in DOMAIN made : made[k] \in Called
        /\ \A k \in DOMAIN made : calls[k] = [name |-> made[k].name, args |-> ArgsJson(made[k].params)]
    BY <2>3 DEF Json
  <2> HIDE DEF calls
  <2>6. \A k \in DOMAIN made : WrittenCall(calls[k]) = MapMarkup(made[k].name, AsMap(made[k].params))
    BY <2>4, <2>5, CallIsReadBack
  <2>7. WrittenCalls(calls)
          = FlattenSeq([k \in DOMAIN made |-> MapMarkup(made[k].name, AsMap(made[k].params))])
    BY <2>5, <2>6 DEF WrittenCalls
  <2> QED BY <2>1, <2>2, <2>7 DEF made
<1> QED BY <1>1, <1>2, <1>3, ChatInvariant, PTL DEF Spec
=============================================================================
