---------------------------- MODULE SqueezeProofs ----------------------------
(* Theorems about Squeeze, for every number of layers, any shapes and any sizes of
   blocks and chunks. *)
EXTENDS Squeeze, Lemmas

-----------------------------------------------------------------------------
(* Quotients and remainders *)

LEMMA DivModUnique ==
  ASSUME NEW w \in Nat \ {0}, NEW q \in Nat, NEW r \in 0 .. w - 1
  PROVE  (q * w + r) \div w = q /\ (q * w + r) % w = r
<1> DEFINE a == q * w + r
<1>1. a \in Nat /\ a = w * q + r  OBVIOUS
<1>2. a % w \in 0 .. w - 1 /\ a \div w \in Nat  BY <1>1, ModRange
<1>3. a = w * (a \div w) + (a % w)  BY <1>1, DivMod
<1> DEFINE p == a \div w
           s == a % w
<1> HIDE DEF a
<1>4. p \in Nat /\ s \in 0 .. w - 1 /\ w * q + r = w * p + s  BY <1>1, <1>2, <1>3
<1> HIDE DEF p, s
<1>5. q = p /\ r = s  BY <1>4, DivUnique
<1> QED BY <1>5 DEF a, p, s

-----------------------------------------------------------------------------
(* The layout of a matrix *)

LEMMA Sizes ==
  ASSUME NEW type \in QuantTypes
  PROVE  /\ PerByte(type) \in {1, 2, 4} /\ Scales(type) \in Nat
         /\ Block \div PerByte(type) \in Nat \ {0}
         /\ Block = (Block \div PerByte(type)) * PerByte(type)
         /\ BlockBytes(type) \in Nat \ {0}
         /\ BlockBytes(type) = Scales(type) + Block \div PerByte(type)
<1>1. Block \in Nat \ {0} /\ Block % 4 = 0  BY QuantLayoutAssumption
<1>2. PerByte(type) \in {1, 2, 4}  BY DEF PerByte
<1>3. Scales(type) \in Nat  BY QuantLayoutAssumption DEF Scales
<1>4. CASE PerByte(type) = 1  BY <1>1, <1>3, <1>4 DEF BlockBytes
<1>5. CASE PerByte(type) = 2  BY <1>1, <1>3, <1>5 DEF BlockBytes
<1>6. CASE PerByte(type) = 4  BY <1>1, <1>3, <1>6 DEF BlockBytes
<1> QED BY <1>2, <1>4, <1>5, <1>6

LEMMA BlocksAre ==
  ASSUME NEW n \in Nat
  PROVE  /\ Blocks(n) \in Nat /\ n <= Blocks(n) * Block /\ Blocks(n) * Block < n + Block
         /\ n # 0 => Blocks(n) # 0
<1> DEFINE a == n + Block - 1
           q == a \div Block
           r == a % Block
<1>1. Block \in Nat \ {0}  BY QuantLayoutAssumption
<1>2. a \in Nat  BY <1>1
<1> HIDE DEF a
<1>3. q \in Nat /\ r \in 0 .. Block - 1  BY <1>1, <1>2, ModRange
<1>4. a = Block * q + r  BY <1>1, <1>2, DivMod
<1> HIDE DEF q, r
<1>5. Block * q = q * Block /\ q * Block \in Nat  BY <1>1, <1>3
<1>6. n <= q * Block /\ q * Block < n + Block  BY <1>1, <1>3, <1>4, <1>5 DEF a
<1>7. q = 0 => q * Block = 0  BY <1>1
<1>8. Blocks(n) = q  BY DEF Blocks, q, a
<1> QED BY <1>3, <1>6, <1>7, <1>8

LEMMA BlocksUnique ==
  ASSUME NEW n \in Nat, NEW q \in Nat, n <= q * Block, q * Block < n + Block
  PROVE  Blocks(n) = q
<1>1. Block \in Nat \ {0}  BY QuantLayoutAssumption
<1> DEFINE p == Blocks(n)
<1>2. p \in Nat /\ n <= p * Block /\ p * Block < n + Block  BY BlocksAre
<1> HIDE DEF p
<1>3. p * Block \in Nat /\ q * Block \in Nat  BY <1>1, <1>2
<1>4. p < q => p * Block + Block <= q * Block
  <2>1. p < q => Block * p + Block <= Block * q  BY <1>1, <1>2, MultStep
  <2> QED BY <1>1, <1>2, <2>1
<1>5. q < p => q * Block + Block <= p * Block
  <2>1. q < p => Block * q + Block <= Block * p  BY <1>1, <1>2, MultStep
  <2> QED BY <1>1, <1>2, <2>1
<1> QED BY <1>1, <1>2, <1>3, <1>4, <1>5 DEF p

\* The byte at place q of block b.
LayoutByte(type, first, n, b, q) ==
    IF q < Scales(type) THEN ScaleByte((first + b * Block) \div Block)
    ELSE [j \in 1 .. PerByte(type) |->
             IF b * Block + (q - Scales(type)) * PerByte(type) + j - 1 < n
             THEN <<"weight", first + (b * Block + (q - Scales(type)) * PerByte(type) + j - 1)>>
             ELSE <<"pad", 0>>]

LEMMA LayoutLen ==
  ASSUME NEW type \in QuantTypes, NEW first \in Nat, NEW n \in Nat
  PROVE  /\ Len(quantize_matrix(type, first, n)) = Blocks(n) * BlockBytes(type)
         /\ Blocks(n) * BlockBytes(type) \in Nat
         /\ DOMAIN quantize_matrix(type, first, n) = 1 .. Blocks(n) * BlockBytes(type)
<1> DEFINE N == Blocks(n) * BlockBytes(type)
<1>1. N \in Nat  BY BlocksAre, Sizes
<1> HIDE DEF N
<1>2. DOMAIN quantize_matrix(type, first, n) = 1 .. N  BY DEF quantize_matrix, N
<1>3. Len(quantize_matrix(type, first, n)) = N
  BY <1>1 DEF quantize_matrix, N
<1> QED BY <1>1, <1>2, <1>3 DEF N

LEMMA LayoutAt ==
  ASSUME NEW type \in QuantTypes, NEW first \in Nat, NEW n \in Nat,
         NEW b \in 0 .. Blocks(n) - 1, NEW q \in 0 .. BlockBytes(type) - 1
  PROVE  /\ b * BlockBytes(type) + q + 1 \in 1 .. Blocks(n) * BlockBytes(type)
         /\ quantize_matrix(type, first, n)[b * BlockBytes(type) + q + 1]
              = LayoutByte(type, first, n, b, q)
<1> DEFINE B == BlockBytes(type)
           N == Blocks(n) * B
           k == b * B + q + 1
<1>0. B \in Nat \ {0} /\ Scales(type) \in Nat /\ Blocks(n) \in Nat  BY BlocksAre, Sizes
<1>1. q \in 0 .. B - 1 /\ b \in Nat /\ b + 1 <= Blocks(n)  BY <1>0
<1> HIDE DEF B
<1>2. b * B \in Nat /\ (b + 1) * B = b * B + B  BY <1>0, <1>1
<1>3. (b + 1) * B <= Blocks(n) * B /\ Blocks(n) * B \in Nat  BY <1>0, <1>1, MultMono
<1>4. k \in 1 .. N /\ k - 1 = b * B + q  BY <1>0, <1>1, <1>2, <1>3
<1>5. (b * B + q) \div B = b /\ (b * B + q) % B = q
  BY ONLY <1>0, <1>1, DivModUnique
<1>6. (k - 1) \div B = b /\ (k - 1) % B = q  BY <1>4, <1>5
<1> HIDE DEF k
<1>7. quantize_matrix(type, first, n)[k] =
        (IF q - Scales(type) < 0 THEN ScaleByte((first + b * Block) \div Block)
         ELSE [j \in 1 .. PerByte(type) |->
                 IF b * Block + (q - Scales(type)) * PerByte(type) + j - 1 < n
                 THEN <<"weight", first + (b * Block + (q - Scales(type)) * PerByte(type) + j - 1)>>
                 ELSE <<"pad", 0>>])
  <2> HIDE DEF N
  <2>1. quantize_matrix(type, first, n) =
          [l \in 1 .. N |->
              IF ((l - 1) % B) - Scales(type) < 0 THEN ScaleByte((first + ((l - 1) \div B) * Block) \div Block)
              ELSE [j \in 1 .. PerByte(type) |->
                     IF ((l - 1) \div B) * Block + (((l - 1) % B) - Scales(type)) * PerByte(type) + j - 1 < n
                     THEN <<"weight", first + (((l - 1) \div B) * Block
                                               + (((l - 1) % B) - Scales(type)) * PerByte(type) + j - 1)>>
                     ELSE <<"pad", 0>>]]
    BY DEF quantize_matrix, B, N
  <2> QED BY <1>4, <1>6, <2>1
<1>8. q - Scales(type) < 0 <=> q < Scales(type)  BY <1>0, <1>1
<1>9. quantize_matrix(type, first, n)[k] = LayoutByte(type, first, n, b, q)
  BY <1>7, <1>8 DEF LayoutByte
<1> QED BY <1>4, <1>9 DEF k, B, N

\* Every byte is in one place of one block.
LEMMA PlaceOf ==
  ASSUME NEW B \in Nat \ {0}, NEW N \in Nat, NEW k \in 1 .. N * B
  PROVE  \E b \in 0 .. N - 1, q \in 0 .. B - 1 : k = b * B + q + 1
<1> DEFINE b == (k - 1) \div B
           q == (k - 1) % B
<1>1. N * B \in Nat  OBVIOUS
<1>2. k - 1 \in Nat  BY <1>1
<1>3. b \in Nat /\ q \in 0 .. B - 1  BY <1>2, ModRange
<1>4. k - 1 = B * b + q  BY <1>2, DivMod
<1> HIDE DEF b, q
<1>5. B * b = b * B /\ b * B \in Nat  BY <1>3
<1>6. ~ (N <= b)
  <2>1. N <= b => N * B <= b * B  BY <1>3, MultMono
  <2> QED BY <1>1, <1>3, <1>4, <1>5, <2>1
<1>7. b \in 0 .. N - 1 /\ k = b * B + q + 1  BY <1>2, <1>3, <1>4, <1>5, <1>6
<1> QED BY <1>3, <1>7

Bytes == UNION {[1 .. p -> {"weight", "scale", "pad"} \X Int] : p \in {1, 2, 4}}

LEMMA LayoutType ==
  ASSUME NEW type \in QuantTypes, NEW first \in Nat, NEW n \in Nat
  PROVE  quantize_matrix(type, first, n) \in Seq(Bytes)
<1> DEFINE B == BlockBytes(type)
           Codes == {"weight", "scale", "pad"} \X Int
           s == quantize_matrix(type, first, n)
<1>0. B \in Nat \ {0} /\ Blocks(n) \in Nat /\ Scales(type) \in Nat /\ PerByte(type) \in {1, 2, 4}
      /\ Block \in Nat \ {0}
  BY BlocksAre, Sizes, QuantLayoutAssumption
<1>1. ASSUME NEW b \in 0 .. Blocks(n) - 1, NEW q \in 0 .. B - 1
      PROVE  LayoutByte(type, first, n, b, q) \in Bytes
  <2>1. b * Block \in Nat /\ q \in Nat  BY <1>0
  <2>2. CASE q < Scales(type)
    <3>1. (first + b * Block) \div Block \in Nat
      <4> DEFINE a == first + b * Block
      <4>1. a \in Nat  BY <2>1
      <4> HIDE DEF a
      <4>2. a \div Block \in Nat  BY <1>0, <4>1, ModRange
      <4> QED BY <4>2 DEF a
    <3>2. ScaleByte((first + b * Block) \div Block) \in [1 .. 4 -> Codes]
      BY <3>1 DEF ScaleByte
    <3> QED BY <2>2, <3>2 DEF LayoutByte, Bytes
  <2>3. CASE ~ (q < Scales(type))
    <3> DEFINE off == (q - Scales(type)) * PerByte(type)
    <3>1. off \in Int  BY <1>0, <2>1
    <3> HIDE DEF off
    <3>2. [j \in 1 .. PerByte(type) |->
             IF b * Block + off + j - 1 < n
             THEN <<"weight", first + (b * Block + off + j - 1)>> ELSE <<"pad", 0>>]
            \in [1 .. PerByte(type) -> Codes]
      BY <1>0, <2>1, <3>1
    <3>3. LayoutByte(type, first, n, b, q) \in [1 .. PerByte(type) -> Codes]
      BY <2>3, <3>2 DEF LayoutByte, off
    <3> QED BY <1>0, <3>3 DEF Bytes
  <2> QED BY <2>2, <2>3
<1> DEFINE N == Blocks(n) * B
<1>2. Len(s) = N /\ N \in Nat /\ DOMAIN s = 1 .. N  BY LayoutLen
<1>3. ASSUME NEW k \in 1 .. N PROVE s[k] \in Bytes
  <2>1. PICK b \in 0 .. Blocks(n) - 1, q \in 0 .. B - 1 : k = b * B + q + 1
    <3> HIDE DEF B
    <3> QED BY <1>0, PlaceOf
  <2>2. s[k] = LayoutByte(type, first, n, b, q)  BY <2>1, LayoutAt
  <2> QED BY <1>1, <2>2
<1>4. s = [k \in 1 .. N |-> s[k]]  BY DEF quantize_matrix
<1> HIDE DEF s, N
<1> QED BY <1>2, <1>3, <1>4 DEF s

LEMMA LayoutNotEmpty ==
  ASSUME NEW type \in QuantTypes, NEW n \in Nat \ {0}
  PROVE  Len(quantize_matrix(type, 0, n)) \in Nat \ {0}
<1> DEFINE N == Blocks(n)
           B == BlockBytes(type)
<1>1. N \in Nat \ {0} /\ B \in Nat \ {0}  BY BlocksAre, Sizes
<1>2. Len(quantize_matrix(type, 0, n)) = N * B  BY LayoutLen
<1> HIDE DEF N, B
<1>3. N * B \in Nat \ {0}  BY <1>1
<1> QED BY <1>2, <1>3

\* FlattenSeq puts the sequences one after the other.
LEMMA FlattenIs ==
  ASSUME NEW T, NEW seqs \in Seq(Seq(T))
  PROVE  \E flat \in [0 .. Len(seqs) -> Seq(T)] :
            /\ flat[0] = <<>> /\ flat[Len(seqs)] = FlattenSeq(seqs)
            /\ \A i \in 1 .. Len(seqs) : flat[i] = flat[i - 1] \o seqs[i]
<1> DEFINE n == Len(seqs)
           U == Seq(T)
           e == <<>>
           g == [p \in (1 .. n) \X U |-> p[2] \o seqs[p[1]]]
<1>0. n \in Nat /\ e \in U /\ \A i \in 1 .. n : seqs[i] \in U  OBVIOUS
<1>1. g \in [(1 .. n) \X U -> U]  BY <1>0
<1>2. PICK flat \in [0 .. n -> U] : Iterates(flat, n, e, g)
  <2> HIDE DEF n, U, e, g
  <2> QED BY <1>0, <1>1, RecursionExists
<1>3. flat[0] = <<>>  BY <1>2 DEF Iterates
<1>4. \A i \in 1 .. n : flat[i] = flat[i - 1] \o seqs[i]
  <2> SUFFICES ASSUME NEW i \in 1 .. n PROVE flat[i] = flat[i - 1] \o seqs[i]  OBVIOUS
  <2> HIDE DEF U, n
  <2>0. i - 1 \in 0 .. n  BY <1>0
  <2>1. flat[i - 1] \in U /\ flat[i] = g[<<i, flat[i - 1]>>]
    <3> HIDE DEF g
    <3> QED BY <1>2, <2>0 DEF Iterates
  <2> QED BY <2>1
<1>5. CASE n = 0
  <2>1. FlattenSeq(seqs) = seqs /\ seqs = <<>>  BY <1>5 DEF FlattenSeq
  <2> QED BY <1>3, <1>4, <1>5, <2>1
<1>6. CASE n # 0
  <2> DEFINE Is(f) == f = [i \in 1 .. n |-> IF i = 1 THEN seqs[i] ELSE f[i - 1] \o seqs[i]]
             f == [i \in 1 .. n |-> flat[i]]
             h == CHOOSE c : Is(c)
             S == {i \in 0 .. n - 1 : h[i + 1] = flat[i + 1]}
  <2> HIDE DEF n
  <2>1. flat[1] = seqs[1]
    <3>1. 1 \in 1 .. n  BY <1>0, <1>6
    <3>2. flat[1] = flat[0] \o seqs[1]
      <4>1. 1 - 1 = 0  OBVIOUS
      <4> QED BY <1>4, <3>1, <4>1
    <3>3. seqs[1] \in Seq(T)  BY <1>0, <3>1
    <3> QED BY <1>3, <3>2, <3>3
  <2>2. \A i \in 1 .. n : f[i] = IF i = 1 THEN seqs[i] ELSE f[i - 1] \o seqs[i]
    <3> SUFFICES ASSUME NEW i \in 1 .. n, i # 1 PROVE f[i] = f[i - 1] \o seqs[i]
      BY <2>1
    <3>1. i - 1 \in 1 .. n  BY <1>0
    <3> QED BY <1>4, <3>1
  <2>3. Is(f)  BY <2>2
  <2> HIDE DEF f
  <2>4. Is(h)  BY <2>3
  <2>5. FlattenSeq(seqs) = h[n]  BY <1>6 DEF FlattenSeq, n
  <2>6. h = [i \in 1 .. n |-> IF i = 1 THEN seqs[i] ELSE h[i - 1] \o seqs[i]]  BY <2>4
  <2> HIDE DEF h, Is
  <2>7. 0 \in S
    <3>1. 1 \in 1 .. n /\ 0 \in 0 .. n - 1 BY <1>0, <1>6
    <3> QED BY <2>1, <2>6, <3>1
  <2>8. ASSUME NEW i \in 0 .. (n - 1) - 1, i \in S PROVE i + 1 \in S
    <3>1. i + 1 \in 0 .. n - 1 /\ i + 2 \in 1 .. n /\ i + 2 # 1 /\ (i + 2) - 1 = i + 1
          /\ h[i + 1] = flat[i + 1] /\ (i + 1) + 1 = i + 2
      BY <1>0, <1>6, <2>8
    <3>2. h[i + 2] = h[i + 1] \o seqs[i + 2]  BY <2>6, <3>1
    <3>3. flat[i + 2] = flat[i + 1] \o seqs[i + 2]  BY <1>4, <3>1
    <3> QED BY <3>1, <3>2, <3>3
  <2> DEFINE m == n - 1
  <2>9. m \in Nat /\ \A i \in 0 .. m - 1 : i \in S => i + 1 \in S  BY <1>0, <1>6, <2>8
  <2> HIDE DEF S, m
  <2>10. m \in S
    <3>1. \A i \in 0 .. m : i \in S  BY ONLY <2>7, <2>9, Induct
    <3> QED BY <2>9, <3>1
  <2>11. h[n] = flat[n]  BY <1>0, <2>10 DEF S, m
  <2> QED BY <1>2, <1>3, <1>4, <2>5, <2>11 DEF n
<1> QED BY <1>5, <1>6

\* The layout of m weights from a block boundary on is what the layout of all has
\* there, when they are the last ones or fill their blocks.
LEMMA LayoutPart ==
  ASSUME NEW type \in QuantTypes, NEW v \in Nat, NEW m \in Nat \ {0}, NEW total \in Nat, NEW u \in Nat,
         v * Block + m <= total, v * Block + m = total \/ m = u * Block,
         NEW k \in 1 .. Blocks(m) * BlockBytes(type)
  PROVE  /\ v * BlockBytes(type) + k \in 1 .. Blocks(total) * BlockBytes(type)
         /\ quantize_matrix(type, v * Block, m)[k]
              = quantize_matrix(type, 0, total)[v * BlockBytes(type) + k]
<1> DEFINE B == BlockBytes(type)
           first == v * Block
           P == PerByte(type)
           C == Block \div P
<1>0. /\ B \in Nat \ {0} /\ Blocks(m) \in Nat /\ Blocks(total) \in Nat /\ Scales(type) \in Nat
      /\ P \in {1, 2, 4} /\ Block \in Nat \ {0} /\ C \in Nat /\ Block = C * P /\ B = Scales(type) + C
  BY BlocksAre, Sizes, QuantLayoutAssumption
<1>1. PICK b \in 0 .. Blocks(m) - 1, q \in 0 .. B - 1 : k = b * B + q + 1
  <2> DEFINE N == Blocks(m)
  <2>1. N \in Nat /\ B \in Nat \ {0} /\ k \in 1 .. N * B  BY <1>0
  <2> HIDE DEF B, N
  <2>2. \E b \in 0 .. N - 1, q \in 0 .. B - 1 : k = b * B + q + 1  BY ONLY <2>1, PlaceOf
  <2> QED BY <2>2 DEF N
<1>2. first \in Nat /\ b \in Nat /\ q \in Nat /\ b + 1 <= Blocks(m) /\ b * Block \in Nat
  BY <1>0, <1>1
<1>3. b * Block < m
  <2>1. (b + 1) * Block <= Blocks(m) * Block  BY <1>0, <1>2, MultMono
  <2>2. (b + 1) * Block = b * Block + Block  BY <1>0, <1>2
  <2>3. Blocks(m) * Block < m + Block  BY BlocksAre
  <2> QED BY <1>0, <1>2, <2>1, <2>2, <2>3
<1>4. (v + b) * Block = first + b * Block /\ (v + b) * B = v * B + b * B
  <2> HIDE DEF B, first
  <2>1. (v + b) * Block = v * Block + b * Block  BY <1>0, <1>2
  <2>2. (v + b) * B = v * B + b * B  BY <1>0, <1>2
  <2> QED BY <2>1, <2>2 DEF first
<1>5. v + b \in 0 .. Blocks(total) - 1
  <2> HIDE DEF first
  <2>1. (v + b) * Block < total  BY <1>2, <1>3, <1>4 DEF first
  <2>2. total <= Blocks(total) * Block  BY BlocksAre
  <2>3. Blocks(total) <= v + b => Blocks(total) * Block <= (v + b) * Block
    BY <1>0, <1>2, MultMono
  <2>4. (v + b) * Block \in Nat /\ Blocks(total) * Block \in Nat  BY <1>0, <1>2
  <2> QED BY <1>0, <1>2, <2>1, <2>2, <2>3, <2>4
<1>6. LayoutByte(type, first, m, b, q) = LayoutByte(type, 0, total, v + b, q)
  <2>1. CASE q < Scales(type)
    <3>1. first + b * Block = 0 + (v + b) * Block  BY <1>0, <1>2, <1>4
    <3> QED BY <2>1, <3>1 DEF LayoutByte
  <2>2. CASE ~ (q < Scales(type))
    <3> DEFINE x == (q - Scales(type)) * P
               bb == b * Block
               vb == (v + b) * Block
    <3>1. x \in Nat /\ x + P <= Block
      <4> DEFINE y == q - Scales(type)
      <4>1. y \in Nat /\ y + 1 <= C  BY <1>0, <1>1, <2>2
      <4> HIDE DEF y, C, P
      <4>2. (y + 1) * P <= C * P /\ (y + 1) * P = y * P + P /\ y * P \in Nat
        BY <1>0, <4>1, MultMono
      <4> QED BY <1>0, <4>2 DEF y
    <3>2. ASSUME NEW j \in 1 .. P
          PROVE  /\ bb + x + j - 1 < m <=> vb + x + j - 1 < total
                 /\ first + (bb + x + j - 1) = 0 + (vb + x + j - 1)
      <4>1. bb \in Nat /\ vb = first + bb /\ first \in Nat  BY <1>2, <1>4
      <4>2. CASE first + m = total
        <5> HIDE DEF x, bb, vb, first, P
        <5> QED BY <1>0, <3>1, <4>1, <4>2
      <4>3. CASE m = u * Block
        <5>1. bb + Block <= m
          <6>1. ~ (u <= b)
            <7>1. u <= b => u * Block <= b * Block  BY <1>0, <1>2, MultMono
            <7> QED BY <1>2, <1>3, <4>3, <7>1
          <6>2. b + 1 <= u  BY <1>2, <6>1
          <6>3. (b + 1) * Block <= u * Block /\ (b + 1) * Block = b * Block + Block
            BY <1>0, <1>2, <6>2, MultMono
          <6> QED BY <4>3, <6>3
        <5>2. first + m <= total  OBVIOUS
        <5> HIDE DEF x, bb, vb, first, P
        <5> QED BY <1>0, <3>1, <4>1, <5>1, <5>2
      <4> QED BY <4>2, <4>3
    <3>3. LayoutByte(type, first, m, b, q) =
            [j \in 1 .. P |-> IF bb + x + j - 1 < m THEN <<"weight", first + (bb + x + j - 1)>>
                              ELSE <<"pad", 0>>]
      BY <2>2 DEF LayoutByte
    <3>4. LayoutByte(type, 0, total, v + b, q) =
            [j \in 1 .. P |-> IF vb + x + j - 1 < total THEN <<"weight", 0 + (vb + x + j - 1)>>
                              ELSE <<"pad", 0>>]
      BY <2>2 DEF LayoutByte
    <3> HIDE DEF x, bb, vb, first, P
    <3> QED BY <3>2, <3>3, <3>4
  <2> QED BY <2>1, <2>2
<1>7. quantize_matrix(type, first, m)[b * B + q + 1] = LayoutByte(type, first, m, b, q)
  BY <1>2, LayoutAt
<1>8. /\ (v + b) * B + q + 1 \in 1 .. Blocks(total) * B
      /\ quantize_matrix(type, 0, total)[(v + b) * B + q + 1] = LayoutByte(type, 0, total, v + b, q)
  BY <1>5, LayoutAt
<1>9. v * B + k = (v + b) * B + q + 1
  <2> HIDE DEF B
  <2>1. v * B \in Nat /\ b * B \in Nat  BY <1>0, <1>2
  <2> QED BY <1>1, <1>2, <1>4, <2>1
<1> HIDE DEF B, first
<1> QED BY <1>1, <1>6, <1>7, <1>8, <1>9 DEF B, first

\* Chunks of ChunkRows rows end at block boundaries: laid out one after the other
\* they are the layout of the whole matrix.
LEMMA ChunksAreWhole ==
  ASSUME NEW type \in QuantTypes, NEW n_rows \in Nat \ {0}, NEW n_cols \in Nat \ {0}
  PROVE  quantize_chunks(type, n_rows, n_cols) = quantize_matrix(type, 0, n_rows * n_cols)
<1> DEFINE R == ChunkRows
           chunks == (n_rows + R - 1) \div R
           Rows(i) == IF i * R < n_rows THEN i * R ELSE n_rows
           Part(c) == quantize_matrix(type, (c - 1) * R * n_cols, (Rows(c) - (c - 1) * R) * n_cols)
           seqs == [c \in 1 .. chunks |-> Part(c)]
           total == n_rows * n_cols
           whole == quantize_matrix(type, 0, total)
           B == BlockBytes(type)
           w == (R \div Block) * n_cols
<1>0. /\ R \in Nat \ {0} /\ Block \in Nat \ {0} /\ B \in Nat \ {0} /\ total \in Nat \ {0}
      /\ R = Block * (R \div Block) /\ R \div Block \in Nat
  <2>1. R \in Nat \ {0} /\ Block \in Nat \ {0} /\ R % Block = 0  BY QuantLayoutAssumption
  <2>2. R = Block * (R \div Block) + (R % Block) /\ R \div Block \in Nat
    BY ONLY <2>1, DivMod, ModRange
  <2>3. Block * (R \div Block) \in Nat  BY <2>1, <2>2
  <2>4. R = Block * (R \div Block)
    <3> DEFINE p == Block * (R \div Block)
    <3> HIDE DEF p, R
    <3> QED BY <2>1, <2>2, <2>3 DEF p
  <2>5. B \in Nat \ {0}  BY Sizes
  <2>6. total \in Nat \ {0}  OBVIOUS
  <2> QED BY <2>1, <2>2, <2>4, <2>5, <2>6
<1>1. /\ chunks \in Nat \ {0} /\ n_rows <= chunks * R
      /\ \A i \in 0 .. chunks - 1 : i * R < n_rows /\ i * R \in Nat
  <2> HIDE DEF R
  <2> DEFINE a == n_rows + R - 1
             q == a \div R
             r == a % R
  <2>1. a \in Nat  BY <1>0
  <2>2. chunks = q  OBVIOUS
  <2> HIDE DEF a
  <2>3. q \in Nat /\ r \in 0 .. R - 1 /\ a = R * q + r  BY <1>0, <2>1, ModRange, DivMod
  <2> HIDE DEF q, r, chunks
  <2>4. R * q = q * R /\ q * R \in Nat  BY <1>0, <2>3
  <2>5. n_rows <= q * R /\ q * R < n_rows + R  BY <1>0, <2>3, <2>4 DEF a
  <2>6. q # 0
    <3>1. q = 0 => q * R = 0  BY <1>0
    <3> QED BY <2>5, <3>1
  <2>7. ASSUME NEW i \in 0 .. q - 1 PROVE i * R < n_rows /\ i * R \in Nat
    <3>1. i \in Nat /\ i + 1 \in Nat /\ i + 1 <= q  BY <2>3
    <3>2. (i + 1) * R <= q * R  BY <1>0, <2>3, <3>1, MultMono
    <3>3. (i + 1) * R = i * R + R /\ i * R \in Nat  BY <1>0, <3>1
    <3> QED BY <1>0, <2>4, <2>5, <3>2, <3>3
  <2> QED BY <2>2, <2>3, <2>5, <2>6, <2>7
<1>2. quantize_chunks(type, n_rows, n_cols) = FlattenSeq(seqs)
  BY DEF quantize_chunks, ChunksOf
<1> HIDE DEF R, chunks
\* The part a chunk adds, with what is before it a number of whole blocks.
<1>3. ASSUME NEW i \in 0 .. chunks - 1
      PROVE  \E m \in Nat \ {0}, u \in Nat :
                /\ Part(i + 1) = quantize_matrix(type, (i * w) * Block, m)
                /\ (i * w) * Block = Rows(i) * n_cols
                /\ (i * w) * Block + m = Rows(i + 1) * n_cols /\ (i * w) * Block + m <= total
                /\ (i * w) * Block + m = total \/ m = u * Block
  <2> DEFINE rows == Rows(i + 1) - i * R
             m == rows * n_cols
  <2>1. i \in Nat /\ i * R < n_rows /\ i * R \in Nat /\ Rows(i) = i * R  BY <1>1
  <2>2. Rows(i + 1) \in Nat /\ Rows(i + 1) <= n_rows
    <3>1. (i + 1) * R \in Nat  BY <1>0, <2>1
    <3> QED BY <3>1
  <2>3. (i + 1) * R = i * R + R  BY <1>0, <2>1
  <2>4. rows \in Nat \ {0} /\ (Rows(i + 1) = n_rows \/ rows = R)
    BY <1>0, <2>1, <2>3
  <2>5. m \in Nat \ {0}
    <3> HIDE DEF rows
    <3> QED BY <2>4
  <2>6. (i * w) * Block = (i * R) * n_cols /\ w * Block = R * n_cols
    <3> DEFINE z == R \div Block
    <3>1. z \in Nat /\ R = Block * z  BY <1>0
    <3> HIDE DEF z, R
    <3>2. (z * n_cols) * Block = (Block * z) * n_cols  BY <1>0, <3>1
    <3>3. (i * (z * n_cols)) * Block = (i * (Block * z)) * n_cols  BY <1>0, <2>1, <3>1
    <3> QED BY <3>1, <3>2, <3>3 DEF z, R
  <2>7. (i * R) * n_cols + m = Rows(i + 1) * n_cols
    <3> DEFINE t == Rows(i + 1)
               y == i * R
    <3>1. t \in Int /\ y \in Int  BY <2>1, <2>2
    <3> HIDE DEF t, y
    <3>2. y * n_cols + (t - y) * n_cols = t * n_cols  BY <3>1
    <3> QED BY <3>2 DEF t, y
  <2>8. Rows(i + 1) * n_cols <= total
    <3> DEFINE t == Rows(i + 1)
    <3>1. t \in Nat /\ t <= n_rows  BY <2>2
    <3> HIDE DEF t
    <3> QED BY <3>1, MultMono DEF t
  <2>9. (i * w) * Block + m = total \/ m = w * Block
    <3>1. CASE Rows(i + 1) = n_rows  BY <2>6, <2>7, <3>1
    <3>2. CASE rows = R
      <4> HIDE DEF rows, w
      <4> QED BY <2>6, <3>2
    <3> QED BY <2>4, <3>1, <3>2
  <2>10. Part(i + 1) = quantize_matrix(type, (i * w) * Block, m)
    <3>1. (i + 1) - 1 = i  BY <2>1
    <3> QED BY <2>6, <3>1
  <2>11. w \in Nat  BY <1>0
  <2> HIDE DEF Part, Rows, m, w, total
  <2> QED BY <2>1, <2>5, <2>6, <2>7, <2>8, <2>9, <2>10, <2>11
<1> DEFINE At(i) == Blocks(Rows(i) * n_cols) * B
           upTo(i) == SubSeq(whole, 1, At(i))
<1>4. whole \in Seq(Bytes) /\ Len(whole) = Blocks(total) * B /\ Blocks(total) \in Nat
      /\ Blocks(total) * B \in Nat
  BY <1>0, LayoutType, LayoutLen, BlocksAre
<1>5. w \in Nat /\ \A i \in 0 .. chunks - 1 : i * w \in Nat  BY <1>0, <1>1
<1>6. ASSUME NEW i \in 0 .. chunks - 1
      PROVE  /\ Part(i + 1) \in Seq(Bytes)
             /\ At(i) \in Nat /\ At(i + 1) = At(i) + Len(Part(i + 1)) /\ At(i + 1) <= Len(whole)
             /\ \A k \in 1 .. Len(Part(i + 1)) : Part(i + 1)[k] = whole[At(i) + k]
  <2> DEFINE v == i * w
  <2>0. v \in Nat  BY <1>5
  <2>1. PICK m \in Nat \ {0}, u \in Nat :
           /\ Part(i + 1) = quantize_matrix(type, v * Block, m)
           /\ v * Block = Rows(i) * n_cols
           /\ v * Block + m = Rows(i + 1) * n_cols /\ v * Block + m <= total
           /\ v * Block + m = total \/ m = u * Block
    BY <1>3
  <2> HIDE DEF v, Part, Rows, whole, total
  <2>2. v * Block \in Nat  BY <1>0, <2>0
  <2>3. Blocks(v * Block) = v
    <3>1. v * Block <= v * Block /\ v * Block < v * Block + Block  BY <1>0, <2>2
    <3> QED BY <2>0, <2>2, <3>1, BlocksUnique
  <2>4. Blocks(m) \in Nat /\ m <= Blocks(m) * Block /\ Blocks(m) * Block < m + Block  BY BlocksAre
  <2>5. Blocks(v * Block + m) = v + Blocks(m)
    <3> DEFINE x == v + Blocks(m)
    <3>1. x \in Nat /\ x * Block = v * Block + Blocks(m) * Block  BY <1>0, <2>0, <2>4
    <3>2. Blocks(m) * Block \in Nat  BY <1>0, <2>4
    <3> HIDE DEF x
    <3>3. v * Block + m <= x * Block /\ x * Block < (v * Block + m) + Block
      BY <1>0, <2>2, <2>4, <3>1, <3>2
    <3>4. v * Block + m \in Nat  BY <2>2
    <3>5. Blocks(v * Block + m) = x  BY <3>1, <3>3, <3>4, BlocksUnique
    <3> QED BY <3>5 DEF x
  <2>6. At(i) = v * B  BY <2>1, <2>3
  <2>7. At(i + 1) = (v + Blocks(m)) * B  BY <2>1, <2>5
  <2>8. Part(i + 1) \in Seq(Bytes) /\ Len(Part(i + 1)) = Blocks(m) * B
    <3> DEFINE first == v * Block
    <3>1. first \in Nat  BY <2>2
    <3>2. Part(i + 1) = quantize_matrix(type, first, m)  BY <2>1
    <3> HIDE DEF first
    <3>3. quantize_matrix(type, first, m) \in Seq(Bytes)  BY <3>1, LayoutType
    <3>4. Len(quantize_matrix(type, first, m)) = Blocks(m) * BlockBytes(type)  BY <3>1, LayoutLen
    <3> QED BY <3>2, <3>3, <3>4
  <2>9. (v + Blocks(m)) * B = v * B + Blocks(m) * B /\ v * B \in Nat /\ Blocks(m) * B \in Nat
    <3> HIDE DEF B
    <3> QED BY <1>0, <2>0, <2>4
  <2>10. total \in Nat  BY <1>0
  <2>11. ASSUME NEW k \in 1 .. Blocks(m) * BlockBytes(type)
         PROVE  /\ v * BlockBytes(type) + k \in 1 .. Blocks(total) * BlockBytes(type)
                /\ quantize_matrix(type, v * Block, m)[k]
                     = quantize_matrix(type, 0, total)[v * BlockBytes(type) + k]
    BY <2>0, <2>1, <2>10, LayoutPart
  <2>12. \A k \in 1 .. Len(Part(i + 1)) : Part(i + 1)[k] = whole[At(i) + k]
    BY <2>1, <2>6, <2>8, <2>11 DEF whole
  <2>13. v * B + Blocks(m) * B <= Len(whole)
    <3>1. Blocks(m) # 0  BY BlocksAre
    <3> DEFINE k == Blocks(m) * B
    <3>2. k \in Nat \ {0}
      <4> HIDE DEF B
      <4> QED BY <1>0, <2>4, <3>1
    <3>3. k \in 1 .. k  BY <3>2
    <3>4. v * B + k \in 1 .. Blocks(total) * B  BY <2>11, <3>3
    <3> QED BY <1>4, <3>4
  <2> HIDE DEF B, At
  <2> QED BY <2>6, <2>7, <2>8, <2>9, <2>12, <2>13
<1>7. At(0) = 0
  <2>1. Rows(0) * n_cols = 0  BY <1>0
  <2>2. Blocks(0) = 0  BY <1>0, BlocksUnique
  <2> HIDE DEF Rows, B
  <2> QED BY <1>0, <2>1, <2>2
<1>8. At(chunks) = Len(whole)
  <2>1. Rows(chunks) = n_rows  BY <1>0, <1>1
  <2> HIDE DEF Rows, B, whole
  <2> QED BY <1>4, <2>1
<1>9. seqs \in Seq(Seq(Bytes)) /\ Len(seqs) = chunks
  <2> HIDE DEF Part
  <2>1. ASSUME NEW c \in 1 .. chunks PROVE Part(c) \in Seq(Bytes)
    <3>1. c - 1 \in 0 .. chunks - 1 /\ (c - 1) + 1 = c  BY <1>1
    <3>2. Part((c - 1) + 1) \in Seq(Bytes)  BY <1>6, <3>1
    <3> QED BY <3>1, <3>2
  <2> QED BY <1>1, <2>1
<1>10. PICK flat \in [0 .. chunks -> Seq(Bytes)] :
           /\ flat[0] = <<>> /\ flat[chunks] = FlattenSeq(seqs)
           /\ \A c \in 1 .. chunks : flat[c] = flat[c - 1] \o seqs[c]
  <2> HIDE DEF seqs
  <2>1. \E flat \in [0 .. Len(seqs) -> Seq(Bytes)] :
            /\ flat[0] = <<>> /\ flat[Len(seqs)] = FlattenSeq(seqs)
            /\ \A c \in 1 .. Len(seqs) : flat[c] = flat[c - 1] \o seqs[c]
    BY <1>9, FlattenIs
  <2> QED BY <1>9, <2>1
<1> DEFINE S == {i \in 0 .. chunks : flat[i] = upTo(i)}
<1> HIDE DEF Part, At, whole, B, Rows
<1>11. 0 \in S
  <2>1. upTo(0) = <<>>  BY <1>4, <1>7
  <2>2. 0 \in 0 .. chunks  BY <1>1
  <2>3. flat[0] = upTo(0)  BY <1>10, <2>1
  <2> QED BY <2>2, <2>3
<1>12. ASSUME NEW i \in 0 .. chunks - 1, i \in S PROVE i + 1 \in S
  <2> DEFINE part == Part(i + 1)
  <2>1. i + 1 \in 1 .. chunks /\ i + 1 \in 0 .. chunks /\ (i + 1) - 1 = i /\ flat[i] = upTo(i)
    BY <1>1, <1>12
  <2>2. flat[i + 1] = upTo(i) \o part  BY <1>10, <2>1
  <2>3. /\ part \in Seq(Bytes) /\ At(i) \in Nat /\ At(i + 1) = At(i) + Len(part)
        /\ At(i + 1) <= Len(whole) /\ \A k \in 1 .. Len(part) : part[k] = whole[At(i) + k]
    BY <1>6
  <2> HIDE DEF part
  <2>4. upTo(i) \o part = upTo(i + 1)
    <3> DEFINE a == At(i)
               l == Len(part)
               joined == upTo(i) \o part
               longer == upTo(i + 1)
    <3>0. a \in Nat /\ l \in Nat /\ a + l <= Len(whole) /\ At(i + 1) = a + l  BY <2>3
    <3> HIDE DEF a, l
    <3>1. upTo(i) \in Seq(Bytes) /\ Len(upTo(i)) = a /\ \A k \in 1 .. a : upTo(i)[k] = whole[k]
      BY <1>4, <3>0 DEF a
    <3>2. longer \in Seq(Bytes) /\ Len(longer) = a + l /\ \A k \in 1 .. a + l : longer[k] = whole[k]
      BY <1>4, <3>0
    <3> DEFINE before == upTo(i)
    <3> HIDE DEF before
    <3>3. before \in Seq(Bytes) /\ Len(before) = a /\ \A k \in 1 .. a : before[k] = whole[k]
      BY <3>1 DEF before
    <3>4. joined = before \o part  BY DEF before
    <3> HIDE DEF joined, longer
    <3>5. joined \in Seq(Bytes) /\ Len(joined) = a + l
      <4>1. part \in Seq(Bytes) /\ Len(part) = l  BY <2>3 DEF l
      <4>2. before \o part \in Seq(Bytes)  BY ONLY <4>1, <3>3
      <4>3. Len(before \o part) = a + l  BY ONLY <4>1, <3>3, ConcatProperties
      <4> QED BY ONLY <3>4, <4>2, <4>3
    <3>6. ASSUME NEW k \in 1 .. a + l PROVE joined[k] = whole[k]
      <4>1. CASE k <= a
        <5>1. k \in 1 .. a  BY <3>0, <4>1
        <5>2. joined[k] = before[k]  BY <2>3, <3>3, <3>4, <5>1
        <5> QED BY <3>3, <5>1, <5>2
      <4>2. CASE a < k
        <5>1. k - a \in 1 .. l /\ a + (k - a) = k  BY <3>0, <4>2
        <5>2. joined[k] = part[k - a]  BY <2>3, <3>0, <3>3, <3>4, <4>2 DEF l
        <5>3. part[k - a] = whole[a + (k - a)]  BY <2>3, <5>1 DEF a, l
        <5> QED BY <5>1, <5>2, <5>3
      <4> QED BY <3>0, <4>1, <4>2
    <3>7. joined = longer  BY <3>0, <3>2, <3>5, <3>6
    <3> QED BY <3>7 DEF joined, longer
  <2> QED BY <2>1, <2>2, <2>4
<1> HIDE DEF S
<1>13. chunks \in S
  <2>1. chunks \in Nat /\ \A i \in 0 .. chunks - 1 : i \in S => i + 1 \in S  BY <1>1, <1>12
  <2>2. \A i \in 0 .. chunks : i \in S  BY ONLY <1>11, <2>1, Induct
  <2> QED BY <2>1, <2>2
<1>14. flat[chunks] = whole  BY <1>4, <1>8, <1>13 DEF S
<1> QED BY <1>2, <1>10, <1>14 DEF whole

-----------------------------------------------------------------------------
(* The tensors main() stores are different ones *)

Distinct(s) == \A i, j \in 1 .. Len(s) : s[i] = s[j] => i = j

LEMMA DistinctJoin ==
  ASSUME NEW T, NEW s \in Seq(T), NEW t \in Seq(T), Distinct(s), Distinct(t),
         \A i \in 1 .. Len(s), j \in 1 .. Len(t) : s[i] # t[j]
  PROVE  s \o t \in Seq(T) /\ Distinct(s \o t)
<1> DEFINE st == s \o t
           a == Len(s)
           b == Len(t)
<1>1. a \in Nat /\ b \in Nat /\ st \in Seq(T) /\ Len(st) = a + b
      /\ \A i \in 1 .. a : st[i] = s[i]
  OBVIOUS
<1>2. ASSUME NEW i \in 1 .. a + b, ~ (i <= a) PROVE i - a \in 1 .. b /\ st[i] = t[i - a]
  BY <1>1, <1>2
<1> HIDE DEF st
<1>3. ASSUME NEW i \in 1 .. a + b, NEW j \in 1 .. a + b, st[i] = st[j] PROVE i = j
  <2>1. CASE i <= a /\ j <= a
    <3>1. i \in 1 .. a /\ j \in 1 .. a  BY <1>1, <2>1
    <3>2. s[i] = s[j]  BY <1>1, <1>3, <3>1
    <3> QED BY <3>1, <3>2 DEF Distinct
  <2>2. CASE i <= a /\ ~ (j <= a)
    <3>1. i \in 1 .. a /\ j - a \in 1 .. b /\ st[i] = s[i] /\ st[j] = t[j - a]
      BY <1>1, <1>2, <2>2
    <3> QED BY <1>3, <3>1
  <2>3. CASE ~ (i <= a) /\ j <= a
    <3>1. j \in 1 .. a /\ i - a \in 1 .. b /\ st[j] = s[j] /\ st[i] = t[i - a]
      BY <1>1, <1>2, <2>3
    <3> QED BY <1>3, <3>1
  <2>4. CASE ~ (i <= a) /\ ~ (j <= a)
    <3>1. i - a \in 1 .. b /\ j - a \in 1 .. b /\ t[i - a] = t[j - a]
      BY <1>2, <1>3, <2>4
    <3>2. i - a = j - a  BY <3>1 DEF Distinct
    <3> QED BY <1>1, <3>2
  <2> QED BY <2>1, <2>2, <2>3, <2>4
<1>4. Distinct(st)
  <2> HIDE DEF a, b
  <2> QED BY <1>1, <1>3 DEF Distinct
<1> QED BY <1>1, <1>4 DEF st

LEMMA LayersDistinct ==
  ASSUME NEW n \in Nat, NEW C \in SUBSET Nat, NEW seqs \in Seq(Seq(Nat \X C)), Len(seqs) = n,
         \A l \in 1 .. n : Distinct(seqs[l]) /\ \A i \in 1 .. Len(seqs[l]) : seqs[l][i][1] = l - 1
  PROVE  FlattenSeq(seqs) \in Seq(Nat \X C) /\ Distinct(FlattenSeq(seqs))
<1> DEFINE T == Nat \X C
<1>1. PICK flat \in [0 .. n -> Seq(T)] :
         /\ flat[0] = <<>> /\ flat[n] = FlattenSeq(seqs)
         /\ \A i \in 1 .. n : flat[i] = flat[i - 1] \o seqs[i]
  <2> HIDE DEF T
  <2>1. seqs \in Seq(Seq(T))  BY DEF T
  <2>2. \E flat \in [0 .. Len(seqs) -> Seq(T)] :
           /\ flat[0] = <<>> /\ flat[Len(seqs)] = FlattenSeq(seqs)
           /\ \A i \in 1 .. Len(seqs) : flat[i] = flat[i - 1] \o seqs[i]
    BY ONLY <2>1, FlattenIs
  <2> QED BY <2>2
<1> DEFINE Good(i) == Distinct(flat[i]) /\ \A k \in 1 .. Len(flat[i]) : flat[i][k][1] < i
           S == {i \in 0 .. n : Good(i)}
<1>2. 0 \in S
  <2>1. Good(0)  BY <1>1 DEF Distinct
  <2> HIDE DEF Good
  <2> QED BY <2>1
<1>3. ASSUME NEW i \in 0 .. n - 1, i \in S PROVE i + 1 \in S
  <2> DEFINE s == flat[i]
             t == seqs[i + 1]
  <2>1. i + 1 \in 1 .. n /\ (i + 1) - 1 = i /\ i \in 0 .. n /\ i + 1 \in 0 .. n  OBVIOUS
  <2>2. flat[i + 1] = s \o t  BY <1>1, <2>1
  <2>3. s \in Seq(T) /\ t \in Seq(T)
    <3> DEFINE P == Seq(T)
    <3>1. seqs \in Seq(P) /\ Len(seqs) = n /\ flat \in [0 .. n -> P]  OBVIOUS
    <3> HIDE DEF P
    <3>2. flat[i] \in P  BY ONLY <2>1, <3>1
    <3>3. seqs[i + 1] \in P  BY ONLY <2>1, <3>1
    <3> QED BY <3>2, <3>3 DEF P
  <2>4. Distinct(s) /\ \A k \in 1 .. Len(s) : s[k][1] < i  BY <1>3
  <2>5. Distinct(t) /\ \A k \in 1 .. Len(t) : t[k][1] = i  BY <2>1
  <2> HIDE DEF s, t
  <2>6. \A k \in 1 .. Len(s), l \in 1 .. Len(t) : s[k] # t[l]
    <3> SUFFICES ASSUME NEW k \in 1 .. Len(s), NEW l \in 1 .. Len(t), s[k] = t[l] PROVE FALSE  OBVIOUS
    <3>1. s[k][1] < i /\ t[l][1] = i /\ i \in Int  BY <2>4, <2>5
    <3>2. i < i  BY <3>1
    <3> QED BY <3>1, <3>2
  <2>7. Distinct(s \o t)  BY ONLY <2>3, <2>4, <2>5, <2>6, DistinctJoin
  <2>8. ASSUME NEW k \in 1 .. Len(s \o t) PROVE (s \o t)[k][1] < i + 1
    <3>1. CASE k <= Len(s)
      <4>1. k \in 1 .. Len(s) /\ (s \o t)[k] = s[k]  BY <2>3, <3>1
      <4>2. s[k][1] < i /\ s[k][1] \in Nat  BY <2>3, <2>4, <4>1
      <4> QED BY <4>1, <4>2
    <3>2. CASE ~ (k <= Len(s))
      <4>1. k - Len(s) \in 1 .. Len(t) /\ (s \o t)[k] = t[k - Len(s)]  BY <2>3, <3>2
      <4>2. t[k - Len(s)][1] = i  BY <2>5, <4>1
      <4> QED BY <4>1, <4>2
    <3> QED BY <2>3, <3>1, <3>2
  <2> QED BY <2>1, <2>2, <2>7, <2>8
<1> HIDE DEF S
<1>4. n \in S
  <2>1. \A i \in 0 .. n - 1 : i \in S => i + 1 \in S  BY <1>3
  <2>2. \A i \in 0 .. n : i \in S  BY ONLY n \in Nat, <1>2, <2>1, Induct
  <2> QED BY <2>2
<1>5. Distinct(flat[n])  BY <1>4 DEF S
<1> QED BY <1>1, <1>5

LEMMA TensorsAre == Tensors \in Seq(Nat \X Nat) /\ Distinct(Tensors)
<1> DEFINE A == [l \in 1 .. NLayers |-> LayerTensors(l)]
           Z == [l \in 1 .. NLayers |-> NormTensors(l)]
           M == <<Embedding, Output, <<0, 9>>>>
           a == FlattenSeq(A)
           z == FlattenSeq(Z)
<1>0. NLayers \in Nat /\ Matrices \in 0 .. 7  BY SqueezeAssumption
<1>1. a \in Seq(Nat \X (0 .. 6)) /\ Distinct(a)
  <2>1. ASSUME NEW l \in 1 .. NLayers
        PROVE  LayerTensors(l) \in Seq(Nat \X (0 .. 6)) /\ Len(LayerTensors(l)) = Matrices
               /\ \A m \in 1 .. Matrices : LayerTensors(l)[m] = <<l - 1, m - 1>>
    BY <1>0 DEF LayerTensors
  <2>2. A \in Seq(Seq(Nat \X (0 .. 6))) /\ Len(A) = NLayers  BY <1>0, <2>1
  <2>3. \A l \in 1 .. NLayers : Distinct(A[l]) /\ \A i \in 1 .. Len(A[l]) : A[l][i][1] = l - 1
    <3> SUFFICES ASSUME NEW l \in 1 .. NLayers
                 PROVE  Distinct(LayerTensors(l)) /\ \A i \in 1 .. Len(LayerTensors(l)) : LayerTensors(l)[i][1] = l - 1
      OBVIOUS
    <3>1. Len(LayerTensors(l)) = Matrices /\ Matrices \in Nat
          /\ \A m \in 1 .. Matrices : LayerTensors(l)[m] = <<l - 1, m - 1>>
      BY <1>0, <2>1
    <3>2. ASSUME NEW i \in 1 .. Matrices, NEW j \in 1 .. Matrices,
                 LayerTensors(l)[i] = LayerTensors(l)[j]
          PROVE  i = j
      <4>1. <<l - 1, i - 1>> = <<l - 1, j - 1>>  BY ONLY <3>1, <3>2
      <4>2. i - 1 = j - 1  BY ONLY <4>1
      <4> QED BY ONLY <4>2, <3>1, i \in 1 .. Matrices, j \in 1 .. Matrices
    <3>3. \A i \in 1 .. Matrices : LayerTensors(l)[i][1] = l - 1  BY ONLY <3>1
    <3> QED BY ONLY <3>1, <3>2, <3>3 DEF Distinct
  <2> HIDE DEF A
  <2>4. 0 .. 6 \in SUBSET Nat  OBVIOUS
  <2> QED BY ONLY <1>0, <2>2, <2>3, <2>4, LayersDistinct
<1>2. z \in Seq(Nat \X (7 .. 8)) /\ Distinct(z)
  <2>1. ASSUME NEW l \in 1 .. NLayers
        PROVE  NormTensors(l) \in Seq(Nat \X (7 .. 8)) /\ Len(NormTensors(l)) = 2
               /\ NormTensors(l)[1] = <<l - 1, 7>> /\ NormTensors(l)[2] = <<l - 1, 8>>
    BY <1>0 DEF NormTensors
  <2>2. Z \in Seq(Seq(Nat \X (7 .. 8))) /\ Len(Z) = NLayers
    <3> DEFINE P == Seq(Nat \X (7 .. 8))
    <3>1. \A l \in 1 .. NLayers : NormTensors(l) \in P  BY <2>1
    <3> HIDE DEF P
    <3>2. Z \in Seq(P) /\ Len(Z) = NLayers  BY <1>0, <3>1
    <3> QED BY <3>2 DEF P
  <2>3. \A l \in 1 .. NLayers : Distinct(Z[l]) /\ \A i \in 1 .. Len(Z[l]) : Z[l][i][1] = l - 1
    <3> SUFFICES ASSUME NEW l \in 1 .. NLayers
                 PROVE  Distinct(NormTensors(l)) /\ \A i \in 1 .. Len(NormTensors(l)) : NormTensors(l)[i][1] = l - 1
      OBVIOUS
    <3> DEFINE t == NormTensors(l)
    <3>1. Len(t) = 2 /\ t[1] = <<l - 1, 7>> /\ t[2] = <<l - 1, 8>>  BY <2>1
    <3> HIDE DEF t
    <3>2. t[1][1] = l - 1 /\ t[2][1] = l - 1 /\ t[1][2] = 7 /\ t[2][2] = 8  BY <3>1
    <3>3. t[1] # t[2]  BY <3>2
    <3>4. Distinct(t)
      <4>1. \A i, j \in {1, 2} : t[i] = t[j] => i = j  BY <3>3
      <4>2. 1 .. Len(t) = {1, 2}  BY <3>1
      <4> QED BY <4>1, <4>2 DEF Distinct
    <3>5. \A i \in 1 .. Len(t) : t[i][1] = l - 1  BY <3>1, <3>2
    <3> QED BY <3>4, <3>5 DEF t
  <2> HIDE DEF Z
  <2>4. 7 .. 8 \in SUBSET Nat  OBVIOUS
  <2> QED BY ONLY <1>0, <2>2, <2>3, <2>4, LayersDistinct
<1>3. M \in Seq(Nat \X Nat) /\ Len(M) = 3 /\ Distinct(M)
      /\ \A i \in 1 .. 3 : M[i][2] \in 9 .. 11
  BY DEF Embedding, Output, Distinct
<1>4. Tensors = a \o M \o z  BY DEF Tensors
<1> HIDE DEF a, z, M
<1>5. a \in Seq(Nat \X Nat) /\ z \in Seq(Nat \X Nat)
      /\ (\A i \in 1 .. Len(a) : a[i][2] \in 0 .. 6) /\ \A i \in 1 .. Len(z) : z[i][2] \in 7 .. 8
  <2>1. ASSUME NEW C \in SUBSET Nat, NEW s \in Seq(Nat \X C)
        PROVE  s \in Seq(Nat \X Nat) /\ \A i \in 1 .. Len(s) : s[i][2] \in C
    <3>1. \A i \in 1 .. Len(s) : s[i] \in Nat \X C  OBVIOUS
    <3>2. \A i \in 1 .. Len(s) : s[i] \in Nat \X Nat /\ s[i][2] \in C  BY <3>1
    <3> DEFINE U == Nat \X Nat
    <3>3. \A i \in 1 .. Len(s) : s[i] \in U  BY <3>2
    <3> HIDE DEF U
    <3>4. s \in Seq(U)  BY <3>3
    <3> QED BY <3>2, <3>4 DEF U
  <2>2. 0 .. 6 \in SUBSET Nat /\ 7 .. 8 \in SUBSET Nat  OBVIOUS
  <2> QED BY <1>1, <1>2, <2>1, <2>2
<1>6. a \o M \in Seq(Nat \X Nat) /\ Distinct(a \o M)
  <2>1. \A i \in 1 .. Len(a), j \in 1 .. Len(M) : a[i] # M[j]
    <3> SUFFICES ASSUME NEW i \in 1 .. Len(a), NEW j \in 1 .. Len(M), a[i] = M[j] PROVE FALSE  OBVIOUS
    <3>1. a[i][2] \in 0 .. 6 /\ M[j][2] \in 9 .. 11  BY <1>3, <1>5
    <3> QED BY <3>1
  <2> QED BY ONLY <1>1, <1>3, <1>5, <2>1, DistinctJoin
<1>7. (a \o M) \o z \in Seq(Nat \X Nat) /\ Distinct((a \o M) \o z)
  <2> DEFINE am == a \o M
  <2>1. \A i \in 1 .. Len(am), j \in 1 .. Len(z) : am[i] # z[j]
    <3> SUFFICES ASSUME NEW i \in 1 .. Len(am), NEW j \in 1 .. Len(z), am[i] = z[j] PROVE FALSE  OBVIOUS
    <3>1. am[i][2] \notin 7 .. 8
      <4>1. CASE i <= Len(a)
        <5>1. i \in 1 .. Len(a) /\ am[i] = a[i]  BY <1>3, <1>5, <4>1
        <5>2. a[i][2] \in 0 .. 6  BY <1>5, <5>1
        <5> QED BY <5>1, <5>2
      <4>2. CASE ~ (i <= Len(a))
        <5>1. i - Len(a) \in 1 .. 3 /\ am[i] = M[i - Len(a)]
          <6> DEFINE U == Nat \X Nat
          <6>1. a \in Seq(U) /\ M \in Seq(U) /\ Len(M) = 3  BY <1>3, <1>5
          <6> HIDE DEF U
          <6>a. Len(a \o M) = Len(a) + Len(M)  BY ONLY <6>1, ConcatProperties
          <6>b. Len(a) \in Nat  BY ONLY <6>1
          <6>2. Len(am) = Len(a) + 3 /\ Len(a) \in Nat  BY <6>1, <6>a, <6>b
          <6>3. i \in 1 .. Len(a) + 3  BY <6>2
          <6> QED BY <4>2, <6>1, <6>2, <6>3
        <5>2. M[i - Len(a)][2] \in 9 .. 11  BY <1>3, <5>1
        <5> QED BY <5>1, <5>2
      <4> QED BY <4>1, <4>2
    <3>2. z[j][2] \in 7 .. 8  BY <1>5
    <3> QED BY <3>1, <3>2
  <2> HIDE DEF am
  <2>2. am \in Seq(Nat \X Nat) /\ Distinct(am)  BY <1>6 DEF am
  <2>3. am \o z \in Seq(Nat \X Nat) /\ Distinct(am \o z)
    BY ONLY <1>2, <1>5, <2>1, <2>2, DistinctJoin
  <2> QED BY <2>3 DEF am
<1> QED BY <1>4, <1>7

-----------------------------------------------------------------------------
(* What the reader makes of a layout *)

LEMMA BlockBelow ==
  ASSUME NEW n \in Nat, NEW b \in Nat, b * Block < n
  PROVE  b \in 0 .. Blocks(n) - 1
<1>0. Block \in Nat \ {0}  BY QuantLayoutAssumption
<1> DEFINE p == Blocks(n)
<1>1. p \in Nat /\ n <= p * Block  BY BlocksAre
<1> HIDE DEF p
<1>2. p * Block \in Nat /\ b * Block \in Nat  BY <1>0, <1>1
<1>3. ~ (p <= b)
  <2>1. p <= b => p * Block <= b * Block  BY <1>0, <1>1, MultMono
  <2> QED BY <1>1, <1>2, <2>1
<1>4. b \in 0 .. p - 1  BY <1>1, <1>3
<1> QED BY <1>4 DEF p

\* Weight i of a Q8 matrix is in the block i \div Block, after its scale.
LEMMA DequantizeQ8 ==
  ASSUME NEW n \in Nat
  PROVE  dequantize(Q8, quantize_matrix(Q8, 0, n), n) = WeightsInPlace(n)
<1> DEFINE bytes == quantize_matrix(Q8, 0, n)
           B == BlockBytes(Q8)
<1>0. /\ Block \in Nat \ {0} /\ ScaleBytes \in Nat \ {0} /\ Q8 \in QuantTypes
      /\ PerByte(Q8) = 1 /\ Scales(Q8) = ScaleBytes /\ B = ScaleBytes + Block
  <2>1. Block \in Nat \ {0} /\ ScaleBytes \in Nat \ {0}  BY QuantLayoutAssumption
  <2>2. Q8 \in QuantTypes /\ PerByte(Q8) = 1 /\ Scales(Q8) = ScaleBytes
    BY DEF Q8, Q2, QuantTypes, PerByte, Scales, Ternary
  <2>3. Block \div 1 = Block  BY <2>1
  <2> QED BY <2>1, <2>2, <2>3 DEF BlockBytes
<1>1. ASSUME NEW i \in 0 .. n - 1
      PROVE  bytes[(i \div Block) * B + ScaleBytes + (i % Block) + 1][1] = <<"weight", i>>
  <2> DEFINE b == i \div Block
             r == i % Block
             q == ScaleBytes + r
  <2>1. i \in Nat /\ i < n  OBVIOUS
  <2>2. b \in Nat /\ r \in 0 .. Block - 1 /\ i = Block * b + r  BY <1>0, <2>1, ModRange, DivMod
  <2> HIDE DEF b, r
  <2>3. b * Block = Block * b /\ b * Block \in Nat  BY <1>0, <2>2
  <2>4. b \in 0 .. Blocks(n) - 1
    <3>1. b * Block < n  BY <1>0, <2>1, <2>2, <2>3
    <3> QED BY <2>2, <3>1, BlockBelow
  <2>5. q \in 0 .. B - 1 /\ ~ (q < ScaleBytes) /\ q - ScaleBytes = r  BY <1>0, <2>2
  <2> HIDE DEF q
  <2>6. bytes[b * B + q + 1] = LayoutByte(Q8, 0, n, b, q)
    <3>1. q \in 0 .. BlockBytes(Q8) - 1  BY <2>5 DEF B
    <3> QED BY <1>0, <2>4, <3>1, LayoutAt DEF B
  <2>7. LayoutByte(Q8, 0, n, b, q) =
          [j \in 1 .. 1 |-> IF b * Block + r * 1 + j - 1 < n
                            THEN <<"weight", 0 + (b * Block + r * 1 + j - 1)>> ELSE <<"pad", 0>>]
    BY <1>0, <2>5 DEF LayoutByte
  <2>8. b * Block + r * 1 + 1 - 1 = i  BY <1>0, <2>2, <2>3
  <2>9. LayoutByte(Q8, 0, n, b, q)[1] = <<"weight", i>>
    <3>1. LayoutByte(Q8, 0, n, b, q)[1] =
            IF b * Block + r * 1 + 1 - 1 < n
            THEN <<"weight", 0 + (b * Block + r * 1 + 1 - 1)>> ELSE <<"pad", 0>>
      BY <2>7
    <3> QED BY <2>1, <2>8, <3>1
  <2>10. b * B + ScaleBytes + r + 1 = b * B + q + 1
    <3> DEFINE x == b * B
    <3>1. x \in Nat  BY <1>0, <2>2
    <3> HIDE DEF x
    <3>2. x + ScaleBytes + r + 1 = x + q + 1  BY <1>0, <2>2, <3>1 DEF q
    <3> QED BY <3>2 DEF x
  <2> QED BY <2>6, <2>9, <2>10 DEF b, r
<1>2. dequantize(Q8, bytes, n)
        = [i \in 0 .. n - 1 |-> bytes[(i \div Block) * B + ScaleBytes + (i % Block) + 1][1]]
  BY DEF dequantize
<1> HIDE DEF bytes, B
<1>3. dequantize(Q8, bytes, n) = [i \in 0 .. n - 1 |-> <<"weight", i>>]  BY <1>1, <1>2
<1> QED BY <1>3 DEF WeightsInPlace, bytes

\* Ternary blocks have no scale: byte k holds the weights 2 * k and 2 * k + 1.
LEMMA DequantizeTernary ==
  ASSUME NEW n \in Nat
  PROVE  dequantize(Ternary, quantize_matrix(Ternary, 0, n), n) = WeightsInPlace(n)
<1> DEFINE bytes == quantize_matrix(Ternary, 0, n)
           B == BlockBytes(Ternary)
<1>0. /\ Block \in Nat \ {0} /\ Ternary \in QuantTypes /\ Ternary # Q8
      /\ PerByte(Ternary) = 2 /\ Scales(Ternary) = 0
      /\ B \in Nat \ {0} /\ Block = B * 2
  <2>1. Block \in Nat \ {0}  BY QuantLayoutAssumption
  <2>2. Ternary \in QuantTypes /\ Ternary # Q8 /\ PerByte(Ternary) = 2 /\ Scales(Ternary) = 0
    BY DEF Q8, Q4, Q2, QuantTypes, PerByte, Scales, Ternary
  <2>3. B = 0 + Block \div 2  BY <2>2 DEF BlockBytes
  <2>4. Block = (Block \div 2) * 2 /\ B \in Nat \ {0}  BY <2>2, Sizes
  <2>5. Block \div 2 \in Nat  BY <2>1
  <2>6. B = Block \div 2
    <3> HIDE DEF B
    <3> QED BY <2>3, <2>5
  <2> QED BY <2>1, <2>2, <2>4, <2>6
<1>1. ASSUME NEW i \in 0 .. n - 1
      PROVE  bytes[i \div 2 + 1][(i % 2) + 1] = <<"weight", i>>
  <2> HIDE DEF B
  <2> DEFINE k == i \div 2
             r == i % 2
             b == k \div B
             q == k % B
  <2>1. i \in Nat /\ i < n  OBVIOUS
  <2>2. k \in Nat /\ r \in 0 .. 1 /\ i = 2 * k + r  BY <2>1
  <2> HIDE DEF k, r
  <2>3. b \in Nat /\ q \in 0 .. B - 1 /\ k = B * b + q  BY <1>0, <2>2, ModRange, DivMod
  <2> HIDE DEF b, q
  <2>4. b * B = B * b /\ b * B \in Nat /\ b * Block = (b * B) * 2  BY <1>0, <2>3
  <2> DEFINE x == b * B
  <2>5. x \in Nat /\ k = x + q /\ b * Block = x * 2 /\ k + 1 = b * B + q + 1  BY <2>3, <2>4
  <2>6. b \in 0 .. Blocks(n) - 1
    <3>1. b * Block < n
      <4> HIDE DEF x
      <4> QED BY <1>0, <2>1, <2>2, <2>3, <2>5
    <3> QED BY <2>3, <3>1, BlockBelow
  <2>7. bytes[b * B + q + 1] = LayoutByte(Ternary, 0, n, b, q)
    <3>1. q \in 0 .. BlockBytes(Ternary) - 1  BY <2>3 DEF B
    <3> QED BY <1>0, <2>6, <3>1, LayoutAt DEF B
  <2>8. LayoutByte(Ternary, 0, n, b, q) =
          [j \in 1 .. 2 |-> IF x * 2 + q * 2 + j - 1 < n
                            THEN <<"weight", 0 + (x * 2 + q * 2 + j - 1)>> ELSE <<"pad", 0>>]
    <3>1. ~ (q < 0) /\ q - 0 = q  BY <1>0, <2>3
    <3> HIDE DEF x
    <3> QED BY <1>0, <2>5, <3>1 DEF LayoutByte
  <2> HIDE DEF x
  <2>9. r + 1 \in 1 .. 2 /\ x * 2 + q * 2 + (r + 1) - 1 = i  BY <1>0, <2>2, <2>3, <2>5
  <2>10. LayoutByte(Ternary, 0, n, b, q)[r + 1] = <<"weight", i>>
    <3>1. LayoutByte(Ternary, 0, n, b, q)[r + 1] =
            IF x * 2 + q * 2 + (r + 1) - 1 < n
            THEN <<"weight", 0 + (x * 2 + q * 2 + (r + 1) - 1)>> ELSE <<"pad", 0>>
      BY <2>8, <2>9
    <3> QED BY <2>1, <2>9, <3>1
  <2> QED BY <2>5, <2>7, <2>10 DEF k, r
<1>2. dequantize(Ternary, bytes, n)
        = [i \in 0 .. n - 1 |-> bytes[i \div 2 + 1][(i % 2) + 1]]
  BY <1>0 DEF dequantize
<1> HIDE DEF bytes, B
<1>3. dequantize(Ternary, bytes, n) = [i \in 0 .. n - 1 |-> <<"weight", i>>]  BY <1>1, <1>2
<1> QED BY <1>3 DEF WeightsInPlace, bytes

\* The blocks of row r, when a row is w whole blocks.
LEMMA RowBlocks ==
  ASSUME NEW n_rows \in Nat, NEW n_cols \in Nat \ {0}, n_cols % Block = 0,
         NEW row \in 0 .. n_rows - 1
  PROVE  {c \in 0 .. Blocks(n_rows * n_cols) - 1 : RowOf(c, n_rows, n_cols) = row}
            = row * Blocks(n_cols) .. (row + 1) * Blocks(n_cols) - 1
<1>0. Block \in Nat \ {0}  BY QuantLayoutAssumption
<1> DEFINE w == n_cols \div Block
<1>1. w \in Nat /\ n_cols = w * Block /\ w # 0
  <2>1. n_cols = Block * w + (n_cols % Block) /\ w \in Nat  BY <1>0, DivMod, ModRange
  <2> HIDE DEF w
  <2>2. Block * w = w * Block /\ w * Block \in Nat  BY <1>0, <2>1
  <2>3. w = 0 => w * Block = 0  BY <1>0
  <2> QED BY <2>1, <2>2, <2>3
<1> HIDE DEF w
<1>2. Blocks(n_cols) = w
  <2>1. w * Block \in Nat  BY <1>0, <1>1
  <2>2. n_cols <= w * Block /\ w * Block < n_cols + Block  BY <1>0, <1>1, <2>1
  <2> QED BY <1>1, <2>2, BlocksUnique
<1>3. Blocks(n_rows * n_cols) = n_rows * w
  <2> DEFINE N == n_rows * w
             n == n_rows * n_cols
  <2>1. N \in Nat /\ n \in Nat  BY <1>1
  <2>2. n = N * Block /\ N * Block \in Nat  BY <1>0, <1>1
  <2> HIDE DEF N, n
  <2>3. n <= N * Block /\ N * Block < n + Block  BY <1>0, <2>1, <2>2
  <2>4. Blocks(n) = N  BY <2>1, <2>3, BlocksUnique
  <2> QED BY <2>4 DEF N, n
<1> DEFINE lo == row * w
           hi == (row + 1) * w
           N == n_rows * w
<1>4. lo \in Nat /\ hi = lo + w /\ hi <= N /\ N \in Nat
  <2>1. row \in Nat /\ row + 1 \in Nat /\ row + 1 <= n_rows  OBVIOUS
  <2>2. (row + 1) * w <= n_rows * w /\ (row + 1) * w \in Nat  BY <1>1, <2>1, MultMono
  <2>3. (row + 1) * w = row * w + w /\ row * w \in Nat /\ n_rows * w \in Nat  BY <1>1, <2>1
  <2> QED BY <2>2, <2>3
<1>5. ASSUME NEW c \in Nat PROVE c \div w = row <=> c \in lo .. hi - 1
  <2> DEFINE q == c \div w
             r == c % w
  <2>1. q \in Nat /\ r \in 0 .. w - 1 /\ c = w * q + r  BY <1>1, ModRange, DivMod
  <2>2. ASSUME q = row PROVE c \in lo .. hi - 1
    <3>1. c = row * w + r
      <4> HIDE DEF q, r
      <4> QED BY <1>1, <2>1, <2>2
    <3> HIDE DEF lo, hi, r, q
    <3>2. c = lo + r  BY <3>1 DEF lo
    <3> QED BY <1>1, <1>4, <2>1, <3>2
  <2>3. ASSUME c \in lo .. hi - 1 PROVE q = row
    <3> DEFINE s == c - lo
    <3>1. s \in 0 .. w - 1 /\ c = lo + s
      <4> HIDE DEF lo, hi
      <4> QED BY <1>1, <1>4, <2>3
    <3> HIDE DEF s, q
    <3>2. (row * w + s) \div w = row  BY <1>1, <3>1, DivModUnique
    <3> QED BY <3>1, <3>2 DEF q
  <2> HIDE DEF q
  <2>4. q = row <=> c \in lo .. hi - 1  BY <2>2, <2>3
  <2> QED BY <2>4 DEF q
<1>6. {c \in 0 .. N - 1 : c \div w = row} = lo .. hi - 1
  <2> HIDE DEF lo, hi, N
  <2>1. \A c \in lo .. hi - 1 : c \in 0 .. N - 1 /\ c \in Nat  BY <1>1, <1>4
  <2> QED BY <1>4, <1>5, <2>1
<1> QED BY <1>2, <1>3, <1>6 DEF RowOf

\* Rows of whole blocks get the scales of their blocks.
LEMMA RowScales ==
  ASSUME NEW n_rows \in Nat, NEW n_cols \in Nat \ {0}, n_cols % Block = 0,
         NEW row \in 0 .. n_rows - 1
  PROVE  row_scales(quantize_matrix(Q8, 0, n_rows * n_cols), n_rows, n_cols)[row] = ScalesOfRow(row, n_cols)
<1> DEFINE n == n_rows * n_cols
           bytes == quantize_matrix(Q8, 0, n)
           B == BlockBytes(Q8)
           own == {c \in 0 .. Blocks(n) - 1 : RowOf(c, n_rows, n_cols) = row}
<1>0. /\ Block \in Nat \ {0} /\ ScaleBytes \in Nat \ {0} /\ Q8 \in QuantTypes
      /\ Scales(Q8) = ScaleBytes /\ B \in Nat \ {0} /\ n \in Nat
  BY QuantLayoutAssumption, Sizes DEF Q8, QuantTypes, Scales, Ternary
<1>1. row_scales(bytes, n_rows, n_cols)[row] = {bytes[b * B + 1][1] : b \in own}
  BY DEF row_scales
<1>2. ASSUME NEW b \in 0 .. Blocks(n) - 1 PROVE bytes[b * B + 1][1] = <<"scale", b>>
  <2>1. 0 \in 0 .. B - 1 /\ 0 < ScaleBytes
    <3> HIDE DEF B
    <3> QED BY <1>0
  <2>2. bytes[b * B + 0 + 1] = LayoutByte(Q8, 0, n, b, 0)  BY <1>0, <2>1, LayoutAt
  <2>3. b * B + 0 + 1 = b * B + 1 /\ b \in Nat
    <3> HIDE DEF B
    <3>1. Blocks(n) \in Nat  BY <1>0, BlocksAre
    <3>2. b \in Nat  BY <3>1
    <3>3. b * B \in Nat  BY <1>0, <3>2
    <3> QED BY <3>2, <3>3
  <2>4. LayoutByte(Q8, 0, n, b, 0) = ScaleByte((0 + b * Block) \div Block)
    BY <1>0, <2>1 DEF LayoutByte
  <2>5. (b * Block + 0) \div Block = b
    <3>1. 0 \in 0 .. Block - 1  BY <1>0
    <3> QED BY <1>0, <2>3, <3>1, DivModUnique
  <2>6. 0 + b * Block = b * Block + 0
    <3>1. b * Block \in Nat  BY <1>0, <2>3
    <3> QED BY <3>1
  <2> HIDE DEF bytes, n, B
  <2> QED BY <2>2, <2>3, <2>4, <2>5, <2>6 DEF ScaleByte
<1>3. own = row * Blocks(n_cols) .. (row + 1) * Blocks(n_cols) - 1  BY RowBlocks
<1>4. own \subseteq 0 .. Blocks(n) - 1  OBVIOUS
<1> HIDE DEF own, bytes, n, B
<1>5. {bytes[b * B + 1][1] : b \in own} = {<<"scale", b>> : b \in own}  BY <1>2, <1>4
<1> QED BY <1>1, <1>3, <1>5 DEF ScalesOfRow, bytes, n

-----------------------------------------------------------------------------
(* The inductive invariant *)

Entries == [kind : {"entry"}, id : Nat \X Nat, n_rows : Nat \ {0}, n_cols : Nat \ {0},
            quant_type : QuantTypes, original_size : Nat, compressed_size : Nat, offset : Nat]
Units == [kind : {"header"}, n_blocks : Nat, index_offset : Nat]
         \cup [kind : {"data"}, block : Nat, at : Nat] \cup Entries

Raw(b) == quantize_matrix(blocks[b].quant_type, 0, blocks[b].n_rows * blocks[b].n_cols)

\* What the conversion hands over: different tensors, each with the layout of its
\* whole matrix.
TensorsBefore == IF phase = "convert" THEN next - 1 ELSE Len(Tensors)
Converted ==
    /\ blocks \in Seq(Entries) /\ Len(blocks) <= TensorsBefore
    /\ compressed_data \in Seq([size : Nat \ {0}, raw : Seq(Bytes), packed : BOOLEAN])
    /\ Len(compressed_data) = Len(blocks)
    /\ \A b \in 1 .. Len(blocks) :
          /\ compressed_data[b].raw = Raw(b) /\ blocks[b].original_size = Len(Raw(b))
          /\ \E t \in 1 .. TensorsBefore : blocks[b].id = Tensors[t]
    /\ \A b, c \in 1 .. Len(blocks) : blocks[b].id = blocks[c].id => b = c

\* Entry e names block b and finds its data in f, before the place `end`.
Describes(e, b, f, end) ==
    /\ e \in Entries
    /\ e.id = blocks[b].id /\ e.n_rows = blocks[b].n_rows /\ e.n_cols = blocks[b].n_cols
    /\ e.quant_type = blocks[b].quant_type /\ e.original_size = blocks[b].original_size
    /\ e.compressed_size = compressed_data[b].size
    /\ e.offset >= 1 /\ e.offset + e.compressed_size <= end
    /\ \A k \in 1 .. compressed_data[b].size :
          f[e.offset + k] = [kind |-> "data", block |-> b, at |-> k]

\* The index of f is at `first` and describes every block.
Whole(f, first) ==
    /\ first \in Nat \ {0} /\ Len(f) = first + Len(blocks)
    /\ \A b \in 1 .. Len(blocks) : Describes(f[first + b], b, f, first)

Writing ==
    /\ phase \in {"data", "header", "close"} => file \in Seq(Units) /\ file # <<>>
    /\ phase = "data" =>
          /\ written_blocks \in Seq(Entries)
          /\ Len(written_blocks) = next - 1 /\ next - 1 <= Len(blocks)
          /\ data_offset = Len(file) /\ file[1] = Header(0)
          /\ \A b \in 1 .. Len(written_blocks) : Describes(written_blocks[b], b, file, data_offset)
    /\ phase = "header" => Whole(file, data_offset) /\ file[1] = Header(0)
    /\ phase = "close" => Whole(file, data_offset) /\ file[1] = Header(data_offset)

\* The header a file begins with names no index, or one that is there.
Committed(f) == f # <<>> => \/ f[1] = Header(0)
                            \/ f[1] = Header(f[1].index_offset) /\ Whole(f, f[1].index_offset)
OnDisk ==
    /\ disk \in Seq(Units) /\ Committed(disk)
    /\ phase \notin {"done", "crashed"} => disk = <<>> /\ loader = "closed"
    /\ phase = "done" => disk # <<>> /\ disk[1].index_offset # 0

\* What a load makes of block b: its weights and perhaps its scales, or nothing
\* if it was stored as it is.
WeightsOf(b) == IF compressed_data[b].packed
                THEN dequantize(blocks[b].quant_type, Raw(b), blocks[b].n_rows * blocks[b].n_cols)
                ELSE <<>>
MadeOf(b, data, scales) ==
    /\ data = WeightsOf(b)
    /\ \/ scales = <<>>
       \/ compressed_data[b].packed /\ blocks[b].quant_type = Q8
          /\ scales = row_scales(Raw(b), blocks[b].n_rows, blocks[b].n_cols)
LoadedBlock(b) == MadeOf(b, loaded.data, loaded.row_scales)
Reading ==
    /\ loader \in {"closed", "open", "garbage"}
    /\ loader = "open" =>
          /\ disk # <<>> /\ disk[1].index_offset # 0 /\ Len(index_) = Len(blocks)
          /\ \A b \in 1 .. Len(blocks) : index_[b] = disk[disk[1].index_offset + b]
    /\ \/ loaded = NothingLoaded
       \/ /\ loader = "open"
          /\ \A b \in 1 .. Len(blocks) : blocks[b].id = loaded.id => LoadedBlock(b)
          /\ loaded.id \notin StoredIds => loaded.data = <<>> /\ loaded.row_scales = <<>>

Phases ==
    /\ phase \in {"convert", "data", "header", "close", "done", "failed", "crashed"}
    /\ quant_type \in Types /\ embed_quant \in Types
    /\ next \in 1 .. Len(Tensors) + 1

SqueezeInv == Phases /\ Converted /\ Writing /\ OnDisk /\ Reading

LEMMA InitInv == Init => SqueezeInv
<1> SUFFICES ASSUME Init PROVE SqueezeInv  OBVIOUS
<1>1. Tensors \in Seq(Nat \X Nat)  BY TensorsAre
<1>2. Phases  BY <1>1 DEF Init, Phases
<1>3. Converted  BY DEF Init, Converted, TensorsBefore
<1>4. Writing  BY DEF Init, Writing
<1>5. OnDisk  BY DEF Init, OnDisk, Committed
<1>6. Reading  BY DEF Init, Reading
<1> QED BY <1>2, <1>3, <1>4, <1>5, <1>6 DEF SqueezeInv

\* Until the writer is gone there is no file for a reader.
NoReader == disk = <<>> /\ loader = "closed" /\ loaded = NothingLoaded
LEMMA Alone ==
    ASSUME SqueezeInv, phase \notin {"done", "crashed"}
    PROVE  NoReader
BY DEF SqueezeInv, OnDisk, Reading, NoReader

LEMMA StillAlone ==
    ASSUME NoReader, UNCHANGED <<disk, reading>>, phase' # "done"
    PROVE  OnDisk' /\ Reading'
<1>1. disk' = <<>> /\ loader' = "closed" /\ loaded' = NothingLoaded'
  BY DEF NoReader, reading, NothingLoaded
<1>2. OnDisk'  BY <1>1 DEF OnDisk, Committed
<1>3. Reading'  BY <1>1 DEF Reading
<1> QED BY <1>2, <1>3

\* What is known of the conversion stays known while it is left alone.
LEMMA ConversionStays ==
    ASSUME Converted, UNCHANGED conversion, TensorsBefore <= TensorsBefore',
           TensorsBefore \in Int, TensorsBefore' \in Int
    PROVE  Converted'
<1>1. blocks' = blocks /\ compressed_data' = compressed_data  BY DEF conversion
<1>2. \A b : Raw(b)' = Raw(b)  BY <1>1 DEF Raw
<1>3. Len(blocks) \in Nat  BY DEF Converted
<1> DEFINE before == TensorsBefore
           after == TensorsBefore'
<1>4. before \in Int /\ after \in Int /\ before <= after  OBVIOUS
<1>5. /\ blocks \in Seq(Entries) /\ Len(blocks) <= before
      /\ compressed_data \in Seq([size : Nat \ {0}, raw : Seq(Bytes), packed : BOOLEAN])
      /\ Len(compressed_data) = Len(blocks)
      /\ \A b \in 1 .. Len(blocks) :
            /\ compressed_data[b].raw = Raw(b) /\ blocks[b].original_size = Len(Raw(b))
            /\ \E t \in 1 .. before : blocks[b].id = Tensors[t]
      /\ \A b, c \in 1 .. Len(blocks) : blocks[b].id = blocks[c].id => b = c
  BY DEF Converted
<1> HIDE DEF before, after
<1>6. \A t \in 1 .. before : t \in 1 .. after  BY <1>4
<1>7. Len(blocks) <= after  BY <1>3, <1>4, <1>5
<1>8. Converted' =
      (/\ blocks' \in Seq(Entries) /\ Len(blocks') <= after
       /\ compressed_data' \in Seq([size : Nat \ {0}, raw : Seq(Bytes), packed : BOOLEAN])
       /\ Len(compressed_data') = Len(blocks')
       /\ \A b \in 1 .. Len(blocks') :
             /\ compressed_data'[b].raw = Raw(b)' /\ blocks'[b].original_size = Len(Raw(b)')
             /\ \E t \in 1 .. after : blocks'[b].id = Tensors[t]
       /\ \A b, c \in 1 .. Len(blocks') : blocks'[b].id = blocks'[c].id => b = c)
  BY DEF Converted, after
<1> QED BY <1>1, <1>2, <1>5, <1>6, <1>7, <1>8

\* What an entry describes stays, in a file that keeps the units it points to.
LEMMA DescribesStays ==
    ASSUME NEW e, NEW b \in Nat, NEW f, NEW g, NEW end \in Nat, NEW later \in Nat,
           Describes(e, b, f, end), end <= later, compressed_data[b].size \in Nat,
           \A k \in 2 .. end : g[k] = f[k]
    PROVE  Describes(e, b, g, later)
<1>1. e \in Entries /\ e.offset \in Nat /\ e.compressed_size \in Nat
  BY DEF Describes, Entries
<1>2. \A k \in 1 .. compressed_data[b].size : e.offset + k \in 2 .. end
  BY <1>1 DEF Describes
<1>3. \A k \in 1 .. compressed_data[b].size : g[e.offset + k] = [kind |-> "data", block |-> b, at |-> k]
  BY <1>2 DEF Describes
<1>4. e.offset + e.compressed_size <= later  BY <1>1 DEF Describes
<1> QED BY <1>1, <1>3, <1>4 DEF Describes

LEMMA MissingInv == ASSUME SqueezeInv, Missing PROVE SqueezeInv'
<1> USE DEF Missing
<1>1. NoReader  BY Alone DEF Missing
<1>2. OnDisk' /\ Reading'  BY <1>1, StillAlone
<1>3. next \in Nat /\ next + 1 \in 1 .. Len(Tensors) + 1 /\ next <= Len(Tensors)
  BY TensorsAre DEF SqueezeInv, Phases
<1>4. Phases'  BY <1>3 DEF SqueezeInv, Phases, conversion
<1>5. Converted'
  <2>1. TensorsBefore = next - 1 /\ TensorsBefore' = (next + 1) - 1  BY DEF TensorsBefore
  <2>2. TensorsBefore \in Int /\ TensorsBefore' \in Int /\ TensorsBefore <= TensorsBefore'
    BY <1>3, <2>1
  <2> QED BY <2>2, ConversionStays DEF SqueezeInv
<1>6. Writing'  BY DEF Writing
<1> QED BY <1>2, <1>4, <1>5, <1>6 DEF SqueezeInv

LEMMA ConvertInv ==
    ASSUME SqueezeInv, NEW shape \in Shapes, Convert(shape[1], shape[2], shape[3])
    PROVE  SqueezeInv'
<1> DEFINE n_rows == shape[1]
           n_cols == shape[2]
           size == shape[3]
           id == Tensors[next]
           type == IF id = Embedding THEN embed_quant ELSE quant_type
           raw == IF id \in {Embedding, Output}
                  THEN quantize_chunks(type, n_rows, n_cols)
                  ELSE quantize_matrix(type, 0, n_rows * n_cols)
           c == compress_block(raw, size)
           e == [kind |-> "entry", id |-> id, n_rows |-> n_rows, n_cols |-> n_cols,
                 quant_type |-> type, original_size |-> Len(raw), compressed_size |-> c.size,
                 offset |-> 0]
           whole == quantize_matrix(type, 0, n_rows * n_cols)
<1>1. /\ phase = "convert" /\ next <= Len(Tensors)
      /\ blocks' = Append(blocks, e) /\ compressed_data' = Append(compressed_data, c)
      /\ next' = next + 1
      /\ UNCHANGED <<phase, quant_type, embed_quant, writing, disk, reading>>
  BY DEF Convert
<1>2. OnDisk' /\ Reading'  BY <1>1, Alone, StillAlone
<1>3. next \in Nat \ {0} /\ next + 1 \in 1 .. Len(Tensors) + 1 /\ next <= Len(Tensors)
  BY <1>1, TensorsAre DEF SqueezeInv, Phases
<1>4. Phases'  BY <1>1, <1>3 DEF SqueezeInv, Phases
<1>5. Writing'  BY <1>1 DEF Writing
<1>6. /\ n_rows \in Nat \ {0} /\ n_cols \in Nat \ {0} /\ size \in Nat /\ type \in QuantTypes
      /\ id \in Nat \X Nat
  BY <1>3, SqueezeAssumption, TensorsAre DEF SqueezeInv, Phases
<1>7. raw = whole
  <2>1. quantize_chunks(type, n_rows, n_cols) = whole  BY <1>6, ChunksAreWhole
  <2> QED BY <2>1
<1>8. whole \in Seq(Bytes) /\ Len(whole) \in Nat \ {0}
  <2> DEFINE n == n_rows * n_cols
  <2>1. n \in Nat \ {0}  BY <1>6
  <2> HIDE DEF n
  <2>2. quantize_matrix(type, 0, n) \in Seq(Bytes)  BY <1>6, <2>1, LayoutType
  <2>3. Len(quantize_matrix(type, 0, n)) \in Nat \ {0}  BY <1>6, <2>1, LayoutNotEmpty
  <2> QED BY <2>2, <2>3 DEF n
<1> HIDE DEF raw
<1>9. /\ e \in Entries /\ e.id = id /\ e.n_rows = n_rows /\ e.n_cols = n_cols /\ e.quant_type = type
      /\ e.original_size = Len(raw)
      /\ c \in [size : Nat \ {0}, raw : Seq(Bytes), packed : BOOLEAN] /\ c.raw = raw
  <2> HIDE DEF n_rows, n_cols, size, id, type, whole
  <2>1. c \in [size : Nat \ {0}, raw : Seq(Bytes), packed : BOOLEAN] /\ c.raw = raw
    BY <1>6, <1>7, <1>8 DEF compress_block
  <2> HIDE DEF c
  <2> QED BY <1>6, <1>7, <1>8, <2>1 DEF Entries
<1> HIDE DEF e, c, type, n_rows, n_cols, size
<1>10. PICK N \in Nat : N = Len(blocks)
  <2>1. Len(blocks) \in Nat  BY DEF SqueezeInv, Converted
  <2> QED BY <2>1
<1>11. /\ blocks \in Seq(Entries) /\ N \in Nat /\ N <= next - 1
       /\ compressed_data \in Seq([size : Nat \ {0}, raw : Seq(Bytes), packed : BOOLEAN]) /\ Len(compressed_data) = N
  BY <1>1, <1>10 DEF SqueezeInv, Converted, TensorsBefore
<1>12. /\ blocks' \in Seq(Entries) /\ Len(blocks') = N + 1
       /\ compressed_data' \in Seq([size : Nat \ {0}, raw : Seq(Bytes), packed : BOOLEAN]) /\ Len(compressed_data') = N + 1
       /\ blocks'[N + 1] = e /\ compressed_data'[N + 1] = c
       /\ \A b \in 1 .. N : blocks'[b] = blocks[b] /\ compressed_data'[b] = compressed_data[b]
  <2> DEFINE U == [size : Nat \ {0}, raw : Seq(Bytes), packed : BOOLEAN]
  <2>1. c \in U /\ compressed_data \in Seq(U)  BY <1>9, <1>11
  <2> HIDE DEF U
  <2>2. compressed_data' \in Seq(U) /\ Len(compressed_data') = N + 1
        /\ compressed_data'[N + 1] = c /\ \A b \in 1 .. N : compressed_data'[b] = compressed_data[b]
    BY <1>1, <1>11, <1>10, <2>1
  <2>3. blocks' \in Seq(Entries) /\ Len(blocks') = N + 1
        /\ blocks'[N + 1] = e /\ \A b \in 1 .. N : blocks'[b] = blocks[b]
    BY <1>1, <1>9, <1>11, <1>10
  <2> QED BY <2>2, <2>3 DEF U
<1>13. \A b \in 1 .. N : Raw(b)' = Raw(b)  BY <1>12 DEF Raw
<1>14. Raw(N + 1)' = raw
  <2>1. Raw(N + 1)' = quantize_matrix(e.quant_type, 0, e.n_rows * e.n_cols)  BY <1>12 DEF Raw
  <2>2. Raw(N + 1)' = whole  BY <1>9, <2>1
  <2> QED BY <1>7, <2>2
<1>15. /\ \A b \in 1 .. N : /\ compressed_data[b].raw = Raw(b) /\ blocks[b].original_size = Len(Raw(b))
                            /\ \E t \in 1 .. next - 1 : blocks[b].id = Tensors[t]
       /\ \A a, b \in 1 .. N : blocks[a].id = blocks[b].id => a = b
  BY <1>1, <1>10 DEF SqueezeInv, Converted, TensorsBefore
<1>16. \A b \in 1 .. N : blocks[b].id # id
  <2> SUFFICES ASSUME NEW b \in 1 .. N, blocks[b].id = id PROVE FALSE  OBVIOUS
  <2>1. PICK t \in 1 .. next - 1 : blocks[b].id = Tensors[t]  BY <1>15
  <2>2. t \in 1 .. Len(Tensors) /\ next \in 1 .. Len(Tensors) /\ t # next  BY <1>3, <2>1
  <2> QED BY <2>1, <2>2, TensorsAre DEF Distinct
<1>17. ASSUME NEW b \in 1 .. N + 1
       PROVE  /\ compressed_data'[b].raw = Raw(b)' /\ blocks'[b].original_size = Len(Raw(b)')
              /\ \E t \in 1 .. (next + 1) - 1 : blocks'[b].id = Tensors[t]
  <2>1. CASE b = N + 1
    <3>1. next \in 1 .. (next + 1) - 1 /\ e.id = Tensors[next]  BY <1>3, <1>9
    <3> QED BY <1>9, <1>12, <1>14, <2>1, <3>1
  <2>2. CASE b # N + 1
    <3>1. b \in 1 .. N  BY <1>11, <2>2
    <3>2. PICK t \in 1 .. next - 1 : blocks[b].id = Tensors[t]  BY <1>15, <3>1
    <3>3. t \in 1 .. (next + 1) - 1  BY <1>3
    <3> QED BY <1>12, <1>13, <1>15, <3>1, <3>2, <3>3
  <2> QED BY <2>1, <2>2
<1>18. ASSUME NEW a \in 1 .. N + 1, NEW b \in 1 .. N + 1, blocks'[a].id = blocks'[b].id PROVE a = b
  <2>0. (a \in 1 .. N \/ a = N + 1) /\ (b \in 1 .. N \/ b = N + 1)  BY <1>11
  <2>1. CASE a \in 1 .. N /\ b \in 1 .. N  BY <1>12, <1>15, <1>18, <2>1
  <2>2. CASE a \in 1 .. N /\ b = N + 1  BY <1>9, <1>12, <1>16, <1>18, <2>2
  <2>3. CASE a = N + 1 /\ b \in 1 .. N  BY <1>9, <1>12, <1>16, <1>18, <2>3
  <2> QED BY <2>0, <2>1, <2>2, <2>3
<1>19. TensorsBefore' = (next + 1) - 1  BY <1>1 DEF TensorsBefore
<1>20. N + 1 <= (next + 1) - 1  BY <1>3, <1>11
<1>21. Converted'
  BY <1>12, <1>17, <1>18, <1>19, <1>20 DEF Converted
<1> QED BY <1>2, <1>4, <1>5, <1>21 DEF SqueezeInv

LEMMA WriteHeaderInv == ASSUME SqueezeInv, WriteHeader PROVE SqueezeInv'
<1> USE DEF WriteHeader
<1>1. NoReader  BY Alone
<1>2. OnDisk' /\ Reading'  BY <1>1, StillAlone
<1>3. next = Len(Tensors) + 1 /\ Len(Tensors) \in Nat  BY TensorsAre DEF SqueezeInv, Phases
<1>4. Phases'  BY <1>3 DEF SqueezeInv, Phases, conversion
<1>5. Converted'
  <2>1. TensorsBefore = next - 1 /\ TensorsBefore' = Len(Tensors)  BY DEF TensorsBefore
  <2>2. TensorsBefore \in Int /\ TensorsBefore' \in Int /\ TensorsBefore <= TensorsBefore'
    BY <1>3, <2>1
  <2> QED BY <2>2, ConversionStays DEF SqueezeInv
<1>6. Len(blocks) \in Nat  BY DEF SqueezeInv, Converted
<1>7. Header(0) = Header(0)' /\ Header(0) \in Units  BY <1>6 DEF Header, Units, conversion
<1>8. Writing'
  <2>1. file' = <<Header(0)>> /\ file' \in Seq(Units) /\ Len(file') = 1 /\ file' # <<>> /\ file'[1] = Header(0)
    BY <1>7
  <2>2. written_blocks' = <<>> /\ written_blocks' \in Seq(Entries) /\ Len(written_blocks') = 0  OBVIOUS
  <2>3. next' - 1 = 0 /\ 0 <= Len(blocks')  BY <1>6 DEF conversion
  <2>4. phase' = "data" /\ data_offset' = 1 OBVIOUS
  <2> QED BY <1>7, <2>1, <2>2, <2>3, <2>4 DEF Writing
<1> QED BY <1>2, <1>4, <1>5, <1>8 DEF SqueezeInv

LEMMA CannotOpenInv == ASSUME SqueezeInv, CannotOpen PROVE SqueezeInv'
<1> USE DEF CannotOpen
<1>1. NoReader  BY Alone
<1>2. OnDisk' /\ Reading'  BY <1>1, StillAlone
<1>3. next = Len(Tensors) + 1 /\ Len(Tensors) \in Nat  BY TensorsAre DEF SqueezeInv, Phases
<1>4. Phases'  BY <1>3 DEF SqueezeInv, Phases, conversion
<1>5. Converted'
  <2>1. TensorsBefore = next - 1 /\ TensorsBefore' = Len(Tensors)  BY DEF TensorsBefore
  <2>2. TensorsBefore \in Int /\ TensorsBefore' \in Int /\ TensorsBefore <= TensorsBefore'
    BY <1>3, <2>1
  <2> QED BY <2>2, ConversionStays DEF SqueezeInv
<1>6. Writing'  BY DEF Writing
<1> QED BY <1>2, <1>4, <1>5, <1>6 DEF SqueezeInv

\* While the file is written the conversion is over.
LEMMA WritingOn ==
    ASSUME SqueezeInv, phase # "convert", phase' # "convert", UNCHANGED conversion
    PROVE  Converted'
<1>1. TensorsBefore = Len(Tensors) /\ TensorsBefore' = Len(Tensors) /\ Len(Tensors) \in Nat
  BY TensorsAre DEF TensorsBefore
<1>2. TensorsBefore \in Int /\ TensorsBefore' \in Int /\ TensorsBefore <= TensorsBefore'
  BY <1>1
<1> QED BY <1>2, ConversionStays DEF SqueezeInv

LEMMA WriteBlockInv == ASSUME SqueezeInv, WriteBlock PROVE SqueezeInv'
<1>0. NoReader /\ phase = "data"  BY Alone DEF WriteBlock
<1>1. OnDisk' /\ Reading'  BY <1>0, StillAlone DEF WriteBlock
<1>2. Converted'  BY <1>0, WritingOn DEF WriteBlock
<1> DEFINE size == compressed_data[next].size
           e == [blocks[next] EXCEPT !.offset = data_offset, !.compressed_size = size]
           units == [k \in 1 .. size |-> [kind |-> "data", block |-> next, at |-> k]]
<1>3. /\ next <= Len(blocks) /\ UNCHANGED conversion /\ phase' = phase
      /\ written_blocks' = Append(written_blocks, e) /\ file' = file \o units
      /\ data_offset' = data_offset + size /\ next' = next + 1
  BY DEF WriteBlock
<1>4. /\ file \in Seq(Units) /\ file # <<>> /\ written_blocks \in Seq(Entries)
      /\ Len(written_blocks) = next - 1 /\ next - 1 <= Len(blocks)
      /\ data_offset = Len(file) /\ file[1] = Header(0)
      /\ \A b \in 1 .. Len(written_blocks) : Describes(written_blocks[b], b, file, data_offset)
  BY <1>0 DEF SqueezeInv, Writing
<1>5. /\ blocks \in Seq(Entries) /\ Len(blocks) <= Len(Tensors) /\ next \in Nat \ {0}
      /\ compressed_data \in Seq([size : Nat \ {0}, raw : Seq(Bytes), packed : BOOLEAN])
      /\ Len(compressed_data) = Len(blocks) /\ Len(blocks) \in Nat
  BY <1>0, TensorsAre DEF SqueezeInv, Converted, TensorsBefore, Phases
<1>6. blocks[next] \in Entries /\ size \in Nat \ {0} /\ data_offset \in Nat \ {0}
      /\ \A b \in 1 .. Len(blocks) : compressed_data[b].size \in Nat \ {0}
  <2>1. next \in 1 .. Len(blocks)  BY <1>3, <1>5
  <2> DEFINE U == [size : Nat \ {0}, raw : Seq(Bytes), packed : BOOLEAN]
  <2>2. \A b \in 1 .. Len(blocks) : compressed_data[b] \in U
    <3>1. compressed_data \in Seq(U) /\ Len(compressed_data) = Len(blocks)  BY <1>5
    <3> HIDE DEF U
    <3> QED BY <3>1
  <2>3. \A b \in 1 .. Len(blocks) : compressed_data[b].size \in Nat \ {0}  BY <2>2
  <2>4. data_offset \in Nat \ {0}  BY <1>4
  <2> QED BY <1>5, <2>1, <2>3, <2>4
<1> HIDE DEF size
<1>7. /\ e \in Entries /\ e.offset = data_offset /\ e.compressed_size = size
      /\ e.id = blocks[next].id /\ e.n_rows = blocks[next].n_rows /\ e.n_cols = blocks[next].n_cols
      /\ e.quant_type = blocks[next].quant_type /\ e.original_size = blocks[next].original_size
  BY <1>6 DEF Entries
<1> HIDE DEF e
<1>8. units \in Seq(Units) /\ Len(units) = size
      /\ \A k \in 1 .. size : units[k] = [kind |-> "data", block |-> next, at |-> k]
  <2>1. \A k \in 1 .. size : [kind |-> "data", block |-> next, at |-> k] \in Units
    BY <1>5, <1>6 DEF Units
  <2> QED BY <1>6, <2>1
<1> HIDE DEF units
<1>9. /\ file' \in Seq(Units) /\ Len(file') = data_offset + size
      /\ \A k \in 1 .. data_offset : file'[k] = file[k]
      /\ \A k \in 1 .. size : file'[data_offset + k] = [kind |-> "data", block |-> next, at |-> k]
  <2>1. file' \in Seq(Units) /\ Len(file') = data_offset + size
        /\ \A k \in 1 .. data_offset + size :
              file'[k] = IF k <= data_offset THEN file[k] ELSE units[k - data_offset]
    <3> DEFINE U == Units
               g == file \o units
    <3>0. file \in Seq(U) /\ units \in Seq(U) /\ Len(file) = data_offset /\ Len(units) = size
      BY <1>4, <1>8
    <3> HIDE DEF U
    <3>1. g \in Seq(U) /\ Len(g) = Len(file) + Len(units)
          /\ \A k \in 1 .. Len(file) + Len(units) :
                g[k] = IF k <= Len(file) THEN file[k] ELSE units[k - Len(file)]
      BY ONLY <3>0, ConcatProperties
    <3>2. file' = g  BY <1>3
    <3> QED BY <3>0, <3>1, <3>2 DEF U
  <2>2. ASSUME NEW k \in 1 .. size
        PROVE  file'[data_offset + k] = [kind |-> "data", block |-> next, at |-> k]
    <3>1. data_offset + k \in 1 .. data_offset + size /\ ~ (data_offset + k <= data_offset)
          /\ (data_offset + k) - data_offset = k
      BY <1>6
    <3> QED BY <1>8, <2>1, <3>1
  <2>3. \A k \in 1 .. data_offset : k \in 1 .. data_offset + size /\ k <= data_offset  BY <1>6
  <2> QED BY <2>1, <2>2, <2>3
<1>10. /\ written_blocks' \in Seq(Entries) /\ Len(written_blocks') = next
       /\ written_blocks'[next] = e
       /\ \A b \in 1 .. next - 1 : written_blocks'[b] = written_blocks[b]
  BY <1>3, <1>4, <1>5, <1>7
<1>11. file' # <<>> /\ file'[1] = Header(0)'
  <2>1. Header(0)' = Header(0)  BY <1>3 DEF Header, conversion
  <2> QED BY <1>4, <1>6, <1>9, <2>1
<1>12. ASSUME NEW b \in 1 .. next - 1
       PROVE  Describes(written_blocks[b], b, file', data_offset + size)
  <2>1. Describes(written_blocks[b], b, file, data_offset) /\ b \in Nat
        /\ compressed_data[b].size \in Nat
    <3>1. b \in 1 .. Len(blocks)  BY <1>3, <1>5
    <3> QED BY <1>4, <1>6, <3>1
  <2>2. data_offset \in Nat /\ data_offset + size \in Nat /\ data_offset <= data_offset + size
    BY <1>6
  <2>3. \A k \in 2 .. data_offset : file'[k] = file[k]  BY <1>6, <1>9
  <2> QED BY <2>1, <2>2, <2>3, DescribesStays
<1>13. Describes(e, next, file', data_offset + size)
  BY <1>6, <1>7, <1>9 DEF Describes, size
<1>14. \A b \in 1 .. next : Describes(written_blocks'[b], b, file', data_offset')
  <2> SUFFICES ASSUME NEW b \in 1 .. next
               PROVE  Describes(written_blocks'[b], b, file', data_offset')
    OBVIOUS
  <2>1. CASE b = next  BY <1>3, <1>10, <1>13, <2>1
  <2>2. CASE b # next
    <3>1. b \in 1 .. next - 1  BY <1>5, <2>2
    <3> QED BY <1>3, <1>10, <1>12, <3>1
  <2> QED BY <2>1, <2>2
<1>15. Writing'
  <2>1. blocks' = blocks /\ compressed_data' = compressed_data  BY <1>3 DEF conversion
  <2>2. \A b \in 1 .. Len(written_blocks') : Describes(written_blocks[b], b, file, data_offset)'
    BY <1>10, <1>14, <2>1 DEF Describes
  <2>3. Len(written_blocks') = next' - 1 /\ next' - 1 <= Len(blocks')  BY <1>3, <1>5, <1>10, <2>1
  <2>4. data_offset' = Len(file')  BY <1>3, <1>9
  <2>5. phase' = "data"  BY <1>0, <1>3
  <2> QED BY <1>9, <1>10, <1>11, <2>2, <2>3, <2>4, <2>5 DEF Writing
<1>16. Phases'
  <2>1. next' \in 1 .. Len(Tensors) + 1  BY <1>3, <1>5, TensorsAre
  <2> QED BY <1>3, <2>1 DEF SqueezeInv, Phases, conversion
<1> QED BY <1>1, <1>2, <1>15, <1>16 DEF SqueezeInv

LEMMA SizesOfBlocks ==
    ASSUME Converted
    PROVE  Len(blocks) \in Nat /\ \A b \in 1 .. Len(blocks) : compressed_data[b].size \in Nat \ {0}
<1> DEFINE U == [size : Nat \ {0}, raw : Seq(Bytes), packed : BOOLEAN]
<1>1. compressed_data \in Seq(U) /\ Len(compressed_data) = Len(blocks)  BY DEF Converted
<1>2. \A b \in 1 .. Len(blocks) : compressed_data[b] \in U
  <2> HIDE DEF U
  <2> QED BY <1>1
<1>3. Len(blocks) \in Nat
  <2> HIDE DEF U
  <2> QED BY <1>1
<1> QED BY <1>2, <1>3

LEMMA WriteIndexInv == ASSUME SqueezeInv, WriteIndex PROVE SqueezeInv'
<1>0. NoReader /\ phase = "data" /\ phase' = "header"  BY Alone DEF WriteIndex
<1>1. OnDisk' /\ Reading'  BY <1>0, StillAlone DEF WriteIndex
<1>2. Converted'  BY <1>0, WritingOn DEF WriteIndex
<1>3. /\ next > Len(blocks) /\ file' = file \o written_blocks
      /\ UNCHANGED <<next, conversion, data_offset, written_blocks, disk, reading>>
  BY DEF WriteIndex
<1>4. /\ file \in Seq(Units) /\ file # <<>> /\ written_blocks \in Seq(Entries)
      /\ Len(written_blocks) = next - 1 /\ next - 1 <= Len(blocks)
      /\ data_offset = Len(file) /\ file[1] = Header(0)
      /\ \A b \in 1 .. Len(written_blocks) : Describes(written_blocks[b], b, file, data_offset)
  BY <1>0 DEF SqueezeInv, Writing
<1>5. Len(blocks) \in Nat /\ \A b \in 1 .. Len(blocks) : compressed_data[b].size \in Nat \ {0}
  BY SizesOfBlocks DEF SqueezeInv
<1>6. next \in Nat /\ Len(written_blocks) = Len(blocks)
  BY <1>3, <1>4, <1>5, TensorsAre DEF SqueezeInv, Phases
<1>7. data_offset \in Nat \ {0}  BY <1>4
<1> DEFINE N == Len(blocks)
<1>8. /\ file' \in Seq(Units) /\ Len(file') = data_offset + N
      /\ \A k \in 1 .. data_offset : file'[k] = file[k]
      /\ \A b \in 1 .. N : file'[data_offset + b] = written_blocks[b]
  <2>1. file \in Seq(Units) /\ written_blocks \in Seq(Units) /\ Len(file) = data_offset
        /\ Len(written_blocks) = N
    <3>1. \A b \in 1 .. Len(written_blocks) : written_blocks[b] \in Units  BY <1>4 DEF Units
    <3> QED BY <1>4, <1>6, <3>1
  <2> DEFINE g == file \o written_blocks
  <2>2. g \in Seq(Units) /\ Len(g) = Len(file) + Len(written_blocks)
        /\ \A k \in 1 .. Len(file) + Len(written_blocks) :
              g[k] = IF k <= Len(file) THEN file[k] ELSE written_blocks[k - Len(file)]
    BY ONLY <2>1, ConcatProperties
  <2>3. file' = g  BY <1>3
  <2> HIDE DEF g, N
  <2>4. N \in Nat  BY <1>5 DEF N
  <2>5. ASSUME NEW b \in 1 .. N PROVE file'[data_offset + b] = written_blocks[b]
    <3>1. data_offset + b \in 1 .. data_offset + N /\ ~ (data_offset + b <= data_offset)
          /\ (data_offset + b) - data_offset = b
      BY <1>7, <2>4
    <3> QED BY <2>1, <2>2, <2>3, <3>1
  <2>6. \A k \in 1 .. data_offset : k \in 1 .. data_offset + N /\ k <= data_offset  BY <1>7, <2>4
  <2> QED BY <2>1, <2>2, <2>3, <2>5, <2>6
<1>9. \A b \in 1 .. N : Describes(file'[data_offset + b], b, file', data_offset)
  <2> SUFFICES ASSUME NEW b \in 1 .. N
               PROVE  Describes(file'[data_offset + b], b, file', data_offset)
    OBVIOUS
  <2>1. Describes(written_blocks[b], b, file, data_offset) /\ b \in Nat
        /\ compressed_data[b].size \in Nat
    BY <1>4, <1>5, <1>6
  <2>2. data_offset \in Nat /\ data_offset <= data_offset  BY <1>7
  <2>3. \A k \in 2 .. data_offset : file'[k] = file[k]  BY <1>7, <1>8
  <2>4. Describes(written_blocks[b], b, file', data_offset)  BY <2>1, <2>2, <2>3, DescribesStays
  <2> QED BY <1>8, <2>4
<1>10. Writing'
  <2>1. blocks' = blocks /\ compressed_data' = compressed_data /\ data_offset' = data_offset
    BY <1>3 DEF conversion
  <2>2. \A b \in 1 .. Len(blocks') : Describes(file[data_offset + b], b, file, data_offset)'
    BY <1>9, <2>1 DEF Describes
  <2>3. Whole(file, data_offset)'  BY <1>7, <1>8, <2>1, <2>2 DEF Whole
  <2>4. file'[1] = Header(0)'
    <3>1. Header(0)' = Header(0)  BY <2>1 DEF Header
    <3> QED BY <1>4, <1>7, <1>8, <3>1
  <2>5. file' # <<>>  BY <1>5, <1>7, <1>8
  <2> QED BY <1>0, <1>8, <2>3, <2>4, <2>5 DEF Writing
<1>11. Phases'  BY <1>0, <1>3 DEF SqueezeInv, Phases, conversion
<1> QED BY <1>1, <1>2, <1>10, <1>11 DEF SqueezeInv

LEMMA RewriteHeaderInv == ASSUME SqueezeInv, RewriteHeader PROVE SqueezeInv'
<1>0. NoReader /\ phase = "header" /\ phase' = "close"  BY Alone DEF RewriteHeader
<1>1. OnDisk' /\ Reading'  BY <1>0, StillAlone DEF RewriteHeader
<1>2. Converted'  BY <1>0, WritingOn DEF RewriteHeader
<1>3. /\ file' = [file EXCEPT ![1] = Header(data_offset)]
      /\ UNCHANGED <<next, conversion, data_offset, written_blocks, disk, reading>>
  BY DEF RewriteHeader
<1>4. file \in Seq(Units) /\ file # <<>> /\ Whole(file, data_offset)
  BY <1>0 DEF SqueezeInv, Writing
<1>5. Len(blocks) \in Nat /\ \A b \in 1 .. Len(blocks) : compressed_data[b].size \in Nat \ {0}
  BY SizesOfBlocks DEF SqueezeInv
<1>6. data_offset \in Nat \ {0} /\ Len(file) = data_offset + Len(blocks)
      /\ \A b \in 1 .. Len(blocks) : Describes(file[data_offset + b], b, file, data_offset)
  BY <1>4 DEF Whole
<1>7. Header(data_offset) \in Units  BY <1>5, <1>6 DEF Header, Units
<1>8. /\ file' \in Seq(Units) /\ Len(file') = Len(file) /\ file'[1] = Header(data_offset)
      /\ \A k \in 2 .. Len(file) : file'[k] = file[k]
  BY <1>3, <1>4, <1>7
<1>9. \A b \in 1 .. Len(blocks) : Describes(file'[data_offset + b], b, file', data_offset)
  <2> SUFFICES ASSUME NEW b \in 1 .. Len(blocks)
               PROVE  Describes(file'[data_offset + b], b, file', data_offset)
    OBVIOUS
  <2>1. Describes(file[data_offset + b], b, file, data_offset) /\ b \in Nat
        /\ compressed_data[b].size \in Nat
    BY <1>5, <1>6
  <2>2. data_offset \in Nat /\ data_offset <= data_offset  BY <1>6
  <2>3. \A k \in 2 .. data_offset : file'[k] = file[k]  BY <1>5, <1>6, <1>8
  <2>4. Describes(file[data_offset + b], b, file', data_offset)  BY <2>1, <2>2, <2>3, DescribesStays
  <2>5. data_offset + b \in 2 .. Len(file)  BY <1>5, <1>6
  <2> QED BY <1>8, <2>4, <2>5
<1>10. Writing'
  <2>1. blocks' = blocks /\ compressed_data' = compressed_data /\ data_offset' = data_offset
    BY <1>3 DEF conversion
  <2>2. \A b \in 1 .. Len(blocks') : Describes(file[data_offset + b], b, file, data_offset)'
    BY <1>9, <2>1 DEF Describes
  <2>3. Whole(file, data_offset)'  BY <1>6, <1>8, <2>1, <2>2 DEF Whole
  <2>4. file'[1] = Header(data_offset)'
    <3>1. Header(data_offset)' = Header(data_offset)  BY <2>1 DEF Header
    <3> QED BY <1>8, <3>1
  <2>5. file' # <<>>  BY <1>5, <1>6, <1>8
  <2> QED BY <1>0, <1>8, <2>3, <2>4, <2>5 DEF Writing
<1>11. Phases'  BY <1>0, <1>3 DEF SqueezeInv, Phases, conversion
<1> QED BY <1>1, <1>2, <1>10, <1>11 DEF SqueezeInv

\* The end of the writer: what it leaves on the disk is there for a reader.
LEMMA Leave ==
    ASSUME SqueezeInv, NoReader, phase # "convert", phase' \in {"done", "crashed"},
           disk' \in Seq(Units), Committed(disk'),
           phase' = "done" => disk' # <<>> /\ disk'[1].index_offset # 0,
           UNCHANGED <<next, conversion, writing, reading>>
    PROVE  SqueezeInv'
<1>1. Converted'  BY WritingOn
<1>2. Phases'  BY DEF SqueezeInv, Phases, conversion
<1>3. Writing'  BY DEF Writing
<1>4. blocks' = blocks /\ compressed_data' = compressed_data  BY DEF conversion
<1>5. loader' = "closed" /\ loaded' = NothingLoaded'  BY DEF NoReader, reading, NothingLoaded
<1>6. Reading'  BY <1>5 DEF Reading
<1>7. OnDisk'
  <2>1. CASE disk' = <<>>  BY <2>1 DEF OnDisk, Committed
  <2>2. CASE disk' # <<>> /\ disk'[1] = Header(0)
    <3>1. Header(0)' = Header(0)  BY <1>4 DEF Header
    <3> QED BY <2>2, <3>1 DEF OnDisk, Committed
  <2>3. CASE disk' # <<>> /\ disk'[1] = Header(disk'[1].index_offset) /\ Whole(disk', disk'[1].index_offset)
    <3> DEFINE first == disk'[1].index_offset
    <3>1. disk'[1] = Header(disk[1].index_offset)'  BY <1>4, <2>3 DEF Header
    <3>2. Whole(disk, disk[1].index_offset)'  BY <1>4, <2>3 DEF Whole, Describes
    <3> QED BY <2>3, <3>1, <3>2 DEF OnDisk, Committed
  <2> QED BY <2>1, <2>2, <2>3 DEF Committed
<1> QED BY <1>1, <1>2, <1>3, <1>6, <1>7 DEF SqueezeInv

LEMMA CloseFileInv == ASSUME SqueezeInv, CloseFile PROVE SqueezeInv'
<1>0. NoReader /\ phase = "close" /\ phase' = "done" /\ disk' = file
      /\ UNCHANGED <<next, conversion, writing, reading>>
  BY Alone DEF CloseFile
<1>1. /\ file \in Seq(Units) /\ file # <<>> /\ Whole(file, data_offset)
      /\ file[1] = Header(data_offset)
  BY <1>0 DEF SqueezeInv, Writing
<1>2. file[1].index_offset = data_offset /\ data_offset # 0  BY <1>1 DEF Header, Whole
<1>3. Committed(disk')  BY <1>0, <1>1, <1>2 DEF Committed
<1> QED BY <1>0, <1>1, <1>2, <1>3, Leave

LEMMA CrashInv == ASSUME SqueezeInv, Crash PROVE SqueezeInv'
<1>0. NoReader /\ phase \in {"data", "header", "close"} /\ phase' = "crashed"
      /\ UNCHANGED <<next, conversion, writing, reading>>
  BY Alone DEF Crash
<1>1. file \in Seq(Units) /\ file # <<>> /\ Len(file) \in Nat
  BY <1>0 DEF SqueezeInv, Writing
<1>2. CASE phase \in {"data", "header"} /\ \E k \in 0 .. Len(file) : disk' = SubSeq(file, 1, k)
  <2>1. PICK k \in 0 .. Len(file) : disk' = SubSeq(file, 1, k)  BY <1>2
  <2>2. file[1] = Header(0)  BY <1>2 DEF SqueezeInv, Writing
  <2>3. disk' \in Seq(Units) /\ (disk' # <<>> => disk'[1] = file[1])  BY <1>1, <2>1
  <2>4. Committed(disk')  BY <2>2, <2>3 DEF Committed
  <2> QED BY <1>0, <2>3, <2>4, Leave
<1>3. CASE phase = "close" /\ disk' \in {file, [file EXCEPT ![1] = Header(0)]}
  <2>1. Whole(file, data_offset) /\ file[1] = Header(data_offset)
    BY <1>3 DEF SqueezeInv, Writing
  <2>2. CASE disk' = file
    <3>1. file[1].index_offset = data_offset  BY <2>1 DEF Header
    <3>2. Committed(disk')  BY <2>1, <2>2, <3>1 DEF Committed
    <3> QED BY <1>0, <1>1, <2>2, <3>2, Leave
  <2>3. CASE disk' = [file EXCEPT ![1] = Header(0)]
    <3>1. Header(0) \in Units  BY SizesOfBlocks DEF SqueezeInv, Header, Units
    <3>2. disk' \in Seq(Units) /\ disk'[1] = Header(0)  BY <1>1, <2>3, <3>1
    <3>3. Committed(disk')  BY <3>2 DEF Committed
    <3> QED BY <1>0, <3>2, <3>3, Leave
  <2> QED BY <1>3, <2>2, <2>3
<1> QED BY <1>2, <1>3 DEF Crash

-----------------------------------------------------------------------------
(* The reader *)

LEMMA IndexedDisk ==
    ASSUME SqueezeInv, disk # <<>>, disk[1].index_offset # 0
    PROVE  /\ disk \in Seq(Units) /\ Whole(disk, disk[1].index_offset)
           /\ disk[1].n_blocks = Len(blocks)
<1>1. disk \in Seq(Units) /\ Committed(disk)  BY DEF SqueezeInv, OnDisk
<1>2. disk[1] # Header(0)  BY DEF Header
<1>3. disk[1] = Header(disk[1].index_offset) /\ Whole(disk, disk[1].index_offset)
  BY <1>1, <1>2 DEF Committed
<1>4. disk[1].n_blocks = Len(blocks)  BY <1>3 DEF Header
<1> QED BY <1>1, <1>3, <1>4

LEMMA ReaderKeeps ==
    ASSUME SqueezeInv, phase \in {"done", "crashed"},
           UNCHANGED <<phase, next, conversion, writing, disk>>, loader # "open" \/ loader' = loader
    PROVE  Phases' /\ Converted' /\ Writing' /\ OnDisk'
<1>1. blocks' = blocks /\ compressed_data' = compressed_data  BY DEF conversion
<1>2. Phases'  BY DEF SqueezeInv, Phases, conversion
<1>3. Converted'  BY WritingOn
<1>4. Writing'  BY DEF Writing
<1>5. OnDisk'
  <2>1. disk \in Seq(Units) /\ Committed(disk) /\ (phase = "done" => disk # <<>> /\ disk[1].index_offset # 0)
    BY DEF SqueezeInv, OnDisk
  <2>2. CASE disk = <<>>  BY <2>1, <2>2 DEF OnDisk, Committed
  <2>3. CASE disk # <<>> /\ disk[1] = Header(0)
    <3>1. Header(0)' = Header(0)  BY <1>1 DEF Header
    <3> QED BY <2>1, <2>3, <3>1 DEF OnDisk, Committed
  <2>4. CASE disk # <<>> /\ disk[1] = Header(disk[1].index_offset) /\ Whole(disk, disk[1].index_offset)
    <3>1. disk'[1] = Header(disk[1].index_offset)'  BY <1>1, <2>4 DEF Header
    <3>2. Whole(disk, disk[1].index_offset)'  BY <1>1, <2>4 DEF Whole, Describes
    <3> QED BY <2>1, <2>4, <3>1, <3>2 DEF OnDisk, Committed
  <2> QED BY <2>1, <2>2, <2>3, <2>4 DEF Committed
<1> QED BY <1>2, <1>3, <1>4, <1>5

LEMMA OpenInv == ASSUME SqueezeInv, Open PROVE SqueezeInv'
<1> DEFINE first == disk[1].index_offset
<1>0. /\ phase \in {"done", "crashed"} /\ loader = "closed" /\ disk # <<>>
      /\ UNCHANGED <<phase, next, conversion, writing, disk, loaded>>
      /\ \/ first # 0 /\ loader' = "open" /\ index_' = SubSeq(disk, first + 1, first + disk[1].n_blocks)
         \/ first = 0 /\ loader' = "garbage" /\ index_' = <<>>
  BY DEF Open, Readable
<1>1. Phases' /\ Converted' /\ Writing' /\ OnDisk'  BY <1>0, ReaderKeeps
<1>2. loaded' = NothingLoaded'  BY <1>0 DEF SqueezeInv, Reading, NothingLoaded
<1>3. Reading'
  <2>1. CASE first = 0  BY <1>0, <1>2, <2>1 DEF Reading
  <2>2. CASE first # 0
    <3>1. disk \in Seq(Units) /\ Whole(disk, first) /\ disk[1].n_blocks = Len(blocks)
      BY <1>0, <2>2, IndexedDisk
    <3>2. first \in Nat \ {0} /\ Len(disk) = first + Len(blocks) /\ Len(blocks) \in Nat
      BY <3>1, SizesOfBlocks DEF Whole, SqueezeInv
    <3> HIDE DEF first
    <3>3. loader' = "open" /\ index_' = SubSeq(disk, first + 1, first + Len(blocks))
      BY <1>0, <2>2, <3>1
    <3>4. Len(index_') = Len(blocks) /\ \A b \in 1 .. Len(blocks) : index_'[b] = disk[first + b]
      <4> DEFINE n == Len(blocks)
                 part == SubSeq(disk, first + 1, first + n)
      <4>1. n \in Nat /\ first \in Nat /\ first + n <= Len(disk) /\ disk \in Seq(Units)
        BY <3>1, <3>2
      <4> HIDE DEF n
      <4>2. Len(part) = n /\ \A b \in 1 .. n : part[b] = disk[first + b]
        BY ONLY <4>1, PartOf
      <4> HIDE DEF part
      <4> QED BY <3>3, <4>2 DEF n, part
    <3>5. blocks' = blocks /\ disk' = disk  BY <1>0 DEF conversion
    <3> QED BY <1>0, <1>2, <2>2, <3>3, <3>4, <3>5 DEF Reading, first
  <2> QED BY <2>1, <2>2
<1> QED BY <1>1, <1>3 DEF SqueezeInv

\* The index of an open file describes every block; its data is the block's.
LEMMA IndexIs ==
    ASSUME SqueezeInv, loader = "open", NEW b \in 1 .. Len(blocks)
    PROVE  Describes(index_[b], b, disk, disk[1].index_offset)
<1>1. disk # <<>> /\ disk[1].index_offset # 0 /\ index_[b] = disk[disk[1].index_offset + b]
  BY DEF SqueezeInv, Reading
<1>2. Whole(disk, disk[1].index_offset)  BY <1>1, IndexedDisk
<1> QED BY <1>1, <1>2 DEF Whole

LEMMA BlockType ==
    ASSUME SqueezeInv, NEW b \in 1 .. Len(blocks)
    PROVE  /\ blocks[b].quant_type \in QuantTypes
           /\ blocks[b].n_rows \in Nat \ {0} /\ blocks[b].n_cols \in Nat \ {0}
           /\ blocks[b].n_rows * blocks[b].n_cols \in Nat \ {0}
           /\ Raw(b) \in Seq(Bytes) /\ Len(Raw(b)) \in Nat /\ Raw(b) # <<>>
<1>1. blocks[b] \in Entries  BY DEF SqueezeInv, Converted
<1> DEFINE type == blocks[b].quant_type
           r == blocks[b].n_rows
           c == blocks[b].n_cols
           n == r * c
<1>2. type \in QuantTypes /\ r \in Nat \ {0} /\ c \in Nat \ {0}  BY <1>1 DEF Entries
<1> HIDE DEF type, r, c
<1>3. n \in Nat \ {0}  BY <1>2
<1> HIDE DEF n
<1>4. quantize_matrix(type, 0, n) \in Seq(Bytes)  BY <1>2, <1>3, LayoutType
<1>5. Len(quantize_matrix(type, 0, n)) # 0  BY <1>2, <1>3, LayoutNotEmpty
<1>6. Raw(b) = quantize_matrix(type, 0, n)  BY DEF Raw, type, n, r, c
<1>7. Raw(b) \in Seq(Bytes) /\ Len(Raw(b)) # 0  BY <1>4, <1>5, <1>6
<1>8. Len(Raw(b)) \in Nat /\ Raw(b) # <<>>
  <2> DEFINE s == Raw(b)
  <2>1. s \in Seq(Bytes) /\ Len(s) # 0  BY <1>7
  <2> HIDE DEF s
  <2>2. Len(s) \in Nat /\ s # <<>>  BY <2>1
  <2> QED BY <2>2 DEF s
<1> QED BY <1>2, <1>3, <1>7, <1>8 DEF type, n, r, c

LEMMA DataIs ==
    ASSUME SqueezeInv, loader = "open", NEW b \in 1 .. Len(blocks)
    PROVE  /\ Decompressed(index_[b]) = IF compressed_data[b].packed THEN Raw(b) ELSE <<>>
           /\ LoadedData(index_[b]) = WeightsOf(b)
<1> DEFINE blk == index_[b]
           first == disk[1].index_offset
           size == compressed_data[b].size
           units == SubSeq(disk, blk.offset + 1, blk.offset + blk.compressed_size)
<1>1. Describes(blk, b, disk, first)  BY IndexIs
<1>2. disk # <<>> /\ first # 0  BY DEF SqueezeInv, Reading
<1>3. disk \in Seq(Units) /\ first \in Nat /\ Len(disk) = first + Len(blocks)
  BY <1>2, IndexedDisk DEF Whole
<1>4. size \in Nat \ {0} /\ Len(blocks) \in Nat  BY SizesOfBlocks DEF SqueezeInv
<1>5. /\ blk.offset \in Nat /\ blk.compressed_size = size /\ blk.offset + size <= first
      /\ \A k \in 1 .. size : disk[blk.offset + k] = [kind |-> "data", block |-> b, at |-> k]
      /\ blk.n_rows = blocks[b].n_rows /\ blk.n_cols = blocks[b].n_cols
      /\ blk.quant_type = blocks[b].quant_type /\ blk.original_size = blocks[b].original_size
  BY <1>1 DEF Describes, Entries
<1>6. compressed_data[b].raw = Raw(b) /\ blocks[b].original_size = Len(Raw(b))
  BY DEF SqueezeInv, Converted
<1> HIDE DEF first, size, blk
<1>7. Len(units) = size /\ \A k \in 1 .. size : units[k] = [kind |-> "data", block |-> b, at |-> k]
  <2> DEFINE o == blk.offset
  <2>1. o \in Nat /\ o + size <= Len(disk) /\ units = SubSeq(disk, o + 1, o + size)
        /\ \A k \in 1 .. size : disk[o + k] = [kind |-> "data", block |-> b, at |-> k]
    BY <1>3, <1>4, <1>5
  <2> HIDE DEF o, units
  <2>2. Len(units) = size /\ \A k \in 1 .. size : units[k] = disk[o + k]
    <3>1. size \in Nat /\ disk \in Seq(Units)  BY <1>3, <1>4
    <3> DEFINE part == SubSeq(disk, o + 1, o + size)
    <3>2. Len(part) = size /\ \A k \in 1 .. size : part[k] = disk[o + k]
      BY ONLY <2>1, <3>1, PartOf
    <3>3. units = part  BY <2>1
    <3> HIDE DEF part
    <3> QED BY <3>2, <3>3
  <2> QED BY <2>1, <2>2
<1> HIDE DEF units
<1>8. 1 \in 1 .. size /\ units[1].block = b  BY <1>4, <1>7
<1>9. /\ \A k \in 1 .. Len(units) :
            units[k].kind = "data" /\ units[k].block = units[1].block /\ units[k].at = k
      /\ Len(units) = compressed_data[units[1].block].size
  <2>1. compressed_data[units[1].block].size = size  BY <1>8 DEF size
  <2> DEFINE x == compressed_data[units[1].block].size
             y == units[1].block
  <2>2. x = size /\ y = b  BY <1>8, <2>1
  <2> HIDE DEF x, y
  <2>3. ASSUME NEW k \in 1 .. size
        PROVE  units[k].kind = "data" /\ units[k].block = y /\ units[k].at = k
    BY <1>7, <2>2
  <2>4. Len(units) = x  BY <1>7, <2>2
  <2> QED BY <1>7, <2>3, <2>4 DEF x, y
<1>10. Len(compressed_data[units[1].block].raw) <= blk.original_size
       /\ compressed_data[units[1].block].raw = Raw(b)
       /\ compressed_data[units[1].block].packed = compressed_data[b].packed
  <2>1. Len(Raw(b)) \in Nat  BY BlockType
  <2>2. Len(Raw(b)) <= blk.original_size  BY <1>5, <1>6, <2>1
  <2> QED BY <1>6, <1>8, <2>2
<1>11. Decompressed(blk) = IF compressed_data[b].packed THEN Raw(b) ELSE <<>>
  BY <1>9, <1>10 DEF Decompressed, units
<1>12. LoadedData(blk) = WeightsOf(b)
  BY <1>5, <1>11, BlockType DEF LoadedData, WeightsOf
<1> QED BY <1>11, <1>12 DEF blk

\* A tensor that was stored is found at its block, any other nowhere.
LEMMA EntryIs ==
    ASSUME SqueezeInv, loader = "open", NEW id
    PROVE  /\ id \notin StoredIds => Entry(id) = 0
           /\ \A b \in 1 .. Len(blocks) : blocks[b].id = id => Entry(id) = b /\ b # 0
<1> DEFINE found == {i \in 1 .. Len(index_) : index_[i].id = id}
<1>1. Len(index_) = Len(blocks) /\ Len(blocks) \in Nat  BY SizesOfBlocks DEF SqueezeInv, Reading
<1>2. \A b \in 1 .. Len(blocks) : index_[b].id = blocks[b].id  BY IndexIs DEF Describes
<1>3. Entry(id) = IF found # {} THEN CHOOSE x \in found : \A y \in found : x <= y ELSE 0
  BY DEF Entry, SelectInSeq, Min
<1>4. id \notin StoredIds => found = {}  BY <1>1, <1>2 DEF StoredIds
<1>5. ASSUME NEW b \in 1 .. Len(blocks), blocks[b].id = id PROVE found = {b}
  BY <1>1, <1>2, <1>5 DEF SqueezeInv, Converted
<1> HIDE DEF found
<1>6. ASSUME NEW b \in 1 .. Len(blocks), blocks[b].id = id PROVE Entry(id) = b /\ b # 0
  <2>1. found = {b} /\ b \in Nat \ {0}  BY <1>5, <1>6
  <2>2. (CHOOSE x \in found : \A y \in found : x <= y) = b  BY <2>1
  <2> QED BY <1>3, <2>1, <2>2
<1> QED BY <1>3, <1>4, <1>6

\* Both loads: what they leave in `loaded` is the block's, or nothing.
LEMMA Loads ==
    ASSUME SqueezeInv, loader = "open",
           UNCHANGED <<phase, next, conversion, writing, disk, loader, index_>>,
           \A b \in 1 .. Len(blocks) : blocks[b].id = loaded'.id =>
               MadeOf(b, loaded'.data, loaded'.row_scales),
           loaded'.id \notin StoredIds => loaded'.data = <<>> /\ loaded'.row_scales = <<>>
    PROVE  SqueezeInv'
<1>1. phase \in {"done", "crashed"}  BY DEF SqueezeInv, OnDisk, Phases
<1>2. Phases' /\ Converted' /\ Writing' /\ OnDisk'  BY <1>1, ReaderKeeps
<1>3. /\ blocks' = blocks /\ compressed_data' = compressed_data
      /\ disk' = disk /\ loader' = loader /\ index_' = index_
  BY DEF conversion
<1>4. StoredIds' = StoredIds /\ \A b : Raw(b)' = Raw(b)  BY <1>3 DEF StoredIds, Raw
<1>5. \A b \in 1 .. Len(blocks') : blocks'[b].id = loaded'.id => LoadedBlock(b)'
  BY <1>3, <1>4 DEF LoadedBlock, MadeOf, WeightsOf
<1>6. Reading'
  <2>1. loader' = "open" => /\ disk' # <<>> /\ disk'[1].index_offset # 0 /\ Len(index_') = Len(blocks')
                            /\ \A b \in 1 .. Len(blocks') : index_'[b] = disk'[disk'[1].index_offset + b]
    BY <1>3 DEF SqueezeInv, Reading
  <2>2. loaded'.id \notin StoredIds' => loaded'.data = <<>> /\ loaded'.row_scales = <<>>  BY <1>4
  <2> QED BY <1>3, <1>5, <2>1, <2>2 DEF Reading
<1> QED BY <1>2, <1>6 DEF SqueezeInv

LEMMA LoadBlockInv == ASSUME SqueezeInv, NEW id, load_block(id) PROVE SqueezeInv'
<1> DEFINE data == IF Entry(id) = 0 THEN <<>> ELSE LoadedData(index_[Entry(id)])
<1>1. /\ loader = "open" /\ UNCHANGED <<phase, next, conversion, writing, disk, loader, index_>>
      /\ loaded'.id = id /\ loaded'.row_scales = <<>> /\ loaded'.data = data
  BY DEF load_block
<1>2. ASSUME NEW b \in 1 .. Len(blocks), blocks[b].id = id
      PROVE  MadeOf(b, data, <<>>)
  <2>1. Entry(id) = b /\ b # 0  BY <1>1, <1>2, EntryIs
  <2> QED BY <1>1, <2>1, DataIs DEF MadeOf
<1>3. id \notin StoredIds => data = <<>>  BY <1>1, EntryIs
<1> HIDE DEF data
<1> QED BY <1>1, <1>2, <1>3, Loads

LEMMA LoadWithScalesInv == ASSUME SqueezeInv, NEW id, load_block_with_scales(id) PROVE SqueezeInv'
<1> DEFINE blk == index_[Entry(id)]
           scales == IF blk.quant_type # Q8 \/ Decompressed(blk) = <<>> THEN <<>>
                     ELSE row_scales(Decompressed(blk), blk.n_rows, blk.n_cols)
<1>1. /\ loader = "open" /\ Entry(id) # 0
      /\ UNCHANGED <<phase, next, conversion, writing, disk, loader, index_>>
      /\ loaded'.id = id /\ loaded'.data = LoadedData(blk) /\ loaded'.row_scales = scales
  BY DEF load_block_with_scales
<1>2. ASSUME NEW b \in 1 .. Len(blocks), blocks[b].id = id
      PROVE  MadeOf(b, LoadedData(blk), scales)
  <2>1. blk = index_[b]  BY <1>1, <1>2, EntryIs
  <2>2. /\ Decompressed(blk) = IF compressed_data[b].packed THEN Raw(b) ELSE <<>>
        /\ LoadedData(blk) = WeightsOf(b)
    BY <1>1, <2>1, DataIs
  <2>3. Describes(blk, b, disk, disk[1].index_offset)  BY <1>1, <2>1, IndexIs
  <2> HIDE DEF blk
  <2>4. blk.quant_type = blocks[b].quant_type /\ blk.n_rows = blocks[b].n_rows /\ blk.n_cols = blocks[b].n_cols
    BY <2>3 DEF Describes
  <2>5. \/ scales = <<>>
        \/ compressed_data[b].packed /\ blocks[b].quant_type = Q8
           /\ scales = row_scales(Raw(b), blocks[b].n_rows, blocks[b].n_cols)
    BY <2>2, <2>4
  <2> QED BY <2>2, <2>5 DEF MadeOf
<1>3. id \in StoredIds  BY <1>1, EntryIs
<1> HIDE DEF blk, scales
<1> QED BY <1>1, <1>2, <1>3, Loads

LEMMA StepInv == SqueezeInv /\ [Next]_vars => SqueezeInv'
<1> SUFFICES ASSUME SqueezeInv, [Next]_vars PROVE SqueezeInv'  OBVIOUS
<1>1. CASE Missing  BY <1>1, MissingInv
<1>2. CASE \E shape \in Shapes : Convert(shape[1], shape[2], shape[3])  BY <1>2, ConvertInv
<1>3. CASE WriteHeader  BY <1>3, WriteHeaderInv
<1>4. CASE CannotOpen  BY <1>4, CannotOpenInv
<1>5. CASE WriteBlock  BY <1>5, WriteBlockInv
<1>6. CASE WriteIndex  BY <1>6, WriteIndexInv
<1>7. CASE RewriteHeader  BY <1>7, RewriteHeaderInv
<1>8. CASE CloseFile  BY <1>8, CloseFileInv
<1>9. CASE Crash  BY <1>9, CrashInv
<1>10. CASE Open  BY <1>10, OpenInv
<1>11. CASE \E id \in ToSet(Tensors) : load_block(id) \/ load_block_with_scales(id)
  BY <1>11, LoadBlockInv, LoadWithScalesInv
<1>12. CASE UNCHANGED vars
  <2>1. UNCHANGED <<phase, next, blocks, compressed_data, quant_type, embed_quant>>
        /\ UNCHANGED <<file, data_offset, written_blocks, disk, loader, index_, loaded>>
    BY <1>12 DEF vars, conversion, writing, reading
  <2>2. Phases'  BY <2>1 DEF SqueezeInv, Phases
  <2>3. Raw(1)' = Raw(1) /\ \A b : Raw(b)' = Raw(b)  BY <2>1 DEF Raw
  <2>4. Converted'  BY <2>1, <2>3 DEF SqueezeInv, Converted, TensorsBefore
  <2>5. \A x : Header(x)' = Header(x)  BY <2>1 DEF Header
  <2>6. \A e, b, f, end : Describes(e, b, f, end)' = Describes(e, b, f, end)  BY <2>1 DEF Describes
  <2>7. Writing'  BY <2>1, <2>5, <2>6 DEF SqueezeInv, Writing, Whole, Header, Describes
  <2>8. OnDisk'  BY <2>1, <2>5, <2>6 DEF SqueezeInv, OnDisk, Committed, Whole, Header, Describes
  <2>9. Reading'  BY <2>1, <2>3 DEF SqueezeInv, Reading, LoadedBlock, MadeOf, WeightsOf, StoredIds, NothingLoaded
  <2> QED BY <2>2, <2>4, <2>7, <2>8, <2>9 DEF SqueezeInv
<1> QED
  BY <1>1, <1>2, <1>3, <1>4, <1>5, <1>6, <1>7, <1>8, <1>9, <1>10, <1>11, <1>12 DEF Next, Tool, Reader

THEOREM SqueezeInvariant == Spec => []SqueezeInv
<1>1. Init => SqueezeInv  BY InitInv
<1>2. SqueezeInv /\ [Next]_vars => SqueezeInv'  BY StepInv
<1> QED BY <1>1, <1>2, PTL DEF Spec

\* The program's data is of the types its declarations and its loops give it.
THEOREM SqueezeTypes == Spec => []TypeOK
<1>1. SqueezeInv => TypeOK
  <2> SUFFICES ASSUME SqueezeInv PROVE TypeOK  OBVIOUS
  <2>1. \A b \in 1 .. Len(blocks) : blocks[b].original_size = Len(compressed_data[b].raw)
    BY DEF SqueezeInv, Converted
  <2>2. phase = "data" => Len(written_blocks) = next - 1 /\ data_offset = Len(file)
    BY DEF SqueezeInv, Writing
  <2> QED BY <2>1, <2>2 DEF SqueezeInv, TypeOK, Phases, Converted, Reading
<1> QED BY <1>1, SqueezeInvariant, PTL

\* However write_squeeze() ends, a file whose header names an index has the index
\* and all the data it describes.
THEOREM CommittedFilesAreWhole == Spec => []IndexedFileIsWhole
<1>1. SqueezeInv => IndexedFileIsWhole
  <2> SUFFICES ASSUME SqueezeInv PROVE IndexedFileIsWhole  OBVIOUS
  <2> DEFINE first == disk[1].index_offset
  <2>1. phase = "done" => first # 0  BY DEF SqueezeInv, OnDisk
  <2>2. ASSUME disk # <<>>, first # 0
        PROVE  /\ Len(disk) = first + Len(blocks)
               /\ \A b \in 1 .. Len(blocks) :
                     LET e == disk[first + b] IN
                     /\ e.id = blocks[b].id /\ e.quant_type = blocks[b].quant_type
                     /\ SubSeq(disk, e.offset + 1, e.offset + e.compressed_size)
                          = [k \in 1 .. compressed_data[b].size |-> [kind |-> "data", block |-> b, at |-> k]]
    <3>1. disk \in Seq(Units) /\ Whole(disk, first)  BY <2>2, IndexedDisk
    <3>2. first \in Nat \ {0} /\ Len(disk) = first + Len(blocks)  BY <3>1 DEF Whole
    <3>3. ASSUME NEW b \in 1 .. Len(blocks)
          PROVE  LET e == disk[first + b] IN
                 /\ e.id = blocks[b].id /\ e.quant_type = blocks[b].quant_type
                 /\ SubSeq(disk, e.offset + 1, e.offset + e.compressed_size)
                      = [k \in 1 .. compressed_data[b].size |-> [kind |-> "data", block |-> b, at |-> k]]
      <4> DEFINE e == disk[first + b]
                 o == e.offset
                 n == compressed_data[b].size
                 part == SubSeq(disk, o + 1, o + n)
                 units == [k \in 1 .. n |-> [kind |-> "data", block |-> b, at |-> k]]
      <4>1. Describes(e, b, disk, first)  BY <3>1 DEF Whole
      <4>2. n \in Nat \ {0} /\ Len(blocks) \in Nat  BY SizesOfBlocks DEF SqueezeInv
      <4> HIDE DEF e, n, first
      <4>3. /\ e.id = blocks[b].id /\ e.quant_type = blocks[b].quant_type
            /\ o \in Nat /\ e.compressed_size = n /\ o + n <= first
            /\ \A k \in 1 .. n : disk[o + k] = [kind |-> "data", block |-> b, at |-> k]
        BY <4>1 DEF Describes, Entries, n
      <4>4. o + n <= Len(disk) /\ disk \in Seq(Units) /\ n \in Nat  BY <3>1, <3>2, <4>2, <4>3
      <4> HIDE DEF o
      <4>5. Len(part) = n /\ \A k \in 1 .. n : part[k] = disk[o + k]
        BY ONLY <4>3, <4>4, PartOf
      <4>6. part \in Seq(Units)
        <5>1. o + 1 \in Int /\ o + n \in Int /\ \A i \in o + 1 .. o + n : disk[i] \in Units
          BY <4>3, <4>4
        <5> QED BY <5>1, SubSeqProperties
      <4> HIDE DEF part
      <4>7. part = units
        <5>1. part = [k \in 1 .. n |-> part[k]]  BY <4>2, <4>5, <4>6
        <5> QED BY <4>3, <4>5, <5>1
      <4> HIDE DEF units
      <4> QED BY <4>3, <4>7 DEF part, units, o, e, n, first
    <3> QED BY <3>2, <3>3
  <2> HIDE DEF first
  <2> QED BY <2>1, <2>2 DEF IndexedFileIsWhole, first
<1> QED BY <1>1, SqueezeInvariant, PTL

\* WeightLoader::load_block() gives back, at every place, the weight that
\* quantize_matrix() laid out there (Q8 and ternary), and nothing for a tensor the
\* conversion left out or compress_block() stored as it is.
THEOREM LoadsAreWhatWasStored == Spec => []LoadsWhatWasStored
<1>1. SqueezeInv => LoadsWhatWasStored
  <2> SUFFICES ASSUME SqueezeInv PROVE LoadsWhatWasStored  OBVIOUS
  <2>1. ASSUME NEW b \in 1 .. Len(blocks), loaded # NothingLoaded, blocks[b].id = loaded.id
        PROVE  loaded.data = WeightsOf(b)
    BY <2>1 DEF SqueezeInv, Reading, LoadedBlock, MadeOf
  <2>2. loaded.data # <<>> => loaded # NothingLoaded  BY DEF NothingLoaded
  <2>3. LoadedIs(Q8)
    <3> SUFFICES ASSUME NEW b \in 1 .. Len(blocks), loaded.data # <<>>, blocks[b].id = loaded.id,
                        blocks[b].quant_type = Q8
                 PROVE  loaded.data = WeightsInPlace(blocks[b].n_rows * blocks[b].n_cols)
      BY DEF LoadedIs
    <3> DEFINE n == blocks[b].n_rows * blocks[b].n_cols
    <3>1. n \in Nat  BY BlockType
    <3>2. loaded.data = dequantize(Q8, quantize_matrix(Q8, 0, n), n)  BY <2>1, <2>2 DEF Raw, WeightsOf
    <3> HIDE DEF n
    <3>3. loaded.data = WeightsInPlace(n)  BY <3>1, <3>2, DequantizeQ8
    <3> QED BY <3>3 DEF n
  <2>4. LoadedIs(Ternary)
    <3> SUFFICES ASSUME NEW b \in 1 .. Len(blocks), loaded.data # <<>>, blocks[b].id = loaded.id,
                        blocks[b].quant_type = Ternary
                 PROVE  loaded.data = WeightsInPlace(blocks[b].n_rows * blocks[b].n_cols)
      BY DEF LoadedIs
    <3> DEFINE n == blocks[b].n_rows * blocks[b].n_cols
    <3>1. n \in Nat  BY BlockType
    <3>2. loaded.data = dequantize(Ternary, quantize_matrix(Ternary, 0, n), n)  BY <2>1, <2>2 DEF Raw, WeightsOf
    <3> HIDE DEF n
    <3>3. loaded.data = WeightsInPlace(n)  BY <3>1, <3>2, DequantizeTernary
    <3> QED BY <3>3 DEF n
  <2>5. ASSUME loaded # NothingLoaded PROVE loaded.data = <<>> <=> loaded.id \notin PackedIds
    <3>1. ASSUME loaded.id \in PackedIds PROVE loaded.data # <<>>
      <4>1. PICK b \in 1 .. Len(blocks) : compressed_data[b].packed /\ blocks[b].id = loaded.id
        BY <3>1 DEF PackedIds
      <4> DEFINE n == blocks[b].n_rows * blocks[b].n_cols
                 type == blocks[b].quant_type
                 raw == Raw(b)
      <4>2. n \in Nat \ {0}  BY BlockType
      <4>3. loaded.data = dequantize(type, raw, n)  BY <2>1, <2>5, <4>1 DEF WeightsOf
      <4> HIDE DEF n, type, raw
      <4>4. DOMAIN loaded.data = 0 .. n - 1  BY <4>3 DEF dequantize
      <4>5. 0 \in DOMAIN loaded.data  BY <4>2, <4>4
      <4>6. 0 \notin DOMAIN <<>>  OBVIOUS
      <4> QED BY <4>5, <4>6
    <3>2. ASSUME loaded.id \notin PackedIds PROVE loaded.data = <<>>
      <4>1. CASE loaded.id \notin StoredIds  BY <2>5, <4>1 DEF SqueezeInv, Reading
      <4>2. CASE loaded.id \in StoredIds
        <5>1. PICK b \in 1 .. Len(blocks) : blocks[b].id = loaded.id  BY <4>2 DEF StoredIds
        <5>2. ~ compressed_data[b].packed  BY <3>2, <5>1 DEF PackedIds
        <5> QED BY <2>1, <2>5, <5>1, <5>2 DEF WeightsOf
      <4> QED BY <4>1, <4>2
    <3> QED BY <3>1, <3>2
  <2> QED BY <2>3, <2>4, <2>5 DEF LoadsWhatWasStored
<1> QED BY <1>1, SqueezeInvariant, PTL

\* load_block_with_scales() averages, for a row of whole blocks, the scales of the
\* blocks that row was stored in.
THEOREM RowsHaveTheirScales == Spec => []RowsGetTheirScales
<1>1. SqueezeInv => RowsGetTheirScales
  <2> SUFFICES ASSUME SqueezeInv, NEW b \in 1 .. Len(blocks), blocks[b].id = loaded.id,
                      blocks[b].n_cols % Block = 0, loaded.row_scales # <<>>,
                      NEW row \in 0 .. blocks[b].n_rows - 1
               PROVE  loaded.row_scales[row] = ScalesOfRow(row, blocks[b].n_cols)
    BY DEF RowsGetTheirScales
  <2> DEFINE r == blocks[b].n_rows
             c == blocks[b].n_cols
  <2>1. r \in Nat \ {0} /\ c \in Nat \ {0}  BY BlockType
  <2>2. loaded # NothingLoaded  BY DEF NothingLoaded
  <2>3. LoadedBlock(b)  BY <2>2 DEF SqueezeInv, Reading
  <2>4. loaded.row_scales = row_scales(quantize_matrix(Q8, 0, r * c), r, c)
    BY <2>3 DEF LoadedBlock, MadeOf, Raw
  <2> HIDE DEF r
  <2>5. row \in 0 .. r - 1 /\ c % Block = 0  BY DEF r
  <2> HIDE DEF c
  <2>6. row_scales(quantize_matrix(Q8, 0, r * c), r, c)[row] = ScalesOfRow(row, c)
    BY <2>1, <2>5, RowScales
  <2> QED BY <2>4, <2>6 DEF c
<1> QED BY <1>1, SqueezeInvariant, PTL
=============================================================================
