---------------------------- MODULE CacheProofs ----------------------------
(* Theorems about the key/value cache and the engine over it, for every value of
   the constants: the cell of KVCell, the cache under any use of store() and
   clear() of KVCache, and the requests of Session.

   The lemmas about one cell say what the operations do to each field, that they
   keep the type, and that a store past the sink appends to the log the tiers
   hold; the two clients share them.  The invariant of Session says what is in
   each cell in terms of the number of tokens its layer has stored, and what a
   round may still add to it. *)
EXTENDS Session, KVCache, Lemmas

-----------------------------------------------------------------------------
(* Quotients and remainders by a divisor w that is not a literal: the provers know
   that a = w * (a \div w) + (a % w), the rest follows. *)

LEMMA ModSmall == ASSUME NEW w \in Nat \ {0}, NEW a \in 0 .. w - 1 PROVE a % w = a
  OBVIOUS

LEMMA ModSucc == ASSUME NEW w \in Nat \ {0}, NEW a \in Nat
                 PROVE (a + 1) % w = IF (a % w) + 1 = w THEN 0 ELSE (a % w) + 1
<1> DEFINE q == a \div w
           r == a % w
<1>1. q \in Nat /\ r \in 0 .. w - 1  BY ModRange
<1>2. a = w * q + r  BY DivMod
<1> HIDE DEF q, r
<1>3. CASE r + 1 = w
  <2>1. a + 1 = w * (q + 1) + 0  BY <1>1, <1>2, <1>3
  <2>2. (w * (q + 1) + 0) % w = 0
    <3>1. q + 1 \in Nat /\ 0 \in 0 .. w - 1 BY <1>1
    <3> QED BY ONLY <3>1, ModUnique, w \in Nat \ {0}
  <2> QED BY <2>1, <2>2, <1>3 DEF r
<1>4. CASE r + 1 # w
  <2>1. a + 1 = w * q + (r + 1)  BY <1>1, <1>2
  <2>2. r + 1 \in 0 .. w - 1  BY <1>1, <1>4
  <2>3. (w * q + (r + 1)) % w = r + 1
    BY ONLY <1>1, <2>2, ModUnique, w \in Nat \ {0}
  <2> QED BY <2>1, <2>3, <1>4 DEF r
<1> QED BY <1>3, <1>4

LEMMA ModPeriod == ASSUME NEW w \in Nat \ {0}, NEW a \in Nat
                   PROVE (a + w) % w = a % w
<1> DEFINE q == a \div w
           r == a % w
<1>1. q \in Nat /\ r \in 0 .. w - 1  BY ModRange
<1>2. a = w * q + r  BY DivMod
<1> HIDE DEF q, r
<1>3. a + w = w * (q + 1) + r  BY <1>1, <1>2
<1>4. q + 1 \in Nat BY <1>1
<1>5. (w * (q + 1) + r) % w = r  BY ONLY <1>1, <1>4, ModUnique, w \in Nat \ {0}
<1> QED BY <1>3, <1>5 DEF r

LEMMA ModAdd == ASSUME NEW w \in Nat \ {0}, NEW a \in Nat, NEW m \in Nat
                PROVE ((a % w) + m) % w = (a + m) % w
<1> DEFINE q == a \div w
           r == a % w
           b == r + m
           p == b \div w
           s == b % w
<1>1. q \in Nat /\ r \in 0 .. w - 1  BY ModRange
<1>2. a = w * q + r  BY DivMod
<1>3. b \in Nat  BY <1>1
<1> HIDE DEF q, r, b
<1>4. p \in Nat /\ s \in 0 .. w - 1  BY <1>3, ModRange
<1>5. b = w * p + s  BY <1>3, DivMod
<1> HIDE DEF p, s
<1>6. a + m = w * (q + p) + s
  <2>1. a + m = w * q + b  BY <1>1, <1>2 DEF b
  <2>2. w * (q + p) = w * q + w * p  BY <1>1, <1>4
  <2> QED BY <1>1, <1>4, <1>5, <2>1, <2>2
<1>7. q + p \in Nat  BY <1>1, <1>4
<1>8. (w * (q + p) + s) % w = s  BY ONLY <1>4, <1>7, ModUnique, w \in Nat \ {0}
<1> QED BY <1>6, <1>8 DEF s, b, r

LEMMA ModDistinct == ASSUME NEW w \in Nat \ {0}, NEW a \in Nat, NEW b \in Nat,
                            a < b, b < a + w
                     PROVE a % w # b % w
<1> SUFFICES ASSUME a % w = b % w PROVE FALSE OBVIOUS
<1> DEFINE q == a \div w
           p == b \div w
           r == a % w
<1>1. q \in Nat /\ p \in Nat /\ r \in 0 .. w - 1  BY ModRange
<1>2. a = w * q + r /\ b = w * p + r  BY DivMod
<1> HIDE DEF q, p, r
<1>3. q < p
  <2>1. CASE q = p  BY <2>1, <1>2
  <2>2. CASE p < q
    <3>1. w * p + w <= w * q BY <2>2, <1>1, MultStep
    <3> QED BY <3>1, <1>1, <1>2
  <2> QED BY <2>1, <2>2, <1>1
<1>4. w * q + w <= w * p  BY <1>1, <1>3, MultStep
<1> QED BY <1>1, <1>2, <1>4

-----------------------------------------------------------------------------
(* Cells *)

LEMMA Sizes == window_sz \in Nat \ {0} /\ pool_block \in Nat \ {0}
  BY CellAssumption DEF window_sz, pool_block

\* Cells are proved about field by field: the provers do not see through a
\* chain of EXCEPTs whether a record is of a record type.
Fields == {"sink", "sink_count", "win", "win_pos", "win_head", "win_count",
           "pool", "acc", "acc_count", "acc_start"}
IsCell(d) == d = [x \in Fields |-> d[x]]

TypedFields(d) ==
    /\ d.sink \in [SinkSlots -> Nat] /\ d.sink_count \in 0 .. SinkRows
    /\ d.win \in [WindowSlots -> Nat] /\ d.win_pos \in [WindowSlots -> Nat]
    /\ d.win_head \in WindowSlots /\ d.win_count \in 0 .. window_sz
    /\ d.pool \in Seq(Block) /\ d.acc \in SUBSET Nat
    /\ d.acc_count \in Nat /\ d.acc_start \in Nat

LEMMA CellByFields == ASSUME NEW d, IsCell(d), TypedFields(d) PROVE d \in CellType
<1>1. d = [sink |-> d.sink, sink_count |-> d.sink_count,
           win |-> d.win, win_pos |-> d.win_pos,
           win_head |-> d.win_head, win_count |-> d.win_count,
           pool |-> d.pool, acc |-> d.acc,
           acc_count |-> d.acc_count, acc_start |-> d.acc_start]
  BY DEF IsCell, Fields
<1> QED BY <1>1 DEF CellType, TypedFields

LEMMA FieldsOfCell == ASSUME NEW d \in CellType PROVE IsCell(d) /\ TypedFields(d)
  BY DEF CellType, IsCell, Fields, TypedFields

LEMMA ClearFields ==
  ASSUME NEW c, IsCell(c)
  PROVE  LET d == ClearCell(c)
         IN  /\ IsCell(d)
             /\ d.sink = c.sink /\ d.sink_count = 0
             /\ d.win = c.win /\ d.win_pos = c.win_pos
             /\ d.win_head = 0 /\ d.win_count = 0
             /\ d.pool = <<>> /\ d.acc = {} /\ d.acc_count = 0
             /\ d.acc_start = c.acc_start
  BY DEF ClearCell, IsCell, Fields

LEMMA SinkFields ==
  ASSUME NEW c, IsCell(c), NEW pos \in Nat, NEW g
  PROVE  LET d == StoreSink(c, pos, g)
         IN  /\ IsCell(d)
             /\ pos < SinkRows =>
                  /\ d.sink = [c.sink EXCEPT ![pos] = g]
                  /\ d.sink_count = IF pos >= c.sink_count THEN pos + 1 ELSE c.sink_count
             /\ ~ (pos < SinkRows) => d.sink = c.sink /\ d.sink_count = c.sink_count
             /\ d.win = c.win /\ d.win_pos = c.win_pos
             /\ d.win_head = c.win_head /\ d.win_count = c.win_count
             /\ d.pool = c.pool /\ d.acc = c.acc
             /\ d.acc_count = c.acc_count /\ d.acc_start = c.acc_start
  BY DEF StoreSink, IsCell, Fields

\* Accumulate and Finalize together: the ring is left alone.
LEMMA EvictFields ==
  ASSUME NEW c, IsCell(c)
  PROVE  LET e == c.win_head
             full == c.acc_count + 1 >= pool_block
             start == IF c.acc_count = 0 THEN c.win_pos[e] ELSE c.acc_start
             sum == c.acc \cup {c.win[e]}
             d == Evict(c)
         IN  /\ IsCell(d)
             /\ d.sink = c.sink /\ d.sink_count = c.sink_count
             /\ d.win = c.win /\ d.win_pos = c.win_pos
             /\ d.win_head = c.win_head /\ d.win_count = c.win_count
             /\ d.acc_start = start
             /\ full => /\ d.pool = Append(c.pool, [start |-> start, end |-> c.win_pos[e],
                                                    rows |-> sum, div |-> c.acc_count + 1])
                        /\ d.acc = {} /\ d.acc_count = 0
             /\ ~ full => /\ d.pool = c.pool
                          /\ d.acc = sum /\ d.acc_count = c.acc_count + 1
  BY DEF Evict, Accumulate, Finalize, IsCell, Fields

LEMMA PutFields ==
  ASSUME NEW c, IsCell(c), NEW pos, NEW row
  PROVE  LET d == Put(c, pos, row)
         IN  /\ IsCell(d)
             /\ d.sink = c.sink /\ d.sink_count = c.sink_count
             /\ d.win = [c.win EXCEPT ![c.win_head] = row]
             /\ d.win_pos = [c.win_pos EXCEPT ![c.win_head] = pos]
             /\ d.win_head = (c.win_head + 1) % window_sz
             /\ d.win_count = c.win_count
             /\ d.pool = c.pool /\ d.acc = c.acc
             /\ d.acc_count = c.acc_count /\ d.acc_start = c.acc_start
  BY DEF Put, IsCell, Fields

\* The whole store past the sink, in terms of the eviction when the ring is full.
LEMMA StoreWindowFields ==
  ASSUME NEW c, IsCell(c), NEW pos, NEW row
  PROVE  LET full == c.win_count >= window_sz
             e == IF full THEN Evict(c) ELSE c
             d == StoreWindow(c, pos, row)
         IN  /\ IsCell(d)
             /\ d.sink = c.sink /\ d.sink_count = c.sink_count
             /\ d.win = [c.win EXCEPT ![c.win_head] = row]
             /\ d.win_pos = [c.win_pos EXCEPT ![c.win_head] = pos]
             /\ d.win_head = (c.win_head + 1) % window_sz
             /\ d.win_count = IF full THEN c.win_count ELSE c.win_count + 1
             /\ d.pool = e.pool /\ d.acc = e.acc
             /\ d.acc_count = e.acc_count /\ d.acc_start = e.acc_start
<1>1. CASE c.win_count >= window_sz
  <2> DEFINE f == Evict(c)
  <2>1. IsCell(f) /\ f.win = c.win /\ f.win_pos = c.win_pos
        /\ f.win_head = c.win_head /\ f.win_count = c.win_count
        /\ f.sink = c.sink /\ f.sink_count = c.sink_count
    BY EvictFields
  <2>2. StoreWindow(c, pos, row) = Put(f, pos, row)
    BY <1>1 DEF StoreWindow
  <2> HIDE DEF f
  <2> QED BY <2>1, <2>2, <1>1, PutFields DEF f
<1>2. CASE ~ (c.win_count >= window_sz)
  <2> DEFINE d == Put(c, pos, row)
  <2>1. IsCell(d)  BY PutFields
  <2>2. StoreWindow(c, pos, row) = [d EXCEPT !.win_count = @ + 1]
    BY <1>2 DEF StoreWindow
  <2>3. LET f == [d EXCEPT !.win_count = @ + 1]
        IN  /\ IsCell(f) /\ f.win_count = d.win_count + 1
            /\ f.sink = d.sink /\ f.sink_count = d.sink_count
            /\ f.win = d.win /\ f.win_pos = d.win_pos /\ f.win_head = d.win_head
            /\ f.pool = d.pool /\ f.acc = d.acc
            /\ f.acc_count = d.acc_count /\ f.acc_start = d.acc_start
    <3> HIDE DEF d
    <3> QED BY <2>1 DEF IsCell, Fields
  <2> QED BY <2>2, <2>3, <1>2, PutFields
<1> QED BY <1>1, <1>2

-----------------------------------------------------------------------------
(* Types *)

LEMMA NewCellType == NewCell \in CellType
  BY Sizes, CellAssumption DEF NewCell, CellType, SinkSlots, WindowSlots

LEMMA ClearCellType == ASSUME NEW c \in CellType PROVE ClearCell(c) \in CellType
<1> DEFINE d == ClearCell(c)
<1>1. IsCell(c) /\ TypedFields(c)  BY FieldsOfCell
<1>2. 0 \in WindowSlots /\ 0 \in 0 .. window_sz /\ 0 \in 0 .. SinkRows
  BY Sizes, CellAssumption DEF WindowSlots
<1>3. /\ IsCell(d)
      /\ d.sink = c.sink /\ d.sink_count = 0
      /\ d.win = c.win /\ d.win_pos = c.win_pos /\ d.win_head = 0 /\ d.win_count = 0
      /\ d.pool = <<>> /\ d.acc = {} /\ d.acc_count = 0 /\ d.acc_start = c.acc_start
  BY <1>1, ClearFields
<1> HIDE DEF d
<1>4. TypedFields(d)  BY <1>1, <1>2, <1>3 DEF TypedFields
<1> QED BY <1>3, <1>4, CellByFields DEF d

LEMMA SinkType ==
  ASSUME NEW c \in CellType, NEW pos \in Nat, NEW g \in Nat
  PROVE  StoreSink(c, pos, g) \in CellType
<1> DEFINE d == StoreSink(c, pos, g)
<1>1. IsCell(c) /\ TypedFields(c)  BY FieldsOfCell
<1>2. /\ IsCell(d)
      /\ \/ /\ pos < SinkRows
            /\ d.sink = [c.sink EXCEPT ![pos] = g]
            /\ d.sink_count = pos + 1 \/ d.sink_count = c.sink_count
         \/ d.sink = c.sink /\ d.sink_count = c.sink_count
      /\ d.win = c.win /\ d.win_pos = c.win_pos
      /\ d.win_head = c.win_head /\ d.win_count = c.win_count
      /\ d.pool = c.pool /\ d.acc = c.acc
      /\ d.acc_count = c.acc_count /\ d.acc_start = c.acc_start
  <2>1. CASE pos < SinkRows  BY <2>1, <1>1, SinkFields
  <2>2. CASE ~ (pos < SinkRows)  BY <2>2, <1>1, SinkFields
  <2> QED BY <2>1, <2>2
<1> HIDE DEF d
<1>3. d.sink \in [SinkSlots -> Nat]  BY <1>1, <1>2 DEF TypedFields
<1>4. d.sink_count \in 0 .. SinkRows
  BY <1>1, <1>2, CellAssumption DEF TypedFields
<1>5. TypedFields(d)  BY <1>1, <1>2, <1>3, <1>4 DEF TypedFields
<1> QED BY <1>2, <1>5, CellByFields DEF d

LEMMA EvictType == ASSUME NEW c \in CellType PROVE Evict(c) \in CellType
<1> DEFINE e == c.win_head
           start == IF c.acc_count = 0 THEN c.win_pos[e] ELSE c.acc_start
           b == [start |-> start, end |-> c.win_pos[e],
                 rows |-> c.acc \cup {c.win[e]}, div |-> c.acc_count + 1]
           d == Evict(c)
<1>1. IsCell(c) /\ TypedFields(c)  BY FieldsOfCell
<1>2. c.win_pos[e] \in Nat /\ c.win[e] \in Nat /\ start \in Nat
      /\ c.acc \cup {c.win[e]} \in SUBSET Nat
  BY <1>1 DEF TypedFields
<1>3. b \in Block  BY <1>1, <1>2 DEF Block, TypedFields
<1>4. Append(c.pool, b) \in Seq(Block)  BY <1>1, <1>3 DEF TypedFields
<1>5. /\ IsCell(d)
      /\ d.sink = c.sink /\ d.sink_count = c.sink_count
      /\ d.win = c.win /\ d.win_pos = c.win_pos
      /\ d.win_head = c.win_head /\ d.win_count = c.win_count
      /\ d.acc_start = start
      /\ d.pool = Append(c.pool, b) \/ d.pool = c.pool
      /\ d.acc = {} \/ d.acc = c.acc \cup {c.win[e]}
      /\ d.acc_count = 0 \/ d.acc_count = c.acc_count + 1
  BY <1>1, EvictFields
<1> HIDE DEF d, b, start, e
<1>6. d.acc \in SUBSET Nat /\ d.acc_count \in Nat
  BY <1>1, <1>2, <1>5 DEF TypedFields
<1>7. d.pool \in Seq(Block)  BY <1>1, <1>4, <1>5 DEF TypedFields
<1>8. TypedFields(d)  BY <1>1, <1>2, <1>5, <1>6, <1>7 DEF TypedFields
<1> QED BY <1>5, <1>8, CellByFields DEF d

LEMMA StoreWindowType ==
  ASSUME NEW c \in CellType, NEW pos \in Nat, NEW row \in Nat
  PROVE  StoreWindow(c, pos, row) \in CellType
<1> DEFINE d == StoreWindow(c, pos, row)
           e == IF c.win_count >= window_sz THEN Evict(c) ELSE c
<1>1. IsCell(c) /\ TypedFields(c)  BY FieldsOfCell
<1>2. e \in CellType  BY EvictType
<1>3. TypedFields(e)  BY <1>2, FieldsOfCell
<1>4. /\ IsCell(d)
      /\ d.sink = c.sink /\ d.sink_count = c.sink_count
      /\ d.win = [c.win EXCEPT ![c.win_head] = row]
      /\ d.win_pos = [c.win_pos EXCEPT ![c.win_head] = pos]
      /\ d.win_head = (c.win_head + 1) % window_sz
      /\ d.win_count = IF c.win_count >= window_sz THEN c.win_count ELSE c.win_count + 1
      /\ d.pool = e.pool /\ d.acc = e.acc
      /\ d.acc_count = e.acc_count /\ d.acc_start = e.acc_start
  BY <1>1, StoreWindowFields
<1> HIDE DEF d, e
<1>5. d.win_head \in WindowSlots
  <2>1. c.win_head + 1 \in Nat  BY <1>1, Sizes DEF WindowSlots, TypedFields
  <2> QED BY <2>1, <1>4, Sizes, ModRange DEF WindowSlots
<1>6. d.win_count \in 0 .. window_sz  BY Sizes, <1>1, <1>4 DEF TypedFields
<1>7. d.win \in [WindowSlots -> Nat] /\ d.win_pos \in [WindowSlots -> Nat]
  BY <1>1, <1>4 DEF TypedFields
<1>8. TypedFields(d)
  BY <1>1, <1>3, <1>4, <1>5, <1>6, <1>7 DEF TypedFields
<1> QED BY <1>4, <1>8, CellByFields DEF d

LEMMA StoreCellType ==
  ASSUME NEW c \in CellType, NEW pos \in Nat, NEW row \in Nat, NEW g \in Nat
  PROVE  StoreCell(c, pos, row, g) \in CellType
  BY SinkType, StoreWindowType DEF StoreCell

-----------------------------------------------------------------------------
(* The tiers *)

LEMMA EvictedFacts ==
  ASSUME NEW n \in Nat
  PROVE  /\ Evicted(n) \in 0 .. n
         /\ n - Evicted(n) <= window_sz
         /\ n >= window_sz => Evicted(n + 1) = Evicted(n) + 1 /\ Evicted(n) = n - window_sz
         /\ n < window_sz => Evicted(n + 1) = Evicted(n) /\ Evicted(n) = 0
  BY Sizes DEF Evicted

\* The oldest row of a full ring is at the head.
LEMMA HeadIsOldest ==
  ASSUME NEW c, NEW h \in Seq(Nat), RingHolds(c, h), c.win_count >= window_sz
  PROVE  /\ Len(h) >= window_sz
         /\ c.win[c.win_head] = Evicted(Len(h)) + 1
         /\ c.win_pos[c.win_head] = h[Evicted(Len(h)) + 1]
<1> DEFINE n == Len(h)
           k == Evicted(n) + 1
<1>1. n \in Nat  OBVIOUS
<1>2. c.win_count = n - Evicted(n) /\ c.win_head = n % window_sz  BY DEF RingHolds
<1>3. n >= window_sz /\ Evicted(n) = n - window_sz
  BY <1>1, <1>2, Sizes DEF Evicted
<1>4. k \in Evicted(n) + 1 .. n  BY <1>1, <1>3, Sizes
<1>5. (k - 1) % window_sz = n % window_sz
  <2>1. n - window_sz \in Nat /\ (n - window_sz) + window_sz = n /\ k - 1 = n - window_sz
    BY <1>1, <1>3, Sizes
  <2> QED BY <2>1, Sizes, ModPeriod
<1>6. c.win[(k - 1) % window_sz] = k /\ c.win_pos[(k - 1) % window_sz] = h[k]
  BY <1>4 DEF RingHolds
<1> QED BY <1>2, <1>3, <1>5, <1>6

LEMMA RingStep ==
  ASSUME NEW c \in CellType, NEW h \in Seq(Nat), NEW pos \in Nat, NEW d,
         RingHolds(c, h),
         d.win = [c.win EXCEPT ![c.win_head] = Len(h) + 1],
         d.win_pos = [c.win_pos EXCEPT ![c.win_head] = pos],
         d.win_head = (c.win_head + 1) % window_sz,
         d.win_count = IF c.win_count >= window_sz THEN c.win_count ELSE c.win_count + 1
  PROVE  RingHolds(d, Append(h, pos))
<1> DEFINE n == Len(h)
           g == Append(h, pos)
<1>1. n \in Nat /\ Len(g) = n + 1 /\ g[n + 1] = pos /\ \A k \in 1 .. n : g[k] = h[k]
  OBVIOUS
<1>2. IsCell(c) /\ TypedFields(c)  BY FieldsOfCell
<1>3. c.win_count = n - Evicted(n) /\ c.win_head = n % window_sz  BY DEF RingHolds
<1>4. n % window_sz \in 0 .. window_sz - 1  BY <1>1, Sizes, ModRange
<1> HIDE DEF n, g
<1>e. /\ Evicted(n) \in 0 .. n /\ n - Evicted(n) <= window_sz
      /\ n >= window_sz => Evicted(n + 1) = Evicted(n) + 1 /\ Evicted(n) = n - window_sz
      /\ n < window_sz => Evicted(n + 1) = Evicted(n) /\ Evicted(n) = 0
  BY <1>1, EvictedFacts
<1>5. d.win_count = (n + 1) - Evicted(n + 1)
  <2>1. d.win_count = IF c.win_count >= window_sz THEN c.win_count ELSE c.win_count + 1
    OBVIOUS
  <2> QED BY ONLY <1>1, <1>3, <1>e, Sizes, <2>1
<1>6. d.win_head = (n + 1) % window_sz
  <2>1. (n % window_sz) % window_sz = n % window_sz  BY <1>4, Sizes, ModSmall
  <2>2. n % window_sz \in Nat  BY <1>4, Sizes
  <2>3. (n + 1) % window_sz = IF (n % window_sz) + 1 = window_sz THEN 0
                              ELSE (n % window_sz) + 1
    BY <1>1, Sizes, ModSucc
  <2>4. ((n % window_sz) + 1) % window_sz
          = IF ((n % window_sz) % window_sz) + 1 = window_sz THEN 0
            ELSE ((n % window_sz) % window_sz) + 1
    BY <2>2, Sizes, ModSucc
  <2> QED BY <2>1, <2>3, <2>4, <1>3
<1>7. ASSUME NEW k \in Evicted(n + 1) + 1 .. n + 1
      PROVE  /\ d.win[(k - 1) % window_sz] = k
             /\ d.win_pos[(k - 1) % window_sz] = g[k]
  <2>0. n + 1 \in Nat /\ Evicted(n + 1) \in 0 .. n + 1  BY <1>1, EvictedFacts
  <2>1. k - 1 \in Nat /\ k \in 1 .. n + 1  BY <1>1, <2>0
  <2>e. /\ c.win \in [WindowSlots -> Nat] /\ c.win_pos \in [WindowSlots -> Nat]
        /\ d.win = [c.win EXCEPT ![c.win_head] = n + 1]
        /\ d.win_pos = [c.win_pos EXCEPT ![c.win_head] = pos]
    BY <1>2 DEF TypedFields, n
  <2>2. (k - 1) % window_sz \in WindowSlots /\ n % window_sz \in WindowSlots
    BY <2>1, <1>4, Sizes, ModRange DEF WindowSlots
  <2>3. CASE k = n + 1
    <3>1. (k - 1) % window_sz = c.win_head  BY <2>3, <1>1, <1>3
    <3> QED BY <3>1, <2>e, <2>2, <2>3, <1>1, <1>3
  <2>4. CASE k # n + 1
    <3>1. k \in Evicted(n) + 1 .. n /\ k - 1 < n /\ n < (k - 1) + window_sz /\ k \in 1 .. n
      BY <2>0, <2>1, <2>4, <1>1, <1>e, Sizes
    <3>2. (k - 1) % window_sz # n % window_sz
      BY <3>1, <2>1, <1>1, Sizes, ModDistinct
    <3>3. c.win[(k - 1) % window_sz] = k /\ c.win_pos[(k - 1) % window_sz] = h[k]
      BY <3>1 DEF RingHolds, n
    <3>4. d.win[(k - 1) % window_sz] = c.win[(k - 1) % window_sz]
          /\ d.win_pos[(k - 1) % window_sz] = c.win_pos[(k - 1) % window_sz]
      BY <3>2, <2>e, <2>2, <1>3
    <3>5. g[k] = h[k]  BY <3>1, <1>1
    <3> QED BY <3>3, <3>4, <3>5
  <2> QED BY <2>3, <2>4
<1> QED BY <1>1, <1>5, <1>6, <1>7 DEF RingHolds, n, g

\* Appending to the log does not disturb the blocks already pooled.
LEMMA PoolExtend ==
  ASSUME NEW c, NEW h \in Seq(Nat), NEW pos \in Nat, c.pool \in Seq(Block),
         PoolHolds(c, h), Len(c.pool) * pool_block <= Len(h)
  PROVE  PoolHolds(c, Append(h, pos))
<1> SUFFICES ASSUME NEW i \in 1 .. Len(c.pool)
             PROVE  BlockHolds(c.pool[i], i, Append(h, pos))
  BY DEF PoolHolds
<1>1. i \in Nat /\ i - 1 \in Nat /\ Len(c.pool) \in Nat /\ i <= Len(c.pool)  OBVIOUS
<1>2. i * pool_block <= Len(c.pool) * pool_block /\ i * pool_block \in Nat
      /\ Len(c.pool) * pool_block \in Nat
  BY <1>1, Sizes, MultMono
<1>3. (i - 1) * pool_block \in Nat /\ (i - 1) * pool_block + pool_block = i * pool_block
  BY <1>1, Sizes
<1>4. i * pool_block \in 1 .. Len(h) /\ (i - 1) * pool_block + 1 \in 1 .. Len(h)
  <2> DEFINE I == i * pool_block
             J == (i - 1) * pool_block
             K == Len(c.pool) * pool_block
  <2>1. I \in Nat /\ J \in Nat /\ K \in Nat /\ I <= K /\ K <= Len(h) /\ Len(h) \in Nat
        /\ J + pool_block = I /\ pool_block \in Nat \ {0}
    BY <1>2, <1>3, Sizes
  <2> HIDE DEF I, J, K
  <2>2. I \in 1 .. Len(h) /\ J + 1 \in 1 .. Len(h) BY ONLY <2>1
  <2> QED BY <2>2 DEF I, J
<1>5. Append(h, pos)[i * pool_block] = h[i * pool_block]
      /\ Append(h, pos)[(i - 1) * pool_block + 1] = h[(i - 1) * pool_block + 1]
  BY <1>4
<1>6. BlockHolds(c.pool[i], i, h)  BY DEF PoolHolds
<1> QED BY <1>5, <1>6 DEF BlockHolds

\* Taking the oldest row of the ring, row e of the log, into the accumulator.
LEMMA PoolStep ==
  ASSUME NEW c \in CellType, NEW h \in Seq(Nat), NEW pos \in Nat, NEW d,
         PoolHolds(c, h), AccHolds(c, h), Len(h) >= window_sz,
         c.win[c.win_head] = Evicted(Len(h)) + 1,
         c.win_pos[c.win_head] = h[Evicted(Len(h)) + 1],
         d.pool = Evict(c).pool, d.acc = Evict(c).acc,
         d.acc_count = Evict(c).acc_count, d.acc_start = Evict(c).acc_start
  PROVE  PoolHolds(d, Append(h, pos)) /\ AccHolds(d, Append(h, pos))
<1> DEFINE n == Len(h)
           g == Append(h, pos)
           e == Evicted(n) + 1
           B == pool_block
           L == Len(c.pool)
           start == IF c.acc_count = 0 THEN h[e] ELSE c.acc_start
           b == [start |-> start, end |-> h[e],
                 rows |-> c.acc \cup {e}, div |-> c.acc_count + 1]
<1>1. IsCell(c) /\ TypedFields(c)  BY FieldsOfCell
<1>2. n \in Nat /\ Len(g) = n + 1 /\ \A k \in 1 .. n : g[k] = h[k]  OBVIOUS
<1>3. /\ Evicted(n + 1) = e /\ e \in 1 .. n
      /\ B \in Nat \ {0} /\ L \in Nat
  <2>1. Evicted(n) = n - window_sz /\ Evicted(n + 1) = Evicted(n) + 1
    BY <1>2, EvictedFacts
  <2> QED BY <2>1, <1>1, <1>2, Sizes DEF TypedFields
<1>4. /\ L * B + c.acc_count = e - 1 /\ c.acc_count < B
      /\ c.acc = L * B + 1 .. e - 1
      /\ c.acc_count > 0 => c.acc_start = h[L * B + 1]
  <2>1. e - 1 = Evicted(n)  BY <1>2, EvictedFacts
  <2> HIDE DEF e
  <2> QED BY <2>1 DEF AccHolds
<1>5. c.acc_count \in Nat /\ c.pool \in Seq(Block) /\ L * B \in Nat
  BY <1>1, <1>3 DEF TypedFields
<1>6. /\ d.acc_start = start
      /\ c.acc_count + 1 >= B => d.pool = Append(c.pool, b) /\ d.acc = {} /\ d.acc_count = 0
      /\ ~ (c.acc_count + 1 >= B) => /\ d.pool = c.pool /\ d.acc = c.acc \cup {e}
                                     /\ d.acc_count = c.acc_count + 1
  BY <1>1, EvictFields
<1>7. L * B <= n  BY <1>2, <1>3, <1>4, <1>5
<1>8. PoolHolds(c, g)  BY <1>5, <1>7, PoolExtend
<1> DEFINE P == L * B
<1>9. /\ P \in Nat /\ P + c.acc_count = e - 1
      /\ c.acc = P + 1 .. e - 1
      /\ c.acc_count > 0 => c.acc_start = h[P + 1]
  BY <1>4, <1>5
<1>10. /\ n \in Nat /\ Len(g) = n + 1 /\ Evicted(n + 1) = e /\ e \in 1 .. n
       /\ AccHolds(d, g) <=>
            /\ Len(d.pool) * B + d.acc_count = Evicted(Len(g))
            /\ d.acc_count < B
            /\ d.acc = Len(d.pool) * B + 1 .. Evicted(Len(g))
            /\ d.acc_count > 0 => d.acc_start = g[Len(d.pool) * B + 1]
  BY <1>2, <1>3 DEF AccHolds
<1>11. start = IF c.acc_count = 0 THEN h[e] ELSE c.acc_start
  OBVIOUS
<1>12. /\ b.start = start /\ b.end = h[e]
       /\ b.rows = c.acc \cup {e} /\ b.div = c.acc_count + 1
  OBVIOUS
<1> HIDE DEF n, g, e, start, P, b
<1>13. c.acc \cup {e} = P + 1 .. e
  <2>1. P \in Nat /\ e \in Nat /\ P + 1 <= e /\ c.acc = P + 1 .. e - 1
    BY <1>5, <1>9, <1>10
  <2> QED BY ONLY <2>1
<1>14. start = h[P + 1]
  <2>1. CASE c.acc_count = 0
    <3>1. e = P + 1  BY <2>1, <1>9, <1>10
    <3> QED BY <3>1, <2>1, <1>11
  <2>2. CASE c.acc_count > 0  BY <2>2, <1>9, <1>11, <1>5
  <2> QED BY <2>1, <2>2, <1>5
<1>15. g[e] = h[e] /\ g[P + 1] = h[P + 1]
  <2>1. P + 1 \in 1 .. n /\ e \in 1 .. n  BY <1>9, <1>10, <1>5
  <2> QED BY <2>1, <1>2 DEF n, g
<1>16. CASE c.acc_count + 1 >= B
  <2>1. e = P + B /\ c.acc_count + 1 = B  BY <1>3, <1>4, <1>5, <1>9, <1>10, <1>16
  <2>2. (L + 1) * B = P + B /\ ((L + 1) - 1) * B = P  BY <1>3 DEF P
  <2>3. d.pool = Append(c.pool, b) /\ d.acc = {} /\ d.acc_count = 0
    BY <1>6, <1>16
  <2>4. Len(d.pool) = L + 1 /\ d.pool[L + 1] = b /\ \A i \in 1 .. L : d.pool[i] = c.pool[i]
    BY <2>3, <1>5
  <2>5. BlockHolds(b, L + 1, g)
    <3>1. b.rows = P + 1 .. P + B /\ b.div = B /\ b.start = g[P + 1] /\ b.end = g[P + B]
      BY <2>1, <1>12, <1>13, <1>14, <1>15
    <3> QED BY <3>1, <2>2 DEF BlockHolds
  <2>6. PoolHolds(d, g)
    <3> SUFFICES ASSUME NEW i \in 1 .. L + 1 PROVE BlockHolds(d.pool[i], i, g)
      BY <2>4 DEF PoolHolds
    <3>1. CASE i = L + 1  BY <3>1, <2>4, <2>5
    <3>2. CASE i \in 1 .. L  BY <3>2, <2>4, <1>8 DEF PoolHolds, g
    <3> QED BY <3>1, <3>2, <1>3
  <2>7. AccHolds(d, g)
    <3>1. Len(d.pool) * B = P + B  BY <2>2, <2>4
    <3>2. d.acc = P + B + 1 .. e  BY <2>1, <2>3, <1>9, <1>3
    <3> QED BY <3>1, <3>2, <2>1, <2>3, <1>3, <1>10, <1>9
  <2> QED BY <2>6, <2>7 DEF g
<1>17. CASE ~ (c.acc_count + 1 >= B)
  <2>1. d.pool = c.pool /\ d.acc = c.acc \cup {e} /\ d.acc_count = c.acc_count + 1
        /\ d.acc_start = start
    BY <1>6, <1>17
  <2>2. PoolHolds(d, g)  BY <2>1, <1>8 DEF PoolHolds, g
  <2>3. AccHolds(d, g)
    <3>1. Len(d.pool) * B = P  BY <2>1 DEF P
    <3>2. d.acc_count < B  BY <2>1, <1>3, <1>5, <1>17
    <3>3. P + d.acc_count = e
      <4>1. P \in Nat /\ e \in Nat /\ c.acc_count \in Nat  BY <1>5, <1>9, <1>10
      <4>2. P + c.acc_count = e - 1 /\ d.acc_count = c.acc_count + 1  BY <2>1, <1>9
      <4> QED BY ONLY <4>1, <4>2
    <3> QED BY <3>1, <3>2, <3>3, <2>1, <1>10, <1>13, <1>14, <1>15
  <2> QED BY <2>2, <2>3 DEF g
<1> QED BY <1>16, <1>17

LEMMA EmptyTiers ==
  ASSUME NEW c, c.win_count = 0, c.win_head = 0, c.pool = <<>>,
         c.acc = {}, c.acc_count = 0
  PROVE  CellTiers(c, <<>>)
<1>1. Len(<<>>) = 0 /\ Evicted(0) = 0  BY Sizes DEF Evicted
<1>2. RingHolds(c, <<>>)
  <2>1. 0 % window_sz = 0  BY Sizes, ModSmall
  <2> QED BY <1>1, <2>1 DEF RingHolds
<1>3. PoolHolds(c, <<>>)  BY DEF PoolHolds
<1>4. AccHolds(c, <<>>)
  <2>1. Len(c.pool) = 0 /\ 0 * pool_block = 0  BY Sizes
  <2> QED BY <1>1, <2>1, Sizes DEF AccHolds
<1> QED BY <1>2, <1>3, <1>4 DEF CellTiers

\* A store past the sink appends to the log.
LEMMA StoreWindowTiers ==
  ASSUME NEW c \in CellType, NEW h \in Seq(Nat), NEW pos \in Nat, CellTiers(c, h)
  PROVE  CellTiers(StoreWindow(c, pos, Len(h) + 1), Append(h, pos))
<1> DEFINE d == StoreWindow(c, pos, Len(h) + 1)
           e == IF c.win_count >= window_sz THEN Evict(c) ELSE c
           n == Len(h)
<1>1. IsCell(c) /\ TypedFields(c)  BY FieldsOfCell
<1>2. /\ d.win = [c.win EXCEPT ![c.win_head] = n + 1]
      /\ d.win_pos = [c.win_pos EXCEPT ![c.win_head] = pos]
      /\ d.win_head = (c.win_head + 1) % window_sz
      /\ d.win_count = IF c.win_count >= window_sz THEN c.win_count ELSE c.win_count + 1
      /\ d.pool = e.pool /\ d.acc = e.acc
      /\ d.acc_count = e.acc_count /\ d.acc_start = e.acc_start
  BY <1>1, StoreWindowFields
<1> HIDE DEF d
<1>3. RingHolds(d, Append(h, pos))  BY <1>2, RingStep DEF CellTiers
<1>4. PoolHolds(d, Append(h, pos)) /\ AccHolds(d, Append(h, pos))
  <2>1. CASE c.win_count >= window_sz
    <3>1. /\ n >= window_sz
          /\ c.win[c.win_head] = Evicted(n) + 1
          /\ c.win_pos[c.win_head] = h[Evicted(n) + 1]
      BY <2>1, HeadIsOldest DEF CellTiers
    <3>2. d.pool = Evict(c).pool /\ d.acc = Evict(c).acc
          /\ d.acc_count = Evict(c).acc_count /\ d.acc_start = Evict(c).acc_start
      BY <1>2, <2>1
    <3> QED BY <3>1, <3>2, PoolStep DEF CellTiers
  <2>2. CASE ~ (c.win_count >= window_sz)
    <3>1. d.pool = c.pool /\ d.acc = c.acc /\ d.acc_count = c.acc_count
      BY <1>2, <2>2
    <3>2. n \in Nat /\ n < window_sz /\ Evicted(n) = 0 /\ Evicted(n + 1) = 0
      <4>1. n \in Nat /\ Evicted(n) \in 0 .. n /\ c.win_count = n - Evicted(n)
        BY EvictedFacts DEF CellTiers, RingHolds
      <4> QED BY <4>1, <2>2, Sizes DEF Evicted
    <3>3. Len(c.pool) \in Nat /\ c.acc_count \in Nat /\ c.pool \in Seq(Block)
      BY <1>1 DEF TypedFields
    <3>4. /\ Len(c.pool) * pool_block + c.acc_count = 0
          /\ c.acc_count < pool_block
          /\ c.acc = Len(c.pool) * pool_block + 1 .. 0
      BY <3>2 DEF CellTiers, AccHolds
    <3>5. Len(c.pool) * pool_block = 0 /\ c.acc_count = 0
      <4>1. Len(c.pool) * pool_block \in Nat  BY <3>3, Sizes
      <4> QED BY <4>1, <3>3, <3>4
    <3>6. PoolHolds(c, Append(h, pos))
      BY <3>2, <3>3, <3>5, PoolExtend DEF CellTiers
    <3>7. Len(Append(h, pos)) = n + 1  OBVIOUS
    <3> QED BY <3>1, <3>2, <3>4, <3>5, <3>6, <3>7, Sizes DEF PoolHolds, AccHolds
  <2> QED BY <2>1, <2>2
<1> QED BY <1>3, <1>4 DEF CellTiers, d

\* A store into the sink and a clear.
LEMMA StoreSinkTiers ==
  ASSUME NEW c \in CellType, NEW h \in Seq(Nat), NEW pos \in Nat,
         NEW g \in Nat, CellTiers(c, h)
  PROVE  CellTiers(StoreSink(c, pos, g), h)
<1> DEFINE d == StoreSink(c, pos, g)
<1>1. IsCell(c)  BY FieldsOfCell
<1>2. /\ d.win = c.win /\ d.win_pos = c.win_pos
      /\ d.win_head = c.win_head /\ d.win_count = c.win_count
      /\ d.pool = c.pool /\ d.acc = c.acc
      /\ d.acc_count = c.acc_count /\ d.acc_start = c.acc_start
  BY <1>1 DEF StoreSink, IsCell, Fields
<1> HIDE DEF d
<1>3. CellTiers(d, h)  BY <1>2 DEF CellTiers, RingHolds, PoolHolds, AccHolds
<1> QED BY <1>3 DEF d

LEMMA ClearTiers == ASSUME NEW c \in CellType PROVE CellTiers(ClearCell(c), <<>>)
<1> DEFINE d == ClearCell(c)
<1>1. IsCell(c)  BY FieldsOfCell
<1>2. d.win_count = 0 /\ d.win_head = 0 /\ d.pool = <<>> /\ d.acc = {} /\ d.acc_count = 0
  BY <1>1, ClearFields
<1> HIDE DEF d
<1> QED BY <1>2, EmptyTiers DEF d

-----------------------------------------------------------------------------
(* What attention is shown *)

LEMMA FcnIsSeq == ASSUME NEW S, NEW m \in Nat, NEW f \in [1 .. m -> S]
                  PROVE f \in Seq(S) /\ Len(f) = m
  OBVIOUS

EntryType == [tier : {"sink", "pool", "window"}, lo : Nat, hi : Nat,
              rows : SUBSET Nat, div : Nat]
SinkPart(c, m) == [p \in 1 .. m |-> SinkEntry(c, p - 1)]
PoolPart(c, m) == [i \in 1 .. m |-> PoolEntry(c, i)]
WindowPart(c, m) == [i \in 1 .. m |-> WindowEntry(c, LogicalSlot(c, i - 1))]

LEMMA SlotType ==
  ASSUME NEW c \in CellType, NEW i \in 0 .. c.win_count - 1
  PROVE  LogicalSlot(c, i) \in WindowSlots
<1>1. c.win_count \in 0 .. window_sz /\ c.win_head \in WindowSlots  BY DEF CellType
<1>2. CASE c.win_count < window_sz
  BY <1>1, <1>2, Sizes DEF LogicalSlot, WindowSlots
<1>3. CASE ~ (c.win_count < window_sz)
  <2>1. c.win_head + i \in Nat  BY <1>1, Sizes DEF WindowSlots
  <2>2. (c.win_head + i) % window_sz \in WindowSlots
    BY <2>1, Sizes, ModRange DEF WindowSlots
  <2> QED BY <2>2, <1>3 DEF LogicalSlot
<1> QED BY <1>2, <1>3

LEMMA PartTypes ==
  ASSUME NEW c \in CellType, NEW m \in Nat
  PROVE  /\ m <= c.sink_count => SinkPart(c, m) \in [1 .. m -> EntryType]
         /\ m <= Len(c.pool) => PoolPart(c, m) \in [1 .. m -> EntryType]
         /\ m <= c.win_count => WindowPart(c, m) \in [1 .. m -> EntryType]
<1>1. /\ c.sink \in [SinkSlots -> Nat] /\ c.sink_count \in 0 .. SinkRows
      /\ c.win \in [WindowSlots -> Nat] /\ c.win_pos \in [WindowSlots -> Nat]
      /\ c.win_count \in 0 .. window_sz /\ c.pool \in Seq(Block)
  BY DEF CellType
<1>2. ASSUME m <= c.sink_count, NEW p \in 1 .. m PROVE SinkEntry(c, p - 1) \in EntryType
  <2>1. p - 1 \in SinkSlots /\ p - 1 \in Nat
    BY <1>1, <1>2, CellAssumption DEF SinkSlots
  <2>2. c.sink[p - 1] \in Nat  BY <1>1, <2>1
  <2> QED BY <2>1, <2>2 DEF SinkEntry, EntryType
<1>3. ASSUME m <= Len(c.pool), NEW i \in 1 .. m PROVE PoolEntry(c, i) \in EntryType
  <2>1. c.pool[i] \in Block  BY <1>1, <1>3
  <2> QED BY <2>1 DEF PoolEntry, EntryType, Block
<1>4. ASSUME m <= c.win_count, NEW i \in 1 .. m
      PROVE  WindowEntry(c, LogicalSlot(c, i - 1)) \in EntryType
  <2>1. i - 1 \in 0 .. c.win_count - 1  BY <1>1, <1>4
  <2>2. LogicalSlot(c, i - 1) \in WindowSlots  BY <2>1, SlotType
  <2>3. c.win[LogicalSlot(c, i - 1)] \in Nat /\ c.win_pos[LogicalSlot(c, i - 1)] \in Nat
    BY <1>1, <2>2
  <2> QED BY <2>3 DEF WindowEntry, EntryType
<1> QED BY <1>2, <1>3, <1>4 DEF SinkPart, PoolPart, WindowPart

LEMMA ScoredParts ==
  ASSUME NEW c \in CellType
  PROVE  /\ Scored(c) \in Seq(EntryType)
         /\ Len(Scored(c)) = c.sink_count + Len(c.pool) + c.win_count
         /\ \A i \in 1 .. c.sink_count : Scored(c)[i] = SinkEntry(c, i - 1)
         /\ \A i \in 1 .. Len(c.pool) : Scored(c)[c.sink_count + i] = PoolEntry(c, i)
         /\ \A i \in 1 .. c.win_count :
              Scored(c)[c.sink_count + Len(c.pool) + i]
                = WindowEntry(c, LogicalSlot(c, i - 1))
<1> DEFINE a == SinkPart(c, c.sink_count)
           b == PoolPart(c, Len(c.pool))
           d == WindowPart(c, c.win_count)
<1>1. c.sink_count \in Nat /\ Len(c.pool) \in Nat /\ c.win_count \in Nat
  BY Sizes, CellAssumption DEF CellType
<1>2. /\ a \in Seq(EntryType) /\ Len(a) = c.sink_count
      /\ b \in Seq(EntryType) /\ Len(b) = Len(c.pool)
      /\ d \in Seq(EntryType) /\ Len(d) = c.win_count
  <2>1. a \in [1 .. c.sink_count -> EntryType]
    <3>1. \A m \in Nat : m <= c.sink_count => SinkPart(c, m) \in [1 .. m -> EntryType]
      BY PartTypes
    <3> QED BY <1>1, <3>1
  <2>2. b \in [1 .. Len(c.pool) -> EntryType]  BY <1>1, PartTypes
  <2>3. d \in [1 .. c.win_count -> EntryType]  BY <1>1, PartTypes
  <2> HIDE DEF a, b, d
  <2> QED BY <1>1, <2>1, <2>2, <2>3, FcnIsSeq
<1>3. Scored(c) = a \o b \o d  BY DEF Scored, SinkPart, PoolPart, WindowPart
<1>4. /\ \A i \in 1 .. c.sink_count : a[i] = SinkEntry(c, i - 1)
      /\ \A i \in 1 .. Len(c.pool) : b[i] = PoolEntry(c, i)
      /\ \A i \in 1 .. c.win_count : d[i] = WindowEntry(c, LogicalSlot(c, i - 1))
  BY DEF SinkPart, PoolPart, WindowPart
<1> HIDE DEF a, b, d
<1> DEFINE t == a \o b \o d
<1>5. /\ t \in Seq(EntryType) /\ Len(t) = Len(a) + Len(b) + Len(d)
      /\ \A i \in 1 .. Len(a) : t[i] = a[i]
      /\ \A i \in 1 .. Len(b) : t[Len(a) + i] = b[i]
      /\ \A i \in 1 .. Len(d) : t[Len(a) + Len(b) + i] = d[i]
  <2>1. a \in Seq(EntryType)  BY <1>2
  <2>2. b \in Seq(EntryType)  BY <1>2
  <2>3. d \in Seq(EntryType)  BY <1>2
  <2> QED BY ONLY <2>1, <2>2, <2>3, ConcatOf3
<1>6. Scored(c) = t  BY <1>3
<1> HIDE DEF t
<1>7. \A i \in 1 .. c.sink_count : t[i] = SinkEntry(c, i - 1)
  BY <1>2, <1>4, <1>5
<1>8. \A i \in 1 .. Len(c.pool) : t[c.sink_count + i] = PoolEntry(c, i)
  BY <1>2, <1>4, <1>5
<1>9. \A i \in 1 .. c.win_count :
        t[c.sink_count + Len(c.pool) + i] = WindowEntry(c, LogicalSlot(c, i - 1))
  BY <1>2, <1>4, <1>5
<1> QED BY <1>2, <1>5, <1>6, <1>7, <1>8, <1>9

\* KVLog!Show for the sizes of the cell.
MeanOf(h, first, last) ==
    [lo |-> h[first], hi |-> h[last], rows |-> first .. last, div |-> last - first + 1]
ShowOf(h) ==
    LET recent == IF Len(h) <= window_sz THEN Len(h) ELSE window_sz
        old    == Len(h) - recent
    IN  [i \in 1 .. old \div pool_block |->
            MeanOf(h, (i - 1) * pool_block + 1, i * pool_block)]
        \o [i \in 1 .. recent |-> MeanOf(h, old + i, old + i)]

\* The i-th oldest row of the ring is row Evicted + i of the log.
LEMMA SlotHolds ==
  ASSUME NEW c \in CellType, NEW h \in Seq(Nat), RingHolds(c, h),
         NEW i \in 1 .. c.win_count
  PROVE  LET k == Evicted(Len(h)) + i
             s == LogicalSlot(c, i - 1)
         IN  k \in 1 .. Len(h) /\ c.win[s] = k /\ c.win_pos[s] = h[k]
<1> DEFINE n == Len(h)
           E == Evicted(n)
           k == E + i
<1>1. n \in Nat /\ E \in 0 .. n /\ c.win_count = n - E /\ c.win_head = n % window_sz
      /\ c.win_count \in 0 .. window_sz
  BY EvictedFacts DEF RingHolds, CellType
<1>2. n >= window_sz => E = n - window_sz  BY <1>1, EvictedFacts
<1>3. n < window_sz => E = 0  BY <1>1, EvictedFacts
<1>4. k \in E + 1 .. n /\ k \in 1 .. n /\ k - 1 \in Nat  BY <1>1
<1>5. c.win[(k - 1) % window_sz] = k /\ c.win_pos[(k - 1) % window_sz] = h[k]
  BY <1>4 DEF RingHolds
<1> HIDE DEF n, E
<1>6. LogicalSlot(c, i - 1) = (k - 1) % window_sz
  <2>1. CASE c.win_count < window_sz
    <3>1. n < window_sz /\ k - 1 = i - 1 /\ i - 1 \in 0 .. window_sz - 1
      BY <1>1, <1>2, <1>3, <2>1, Sizes
    <3>2. (i - 1) % window_sz = i - 1  BY <3>1, Sizes, ModSmall
    <3> QED BY <3>1, <3>2, <2>1 DEF LogicalSlot
  <2>2. CASE ~ (c.win_count < window_sz)
    <3>1. n >= window_sz /\ E = n - window_sz /\ i - 1 \in Nat  BY <1>1, <1>2, <2>2, Sizes
    <3>2. ((n % window_sz) + (i - 1)) % window_sz = (n + (i - 1)) % window_sz
      BY <1>1, <3>1, Sizes, ModAdd
    <3>3. ((k - 1) + window_sz) % window_sz = (k - 1) % window_sz
      BY <1>4, Sizes, ModPeriod
    <3>4. (k - 1) + window_sz = n + (i - 1)  BY <1>1, <3>1, Sizes
    <3> QED BY <1>1, <3>2, <3>3, <3>4, <2>2 DEF LogicalSlot
  <2> QED BY <2>1, <2>2
<1> QED BY <1>4, <1>5, <1>6 DEF n, E

\* What a cell is shown as depends on its log alone.
LEMMA TiersShow ==
  ASSUME NEW c \in CellType, NEW h \in Seq(Nat), CellTiers(c, h)
  PROVE  PastEntries(c) = ShowOf(h)
<1> DEFINE n == Len(h)
           E == Evicted(n)
           B == pool_block
           L == Len(c.pool)
           R == c.win_count
           Plain == [lo : Nat, hi : Nat, rows : SUBSET Nat, div : Int]
           f == [i \in 1 .. L |-> MeanOf(h, (i - 1) * B + 1, i * B)]
           g == [i \in 1 .. R |-> MeanOf(h, E + i, E + i)]
           p == PastEntries(c)
<1>1. /\ n \in Nat /\ E \in 0 .. n /\ R = n - E /\ L \in Nat /\ c.sink_count \in Nat
      /\ c.acc_count \in Nat /\ c.acc_count < B /\ L * B + c.acc_count = E
      /\ c.win_count \in Nat /\ B \in Nat \ {0}
  <2>1. n \in Nat /\ B \in Nat \ {0}  BY Sizes
  <2>2. E \in 0 .. n  BY <2>1, EvictedFacts
  <2>3. R = n - E  BY DEF CellTiers, RingHolds
  <2>4. c.acc_count < B /\ L * B + c.acc_count = E  BY DEF CellTiers, AccHolds
  <2>5. L \in Nat /\ c.sink_count \in Nat /\ c.acc_count \in Nat /\ R \in Nat
    BY Sizes, CellAssumption DEF CellType
  <2> QED BY <2>1, <2>2, <2>3, <2>4, <2>5
<1>2. E \div B = L
  <2> HIDE DEF n, E, B, L
  <2>1. E = B * (E \div B) + (E % B) /\ E \div B \in Nat /\ E % B \in 0 .. B - 1
    <3>1. E \in Nat  BY <1>1
    <3>2. E = B * (E \div B) + (E % B)  BY <1>1, <3>1, DivMod
    <3> QED BY <1>1, <3>1, <3>2, ModRange
  <2>2. E = B * L + c.acc_count  BY <1>1
  <2>3. c.acc_count \in 0 .. B - 1  BY <1>1
  <2> DEFINE Q == E \div B
             S == E % B
  <2>4. B * Q + S = B * L + c.acc_count  BY <2>1, <2>2
  <2>5. Q \in Nat  BY <2>1
  <2>6. S \in 0 .. B - 1  BY <2>1
  <2>7. L \in Nat  BY <1>1
  <2>8. B \in Nat \ {0}  BY <1>1
  <2> HIDE DEF Q, S
  <2>9. Q = L  BY ONLY <2>3, <2>4, <2>5, <2>6, <2>7, <2>8, DivUnique
  <2> QED BY <2>9 DEF Q
<1>3. ShowOf(h) = f \o g
  <2>1. (IF n <= window_sz THEN n ELSE window_sz) = R /\ n - R = E
    BY <1>1, Sizes DEF Evicted
  <2> QED BY <2>1, <1>2 DEF ShowOf
<1>4. \A i \in 1 .. L : p[i] = f[i] /\ f[i] \in Plain
  <2> SUFFICES ASSUME NEW i \in 1 .. L PROVE p[i] = f[i] /\ f[i] \in Plain  OBVIOUS
  <2> DEFINE J == (i - 1) * B
             I == i * B
             e == Scored(c)[c.sink_count + i]
  <2>1. e = PoolEntry(c, i)  BY ScoredParts
  <2>2. BlockHolds(c.pool[i], i, h)  BY DEF CellTiers, PoolHolds
  <2>3. /\ e.lo = h[J + 1] /\ e.hi = h[I] /\ e.rows = J + 1 .. I /\ e.div = B
    BY <2>1, <2>2 DEF BlockHolds, PoolEntry
  <2>4. J \in Nat /\ I \in Nat /\ J + B = I /\ I <= n
    <3>1. J \in Nat /\ J + B = I  BY <1>1
    <3>2. i \in Nat /\ i <= L  BY <1>1
    <3>3. i * B \in Nat /\ L * B \in Nat /\ i * B <= L * B
      <4> HIDE DEF L, B
      <4> QED BY <1>1, <3>2, MultMono
    <3> DEFINE K == L * B
    <3>4. K + c.acc_count = E /\ K \in Nat /\ I <= K /\ E <= n /\ I \in Nat
          /\ c.acc_count \in Nat /\ n \in Nat /\ E \in Nat
      <4> HIDE DEF L, B, E, n
      <4> QED BY <3>3, <1>1
    <3> HIDE DEF K, I, J, E, n
    <3> QED BY <3>1, <3>4
  <2>5. p[i] = [lo |-> e.lo, hi |-> e.hi, rows |-> e.rows, div |-> e.div]
    BY <1>1 DEF PastEntries
  <2>6. f[i] = MeanOf(h, J + 1, I)  OBVIOUS
  <2> HIDE DEF J, I, e, f, p, n
  <2>7. I - (J + 1) + 1 = B  BY <2>4, <1>1
  <2>8. p[i] = f[i]  BY <2>3, <2>5, <2>6, <2>7 DEF MeanOf
  <2>9. h[J + 1] \in Nat /\ h[I] \in Nat
    <3>1. J + 1 \in 1 .. n /\ I \in 1 .. n  BY <2>4, <1>1
    <3> QED BY <3>1 DEF n
  <2> QED BY <2>4, <2>6, <2>8, <2>9 DEF MeanOf
<1>5. \A i \in 1 .. R : p[L + i] = g[i] /\ g[i] \in Plain
  <2> SUFFICES ASSUME NEW i \in 1 .. R PROVE p[L + i] = g[i] /\ g[i] \in Plain  OBVIOUS
  <2> DEFINE k == E + i
             e == Scored(c)[c.sink_count + (L + i)]
  <2>1. e = WindowEntry(c, LogicalSlot(c, i - 1))
    <3>1. Scored(c)[c.sink_count + Len(c.pool) + i] = WindowEntry(c, LogicalSlot(c, i - 1))
      BY ScoredParts
    <3>2. L \in Nat /\ c.sink_count \in Nat /\ i \in Nat /\ Len(c.pool) = L  BY <1>1
    <3> HIDE DEF L
    <3>3. c.sink_count + Len(c.pool) + i = c.sink_count + (L + i)  BY ONLY <3>2
    <3> QED BY <3>1, <3>3
  <2>2. k \in 1 .. n /\ c.win[LogicalSlot(c, i - 1)] = k
        /\ c.win_pos[LogicalSlot(c, i - 1)] = h[k]
    BY SlotHolds DEF CellTiers
  <2>3. e.lo = h[k] /\ e.hi = h[k] /\ e.rows = {k} /\ e.div = 1
    BY <2>1, <2>2 DEF WindowEntry
  <2>4. p[L + i] = [lo |-> e.lo, hi |-> e.hi, rows |-> e.rows, div |-> e.div]
    <3>1. L + i \in 1 .. L + R
      <4> HIDE DEF L, R
      <4> QED BY <1>1
    <3> QED BY <3>1 DEF PastEntries
  <2>5. g[i] = MeanOf(h, k, k)  OBVIOUS
  <2>6. k .. k = {k} /\ k - k + 1 = 1 /\ k \in Nat
    <3>1. k \in Nat  BY <2>2, <1>1
    <3> HIDE DEF k
    <3> QED BY <3>1
  <2>7. h[k] \in Nat  BY <2>2
  <2> HIDE DEF k, e, g, p
  <2>8. p[L + i] = g[i]  BY <2>3, <2>4, <2>5, <2>6 DEF MeanOf
  <2> QED BY <2>5, <2>6, <2>7, <2>8 DEF MeanOf
<1>6. p = [i \in 1 .. L + R |-> p[i]]  BY DEF PastEntries
<1>7. f = [i \in 1 .. L |-> f[i]] /\ g = [i \in 1 .. R |-> g[i]]  OBVIOUS
<1> HIDE DEF f, g, p, L, R, Plain
<1>8. L \in Nat /\ R \in Nat  BY <1>1 DEF L, R
<1>9. /\ f \in Seq(Plain) /\ Len(f) = L /\ g \in Seq(Plain) /\ Len(g) = R
  <2>1. f \in [1 .. L -> Plain] /\ g \in [1 .. R -> Plain]  BY <1>4, <1>5, <1>7
  <2> QED BY <2>1, <1>8, FcnIsSeq
<1>10. /\ f \o g \in Seq(Plain) /\ Len(f \o g) = L + R
       /\ \A i \in 1 .. L + R : (f \o g)[i] = IF i <= L THEN f[i] ELSE g[i - L]
  BY <1>9, ConcatProperties
<1>11. ASSUME NEW i \in 1 .. L + R
       PROVE  p[i] = (f \o g)[i] /\ p[i] \in Plain
  <2>1. CASE i <= L  BY <2>1, <1>4, <1>8, <1>10
  <2>2. CASE ~ (i <= L)
    <3>1. i - L \in 1 .. R /\ L + (i - L) = i  BY <2>2, <1>8
    <3>2. p[i] = g[i - L] /\ g[i - L] \in Plain  BY <3>1, <1>5
    <3> QED BY <3>2, <2>2, <1>10
  <2> QED BY <2>1, <2>2
<1>12. p \in Seq(Plain) /\ Len(p) = L + R
  <2>1. p \in [1 .. L + R -> Plain]  BY <1>6, <1>11
  <2> QED BY <2>1, <1>8, FcnIsSeq
<1>13. p = f \o g  BY <1>10, <1>11, <1>12, SeqEqual
<1> QED BY <1>3, <1>13 DEF p

\* The walk over the values takes the scores in the order they were written.
LEMMA WeightedPrefix ==
  ASSUME NEW c \in CellType, NEW count \in 0 .. Len(Scored(c))
  PROVE  Weighted(c, count) = SubSeq(Scored(c), 1, count)
<1> DEFINE S == c.sink_count
           P == Len(c.pool)
           W == c.win_count
           AtMost(n, used) == IF n + used <= count THEN n
                              ELSE IF used <= count THEN count - used ELSE 0
           x == AtMost(S, 0)
           y == AtMost(P, x)
           z == AtMost(W, x + y)
           s == Scored(c)
<1>1. S \in Nat /\ P \in Nat /\ W \in Nat
  BY Sizes, CellAssumption DEF CellType
<1>2. s \in Seq(EntryType) /\ Len(s) = S + P + W /\ count \in 0 .. S + P + W
  BY ScoredParts
<1>3. /\ x \in 0 .. S /\ y \in 0 .. P /\ z \in 0 .. W /\ x + y + z = count
      /\ y > 0 => x = S
      /\ z > 0 => x = S /\ y = P
  <2> HIDE DEF S, P, W, s
  <2> QED BY <1>1, <1>2
<1> DEFINE a == SinkPart(c, x)
           b == PoolPart(c, y)
           d == WindowPart(c, z)
<1>4. Weighted(c, count) = a \o b \o d
  BY DEF Weighted, SinkPart, PoolPart, WindowPart
<1>5. /\ \A i \in 1 .. S : s[i] = SinkEntry(c, i - 1)
      /\ \A i \in 1 .. P : s[S + i] = PoolEntry(c, i)
      /\ \A i \in 1 .. W : s[S + P + i] = WindowEntry(c, LogicalSlot(c, i - 1))
  BY ScoredParts
<1> HIDE DEF x, y, z, s
<1>6. /\ \A i \in 1 .. x : a[i] = SinkEntry(c, i - 1)
      /\ \A i \in 1 .. y : b[i] = PoolEntry(c, i)
      /\ \A i \in 1 .. z : d[i] = WindowEntry(c, LogicalSlot(c, i - 1))
  BY DEF SinkPart, PoolPart, WindowPart
<1>7. /\ a \in Seq(EntryType) /\ Len(a) = x
      /\ b \in Seq(EntryType) /\ Len(b) = y
      /\ d \in Seq(EntryType) /\ Len(d) = z
  <2>1. x \in Nat /\ y \in Nat /\ z \in Nat /\ x <= S /\ y <= P /\ z <= W
    BY <1>1, <1>3
  <2>2. a \in [1 .. x -> EntryType]
    <3>1. \A m \in Nat : m <= c.sink_count => SinkPart(c, m) \in [1 .. m -> EntryType]
      BY PartTypes
    <3> QED BY <2>1, <3>1
  <2>3. b \in [1 .. y -> EntryType]  BY <2>1, PartTypes
  <2>4. d \in [1 .. z -> EntryType]  BY <2>1, PartTypes
  <2> HIDE DEF a, b, d
  <2> QED BY <2>1, <2>2, <2>3, <2>4, FcnIsSeq
<1> HIDE DEF a, b, d
<1> DEFINE t == a \o b \o d
           u == SubSeq(s, 1, count)
<1>8. /\ t \in Seq(EntryType) /\ Len(t) = Len(a) + Len(b) + Len(d)
      /\ \A i \in 1 .. Len(a) : t[i] = a[i]
      /\ \A i \in 1 .. Len(b) : t[Len(a) + i] = b[i]
      /\ \A i \in 1 .. Len(d) : t[Len(a) + Len(b) + i] = d[i]
  <2>1. a \in Seq(EntryType)  BY <1>7
  <2>2. b \in Seq(EntryType)  BY <1>7
  <2>3. d \in Seq(EntryType)  BY <1>7
  <2> QED BY ONLY <2>1, <2>2, <2>3, ConcatOf3
<1>9. u \in Seq(EntryType) /\ Len(u) = count /\ \A i \in 1 .. count : u[i] = s[i]
  <2>1. count \in Int /\ 1 \in Int /\ count \in 0 .. Len(s)
    <3> HIDE DEF S, P, W
    <3> QED BY <1>1, <1>2
  <2>2. \A i \in 1 .. count : s[i] \in EntryType  BY <2>1, <1>2
  <2> HIDE DEF u
  <2>3. /\ u \in Seq(EntryType) /\ Len(u) = IF 1 <= count THEN count - 1 + 1 ELSE 0
        /\ \A i \in 1 .. count - 1 + 1 : u[i] = s[1 + i - 1]
    BY <2>1, <2>2, SubSeqProperties DEF u
  <2> QED BY <2>1, <2>3
<1> HIDE DEF S, P, W, t, u
<1>10. Len(t) = count  BY <1>7, <1>8, <1>3, <1>1
<1>11. ASSUME NEW i \in 1 .. count PROVE t[i] = s[i]
  <2>0. x \in Nat /\ y \in Nat /\ z \in Nat /\ count \in Nat  BY <1>1, <1>2, <1>3
  <2>1. CASE i <= x
    <3>1. i \in 1 .. x /\ i \in 1 .. S  BY <2>0, <2>1, <1>1, <1>3
    <3> QED BY <3>1, <1>5, <1>6, <1>7, <1>8
  <2>2. CASE x < i /\ i <= x + y
    <3>1. i - x \in 1 .. y /\ i - x \in 1 .. P /\ x + (i - x) = i /\ x = S
      BY <2>0, <2>2, <1>1, <1>3
    <3>2. t[x + (i - x)] = PoolEntry(c, i - x)  BY <3>1, <1>6, <1>7, <1>8
    <3>3. s[S + (i - x)] = PoolEntry(c, i - x)  BY <3>1, <1>5
    <3> QED BY <3>1, <3>2, <3>3
  <2>3. CASE x + y < i
    <3> DEFINE j == i - (x + y)
    <3>1. j \in 1 .. z /\ j \in 1 .. W /\ x + y + j = i /\ x = S /\ y = P
      BY <2>0, <2>3, <1>1, <1>3
    <3> HIDE DEF j
    <3>2. t[x + y + j] = WindowEntry(c, LogicalSlot(c, j - 1))
      BY <3>1, <1>6, <1>7, <1>8
    <3>3. s[S + P + j] = WindowEntry(c, LogicalSlot(c, j - 1))  BY <3>1, <1>5
    <3> QED BY <3>1, <3>2, <3>3
  <2> QED BY <2>0, <2>1, <2>2, <2>3
<1>12. t = u  BY <1>8, <1>9, <1>10, <1>11, SeqEqual
<1> QED BY <1>4, <1>12 DEF t, u, s

-----------------------------------------------------------------------------
(* KVCache: store() and clear() in any order *)

\* One step, of either client, keeps the types.
LEMMA CacheTypeStep == CacheTypeOK /\ [CacheNext]_cacheVars => CacheTypeOK'
<1> SUFFICES ASSUME CacheTypeOK, [CacheNext]_cacheVars PROVE CacheTypeOK'
  OBVIOUS
<1> USE DEF CacheTypeOK
<1>1. ASSUME NEW c \in Cells, NEW pos \in Positions, Store(c, pos) PROVE CacheTypeOK'
  <2>1. pos \in Nat /\ Len(past[c]) + 1 \in Nat /\ gen \in Nat
    BY CacheAssumption DEF Positions
  <2>2. StoreCell(cells[c], pos, Len(past[c]) + 1, gen) \in CellType
    BY <2>1, StoreCellType
  <2>3. cells' \in [Cells -> CellType]  BY <1>1, <2>2 DEF Store
  <2>4. Append(past[c], pos) \in Seq(Nat)  BY <2>1
  <2>5. past' \in [Cells -> Seq(Nat)]  BY <1>1, <2>4 DEF Store
  <2> QED BY <1>1, <2>1, <2>3, <2>5 DEF Store
<1>2. CASE Clear
  <2>1. cells' \in [Cells -> CellType]  BY <1>2, ClearCellType DEF Clear
  <2> QED BY <1>2, <2>1, CacheAssumption DEF Clear
<1>3. CASE UNCHANGED cacheVars  BY <1>3 DEF cacheVars
<1> QED BY <1>1, <1>2, <1>3 DEF CacheNext

(* The type invariant, for every client of store() and clear(): in particular
   the sink count stays within the allocated rows and the head in the ring. *)
THEOREM CacheTypeCorrect == CacheSpec => []CacheTypeOK
<1>1. CacheInit => CacheTypeOK
  BY NewCellType, CacheAssumption DEF CacheInit, CacheTypeOK
<1> QED BY <1>1, CacheTypeStep, PTL DEF CacheSpec

LEMMA TiersStep == CacheTypeOK /\ FifoTiers /\ [CacheNext]_cacheVars => FifoTiers'
<1> SUFFICES ASSUME CacheTypeOK, FifoTiers, [CacheNext]_cacheVars,
                    NEW k \in Cells
             PROVE  CellTiers(cells'[k], past'[k])
  BY DEF FifoTiers, CellTiers
<1>1. cells[k] \in CellType /\ past[k] \in Seq(Nat) /\ CellTiers(cells[k], past[k])
  BY DEF CacheTypeOK, FifoTiers, CellTiers
<1>2. ASSUME NEW c \in Cells, NEW pos \in Positions, Store(c, pos)
      PROVE  CellTiers(cells'[k], past'[k])
  <2>1. pos \in Nat  BY DEF Positions
  <2>2. CASE k # c  BY <1>1, <1>2, <2>2 DEF Store, CacheTypeOK
  <2>3. CASE k = c
    <3>1. cells'[k] = StoreCell(cells[k], pos, Len(past[k]) + 1, gen)
      BY <1>2, <2>3 DEF Store, CacheTypeOK
    <3>2. CASE pos < SinkSize
      <4>1. past'[k] = past[k]  BY <1>2, <3>2 DEF Store
      <4>2. gen \in Nat  BY CacheAssumption DEF CacheTypeOK
      <4> QED BY <1>1, <2>1, <3>1, <3>2, <4>1, <4>2, StoreSinkTiers DEF StoreCell
    <3>3. CASE ~ (pos < SinkSize)
      <4>1. past'[k] = Append(past[k], pos)  BY <1>2, <2>3, <3>3 DEF Store, CacheTypeOK
      <4> QED BY <1>1, <2>1, <3>1, <3>3, <4>1, StoreWindowTiers DEF StoreCell
    <3> QED BY <3>2, <3>3
  <2> QED BY <2>2, <2>3
<1>3. CASE Clear
  <2>1. cells'[k] = ClearCell(cells[k]) /\ past'[k] = <<>>  BY <1>3 DEF Clear
  <2> QED BY <1>1, <2>1, ClearTiers
<1>4. CASE UNCHANGED cacheVars  BY <1>1, <1>4 DEF cacheVars
<1> QED BY <1>2, <1>3, <1>4 DEF CacheNext

(* Every row stored past the sink is in exactly one of the pooled blocks, the
   accumulator and the ring, first in first out, whatever the sizes. *)
THEOREM RowsKept == CacheSpec => []FifoTiers
<1>1. CacheInit => FifoTiers
  <2> SUFFICES ASSUME CacheInit, NEW k \in Cells PROVE CellTiers(cells[k], past[k])
    BY DEF FifoTiers, CellTiers
  <2>1. cells[k] = NewCell /\ past[k] = <<>>  BY DEF CacheInit
  <2>2. CellTiers(NewCell, <<>>)  BY EmptyTiers DEF NewCell
  <2> QED BY <2>1, <2>2
<1> QED BY <1>1, CacheTypeCorrect, TiersStep, PTL DEF CacheSpec

-----------------------------------------------------------------------------
(* Attention *)

(* Every score is paired with the value row whose key was scored, wherever the
   walk stops. *)
THEOREM ScoresPaired == CacheSpec => []ScoresPairWithValues
<1>1. CacheTypeOK => ScoresPairWithValues
  <2> SUFFICES ASSUME CacheTypeOK, NEW c \in Cells, NEW count \in 0 .. Len(Scored(cells[c]))
               PROVE  Weighted(cells[c], count) = SubSeq(Scored(cells[c]), 1, count)
    BY DEF ScoresPairWithValues
  <2>1. cells[c] \in CellType  BY DEF CacheTypeOK
  <2> QED BY <2>1, WeightedPrefix
<1> QED BY <1>1, CacheTypeCorrect, PTL

\* As long as a cell is used in order, the sink is written row by row.
SinkFilled ==
    \A c \in inorder : stored[c] < SinkSize /\ stored[c] < SinkRows
                          => cells[c].sink_count = stored[c]

LEMMA SinkKept ==
  ASSUME NEW c \in CellType, NEW pos \in Nat, NEW row \in Nat, NEW g,
         ~ (pos < SinkSize /\ pos < SinkRows)
  PROVE  /\ StoreCell(c, pos, row, g).sink = c.sink
         /\ StoreCell(c, pos, row, g).sink_count = c.sink_count
<1>1. CASE pos < SinkSize
  <2>1. ~ (pos < SinkRows)  BY <1>1
  <2>2. StoreCell(c, pos, row, g) = StoreSink(c, pos, g)  BY <1>1 DEF StoreCell
  <2>3. /\ StoreSink(c, pos, g).sink = c.sink
        /\ StoreSink(c, pos, g).sink_count = c.sink_count
    BY <2>1 DEF StoreSink
  <2> QED BY <2>2, <2>3
<1>2. CASE ~ (pos < SinkSize)
  <2>1. StoreCell(c, pos, row, g) = StoreWindow(c, pos, row)  BY <1>2 DEF StoreCell
  <2>2. /\ StoreWindow(c, pos, row).sink = c.sink
        /\ StoreWindow(c, pos, row).sink_count = c.sink_count
    BY DEF StoreWindow, Put, Evict, Accumulate, Finalize
  <2> QED BY <2>1, <2>2
<1> QED BY <1>1, <1>2

LEMMA SinkStep ==
  CacheTypeOK /\ SinkFilled /\ SinkRowsFresh /\ [CacheNext]_cacheVars
    => (SinkFilled /\ SinkRowsFresh)'
<1> SUFFICES ASSUME CacheTypeOK, SinkFilled, SinkRowsFresh, [CacheNext]_cacheVars,
                    NEW k \in inorder'
             PROVE  /\ stored'[k] < SinkSize /\ stored'[k] < SinkRows
                         => cells'[k].sink_count = stored'[k]
                    /\ \A p \in 0 .. cells'[k].sink_count - 1 : cells'[k].sink[p] = gen'
  BY DEF SinkFilled, SinkRowsFresh
<1>1. ASSUME NEW c \in Cells, NEW pos \in Positions, Store(c, pos)
      PROVE  /\ stored'[k] < SinkSize /\ stored'[k] < SinkRows
                  => cells'[k].sink_count = stored'[k]
             /\ \A p \in 0 .. cells'[k].sink_count - 1 : cells'[k].sink[p] = gen'
  <2>1. pos \in Nat /\ k \in inorder /\ k \in Cells /\ gen' = gen
        /\ (k = c => pos = stored[k])
    BY <1>1 DEF Positions, Store, CacheTypeOK
  <2>2. CASE k # c
    <3>1. cells'[k] = cells[k] /\ stored'[k] = stored[k]
      BY <1>1, <2>1, <2>2 DEF Store, CacheTypeOK
    <3> QED BY <2>1, <3>1 DEF SinkFilled, SinkRowsFresh
  <2>3. CASE k = c
    <3> DEFINE c0 == cells[k]
               c1 == cells'[k]
    <3>1. c0 \in CellType /\ stored[k] \in Nat /\ gen \in Nat /\ Len(past[k]) + 1 \in Nat
      BY <2>1, CacheAssumption DEF CacheTypeOK
    <3>2. c1 = StoreCell(c0, pos, Len(past[k]) + 1, gen) /\ stored'[k] = stored[k] + 1
      BY <1>1, <2>1, <2>3 DEF Store, CacheTypeOK
    <3>3. /\ stored[k] < SinkSize /\ stored[k] < SinkRows => c0.sink_count = stored[k]
          /\ \A p \in 0 .. c0.sink_count - 1 : c0.sink[p] = gen
      BY <2>1 DEF SinkFilled, SinkRowsFresh
    <3>4. IsCell(c0) /\ TypedFields(c0)  BY <3>1, FieldsOfCell
    <3> HIDE DEF c0, c1
    <3>5. CASE pos < SinkSize /\ pos < SinkRows
      <4>1. c0.sink_count = pos  BY <2>1, <2>3, <3>3, <3>5
      <4>2. c1.sink = [c0.sink EXCEPT ![pos] = gen] /\ c1.sink_count = pos + 1
        BY <2>1, <3>2, <3>4, <3>5, <4>1, SinkFields DEF StoreCell
      <4>3. c0.sink \in [SinkSlots -> Nat] /\ pos \in SinkSlots
        BY <2>1, <3>4, <3>5, CellAssumption DEF TypedFields, SinkSlots
      <4>4. \A p \in 0 .. pos : p \in SinkSlots
        BY <2>1, <3>5, CellAssumption DEF SinkSlots
      <4>5. \A p \in 0 .. pos : c1.sink[p] = gen  BY <2>1, <3>3, <4>1, <4>2, <4>3, <4>4
      <4> QED BY <2>1, <2>3, <3>1, <3>2, <4>2, <4>5 DEF c1
    <3>6. CASE ~ (pos < SinkSize /\ pos < SinkRows)
      <4>1. c1.sink = c0.sink /\ c1.sink_count = c0.sink_count
        <5>1. pos \in Nat /\ c0 \in CellType /\ Len(past[k]) + 1 \in Nat
          BY <2>1, <3>1
        <5> QED BY ONLY <5>1, <3>2, <3>6, SinkKept
      <4>2. ~ (stored'[k] < SinkSize /\ stored'[k] < SinkRows)
        BY <2>1, <2>3, <3>1, <3>2, <3>6, CellAssumption
      <4> QED BY <2>1, <3>3, <4>1, <4>2 DEF c1
    <3> QED BY <3>5, <3>6
  <2> QED BY <2>2, <2>3
<1>2. CASE Clear
  <2>1. k \in Cells /\ cells'[k] = ClearCell(cells[k]) /\ stored'[k] = 0
    BY <1>2 DEF Clear
  <2>2. IsCell(cells[k])  BY <2>1, FieldsOfCell DEF CacheTypeOK
  <2>3. cells'[k].sink_count = 0  BY <2>1, <2>2, ClearFields
  <2> QED BY <2>1, <2>3
<1>3. CASE UNCHANGED cacheVars  BY <1>3 DEF cacheVars, SinkFilled, SinkRowsFresh
<1> QED BY <1>1, <1>2, <1>3 DEF CacheNext

(* Of a cell used in order, attention never sees a sink row of an earlier
   generation. *)
THEOREM SinkNeverStale == CacheSpec => []SinkRowsFresh
<1>1. CacheInit => SinkFilled /\ SinkRowsFresh
  BY CellAssumption DEF CacheInit, SinkFilled, SinkRowsFresh, NewCell
<1> QED BY <1>1, SinkStep, CacheTypeCorrect, PTL DEF CacheSpec

LEMMA ShownOfLog ==
  ASSUME CacheTypeOK, FifoTiers
  PROVE  [c \in Cells |-> PastEntries(cells[c])] = [c \in Cells |-> CacheLog!Show(past[c])]
<1> SUFFICES ASSUME NEW c \in Cells PROVE PastEntries(cells[c]) = CacheLog!Show(past[c])
  OBVIOUS
<1>1. cells[c] \in CellType /\ past[c] \in Seq(Nat) /\ CellTiers(cells[c], past[c])
  BY DEF CacheTypeOK, FifoTiers
<1>2. PastEntries(cells[c]) = ShowOf(past[c])  BY <1>1, TiersShow
<1>3. CacheLog!Show(past[c]) = ShowOf(past[c])
  BY DEF CacheLog!Show, CacheLog!Entry, ShowOf, MeanOf
<1> QED BY <1>2, <1>3

LEMMA LogStep ==
  CacheTypeOK /\ FifoTiers /\ CacheTypeOK' /\ FifoTiers' /\ [CacheNext]_cacheVars
    => [CacheLog!Next]_(CacheLog!vars)
<1> SUFFICES ASSUME CacheTypeOK, FifoTiers, CacheTypeOK', FifoTiers', [CacheNext]_cacheVars
             PROVE  [CacheLog!Next]_(CacheLog!vars)
  OBVIOUS
<1> DEFINE shown == [c \in Cells |-> PastEntries(cells[c])]
<1>1. shown = [c \in Cells |-> CacheLog!Show(past[c])]  BY ShownOfLog
<1>2. shown' = [c \in Cells |-> CacheLog!Show(past'[c])]
  <2>1. (CacheTypeOK /\ FifoTiers =>
           [c \in Cells |-> PastEntries(cells[c])] = [c \in Cells |-> CacheLog!Show(past[c])])'
    BY ShownOfLog, PTL
  <2> QED BY <2>1
<1>3. past \in [Cells -> Seq(Nat)]  BY DEF CacheTypeOK
<1> HIDE DEF shown
<1>4. ASSUME NEW c \in Cells, NEW pos \in Positions, Store(c, pos)
      PROVE  [CacheLog!Next]_(CacheLog!vars)
  <2>1. CASE pos < SinkSize
    <3>1. past' = past  BY <1>4, <2>1 DEF Store
    <3>2. shown' = shown  BY <1>1, <1>2, <3>1
    <3> QED BY <3>1, <3>2 DEF CacheLog!vars, shown
  <2>2. CASE ~ (pos < SinkSize)
    <3>1. past' = [past EXCEPT ![c] = Append(@, pos)]  BY <1>4, <2>2 DEF Store
    <3>2. shown' = [shown EXCEPT ![c] = CacheLog!Show(past'[c])]
      BY <1>1, <1>2, <1>3, <3>1
    <3>3. pos \in SinkSize .. MaxContext - 1
      BY <2>2, CellAssumption DEF Positions
    <3>4. CacheLog!Add(c, pos)  BY <3>1, <3>2 DEF CacheLog!Add, shown
    <3> QED BY <3>3, <3>4 DEF CacheLog!Next
  <2> QED BY <2>1, <2>2
<1>5. CASE Clear
  <2>1. past' = [c \in Cells |-> <<>>]  BY <1>5 DEF Clear
  <2>2. shown' = [c \in Cells |-> CacheLog!Show(<<>>)]  BY <1>2, <2>1
  <2> QED BY <2>1, <2>2 DEF CacheLog!Next, CacheLog!Forget, shown
<1>6. CASE UNCHANGED cacheVars
  <2>1. past' = past /\ cells' = cells  BY <1>6 DEF cacheVars
  <2> QED BY <2>1 DEF CacheLog!vars
<1> QED BY <1>4, <1>5, <1>6 DEF CacheNext

(* The cache implements KVLog: what attention is shown past the sink is the
   means of the completed runs the window has left behind, and the window, as a
   function of the plain log of stored rows. *)
THEOREM LogImplemented == CacheSpec => ImplementsLog
<1>1. CacheInit /\ CacheTypeOK /\ FifoTiers => CacheLog!Init
  <2> SUFFICES ASSUME CacheInit, CacheTypeOK, FifoTiers PROVE CacheLog!Init  OBVIOUS
  <2>1. past = [c \in Cells |-> <<>>]  BY DEF CacheInit
  <2>2. [c \in Cells |-> PastEntries(cells[c])] = [c \in Cells |-> CacheLog!Show(past[c])]
    BY ShownOfLog
  <2> QED BY <2>1, <2>2 DEF CacheLog!Init
<1> QED BY <1>1, LogStep, CacheTypeCorrect, RowsKept, PTL DEF CacheSpec, ImplementsLog, CacheLog!Spec

-----------------------------------------------------------------------------
(* Session: the engine over the cache *)

-----------------------------------------------------------------------------
(* One cell *)

\* A cell past the sink that has stored m tokens at position l.
UpperCell(c, l, m) == CellTiers(c, [i \in 1 .. m |-> l]) /\ c.sink_count = 0

\* The same below sink_size.
LowerCell(c, l, m) ==
    /\ c.pool = <<>> /\ c.win_count = 0
    /\ c.sink_count = IF m = 0 THEN 0 ELSE l + 1
    /\ \A p \in SinkSlots : c.sink[p] = IF p = l THEN m ELSE 0

FilledCell(c, l, m) == IF l >= SinkSize THEN UpperCell(c, l, m) ELSE LowerCell(c, l, m)

LEMMA NewIsFilled == ASSUME NEW l \in Layers PROVE FilledCell(NewCell, l, 0)
<1>1. CellTiers(NewCell, <<>>)  BY EmptyTiers DEF NewCell
<1>2. [i \in 1 .. 0 |-> l] = <<>>  OBVIOUS
<1>3. UpperCell(NewCell, l, 0)  BY <1>1, <1>2 DEF UpperCell, NewCell
<1>4. LowerCell(NewCell, l, 0)  BY DEF LowerCell, NewCell
<1> QED BY <1>3, <1>4 DEF FilledCell

LEMMA UpperStep ==
  ASSUME NEW c \in CellType, NEW l \in Layers, l >= SinkSize, NEW m \in Nat,
         UpperCell(c, l, m)
  PROVE  UpperCell(StoreCell(c, l, m + 1, m + 1), l, m + 1)
<1> DEFINE h == [i \in 1 .. m |-> l]
           d == StoreWindow(c, l, m + 1)
<1>1. l \in Nat  BY DEF Layers
<1>2. h \in Seq(Nat) /\ Len(h) = m /\ Append(h, l) = [i \in 1 .. m + 1 |-> l]
  BY <1>1
<1>3. StoreCell(c, l, m + 1, m + 1) = d  BY <1>1, CellAssumption DEF StoreCell
<1>4. CellTiers(c, h) /\ c.sink_count = 0  BY DEF UpperCell
<1>5. d.sink_count = c.sink_count
  BY DEF StoreWindow, Put, Evict, Accumulate, Finalize
<1> HIDE DEF h
<1>6. CellTiers(StoreWindow(c, l, Len(h) + 1), Append(h, l))
  BY <1>1, <1>2, <1>4, StoreWindowTiers
<1> QED BY <1>2, <1>3, <1>4, <1>5, <1>6 DEF UpperCell

LEMMA LowerStep ==
  ASSUME NEW c \in CellType, NEW l \in Layers, l < SinkSize, NEW m \in Nat,
         LowerCell(c, l, m)
  PROVE  LowerCell(StoreCell(c, l, m + 1, m + 1), l, m + 1)
<1> DEFINE d == StoreSink(c, l, m + 1)
<1>1. l \in Nat /\ l < SinkRows /\ l \in SinkSlots
  BY SessionAssumption, CellAssumption DEF Layers, SinkSlots
<1>2. StoreCell(c, l, m + 1, m + 1) = d  BY DEF StoreCell
<1>3. IsCell(c) /\ TypedFields(c)  BY FieldsOfCell
<1>4. /\ d.sink = [c.sink EXCEPT ![l] = m + 1]
      /\ d.sink_count = IF l >= c.sink_count THEN l + 1 ELSE c.sink_count
      /\ d.win_count = c.win_count /\ d.pool = c.pool
  BY <1>1, <1>3, SinkFields
<1>5. c.sink_count \in {0, l + 1} /\ c.pool = <<>> /\ c.win_count = 0
  BY DEF LowerCell
<1>6. d.sink_count = l + 1  BY <1>1, <1>4, <1>5
<1>7. c.sink \in [SinkSlots -> Nat]  BY <1>3 DEF TypedFields
<1> HIDE DEF d
<1>8. ASSUME NEW p \in SinkSlots PROVE d.sink[p] = IF p = l THEN m + 1 ELSE 0
  BY <1>1, <1>4, <1>7 DEF LowerCell
<1>9. m + 1 # 0  OBVIOUS
<1>10. d.pool = <<>> /\ d.win_count = 0  BY <1>4, <1>5
<1>11. LowerCell(d, l, m + 1)  BY ONLY <1>6, <1>8, <1>9, <1>10 DEF LowerCell
<1> QED BY <1>2, <1>11

LEMMA FilledStep ==
  ASSUME NEW c \in CellType, NEW l \in Layers, NEW m \in Nat, FilledCell(c, l, m)
  PROVE  FilledCell(StoreCell(c, l, m + 1, m + 1), l, m + 1)
  BY UpperStep, LowerStep, CellAssumption DEF FilledCell, Layers

\* A store never takes a pooled block away.
LEMMA PoolGrows ==
  ASSUME NEW c \in CellType, NEW pos \in Nat, NEW row \in Nat, NEW g \in Nat
  PROVE  Len(StoreCell(c, pos, row, g).pool) >= Len(c.pool)
<1>1. c.pool \in Seq(Block)  BY DEF CellType
<1>2. StoreSink(c, pos, g).pool = c.pool  BY DEF StoreSink
<1>3. \/ StoreWindow(c, pos, row).pool = c.pool
      \/ \E b : StoreWindow(c, pos, row).pool = Append(c.pool, b)
  BY DEF StoreWindow, Put, Evict, Accumulate, Finalize
<1>4. \A b : Len(Append(c.pool, b)) = Len(c.pool) + 1 /\ Len(c.pool) \in Nat
  BY <1>1
<1>5. Len(StoreWindow(c, pos, row).pool) >= Len(c.pool)  BY <1>3, <1>4
<1> QED BY <1>2, <1>4, <1>5 DEF StoreCell

\* Pooled blocks in terms of the rows evicted.
LEMMA PoolOfFilled ==
  ASSUME NEW c \in CellType, NEW l \in Layers, NEW m \in Nat, FilledCell(c, l, m)
  PROVE  /\ l >= SinkSize => /\ Len(c.pool) * pool_block <= Evicted(m)
                             /\ Evicted(m) <= Len(c.pool) * pool_block + (pool_block - 1)
                             /\ c.win_count = m - Evicted(m) /\ c.sink_count = 0
         /\ l < SinkSize => Len(c.pool) = 0 /\ c.win_count = 0 /\ c.sink_count <= l + 1
<1>1. CASE l >= SinkSize
  <2> DEFINE h == [i \in 1 .. m |-> l]
             K == Len(c.pool) * pool_block
  <2>1. CellTiers(c, h) /\ c.sink_count = 0  BY <1>1 DEF FilledCell, UpperCell
  <2>2. Len(h) = m  OBVIOUS
  <2>3. K + c.acc_count = Evicted(m) /\ c.acc_count < pool_block /\ c.win_count = m - Evicted(m)
    BY <2>1, <2>2 DEF CellTiers, AccHolds, RingHolds
  <2>4. c.acc_count \in Nat /\ Len(c.pool) \in Nat /\ pool_block \in Nat \ {0}
    BY Sizes DEF CellType
  <2>5. K \in Nat  BY <2>4
  <2> HIDE DEF K
  <2>6. K <= Evicted(m) /\ Evicted(m) <= K + (pool_block - 1)  BY <2>3, <2>4, <2>5
  <2>7. l \in Nat  BY DEF Layers
  <2> QED BY <1>1, <2>1, <2>3, <2>6, <2>7, CellAssumption DEF K
<1>2. CASE l < SinkSize
  <2>1. LowerCell(c, l, m)  BY <1>2, CellAssumption DEF FilledCell, Layers
  <2>2. Len(c.pool) = 0 /\ c.win_count = 0 /\ c.sink_count \in {0, l + 1}
    BY <2>1 DEF LowerCell
  <2> QED BY <1>2, <2>2, CellAssumption DEF Layers
<1> QED BY <1>1, <1>2, CellAssumption DEF Layers

-----------------------------------------------------------------------------
(* Types *)

\* A pass that has not reached every layer has been counted.
Begun == layer < NLayers => read >= 1

\* Only decoding owes passes.
Idle == phase # "decode" => owed = 0

LEMMA InitType == Init => TypeOK
<1> SUFFICES ASSUME Init PROVE TypeOK  OBVIOUS
<1>1. 0 \in 0 .. MaxPrompt /\ 0 \in 0 .. MaxRound - 1 /\ NLayers \in 0 .. NLayers
  BY SessionAssumption
<1>2. cell \in [Layers -> [KvHeads -> CellType]]  BY NewCellType DEF Init
<1> QED BY <1>1, <1>2 DEF Init, TypeOK

LEMMA TypeStep == TypeOK /\ [Next]_vars => TypeOK'
<1> SUFFICES ASSUME TypeOK, [Next]_vars PROVE TypeOK'
  OBVIOUS
<1> USE SessionAssumption DEF TypeOK
<1>1. ASSUME NEW n \in 0 .. MaxPrompt, Generate(n) PROVE TypeOK'
  BY <1>1 DEF Generate
<1>2. CASE ReadPrompt  BY <1>2 DEF ReadPrompt, Forward
<1>3. CASE EndPrompt  BY <1>3 DEF EndPrompt
<1>4. ASSUME NEW n \in 1 .. MaxRound, Round(n) PROVE TypeOK'
  BY <1>4 DEF Round, Forward
<1>5. CASE VerifyNext  BY <1>5 DEF VerifyNext, Forward
<1>6. CASE Return  BY <1>6 DEF Return
<1>7. CASE Attend
  <2>1. layer \in Layers /\ layer + 1 \in 0 .. NLayers /\ layer \in Nat
    BY <1>7 DEF Attend, Layers
  <2>2. \A k \in KvHeads : cell[layer][k] \in CellType  BY <2>1
  <2>3. \A k \in KvHeads : StoreCell(cell[layer][k], layer, read, read) \in CellType
    BY <2>1, <2>2, StoreCellType
  <2>4. [k \in KvHeads |-> StoreCell(cell[layer][k], layer, read, read)]
          \in [KvHeads -> CellType]
    BY <2>3
  <2>5. cell' \in [Layers -> [KvHeads -> CellType]]
    BY <1>7, <2>4 DEF Attend, KvStored
  <2> QED BY <1>7, <2>1, <2>5 DEF Attend
<1>8. CASE UNCHANGED vars  BY <1>8 DEF vars
<1> QED BY <1>1, <1>2, <1>3, <1>4, <1>5, <1>6, <1>7, <1>8 DEF Next

(* The session keeps its types: in particular every store of every pass lands
   in a slot the cache has (kv_cache.cpp store(), engine.cpp:518). *)
THEOREM TypeCorrect == Spec => []TypeOK
  BY InitType, TypeStep, PTL DEF Spec

LEMMA StoredType == ASSUME TypeOK, Begun, NEW l \in Layers PROVE Stored(l) \in Nat
  BY SessionAssumption DEF TypeOK, Begun, Stored, Layers

-----------------------------------------------------------------------------
(* What is in the cells *)

CellsFilled == \A l \in Layers, k \in KvHeads : FilledCell(cell[l][k], l, Stored(l))

Inv == TypeOK /\ Begun /\ Idle /\ CellsFilled

\* A pass reaches a layer: its cells take the token, no other cell changes.
LEMMA AttendFacts ==
  ASSUME TypeOK, Attend
  PROVE  /\ layer \in Layers /\ layer' = layer + 1 /\ read' = read
         /\ \A k \in KvHeads : cell'[layer][k] = StoreCell(cell[layer][k], layer, read, read)
         /\ \A l \in Layers \ {layer} : cell'[l] = cell[l] /\ Stored(l)' = Stored(l)
         /\ \A l \in Layers : l = layer => Stored(l) = read - 1 /\ Stored(l)' = read
<1>1. layer \in Layers /\ layer' = layer + 1 /\ read' = read
  BY SessionAssumption DEF Attend, Layers, TypeOK
<1>2. cell' = KvStored(layer, read)  BY DEF Attend
<1>3. cell \in [Layers -> [KvHeads -> CellType]] /\ read \in Nat  BY DEF TypeOK
<1>4. \A k \in KvHeads : cell'[layer][k] = StoreCell(cell[layer][k], layer, read, read)
  BY <1>1, <1>2, <1>3 DEF KvStored
<1>5. \A l \in Layers \ {layer} : cell'[l] = cell[l]
  BY <1>1, <1>2, <1>3 DEF KvStored
<1>6. ASSUME NEW l \in Layers \ {layer} PROVE Stored(l)' = Stored(l)
  <2>1. l \in Int /\ layer \in Int /\ l # layer
    BY <1>1, SessionAssumption DEF Layers
  <2>2. l < layer + 1 <=> l < layer  BY ONLY <2>1
  <2> QED BY <1>1, <2>2 DEF Stored
<1>7. \A l \in Layers : l = layer => Stored(l) = read - 1 /\ Stored(l)' = read
  BY <1>1, SessionAssumption DEF Stored, Layers
<1> QED BY <1>1, <1>4, <1>5, <1>6, <1>7

\* A new pass: no layer has seen it yet.
LEMMA ForwardFacts ==
  ASSUME TypeOK, BetweenPasses, Forward, NEW l \in Layers
  PROVE  Stored(l) = read /\ Stored(l)' = read
  BY SessionAssumption DEF TypeOK, BetweenPasses, Forward, Stored, Layers

LEMMA FillStep == Inv /\ [Next]_vars => Inv'
<1> SUFFICES ASSUME Inv, [Next]_vars PROVE Inv'
  OBVIOUS
<1>1. TypeOK /\ Begun /\ Idle /\ CellsFilled  BY DEF Inv
<1>2. TypeOK'  BY <1>1, TypeStep
<1>3. ASSUME BetweenPasses, Forward PROVE Begun' /\ CellsFilled'
  <2>1. Begun'  BY <1>1, <1>3 DEF Forward, Begun, TypeOK
  <2>2. \A l \in Layers : Stored(l)' = Stored(l)  BY <1>1, <1>3, ForwardFacts
  <2> QED BY <1>1, <1>3, <2>1, <2>2 DEF Forward, CellsFilled
<1>4. ASSUME UNCHANGED <<layer, read, cell>> PROVE Begun' /\ CellsFilled'
  BY <1>1, <1>4 DEF Begun, CellsFilled, Stored
<1>5. ASSUME NEW n \in 0 .. MaxPrompt, Generate(n) PROVE Inv'
  BY <1>1, <1>2, <1>4, <1>5 DEF Generate, Inv, Idle
<1>6. CASE ReadPrompt  BY <1>1, <1>2, <1>3, <1>6 DEF ReadPrompt, Inv, Idle
<1>7. CASE EndPrompt  BY <1>1, <1>2, <1>4, <1>7 DEF EndPrompt, Inv, Idle
<1>8. ASSUME NEW n \in 1 .. MaxRound, Round(n) PROVE Inv'
  BY <1>1, <1>2, <1>3, <1>8 DEF Round, AtLoopHead, Inv, Idle
<1>9. CASE VerifyNext  BY <1>1, <1>2, <1>3, <1>9 DEF VerifyNext, Inv, Idle
<1>10. CASE Return  BY <1>1, <1>2, <1>4, <1>10 DEF Return, AtLoopHead, Inv, Idle
<1>11. CASE Attend
  <2>1. Begun'  BY <1>1, <1>11, SessionAssumption DEF Attend, Begun, TypeOK
  <2>2. Idle'  BY <1>1, <1>11 DEF Attend, Idle
  <2>3. /\ layer \in Layers
        /\ \A k \in KvHeads : cell'[layer][k] = StoreCell(cell[layer][k], layer, read, read)
        /\ \A l \in Layers \ {layer} : cell'[l] = cell[l] /\ Stored(l)' = Stored(l)
        /\ \A l \in Layers : l = layer => Stored(l) = read - 1 /\ Stored(l)' = read
    BY <1>1, <1>11, AttendFacts
  <2>4. read - 1 \in Nat /\ read = (read - 1) + 1
    BY <1>1, <1>11 DEF Attend, Begun, TypeOK
  <2>5. ASSUME NEW l \in Layers, NEW k \in KvHeads
        PROVE  FilledCell(cell'[l][k], l, Stored(l)')
    <3>1. FilledCell(cell[l][k], l, Stored(l)) /\ cell[l][k] \in CellType
      BY <1>1 DEF CellsFilled, TypeOK
    <3>2. CASE l = layer
      <4> DEFINE m == read - 1
      <4>1. m \in Nat /\ m + 1 = read  BY <2>4
      <4>2. FilledCell(cell[l][k], l, m)  BY <3>1, <3>2, <2>3
      <4> HIDE DEF m
      <4>3. FilledCell(StoreCell(cell[l][k], l, m + 1, m + 1), l, m + 1)
        BY <3>1, <4>1, <4>2, FilledStep
      <4>4. FilledCell(StoreCell(cell[l][k], l, read, read), l, read)  BY <4>1, <4>3
      <4>5. cell'[l][k] = StoreCell(cell[l][k], l, read, read) /\ Stored(l)' = read
        BY <3>2, <2>3
      <4> QED BY ONLY <4>4, <4>5
    <3>3. CASE l # layer  BY <3>1, <3>3, <2>3
    <3> QED BY <3>2, <3>3
  <2> QED BY <1>2, <2>1, <2>2, <2>5 DEF Inv, CellsFilled
<1>12. CASE UNCHANGED vars  BY <1>1, <1>2, <1>4, <1>12 DEF vars, Inv, Idle
<1> QED BY <1>5, <1>6, <1>7, <1>8, <1>9, <1>10, <1>11, <1>12 DEF Next

LEMMA InitFilled == Init => Inv
<1> SUFFICES ASSUME Init PROVE Inv  OBVIOUS
<1>1. TypeOK  BY InitType
<1>2. Begun /\ Idle  BY SessionAssumption DEF Init, Begun, Idle
<1>3. ASSUME NEW l \in Layers, NEW k \in KvHeads
      PROVE  FilledCell(cell[l][k], l, Stored(l))
  <2>1. cell[l][k] = NewCell  BY DEF Init
  <2>2. Stored(l) = 0  BY SessionAssumption DEF Init, Stored, Layers
  <2> QED BY <2>1, <2>2, NewIsFilled
<1> QED BY <1>1, <1>2, <1>3 DEF Inv, CellsFilled

LEMMA Filled == Spec => []Inv
  BY InitFilled, FillStep, PTL DEF Spec

-----------------------------------------------------------------------------
(* What each layer remembers *)

LEMMA UpperShows ==
  ASSUME Inv, NEW l \in Layers, NEW k \in KvHeads, l >= SinkSize
  PROVE  cell[l][k].sink_count = 0 /\ PastEntries(cell[l][k]) = Log!Show(History(l))
<1> DEFINE c == cell[l][k]
           h == History(l)
<1>1. c \in CellType /\ FilledCell(c, l, Stored(l)) /\ Stored(l) \in Nat
  BY StoredType DEF Inv, TypeOK, CellsFilled
<1>2. CellTiers(c, h) /\ c.sink_count = 0
  BY <1>1 DEF FilledCell, UpperCell, History
<1>3. l \in Nat  BY DEF Layers
<1>4. h \in Seq(Nat)  BY <1>1, <1>3 DEF History
<1> HIDE DEF c, h
<1>5. PastEntries(c) = ShowOf(h)  BY <1>1, <1>2, <1>4, TiersShow
<1>6. Log!Show(h) = ShowOf(h)  BY DEF Log!Show, Log!Entry, ShowOf, MeanOf
<1> QED BY <1>2, <1>5, <1>6 DEF c, h

LEMMA LowerShows ==
  ASSUME Inv, NEW l \in Layers, NEW k \in KvHeads, ~ (l >= SinkSize)
  PROVE  LET s == Scored(cell[l][k])
         IN  /\ Len(s) = IF Stored(l) = 0 THEN 0 ELSE l + 1
             /\ \A i \in DOMAIN s : s[i].rows = {IF i = l + 1 THEN Stored(l) ELSE 0}
<1> DEFINE c == cell[l][k]
           m == Stored(l)
           s == Scored(c)
<1>1. c \in CellType /\ FilledCell(c, l, m) /\ m \in Nat
  BY StoredType DEF Inv, TypeOK, CellsFilled
<1>2. l \in Nat /\ l < SinkRows
  BY SessionAssumption, CellAssumption DEF Layers
<1> HIDE DEF c, m
<1>3. LowerCell(c, l, m)  BY <1>1 DEF FilledCell
<1>4. /\ Len(c.pool) = 0 /\ c.win_count = 0
      /\ c.sink_count = IF m = 0 THEN 0 ELSE l + 1
  BY <1>3 DEF LowerCell
<1>5. /\ s \in Seq(EntryType)
      /\ Len(s) = c.sink_count + Len(c.pool) + c.win_count
      /\ \A i \in 1 .. c.sink_count : s[i] = SinkEntry(c, i - 1)
  BY <1>1, ScoredParts
<1> HIDE DEF s
<1>6. c.sink_count \in 0 .. l + 1  BY <1>2, <1>4
<1>7. Len(s) = c.sink_count /\ DOMAIN s = 1 .. c.sink_count
  BY <1>4, <1>5, <1>6
<1>8. ASSUME NEW i \in DOMAIN s PROVE s[i].rows = {IF i = l + 1 THEN m ELSE 0}
  <2>1. i \in 1 .. c.sink_count /\ i - 1 \in SinkSlots /\ (i - 1 = l <=> i = l + 1)
    BY <1>2, <1>6, <1>7, CellAssumption DEF SinkSlots
  <2>2. s[i].rows = {c.sink[i - 1]}
    <3>1. s[i] = SinkEntry(c, i - 1)  BY <1>5, <2>1
    <3>2. SinkEntry(c, i - 1).rows = {c.sink[i - 1]}  BY DEF SinkEntry
    <3> QED BY <3>1, <3>2
  <2>3. c.sink[i - 1] = IF i = l + 1 THEN m ELSE 0  BY <1>3, <2>1 DEF LowerCell
  <2> QED BY <2>2, <2>3
<1> QED BY <1>4, <1>7, <1>8 DEF s, m, c

(* Whatever the requests were, a layer past the sink is shown every token since
   the model was loaded, as KVLog says, and a layer below sink_size the last one
   alone (engine.cpp:518, 286). *)
THEOREM Remembered == Spec => []LayersRemember
<1>1. Inv => LayersRemember
  BY UpperShows, LowerShows DEF LayersRemember
<1> QED BY <1>1, Filled, PTL

-----------------------------------------------------------------------------
(* The score buffer *)

LEMMA PoolsBelowSlack ==
  ASSUME NEW p \in Nat, NEW m \in Nat, m <= MaxContext, p * pool_block <= Evicted(m)
  PROVE  p < ScoreSlack
<1> DEFINE S == ScoreSlack * pool_block
<1>1. pool_block \in Nat \ {0} /\ window_sz \in Nat \ {0} /\ ScoreSlack \in Nat
  BY Sizes, SessionAssumption
<1>2. window_sz <= MaxContext  BY CellAssumption DEF window_sz
<1>3. Evicted(m) <= MaxContext - window_sz
  BY <1>1, <1>2, CellAssumption DEF Evicted
<1>4. MaxContext - window_sz < S  BY SessionAssumption
<1> SUFFICES ASSUME ~ (p < ScoreSlack) PROVE FALSE  OBVIOUS
<1>5. ScoreSlack <= p  BY <1>1
<1>6. S <= p * pool_block /\ S \in Nat /\ p * pool_block \in Nat
  BY <1>1, <1>5, MultMono
<1> DEFINE K == p * pool_block
<1>7. K <= Evicted(m) /\ S <= K /\ S \in Nat /\ K \in Nat  BY <1>6
<1>8. Evicted(m) \in Nat  BY EvictedFacts
<1> HIDE DEF S, K
<1> QED BY <1>1, <1>3, <1>4, <1>7, <1>8, CellAssumption

(* compute_attention() scores the cache and its own key inside scores_ while
   the session is no longer than max_context (engine.cpp:116, 765). *)
THEOREM ScoresInside == Spec => []ScoresFit
<1>1. ASSUME Inv PROVE ScoresFit
  <2> SUFFICES ASSUME NEW l \in Layers, NEW k \in KvHeads, Stored(l) <= MaxContext
               PROVE  Len(Scored(cell[l][k])) < ScoresLen
    BY DEF ScoresFit
  <2> DEFINE c == cell[l][k]
             m == Stored(l)
  <2>1. c \in CellType /\ FilledCell(c, l, m) /\ m \in Nat
    BY <1>1, StoredType DEF Inv, TypeOK, CellsFilled
  <2> HIDE DEF c, m
  <2>2. Len(Scored(c)) = c.sink_count + Len(c.pool) + c.win_count
    BY <2>1, ScoredParts
  <2>3. Len(c.pool) \in Nat /\ c.sink_count \in Nat /\ c.win_count \in 0 .. window_sz
    BY <2>1, CellAssumption DEF CellType
  <2>4. window_sz \in Nat /\ window_sz <= KvCacheSize
    BY SessionAssumption, CellAssumption DEF window_sz
  <2>5. KvCacheSize \in Nat /\ ScoreSlack \in Nat /\ SinkSize \in Nat /\ SinkSize < ScoreSlack
    BY SessionAssumption, CellAssumption
  <2>6. CASE l >= SinkSize
    <3>1. Len(c.pool) * pool_block <= Evicted(m) /\ c.sink_count = 0
      BY <2>1, <2>6, PoolOfFilled
    <3>2. m <= MaxContext  BY DEF m
    <3>3. Len(c.pool) < ScoreSlack  BY <3>1, <3>2, <2>1, <2>3, PoolsBelowSlack
    <3>4. Len(Scored(c)) < KvCacheSize + ScoreSlack
      BY <3>1, <3>3, <2>2, <2>3, <2>4, <2>5
    <3> QED BY <3>4 DEF ScoresLen, c
  <2>7. CASE l < SinkSize
    <3>1. Len(c.pool) = 0 /\ c.win_count = 0 /\ c.sink_count <= l + 1
      BY <2>1, <2>7, PoolOfFilled
    <3>2. l + 1 <= SinkSize /\ l \in Nat  BY <2>5, <2>7 DEF Layers
    <3>3. Len(Scored(c)) < KvCacheSize + ScoreSlack
      BY <3>1, <3>2, <2>2, <2>3, <2>5
    <3> QED BY <3>3 DEF ScoresLen, c
  <2> QED BY <2>5, <2>6, <2>7 DEF Layers
<1> QED BY <1>1, Filled, PTL

-----------------------------------------------------------------------------
(* The memory guard *)

\* What a layer still takes in the pass that is under way.
Due(l) == IF layer <= l THEN 1 ELSE 0

\* The most rows a cell has evicted by the end of a round: the guard let the
\* round begin with at most MemoryBlocks full blocks and one that is not.
RoundLimit == MemoryBlocks * pool_block + (pool_block - 1) + MaxRound

RoundBudget ==
    phase = "decode" /\ (owed > 0 \/ layer < NLayers) =>
        \A l \in Layers : l >= SinkSize => Evicted(Stored(l)) + owed + Due(l) <= RoundLimit

\* The block the guard counts are full ones.
LEMMA GuardBoundsEvicted ==
  ASSUME Inv, ~ OverMemory, NEW l \in Layers, l >= SinkSize
  PROVE  Evicted(Stored(l)) <= MemoryBlocks * pool_block + (pool_block - 1)
<1> PICK k \in KvHeads : TRUE  BY SessionAssumption DEF KvHeads
<1> DEFINE p == Len(cell[l][k].pool)
           K == p * pool_block
           M == MemoryBlocks * pool_block
           e == Evicted(Stored(l))
<1>1. cell[l][k] \in CellType /\ FilledCell(cell[l][k], l, Stored(l)) /\ Stored(l) \in Nat
  BY StoredType DEF Inv, TypeOK, CellsFilled
<1>2. p \in Nat
  <2>1. cell[l][k].pool \in Seq(Block)  BY <1>1 DEF CellType
  <2> QED BY <2>1
<1>3. p <= MemoryBlocks  BY <1>2, SessionAssumption DEF OverMemory
<1>4. K <= M /\ K \in Nat /\ M \in Nat
  BY <1>2, <1>3, Sizes, SessionAssumption, MultMono
<1>5. e <= K + (pool_block - 1)  BY <1>1, PoolOfFilled
<1>6. e \in Nat  BY <1>1, EvictedFacts
<1> HIDE DEF K, M, e
<1>7. e <= M + (pool_block - 1)  BY <1>4, <1>5, <1>6, Sizes
<1> QED BY <1>7 DEF e, M

LEMMA BudgetStep == Inv /\ RoundBudget /\ [Next]_vars => RoundBudget'
<1> SUFFICES ASSUME Inv, RoundBudget, [Next]_vars,
                    phase' = "decode" /\ (owed' > 0 \/ layer' < NLayers),
                    NEW l \in Layers, l >= SinkSize
             PROVE  (Evicted(Stored(l)) + owed + Due(l))' <= RoundLimit
  BY DEF RoundBudget
<1>1. TypeOK /\ Begun /\ Idle  BY DEF Inv
<1>2. /\ l \in Nat /\ l < NLayers /\ Stored(l) \in Nat /\ RoundLimit \in Nat
      /\ Evicted(Stored(l)) \in Nat /\ owed \in Nat /\ layer \in 0 .. NLayers
  <2>1. MemoryBlocks * pool_block \in Nat /\ pool_block - 1 \in Nat
    BY SessionAssumption, Sizes
  <2>2. Stored(l) \in Nat /\ Evicted(Stored(l)) \in Nat
    BY <1>1, StoredType, EvictedFacts
  <2> DEFINE K == MemoryBlocks * pool_block
  <2>3. K \in Nat  BY <2>1
  <2> HIDE DEF K
  <2>4. K + (pool_block - 1) + MaxRound \in Nat  BY <2>1, <2>3, SessionAssumption
  <2> QED BY <1>1, <2>2, <2>4, SessionAssumption DEF Layers, TypeOK, RoundLimit, K
<1>3. Evicted(Stored(l))' = Evicted(Stored(l)')  OBVIOUS
<1>4. ASSUME NEW n \in 0 .. MaxPrompt, Generate(n) PROVE FALSE  BY <1>4 DEF Generate
<1>5. CASE ReadPrompt  BY <1>5 DEF ReadPrompt
<1>6. CASE EndPrompt
  BY <1>1, <1>2, <1>6 DEF EndPrompt, Idle, BetweenPasses
<1>7. ASSUME NEW n \in 1 .. MaxRound, Round(n)
      PROVE  (Evicted(Stored(l)) + owed + Due(l))' <= RoundLimit
  <2>1. Stored(l)' = Stored(l)
    BY <1>1, <1>7, ForwardFacts DEF Round, AtLoopHead
  <2>2. owed' = n - 1 /\ Due(l)' = 1
    BY <1>2, <1>7 DEF Round, Forward, Due
  <2>3. Evicted(Stored(l)) <= MemoryBlocks * pool_block + (pool_block - 1)
    BY <1>7, GuardBoundsEvicted DEF Round
  <2> DEFINE M == MemoryBlocks * pool_block + (pool_block - 1)
  <2>4. M \in Int  BY Sizes, SessionAssumption
  <2> HIDE DEF M
  <2>5. Evicted(Stored(l)) + (n - 1) + 1 <= M + MaxRound
    BY <1>2, <2>3, <2>4, SessionAssumption DEF M
  <2> QED BY <1>3, <2>1, <2>2, <2>5 DEF M, RoundLimit
<1>8. CASE VerifyNext
  <2>1. Stored(l)' = Stored(l)  BY <1>1, <1>8, ForwardFacts DEF VerifyNext
  <2>2. owed' = owed - 1 /\ Due(l)' = 1 /\ Due(l) = 0
    BY <1>2, <1>8 DEF VerifyNext, Forward, BetweenPasses, Due
  <2>3. Evicted(Stored(l)) + owed + Due(l) <= RoundLimit
    BY <1>8 DEF VerifyNext, RoundBudget
  <2> QED BY <1>2, <1>3, <2>1, <2>2, <2>3
<1>9. CASE Return  BY <1>9 DEF Return
<1>10. CASE Attend
  <2>1. /\ layer' = layer + 1 /\ read' = read
        /\ \A j \in Layers \ {layer} : Stored(j)' = Stored(j)
        /\ \A j \in Layers : j = layer => Stored(j) = read - 1 /\ Stored(j)' = read
    BY <1>1, <1>10, AttendFacts
  <2>2. owed' = owed /\ Evicted(Stored(l)) + owed + Due(l) <= RoundLimit
    BY <1>10 DEF Attend, RoundBudget
  <2>3. CASE l = layer
    <3>1. Due(l) = 1 /\ Due(l)' = 0  BY <1>2, <2>1, <2>3 DEF Due
    <3>2. Stored(l)' = Stored(l) + 1  BY <1>1, <2>1, <2>3 DEF TypeOK
    <3>3. Evicted(Stored(l) + 1) \in Nat /\ Evicted(Stored(l) + 1) <= Evicted(Stored(l)) + 1
      BY <1>2, Sizes DEF Evicted
    <3> QED BY <1>2, <1>3, <2>2, <3>1, <3>2, <3>3
  <2>4. CASE l # layer
    <3>1. Due(l)' = Due(l)  BY <1>2, <2>1, <2>4 DEF Due
    <3> QED BY <1>3, <2>1, <2>2, <2>4, <3>1
  <2> QED BY <2>3, <2>4
<1>11. CASE UNCHANGED vars
  <2>1. /\ Stored(l)' = Stored(l) /\ Due(l)' = Due(l) /\ owed' = owed
        /\ phase = "decode" /\ (owed > 0 \/ layer < NLayers)
    BY <1>11 DEF vars, Stored, Due
  <2> QED BY <1>3, <2>1 DEF RoundBudget
<1> QED BY <1>4, <1>5, <1>6, <1>7, <1>8, <1>9, <1>10, <1>11 DEF Next

\* p full blocks of w fit in b blocks and r rows.
LEMMA BlocksOfRows ==
  ASSUME NEW w \in Nat \ {0}, NEW p \in Nat, NEW b \in Nat, NEW r \in Nat,
         p * w <= b * w + r
  PROVE  p <= b + r \div w
<1> DEFINE q == r \div w
           s == r % w
<1>1. q \in Nat /\ s \in 0 .. w - 1  BY ModRange
<1>2. r = w * q + s  BY DivMod
<1> HIDE DEF q, s
<1>3. SUFFICES ASSUME ~ (p <= b + q) PROVE FALSE  BY DEF q
<1>4. b + q + 1 \in Nat /\ b + q + 1 <= p  BY <1>1, <1>3
<1>5. (b + q + 1) * w <= p * w  BY <1>4, MultMono
<1>6. (b + q + 1) * w = b * w + w * q + w  BY <1>1
<1> DEFINE P == p * w
           B == b * w
           Q == w * q
<1>7. P \in Nat /\ B \in Nat /\ Q \in Nat  BY <1>1
<1>8. B + Q + w <= P /\ P <= B + r /\ r = Q + s  BY <1>2, <1>5, <1>6
<1> HIDE DEF P, B, Q
<1> QED BY <1>1, <1>7, <1>8

(* The guard is looked at once a round, and yet no cell outgrows the limit by
   more than what one round can fill (engine.cpp:297). *)
THEOREM RoundsFit == Spec => []RoundsFitMemory
<1>1. Init => RoundBudget  BY DEF Init, RoundBudget
<1>2. ASSUME Inv, RoundBudget PROVE RoundsFitMemory
  <2> SUFFICES ASSUME phase = "decode", owed > 0 \/ layer < NLayers,
                      NEW l \in Layers, NEW k \in KvHeads
               PROVE  Len(cell[l][k].pool)
                        <= MemoryBlocks + (MaxRound + pool_block - 1) \div pool_block
    BY DEF RoundsFitMemory
  <2> DEFINE c == cell[l][k]
             p == Len(c.pool)
             m == Stored(l)
             r == MaxRound + pool_block - 1
             M == MemoryBlocks * pool_block
             K == p * pool_block
  <2>1. c \in CellType /\ FilledCell(c, l, m) /\ m \in Nat /\ owed \in Nat
    BY <1>2, StoredType DEF Inv, TypeOK, CellsFilled
  <2>2. /\ pool_block \in Nat \ {0} /\ MemoryBlocks \in Nat /\ r \in Nat /\ M \in Nat
        /\ MaxRound \in Nat
    BY Sizes, SessionAssumption
  <2>3. p \in Nat
    <3>1. c.pool \in Seq(Block)  BY <2>1 DEF CellType
    <3> QED BY <3>1
  <2>4. CASE l >= SinkSize
    <3>1. K <= Evicted(m)  BY <2>1, <2>4, PoolOfFilled
    <3>2. Evicted(m) + owed + Due(l) <= RoundLimit  BY <1>2, <2>4 DEF RoundBudget
    <3>3. Evicted(m) \in Nat /\ Due(l) \in Nat  BY <2>1, EvictedFacts DEF Due
    <3>4. RoundLimit = M + (pool_block - 1) + MaxRound  BY DEF RoundLimit
    <3>5. K \in Nat  BY <2>2, <2>3
    <3> HIDE DEF K, M, m
    <3>6. K <= M + r  BY <2>1, <2>2, <3>1, <3>2, <3>3, <3>4, <3>5
    <3> HIDE DEF p, r
    <3>7. p <= MemoryBlocks + r \div pool_block
      BY <2>2, <2>3, <3>6, BlocksOfRows DEF K, M
    <3> QED BY <3>7 DEF p, r
  <2>5. CASE l < SinkSize
    <3>1. p = 0  BY <2>1, <2>5, PoolOfFilled
    <3> HIDE DEF r
    <3>2. r \div pool_block \in Nat  BY <2>2, ModRange
    <3> QED BY <2>2, <3>1, <3>2 DEF r
  <2> QED BY <2>4, <2>5, CellAssumption DEF Layers
<1> QED BY <1>1, <1>2, BudgetStep, Filled, PTL DEF Spec

\* Once the guard has stopped a request the pool is too large for good.
Spent ==
    starved => /\ OverMemory
               /\ phase = "decode" => owed = 0 /\ layer = NLayers

\* Nothing takes a pooled block away.
LEMMA OverForGood == Inv /\ OverMemory /\ [Next]_vars => OverMemory'
<1> SUFFICES ASSUME Inv, OverMemory, [Next]_vars PROVE OverMemory'
  OBVIOUS
<1>1. CASE cell' = cell  BY <1>1 DEF OverMemory
<1>2. CASE Attend
  <2>1. PICK l \in Layers : \E k \in KvHeads : Len(cell[l][k].pool) > MemoryBlocks
    BY DEF OverMemory
  <2>2. PICK k \in KvHeads : Len(cell[l][k].pool) > MemoryBlocks  BY <2>1
  <2>3. TypeOK /\ cell[l][k] \in CellType /\ read \in Nat  BY DEF Inv, TypeOK
  <2>4. cell'[l][k] = cell[l][k]
        \/ (layer \in Nat /\ cell'[l][k] = StoreCell(cell[l][k], layer, read, read))
    <3>1. /\ layer \in Layers
          /\ \A j \in KvHeads : cell'[layer][j] = StoreCell(cell[layer][j], layer, read, read)
          /\ \A j \in Layers \ {layer} : cell'[j] = cell[j]
      BY <1>2, <2>3, AttendFacts
    <3>2. layer \in Nat  BY <3>1 DEF Layers
    <3>3. CASE l = layer  BY <3>1, <3>2, <3>3
    <3>4. CASE l # layer
      <4>1. l \in Layers \ {layer}  BY <3>4
      <4>2. cell'[l] = cell[l]  BY <3>1, <4>1
      <4>3. cell'[l][k] = cell[l][k]  BY ONLY <4>2
      <4> QED BY ONLY <4>3
    <3> QED BY <3>3, <3>4
  <2>5. Len(cell'[l][k].pool) >= Len(cell[l][k].pool)
    <3>1. cell[l][k].pool \in Seq(Block)  BY <2>3 DEF CellType
    <3>2. CASE cell'[l][k] = cell[l][k]  BY <3>1, <3>2
    <3>3. CASE layer \in Nat /\ cell'[l][k] = StoreCell(cell[l][k], layer, read, read)
      BY <2>3, <3>3, PoolGrows
    <3> QED BY <2>4, <3>2, <3>3
  <2>6. cell'[l][k].pool \in Seq(Block)
    <3>1. TypeOK'  BY <2>3, TypeStep
    <3> DEFINE d == cell'[l][k]
    <3>2. d \in CellType  BY <3>1 DEF TypeOK
    <3> HIDE DEF d
    <3>3. d.pool \in Seq(Block)  BY ONLY <3>2 DEF CellType
    <3> QED BY ONLY <3>3 DEF d
  <2>7. Len(cell'[l][k].pool) \in Nat /\ Len(cell[l][k].pool) \in Nat
    <3> DEFINE c == cell[l][k]
               d == cell'[l][k]
    <3>1. c \in CellType /\ d.pool \in Seq(Block)  BY <2>3, <2>6
    <3> HIDE DEF c, d
    <3>2. c.pool \in Seq(Block)  BY ONLY <3>1 DEF CellType
    <3>3. Len(c.pool) \in Nat /\ Len(d.pool) \in Nat  BY ONLY <3>1, <3>2
    <3> QED BY ONLY <3>3 DEF c, d
  <2>8. Len(cell'[l][k].pool) > MemoryBlocks
    BY <2>2, <2>5, <2>7, SessionAssumption
  <2> QED BY <2>8 DEF OverMemory
<1>3. Attend \/ cell' = cell
  BY DEF Next, vars, Generate, ReadPrompt, EndPrompt, Round, VerifyNext, Return, Forward
<1> QED BY <1>1, <1>2, <1>3

LEMMA SpentStep == Inv /\ Spent /\ [Next]_vars => Spent'
<1> SUFFICES ASSUME Inv, Spent, [Next]_vars, starved' PROVE
      /\ OverMemory'
      /\ phase' = "decode" => owed' = 0 /\ layer' = NLayers
  BY DEF Spent
<1>1. starved \in BOOLEAN /\ Idle /\ layer \in 0 .. NLayers  BY DEF Inv, TypeOK
<1>2. starved \/ (Return /\ OverMemory)
  <2>0. starved' = TRUE
    <3>1. TypeOK'  BY TypeStep DEF Inv
    <3>2. starved' \in BOOLEAN  BY <3>1 DEF TypeOK
    <3> QED BY <3>2, Zenon
  <2>1. CASE Return
    <3>1. CASE OverMemory  BY <2>1, <3>1
    <3>2. CASE ~ OverMemory
      <4>1. starved' = starved  BY <2>1, <3>2 DEF Return
      <4>2. starved = TRUE  BY <2>0, <4>1
      <4> QED BY <4>2
    <3> QED BY <3>1, <3>2
  <2>2. CASE UNCHANGED starved
    <3>1. starved = TRUE  BY <2>0, <2>2
    <3> QED BY <3>1
  <2>3. Return \/ UNCHANGED starved
    BY DEF Next, vars, Generate, ReadPrompt, EndPrompt, Round, VerifyNext, Attend
  <2> QED BY <2>1, <2>2, <2>3
<1>3. OverMemory  BY <1>2 DEF Spent
<1>4. OverMemory'  BY <1>3, OverForGood
<1>5. phase' = "decode" => owed' = 0 /\ layer' = NLayers
  <2> SUFFICES ASSUME phase' = "decode" PROVE owed' = 0 /\ layer' = NLayers
    OBVIOUS
  <2>1. CASE Return  BY <2>1 DEF Return
  <2>2. CASE EndPrompt  BY <1>1, <2>2 DEF EndPrompt, Idle, BetweenPasses
  <2>3. CASE starved /\ ~ Return /\ ~ EndPrompt
    <3>1. phase = "decode" => owed = 0 /\ layer = NLayers  BY <2>3 DEF Spent
    <3>2. ASSUME NEW n \in 1 .. MaxRound, Round(n) PROVE FALSE
      BY <1>3, <3>2 DEF Round
    <3>3. CASE VerifyNext  BY <3>1, <3>3 DEF VerifyNext
    <3>4. CASE Attend
      <4>1. layer < NLayers /\ phase = "decode"  BY <2>3, <3>4 DEF Attend
      <4> QED BY <4>1, <3>1, SessionAssumption
    <3>5. CASE UNCHANGED vars  BY <3>1, <3>5 DEF vars
    <3>6. CASE ReadPrompt  BY <3>6 DEF ReadPrompt
    <3>7. ASSUME NEW n \in 0 .. MaxPrompt, Generate(n) PROVE FALSE
      BY <3>7 DEF Generate
    <3> QED BY <2>3, <3>2, <3>3, <3>4, <3>5, <3>6, <3>7 DEF Next
  <2> QED BY <1>2, <2>1, <2>2, <2>3
<1> QED BY <1>4, <1>5

(* A request after the guard has stopped one reads its prompt and ends: it makes
   no pass of its own (engine.cpp:297, and no clear() anywhere). *)
THEOREM StarvedStays == Spec => StarvedForGood
<1>1. Init => Spent  BY DEF Init, Spent
<1>2. Inv /\ Spent /\ [Next]_vars => (starved /\ phase = "decode" => read' = read)
  <2> SUFFICES ASSUME Inv, Spent, [Next]_vars, starved, phase = "decode"
               PROVE  read' = read
    OBVIOUS
  <2>1. OverMemory /\ owed = 0  BY DEF Spent
  <2>2. ~ \E n \in 1 .. MaxRound : Round(n)  BY <2>1 DEF Round
  <2>3. ~ VerifyNext  BY <2>1 DEF VerifyNext
  <2>4. ~ ReadPrompt  BY DEF ReadPrompt
  <2> QED BY <2>2, <2>3, <2>4 DEF Next, vars, Generate, EndPrompt, Return, Attend
<1> QED BY <1>1, <1>2, SpentStep, Filled, PTL DEF Spec, StarvedForGood
=============================================================================
