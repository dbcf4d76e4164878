------------------------------- MODULE KVCell -------------------------------
(* One (layer, head) cell of the three-tier key/value cache: the HeadCache
   record of kv_cache.hpp and the per-cell work of KVCache::store,
   attention_scores, attention_weighted_sum and clear in kv_cache.cpp.

   A row (a quantized key and value) is abstracted to a name:
     - a row of the sink is known by its position, so its slot keeps only the
       generation of the cache (the number of clear() calls, from 1) it was
       written in, and 0 when it still is the zero row of the constructor;
     - a row stored past the sink is its index in the stream of such rows
       since the last clear(), from 1; 0 is the zero row.
   A sum of rows is the set of its summands, and a pooled block is such a sum
   with the number it was divided by. *)
EXTENDS Integers, Sequences

CONSTANTS
    SinkSize,     \* cfg_.sink_size
    SinkRows,     \* rows the constructor allocates for the sink: 8
    WindowSize,   \* cfg_.window_size
    PoolBlock,    \* cfg_.pool_block
    MaxContext    \* cfg_.max_context

ASSUME CellAssumption ==
    /\ SinkSize \in Nat
    /\ SinkRows \in Nat
    /\ WindowSize \in Nat \ {0}
    /\ PoolBlock \in Nat
    /\ MaxContext \in Nat \ {0}

window_sz  == IF WindowSize <= MaxContext THEN WindowSize ELSE MaxContext
pool_block == IF PoolBlock >= 1 THEN PoolBlock ELSE 1

SinkSlots   == 0 .. SinkRows - 1
WindowSlots == 0 .. window_sz - 1
Positions   == 0 .. MaxContext - 1

NewCell ==
    [sink |-> [p \in SinkSlots |-> 0], sink_count |-> 0,
     win |-> [s \in WindowSlots |-> 0], win_pos |-> [s \in WindowSlots |-> 0],
     win_head |-> 0, win_count |-> 0,
     pool |-> <<>>,
     acc |-> {}, acc_count |-> 0, acc_start |-> 0]

-----------------------------------------------------------------------------
(* store() *)

\* Bug form of StoreSink: one row too many is counted.
StoreSink_OffByOne(c, pos, gen) ==
    IF pos <= SinkRows
      THEN [c EXCEPT !.sink[pos] = gen,
                     !.sink_count = IF pos >= @ THEN pos + 1 ELSE @]
      ELSE c

\* Positions between the allocated rows and sink_size fall through: no tier
\* takes them.
StoreSink(c, pos, gen) ==
    IF pos < SinkRows
      THEN [c EXCEPT !.sink[pos] = gen,
                     !.sink_count = IF pos >= @ THEN pos + 1 ELSE @]
      ELSE c

\* Add the oldest row of the full window to the accumulator.
Accumulate(c) ==
    [c EXCEPT !.acc_start = IF c.acc_count = 0 THEN c.win_pos[c.win_head] ELSE @,
              !.acc = @ \cup {c.win[c.win_head]},
              !.acc_count = @ + 1]

\* Bug form of Finalize: the count is not reset with the sum.
Finalize_KeepCount(c, evict_pos) ==
    IF c.acc_count >= pool_block
      THEN [c EXCEPT !.pool = Append(@, [start |-> c.acc_start, end |-> evict_pos,
                                         rows |-> c.acc, div |-> c.acc_count]),
                     !.acc = {}]
      ELSE c

\* Turn a full accumulator into a pooled block that ends at evict_pos.
Finalize(c, evict_pos) ==
    IF c.acc_count >= pool_block
      THEN [c EXCEPT !.pool = Append(@, [start |-> c.acc_start, end |-> evict_pos,
                                         rows |-> c.acc, div |-> c.acc_count]),
                     !.acc = {}, !.acc_count = 0]
      ELSE c

Evict(c) == Finalize(Accumulate(c), c.win_pos[c.win_head])

\* Bug form of Put: the head runs out of the ring.
Put_NoWrap(c, pos, row) ==
    [c EXCEPT !.win[c.win_head] = row,
              !.win_pos[c.win_head] = pos,
              !.win_head = @ + 1]

\* Overwrite the slot at the head and move the head on.
Put(c, pos, row) ==
    [c EXCEPT !.win[c.win_head] = row,
              !.win_pos[c.win_head] = pos,
              !.win_head = (@ + 1) % window_sz]

StoreWindow(c, pos, row) ==
    IF c.win_count >= window_sz
      THEN Put(Evict(c), pos, row)
      ELSE [Put(c, pos, row) EXCEPT !.win_count = @ + 1]

StoreCell(c, pos, row, gen) ==
    IF pos < SinkSize THEN StoreSink(c, pos, gen) ELSE StoreWindow(c, pos, row)

-----------------------------------------------------------------------------
(* clear(): the counts go to zero, the sink and window arrays keep their
   bytes, and so does acc_start. *)

\* Bug form: the sink count survives.
ClearCell_KeepSink(c) ==
    [c EXCEPT !.win_count = 0, !.win_head = 0,
              !.pool = <<>>, !.acc = {}, !.acc_count = 0]

ClearCell(c) ==
    [c EXCEPT !.sink_count = 0, !.win_count = 0, !.win_head = 0,
              !.pool = <<>>, !.acc = {}, !.acc_count = 0]

-----------------------------------------------------------------------------
(* The two walks over the cell that attention makes.  An entry names the tier,
   the first and last position it stands for, and what it holds. *)

SinkEntry(c, p) == [tier |-> "sink", lo |-> p, hi |-> p, rows |-> {c.sink[p]}, div |-> 1]
PoolEntry(c, i) == [tier |-> "pool", lo |-> c.pool[i].start, hi |-> c.pool[i].end,
                    rows |-> c.pool[i].rows, div |-> c.pool[i].div]
WindowEntry(c, s) == [tier |-> "window", lo |-> c.win_pos[s], hi |-> c.win_pos[s],
                      rows |-> {c.win[s]}, div |-> 1]

\* Bug form of LogicalSlot: the ring is read from slot 0.
LogicalSlot_Raw(c, i) == i

\* Slot of the i-th oldest row of the window, i from 0.
LogicalSlot(c, i) ==
    IF c.win_count < window_sz THEN i ELSE (c.win_head + i) % window_sz

\* What attention_scores scores, in the order of scores_out.
Scored(c) ==
    [p \in 1 .. c.sink_count |-> SinkEntry(c, p - 1)]
    \o [i \in 1 .. Len(c.pool) |-> PoolEntry(c, i)]
    \o [i \in 1 .. c.win_count |-> WindowEntry(c, LogicalSlot(c, i - 1))]

\* What stands there past the sink, without the name of its tier.
PastEntries(c) == [i \in 1 .. Len(c.pool) + c.win_count |->
                      LET e == Scored(c)[c.sink_count + i]
                      IN  [lo |-> e.lo, hi |-> e.hi, rows |-> e.rows, div |-> e.div]]

\* Bug form of Weighted: the window before the pooled history, as the tiers are
\* numbered.
Weighted_TierOrder(c, count) ==
    LET all == [p \in 1 .. c.sink_count |-> SinkEntry(c, p - 1)]
               \o [i \in 1 .. c.win_count |-> WindowEntry(c, LogicalSlot(c, i - 1))]
               \o [i \in 1 .. Len(c.pool) |-> PoolEntry(c, i)]
    IN  SubSeq(all, 1, count)

\* The value rows attention_weighted_sum adds up for scores[0 .. count-1], in
\* the order it takes the scores: each tier stops when idx reaches count.
Weighted(c, count) ==
    LET AtMost(n, used) == IF n + used <= count THEN n
                           ELSE IF used <= count THEN count - used ELSE 0
        sinks == AtMost(c.sink_count, 0)
        pools == AtMost(Len(c.pool), sinks)
        wins  == AtMost(c.win_count, sinks + pools)
    IN  [p \in 1 .. sinks |-> SinkEntry(c, p - 1)]
        \o [i \in 1 .. pools |-> PoolEntry(c, i)]
        \o [i \in 1 .. wins |-> WindowEntry(c, LogicalSlot(c, i - 1))]
-----------------------------------------------------------------------------
(* What a cell is, and where the rows past the sink are in one that has stored
   them at the positions of the log h since the last clear(): row k is h[k]. *)

Block == [start : Nat, end : Nat, rows : SUBSET Nat, div : Nat]

CellType ==
    [sink : [SinkSlots -> Nat], sink_count : 0 .. SinkRows,
     win : [WindowSlots -> Nat], win_pos : [WindowSlots -> Nat],
     win_head : WindowSlots, win_count : 0 .. window_sz,
     pool : Seq(Block),
     acc : SUBSET Nat, acc_count : Nat, acc_start : Nat]

\* Rows the ring has evicted when n rows have been stored past the sink.
Evicted(n) == IF n <= window_sz THEN 0 ELSE n - window_sz

\* The ring holds the latest rows, at the slot their index says.
RingHolds(c, h) ==
    LET n == Len(h) IN
    /\ c.win_count = n - Evicted(n)
    /\ c.win_head = n % window_sz
    /\ \A k \in Evicted(n) + 1 .. n :
         /\ c.win[(k - 1) % window_sz] = k
         /\ c.win_pos[(k - 1) % window_sz] = h[k]

\* The i-th pooled block is the mean of the i-th run of pool_block rows.
BlockHolds(b, i, h) ==
    /\ b.rows = (i - 1) * pool_block + 1 .. i * pool_block
    /\ b.div = pool_block
    /\ b.start = h[(i - 1) * pool_block + 1]
    /\ b.end = h[i * pool_block]

PoolHolds(c, h) == \A i \in 1 .. Len(c.pool) : BlockHolds(c.pool[i], i, h)

\* The accumulator is the evicted rows no finished block has taken.
AccHolds(c, h) ==
    LET pooled == Len(c.pool) * pool_block IN
    /\ pooled + c.acc_count = Evicted(Len(h))
    /\ c.acc_count < pool_block
    /\ c.acc = pooled + 1 .. Evicted(Len(h))
    /\ c.acc_count > 0 => c.acc_start = h[pooled + 1]

CellTiers(c, h) == RingHolds(c, h) /\ PoolHolds(c, h) /\ AccHolds(c, h)
=============================================================================
