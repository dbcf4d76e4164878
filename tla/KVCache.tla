------------------------------- MODULE KVCache -------------------------------
(* The three-tier key/value cache of kv_cache.cpp as a state machine: every
   (layer, head) cell, the shared total_stored_, and the calls store() and
   clear().  attention_scores and attention_weighted_sum only read; they are the
   operators Scored and Weighted of KVCell.

   Rows are stored at any position, as store() allows.  The use the header
   describes stores the rows of a cell at positions 0, 1, 2, ... after each
   clear(); inorder remembers which cells have been used so. *)
EXTENDS KVCell

CONSTANTS
    Cells,       \* the (layer, head) pairs below n_layers and n_kv_heads
    MaxStored,   \* bound: stores into one cell between two clear() calls
    MaxGen       \* bound: generations of the cache, so MaxGen - 1 clear() calls

ASSUME CacheAssumption == MaxStored \in Nat /\ MaxGen \in Nat \ {0}

VARIABLES
    cells,         \* layers_[l][h]
    total_stored,  \* total_stored_
    gen,           \* history: 1 + number of clear() calls
    stored,        \* history: stores into each cell since the last clear()
    inorder,       \* history: the cells used in order since the last clear()
    past           \* history: positions of the rows stored past the sink since
                   \* the last clear(), oldest first; row k is its k-th element

cacheVars == <<cells, total_stored, gen, stored, inorder, past>>

CacheInit ==
    /\ cells = [c \in Cells |-> NewCell]
    /\ total_stored = 0
    /\ gen = 1
    /\ stored = [c \in Cells |-> 0]
    /\ inorder = Cells
    /\ past = [c \in Cells |-> <<>>]

\* store(layer, head, pos, key, value); a call with pos >= max_context or an
\* unknown cell returns at once.
Store(c, pos) ==
    /\ pos < MaxContext
    /\ stored[c] < MaxStored
    /\ cells' = [cells EXCEPT ![c] = StoreCell(@, pos, Len(past[c]) + 1, gen)]
    /\ total_stored' = IF pos >= total_stored THEN pos + 1 ELSE total_stored
    /\ stored' = [stored EXCEPT ![c] = @ + 1]
    /\ inorder' = IF pos = stored[c] THEN inorder ELSE inorder \ {c}
    /\ past' = IF pos < SinkSize THEN past ELSE [past EXCEPT ![c] = Append(@, pos)]
    /\ UNCHANGED gen

Clear ==
    /\ gen < MaxGen
    /\ cells' = [c \in Cells |-> ClearCell(cells[c])]
    /\ total_stored' = 0
    /\ gen' = gen + 1
    /\ stored' = [c \in Cells |-> 0]
    /\ inorder' = Cells
    /\ past' = [c \in Cells |-> <<>>]

CacheNext == (\E c \in Cells, pos \in Positions : Store(c, pos)) \/ Clear
CacheSpec == CacheInit /\ [][CacheNext]_cacheVars

-----------------------------------------------------------------------------
(* Types: in particular no store ever counts a sink row past the allocated rows,
   moves the head out of the ring or counts more rows than the ring has. *)
CacheTypeOK ==
    /\ cells \in [Cells -> CellType]
    /\ total_stored \in Nat
    /\ gen \in 1 .. MaxGen
    /\ stored \in [Cells -> Nat]
    /\ inorder \subseteq Cells
    /\ past \in [Cells -> Seq(Nat)]

(* Every row stored past the sink since the last clear() is in exactly one
   place, first in first out: the oldest in pooled blocks of exactly pool_block
   rows, then fewer than pool_block rows in the accumulator, then the ring. *)
FifoTiers == \A c \in Cells : CellTiers(cells[c], past[c])

-----------------------------------------------------------------------------
(* What attention makes of it *)

(* attention_weighted_sum walks the tiers on its own: for every count it pairs
   each score with the value row whose key attention_scores scored. *)
ScoresPairWithValues ==
    \A c \in Cells :
        LET s == Scored(cells[c])
        IN  \A count \in 0 .. Len(s) : Weighted(cells[c], count) = SubSeq(s, 1, count)

(* In a cell used in order no sink row of an earlier generation, and no zero row
   of the constructor, is scored after a clear(). *)
SinkRowsFresh ==
    \A c \in inorder : \A p \in 0 .. cells[c].sink_count - 1 : cells[c].sink[p] = gen

-----------------------------------------------------------------------------
(* The cache implements the abstract log of KVLog: the rows past the sink are a
   plain log, and attention is shown its means and its last rows. *)
CacheLog == INSTANCE KVLog WITH
                log <- past,
                shown <- [c \in Cells |-> PastEntries(cells[c])],
                Window <- window_sz, Run <- pool_block,
                First <- SinkSize, Bound <- MaxContext
ImplementsLog == CacheLog!Spec
=============================================================================
