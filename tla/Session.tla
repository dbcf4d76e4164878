------------------------------- MODULE Session -------------------------------
(* The engine over its key/value cache: the requests that Engine::generate()
   serves between load_model() and the end of the program, token by token and
   layer by layer, as far as compute_attention(), the score buffer and the
   memory guard see them.  What the tokens are is Generate's business; here a
   token is the number of forward passes begun, which is the name of the row it
   stores in every cell.

   forward_with_hidden() hands the layer number to compute_attention() as the
   position of the token, so that a layer below sink_size only ever writes the
   sink row of its own number, and every other layer stores each token past the
   sink.  Nothing is cleared between requests. *)
EXTENDS KVCell

CONSTANTS
    NLayers,       \* config_.n_layers
    NKvHeads,      \* config_.n_kv_heads
    KvCacheSize,   \* config_.kv_cache_size; the window is its minimum with 8192
    ScoreSlack,    \* 4096: scores_ has kv_cache_size + 4096 entries
    MemoryBlocks,  \* most pooled blocks per cell within max_memory
    MaxPrompt,     \* bound: tokens of a prompt
    MaxRound,      \* most forward passes of a round: 1 + mtp_heads
    MaxTokens      \* bound: forward passes of all requests

Layers  == 0 .. NLayers - 1
KvHeads == 0 .. NKvHeads - 1

\* The cache has 8 sink rows for a sink of 4; every layer has a position below
\* max_context; and scores_ is made for max_context (engine.cpp:116).
ASSUME SessionAssumption ==
    /\ NLayers \in Nat \ {0} /\ NKvHeads \in Nat \ {0}
    /\ MemoryBlocks \in Nat /\ MaxPrompt \in Nat /\ MaxRound \in Nat \ {0}
    /\ MaxTokens \in Nat
    /\ SinkSize <= SinkRows
    /\ KvCacheSize \in Nat /\ WindowSize <= KvCacheSize
    /\ ScoreSlack \in Nat
    /\ SinkSize < ScoreSlack /\ MaxContext - window_sz < ScoreSlack * pool_block
    /\ NLayers <= MaxContext

VARIABLES
    phase,     \* "idle", "prompt" or "decode": where generate() is
    unread,    \* prompt tokens not yet forwarded
    owed,      \* forward passes the current round still makes
    layer,     \* layer the current pass attends in next; NLayers between passes
    read,      \* forward passes begun since load_model()
    cell,      \* layers_[l][h] of the cache
    starved    \* history: a request has been stopped by the memory guard

vars == <<phase, unread, owed, layer, read, cell, starved>>

Init ==
    /\ phase = "idle" /\ unread = 0 /\ owed = 0
    /\ layer = NLayers /\ read = 0
    /\ cell = [l \in Layers |-> [k \in KvHeads |-> NewCell]]
    /\ starved = FALSE

-----------------------------------------------------------------------------
(* One pass: compute_attention() in every layer *)

\* Bug form: as long as the window it is named after.
ScoresLen_NoSlack == KvCacheSize

ScoresLen == KvCacheSize + ScoreSlack

\* Bug form: the last key/value head is left out.
KvStored_OneShort(l, row) ==
    [cell EXCEPT ![l] = [k \in KvHeads |->
        IF k < NKvHeads - 1 THEN StoreCell(@[k], l, row, row) ELSE @[k]]]

KvStored(l, row) ==
    [cell EXCEPT ![l] = [k \in KvHeads |-> StoreCell(@[k], l, row, row)]]

Attend ==
    /\ layer < NLayers
    /\ cell' = KvStored(layer, read)
    /\ layer' = layer + 1
    /\ UNCHANGED <<phase, unread, owed, read, starved>>

BetweenPasses == layer = NLayers
Forward == layer' = 0 /\ read' = read + 1 /\ UNCHANGED cell

-----------------------------------------------------------------------------
(* generate() *)

\* A call with a prompt of n tokens.
Generate(n) ==
    /\ phase = "idle" /\ read + n <= MaxTokens
    /\ phase' = "prompt" /\ unread' = n
    /\ UNCHANGED <<owed, layer, read, cell, starved>>

\* The prompt is read whatever memory is left.
ReadPrompt ==
    /\ phase = "prompt" /\ BetweenPasses /\ unread > 0
    /\ unread' = unread - 1
    /\ Forward
    /\ UNCHANGED <<phase, owed, starved>>

EndPrompt ==
    /\ phase = "prompt" /\ BetweenPasses /\ unread = 0
    /\ phase' = "decode"
    /\ UNCHANGED <<unread, owed, layer, read, cell, starved>>

\* get_memory_stats().total() > config_.max_memory: all else that is counted
\* was allocated by load_model() or stays once the prefetcher has filled it.
OverMemory == \E l \in Layers, k \in KvHeads : Len(cell[l][k].pool) > MemoryBlocks

AtLoopHead == phase = "decode" /\ BetweenPasses /\ owed = 0

\* Bug form: the guard is left out.
Round_Unguarded(n) ==
    /\ AtLoopHead /\ read + n <= MaxTokens
    /\ owed' = n - 1
    /\ Forward
    /\ UNCHANGED <<phase, unread, starved>>

\* A round of n passes: one, and one for each draft that is verified.
Round(n) ==
    /\ AtLoopHead /\ ~ OverMemory /\ read + n <= MaxTokens
    /\ owed' = n - 1
    /\ Forward
    /\ UNCHANGED <<phase, unread, starved>>

VerifyNext ==
    /\ phase = "decode" /\ BetweenPasses /\ owed > 0
    /\ owed' = owed - 1
    /\ Forward
    /\ UNCHANGED <<phase, unread, starved>>

\* max_new_tokens are there, or there is no memory for another round.
Return ==
    /\ AtLoopHead
    /\ phase' = "idle"
    /\ starved' \in IF OverMemory THEN {starved, TRUE} ELSE {starved}
    /\ UNCHANGED <<unread, owed, layer, read, cell>>

Next == \/ \E n \in 0 .. MaxPrompt : Generate(n)
        \/ ReadPrompt \/ EndPrompt
        \/ \E n \in 1 .. MaxRound : Round(n)
        \/ VerifyNext \/ Return
        \/ Attend
Spec == Init /\ [][Next]_vars

-----------------------------------------------------------------------------
TypeOK ==
    /\ phase \in {"idle", "prompt", "decode"}
    /\ unread \in 0 .. MaxPrompt /\ owed \in 0 .. MaxRound - 1
    /\ layer \in 0 .. NLayers /\ read \in Nat
    /\ cell \in [Layers -> [KvHeads -> CellType]]
    /\ starved \in BOOLEAN

\* Tokens a layer has stored: one more where the current pass has been.
Stored(l) == IF l < layer THEN read ELSE read - 1

History(l) == [i \in 1 .. Stored(l) |-> l]

\* The cells of the layers past the sink, as KVLog sees them.
Upper == {l \in Layers : l >= SinkSize} \X KvHeads
Log == INSTANCE KVLog WITH
    Cells <- Upper, log <- [c \in Upper |-> History(c[1])],
    shown <- [c \in Upper |-> PastEntries(cell[c[1]][c[2]])],
    Window <- window_sz, Run <- pool_block, First <- SinkSize, Bound <- MaxContext

(* What each layer attends to.  A layer past the sink is shown the tokens of all
   requests since the model was loaded, in the order they were forwarded, as
   KVLog says; a layer below sink_size is shown the last token alone, after a
   zero row for each layer below it (engine.cpp:518, 286). *)
LayersRemember ==
    \A l \in Layers, k \in KvHeads :
        LET c == cell[l][k]
        IN  IF l >= SinkSize
              THEN c.sink_count = 0 /\ PastEntries(c) = Log!Show(History(l))
              ELSE /\ Len(Scored(c)) = IF Stored(l) = 0 THEN 0 ELSE l + 1
                   /\ \A i \in DOMAIN Scored(c) :
                          Scored(c)[i].rows = {IF i = l + 1 THEN Stored(l) ELSE 0}

(* compute_attention() puts its own score after the scores of the cache.  Up to
   max_context tokens that is inside scores_; positions never advance, so that
   nothing ends the session there (engine.cpp:116, 765). *)
ScoresFit ==
    \A l \in Layers, k \in KvHeads :
        Stored(l) <= MaxContext => Len(Scored(cell[l][k])) < ScoresLen

(* Within a round no cell outgrows the memory limit by more than the blocks the
   passes of one round can fill; prompts have no such bound (engine.cpp:297). *)
RoundsFitMemory ==
    phase = "decode" /\ (owed > 0 \/ layer < NLayers) =>
        \A l \in Layers, k \in KvHeads :
            Len(cell[l][k].pool) <= MemoryBlocks + (MaxRound + pool_block - 1) \div pool_block

(* Memory once used up stays so: after a request has been stopped by the guard
   every later one reads its prompt and adds nothing, since generate() never
   clears the cache. *)
StarvedForGood == [][starved /\ phase = "decode" => read' = read]_vars

(* kv_cache.hpp:15 of the sink: "first 4 tokens (never evicted, int8)".  The
   engine passes the layer number for the position, so that it need not be so. *)
SinkKeepsFirstTokens ==
    \A l \in Layers, k \in KvHeads, t \in 1 .. SinkSize :
        t <= Stored(l) =>
            \E i \in DOMAIN Scored(cell[l][k]) : Scored(cell[l][k])[i].rows = {t}
=============================================================================
