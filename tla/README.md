# Verification of PocketForge

PocketForge runs a small transformer within a fixed memory budget: a quantizer tool writes
a model as a `.squeeze` file, an engine loads it and generates text with a bounded key/value
cache, layer skipping, weight prefetching and speculative decoding, and an HTTP server offers
the engine through an OpenAI-like interface. This directory holds TLA+ models of the code's
control and state, TLC configurations that check them on small instances, and TLAPS proofs
of their main properties for every value of their constants.

Paths below are relative to the repository root. `PROJECT.json` maps each definition to the
lines it models and lists runs, hazards, mutants, findings and theorems.

    tlc -workers 2 -config KVCache.cfg MCKVCache     # one run
    tlapm CacheProofs.tla                            # one module's proofs

## 1. The system

| component | state | operations | interacts with | what makes it correct |
|---|---|---|---|---|
| KV cache (`src/kv_cache.cpp`) | per (layer, head): sink rows, ring of recent rows, accumulator, pooled blocks, counts; `total_stored_` | `store`, `attention_scores`, `attention_weighted_sum`, `clear` | called by the engine in each layer | no row lost or duplicated on its way through the tiers; scores and values walked alike; `clear` forgets |
| Prefetch pipeline (`src/prefetch.cpp`) | slot buffer, request queue, `running_`, mutex and two condition variables, a worker thread | `start`, `stop`, `prefetch_layer`, `wait_for_block`, `try_get_block`, `release_block` | worker calls the weight loader; clients are the compute threads | no lost wake-up, no slot overwritten, `stop` ends, a wait ends |
| Generation loop (`src/engine.cpp`, `src/mtp.cpp`) | text, counts, limit, round of drafts, `hidden_valid_` | `generate` | forward pass, samplers, MTP heads, memory guard | only text enters the model; length and statistics; it returns |
| Layer skipping (`src/layer_skip.cpp`) | per layer cached input and output, mask; anchor count | `should_skip_ffn`, `record_layer_output`, `new_token`, `reset`, `set_threshold` | driven by the engine's loop over layers | a layer runs before it is first passed over, and often enough after |
| Tokenizer (`src/tokenizer.cpp`) | merge ranks, vocabulary | `encode`, `decode`, loaders | server, command line | merges as training order says; `encode` returns |
| Squeeze files (`src/quant_format.cpp`) | a file; the mapped file and its index | `quantize_matrix`, `write_squeeze`, `open`, `load_block`, `load_block_with_scales` | written by the quantizer tool, read by engine and pipeline | a file with an index is whole; what is loaded is what was stored |
| Quantizer tool (`src/quant_tool.cpp`) | list of converted tensors | `main` | GGUF reader, squeeze writer | order, chunks, offsets |
| HTTP server (`src/http_server.cpp`) | listening socket, one connection at a time | `run`, `handle_client` | clients; handlers of the API server | whole requests handled once, nobody left behind |
| Engine, loading and transformer pass (`src/engine.cpp`) | weights, buffers, memory statistics; a cache that outlives requests | `load_model`, `forward_with_hidden`, memory guard | everything above | what a layer is shown of the tokens, room for the scores, a guard that holds |
| API server, tool calls (`src/forge_server.cpp`, `include/forge/types.hpp`) | global engine and tokenizer; nothing of a conversation | handlers, `build_chat_prompt`, `detect_tool_call` | HTTP server, engine | every complete call found once; a call comes back into the next prompt as it was made |
| GGUF reader (`src/gguf_reader.cpp`) | metadata and tensor table | `open`, `read_tensor_data`, `dequantize_tensor` | quantizer tool | which bytes belong to which tensor |
| Kernels (`src/matmul_neon.cpp`), command line (`src/main.cpp`) | none | arithmetic; argument parsing | engine | – |

What is hard here: the interleavings of worker, owner and clients around the prefetch mutex and its
notifications outside the lock; rows that change tier over thousands of calls; the speculative
round, in which one place off lets a rejected draft into a cache that nothing is taken back
from; a writer cut short between two writes; requests that arrive in arbitrary pieces on a
server with one thread; state (`hidden_valid_`, the skip controller, the KV cache) that
survives from one request to the next; arguments of a tool call that cross four notations in
one turn of a conversation.

## 2. Modules

| modules | what they model |
|---|---|
| `KVCell`, `KVCache` | One (layer, head) cell as operators on a record, and the cache as a machine of `store` at any position and `clear`. A row is a name: its place in the stream of rows past the sink; a sum is the set of its summands. `Scored` and `Weighted` are the two attention walks. |
| `KVLog` | Abstract: each cell is a log; attention is shown means of completed old runs and the last rows. `KVCache` implements it (`ImplementsLog`), and it says what a layer past the sink is shown in `Session`. |
| `Session` | The engine over the cache: requests, passes, layers. It uses the cells of `KVCell`, with the layer number as the position (`src/engine.cpp:518`), no `clear` between requests, and the memory guard at the head of a round. What the tokens are is left to `Generate`; a token is its number. |
| `Prefetch` | Worker, owner and clients; a critical section is one action, a condition variable a wait set with notifications, spurious wake-ups and the worker's timeout. `CarefulSpec` restricts the clients to as many blocks in flight as there are slots. |
| `Generate` | `Engine::generate`: prompt loop, plain steps, speculative rounds; one action per forward pass. The logits (a greedy token and the set `sample` may return) and the drafts are free in each pass. |
| `Decode` | Abstract: text is read in order, a token is added when all is read, from what the model offered last. `Generate` implements it (`ImplementsDecode`). |
| `LayerSkip` | The controller and the loop that drives it. `AnySpec` lets anyone call anything, `CallerSpec` announces every pass with `new_token`, `EngineSpec` does what the engine does. |
| `BpeMerge` | `encode` and `bpe_merge`, one merge per step, over all small merge lists and texts; the reference is a direct definition that applies each merge to the whole text in turn. |
| `QuantLayout` | Where `quantize_matrix`, in one piece or in chunks, puts each weight and scale, and where the loader takes it from. Codes are names. |
| `Squeeze` | The tool's conversion, the writes of `write_squeeze` with a crash between any two, and the loader on what is left. zstd is external: a block compresses to any number of units, or does not compress, is stored as it is and loads as nothing. |
| `HttpServer` | The accept loop and `handle_client`, with clients that connect, send a piece and hang up at any moment. A request is a row of pieces; `read()` returns any number that has arrived. |
| `ToolCalls` | Tool calls as text: one round of `detect_tool_call` (`ScanStep`), the JSON of the arguments, `JsonValue::parse` reading it, and `build_chat_prompt` writing the call. Text is a row of tokens (tags, names, values); characters matter only where the JSON is built and read. |
| `Chat` | The handler of `/v1/chat/completions` and a client in a conversation with tools. The model writes any of the `Scripts`, cut off at any token, also within a name. |
| `Gguf` | `GGUFFile::open` after the metadata: the index into the map, an offset for each tensor in the order the map gives, and the bytes read for each. |
| `*Proofs` | Theorems. `CacheProofs` is about `KVCell` and its two clients `KVCache` and `Session`, `EngineProofs` about `Generate` and `LayerSkip`; the names of the clients differ so that one module can extend both. |
| `Lemmas` | What several proofs rest on: induction and recursion over numbers, upwards and downwards, quotients and remainders, parts of sequences. |
| `MC*` | The values of the constants for TLC. |

Definitions named `X_Suffix` just before `X` are plausible bugs, used to show that a property
would notice them; no specification uses them.

## 3. Runs

| run | instance | states | shows |
|---|---|---|---|
| `KVCache` | 1 cell, sink 2 of which 1 row is allocated, window 2, pool 2, context 7, 7 stores, 2 generations | 443,912 | tiers, equal walks, no stale rows, refinement of the log |
| `Session` | 4 layers, 2 of them below the sink, 2 heads, window 2, pool 2, context 7, 12 passes, prompts up to 3, rounds up to 3, memory for 1 block a cell | 397 | what each layer is shown, scores within their buffer, the memory guard |
| `PrefetchAny` | 2 clients, 2x2 blocks, 2 slots, one block that does not load, queue up to 2 | 662,944 | wake-ups, slots; `stop` ends |
| `PrefetchCareful` | 2 clients, 2x2 blocks, 3 slots | 45,700 | no request dropped, every wait ends |
| `Generate` | 2 tokens, 4 heads, prompts up to 1, limit up to 5, 2 calls | 548,173 | length, statistics, refinement of `Decode`, return |
| `LayerSkip` | 7 layers, interval 2, two thresholds, outputs near zero and far from it | 8,430 | nothing skipped before it has run, recompute interval |
| `BpeMerge` | 4 characters, 9 tokens, up to 3 merges, texts up to 5 | 177,174 | reference cut, return |
| `BpeMergeStuck` | one merge whose product is no token | violation | `encode` never returns |
| `Squeeze` | 1 layer of 1 matrix, embedding, output, 3 norms; 5 shapes, one that does not compress, Q8 and ternary | 833,344 | whole files, right weights and scales |
| `HttpServer` | 3 clients with bodies 0, 1, 3; headers 3, reads up to 2, backlog 2 | 66,694 | whole requests, no leak, everyone answered |
| `Chat` | 8 scripts of up to 3 pieces around calls, up to 2 calls of an answer, 2 answers, with and without tools, 3 policies | 13,204 | calls detected, calls that survive a turn |
| `Gguf` | files of up to 3 tensors, 3 types, 2 sizes, 0 to 2 dimensions | violation | the bytes of one tensor are read for another |

Why the bounds are enough. `KVCache`: seven stores past the sink fill the window, wrap the ring
twice and complete two pooled blocks, and `clear` comes at any point of that. `MaxStored` and
`MaxGen` bound the stores and clears; the sink is larger than its allocation, as the code
allows. `Prefetch`: two slots and two clients give the full buffer, the slot released
between the worker's two critical sections, and both sleeping at once; `MaxQueue` bounds
the queue and nothing is enqueued past it. `Generate`: four heads are the default, and a limit of five allows
a round that overshoots and a second that is not begun; the second call starts from the state the
first leaves (`MaxPrompt`, `MaxNew`, `MaxRequests`). `Session`: four tokens leave the window and fill a block,
eight fill two, so that a session gets past the context and past the memory limit, in a prompt and in
a round, and a request follows one that was stopped; two layers on either side of `sink_size` give
a sink row below, at and above a layer's own. Only the bounds on prompts, rounds and passes make the run
finite; the proofs do without. `LayerSkip`: seven layers have unprotected
layers on both sides of the middle's edge, and their attention outputs are such that only some can be taken for the zeros of a new controller. `Squeeze`: a matrix of more rows than a chunk, a
block cut short, rows of several whole blocks, and blocks stored uncompressed before and after others. `HttpServer`: headers and bodies end within a
read, on its edge and after it, and the backlog fills. `Chat`: the scripts have a call without a name,
a `<function` without a name near it, a parameter given twice, values with a quote, a backslash and a line
break, and more calls than `MaxCalls`; the second answer sees the calls of the first. `Gguf`: a file of two tensors
of different sizes is enough; three types are a plain one, a quantized one and one the reader does not
convert. `CHECK_DEADLOCK FALSE` is set
where the bounds, or the end of the work, stop the system.

Fairness. `Prefetch`: the worker's steps (its wait has a timeout, so it always comes back), the
owner's steps inside `stop`, and clients that were notified; nobody is obliged to make
a call. `CarefulSpec` adds that the owner starts the pipeline. `Generate` and `BpeMerge`: a running call
goes on. `HttpServer`: the server's thread goes on; `LiveSpec` adds `LiveClients`, that a
connected client sends or hangs up, which the code cannot enforce (there is no timeout) and
without which `EveryoneAnswered` is false. `KVCache`, `Session`, `LayerSkip`, `Squeeze`, `Chat` and
`Gguf` check safety only.

## 4. Proofs

Each holds for every value of the constants under the assumption named in its module
(`CellAssumption`, `CacheAssumption`, `PrefetchAssumption`, `GenerateAssumption`,
`LayerSkipAssumption`, `HttpServerAssumption`, `SessionAssumption`, `BpeAssumption`, `QuantLayoutAssumption`,
`SqueezeAssumption`, `ToolCallsAssumption`, `ChatAssumption`): sizes are natural numbers, where needed not zero. `QuantLayoutAssumption` has blocks of a multiple of four
weights and chunks of a multiple of a block's rows, as 32 and 1024 are. `SessionAssumption` also has what `load_model` sets up: no more sink positions than sink rows, a window no longer
than `kv_cache_size`, and a number of scores (4096 beyond the window) that the pool of `max_context` tokens does not exhaust.

- `CacheProofs`, the cache. `CacheTypeCorrect`: `CacheTypeOK` is inductive. `RowsKept`: `FifoTiers`, on top of it;
  the content of ring, accumulator and blocks is given by arithmetic on the length of the
  stream, so `store` is a matter of `(head + 1) % window` and of completed blocks. `ScoresPaired` needs only the types: each of the three tiers
  of the one walk is a prefix of the same tier of the other. `SinkNeverStale` adds `SinkFilled`: of a cell used in
  order, the rows counted are those written since the last `clear`. `LogImplemented` is the refinement of `KVLog`: what attention
  is shown is, by `TiersShow`, a function of the log, so a store maps to `Add`, a `clear` to `Forget`. The lemmas
  about one cell come first; the session's proofs rest on them as well.
- `CacheProofs`, the session. `Inv` joins `TypeOK`, `Begun` and `Idle` (a pass under way has been counted, only decoding owes
  passes) and `CellsFilled`: each cell is what `m` stores at one position make of a new cell, where `m` is the number of passes
  that have reached its layer. `Remembered` and `ScoresInside` follow from it; the
  latter turns blocks into rows and back by a product bound. `RoundsFit` adds `RoundBudget` (rows evicted
  and passes still owed stay below a sum the guard fixed when the round began), `StarvedStays` adds `Spent` (a pool once
  too large stays so, and a session that has been stopped owes nothing).
- `PrefetchProofs`. The inductive invariant `Inv` joins `TypeOK`, `HoldsRequest` (the worker
  has a request and a slot exactly in the states that use them), `SlotReserved`,
  `ThreadJoined`, `WorkerAwake` and `NoLostWakeup`. They lean on each other: that a slot the worker
  chose stays free needs that only the worker fills slots. `BlocksNotOverwritten` is the
  action property that follows. `CarefulClientsLoseNothing` adds `Fits`: occupied slots,
  queued requests and the one in the worker's hands are no more than the blocks in flight.
- `EngineProofs`. Of `Generate`: `IInv` adds to `TypeOK`: `Place` (how far the model has read, per phase),
  `Room` (what a round may still add) and `Counts` (a balance of accepted and rejected drafts
  against the others). `LengthBounded`, `StatisticsAgree` and the refinement `DecodeImplemented` follow.
  Of `LayerSkip`: `NothingSkippedUnseen` needs that a layer that has not run since construction or `reset`
  is still compared with zero (`Unseen`); `RecomputedInTime` needs `GapsAllowed`, which bounds the gap of a visited and of an unvisited layer by the anchor count.
- `HttpServerProofs`. `IInv` adds `Places` (backlog and current connection partition the open
  ones), `Fresh` (nothing called before it is closed), `Read` (at the handler's turn all has been read
  that will ever come) and `Quiet` (an idle client has sent nothing).
- `BpeMergeProofs`. `EncodingIsTheReference`: `BpeInv` says that what the reference makes of `symbols` is what it makes of
  `start`. The step is `RoundKeepsReference`: merging the first pair of lowest rank is the beginning of the reference's sweep of that rank
  (`SweptIs`, `SweepMerged`), and the sweeps of lower rank, before and after, find nothing to do. The hypothesis is `Trained(merges)`: no pair
  is given twice and no merge makes a part of a merge of lower rank. An earlier form, parts that are characters or earlier products,
  does not suffice, and the attempt to prove it showed why: with the merges 2 3, 1 2, 12 3, 4 123, 1 23 and the text 4 1 2 3, `encode` makes
  23, then 123 by the last merge, then 4123 by the one before it, for which the sweep in order comes too early: it ends with 4 and 123.
  The run's lists of three merges are too short for that.
- `SqueezeProofs`. The layout first: every byte is in one place of one block (`PlaceOf`, `LayoutAt`), so the layouts of chunks
  that end at block boundaries, one after the other, are the layout of the whole matrix (`ChunksAreWhole`); what the loader puts at place
  i of a Q8 or ternary matrix is weight i (`DequantizeQ8`, `DequantizeTernary`), and the blocks `RowOf` gives a row are its own when a row fills its
  blocks (`RowBlocks`). `SqueezeInv` joins `Phases`, `Converted` (the tensors converted so far are different ones, each with the layout of its whole matrix),
  `Writing` (each entry written, in memory or in the file, describes its block: `Describes`), `OnDisk` (a file left on the disk
  begins with a header that names no index, or is whole: `Committed`) and `Reading` (the index read is the file's, what was loaded is the block's, or nothing of one that
  zstd did not compress: `MadeOf`).
  The four properties of the run follow. The strengthening that matters is `Describes`: an entry points behind the header and before
  the index, so that neither the units written later nor the second header touch what it points to.
- `ChatProofs`. `CompleteCallsAreDetected`, for any scripts and any place where the output is cut off. The text first: `Places` gives each piece
  of the script its place in the output, whole, cut short or not begun, a name that stands last perhaps left open (`CutIs`, `PieceIs`). The inner loop
  then reads the parameters of a whole call one by one (`ParamStepReads`, `ParamsAre`). Of the outer loop `Scanning(s, k, ..)` is the invariant: the calls found
  are those made in the first k pieces, and between the position and the end of piece k there is no tag. A round comes to the
  next tag, whose piece is a stray one (`OverStray`) or a call, unnamed, cut short, past the limit or whole (`OverCall`); each moves the position forward or ends the scan (`ScanGoes`),
  so the rounds that `Scanned` has are enough (`DetectionIsRight`). The conversation around it needs only `ChatInv`: the output a cut of a script (`Settled`),
  answers and results counted (`TalkOK`), what is replied from the finished scan. `ChatTypeCorrect` follows from it too; that the number of calls without
  a result is never negative is `LeftOpenIs`. `CallsSurvive` is about the way back: `ArgsJsonIs` gives every parameter its place in the JSON,
  `PlainIsRead` that a literal without quote and backslash is read as it is, from its last character to its first, and `ReadsBack`, from the last
  member to the first, that `ReadMembers` undoes `ArgsJson`. `Remembered` adds to `ChatInv` that messages carry the JSON of the calls that were made
  (`Carried`), that the prompt was made of the first of them (`Shown`) and that the answer under way will carry them too (`Pending`). No bound on
  texts, parameters, calls or turns remains; commas and braces within a value are allowed.

Recursion and induction. Functions defined by recursion over numbers (`Symbols`, `After`, `Swept`, `Params`, `Scanned`, `CallsMade`, `FlattenSeq`) stand for
`CHOOSE`; `RecursionExists` shows that there is such a function and `Induct`, from the least element of a set of numbers, replaces the
library's induction rules, whose operator parameters the provers cannot instantiate. The readers of the JSON (`ReadString`, `ReadMembers`) run
the other way, from the end of the text down, and jump: `DescentExists` and `Descend` do the same for them.

Only model-checked: all liveness (`StopEnds`, `WaitsEnd`, `RequestEnds`, `EncodeEnds`,
`EveryoneAnswered`), which is out of the prover's reach together with `ENABLED`. Every invariant and action property that a passing run checks
is a theorem.

## 5. Disagreements between code and documentation

Shown by a run: `BpeMergeStuck`, `Gguf` (quotes in `PROJECT.json`). Shown by a property that
is stated in a module and that no run has; the counterexample appears with the configuration named:

- `RequestedBlockArrives` of `Prefetch`: `include/forge/prefetch.hpp` says of `wait_for_block` "Wait for a specific block to be
  ready and get it"; a full buffer drops the request and the client sleeps on. `MCPrefetch`, `Spec`,
  `Clients <- OneClient`, `NLayers = 2`, `NMatrices = 1`, `NSlots = 1`, `Missing <- NoneMissing`, `MaxQueue = 2`.
- `RecomputedWithinInterval` of `LayerSkip` under `EngineSpec`: the engine never calls `new_token`
  (`src/engine.cpp:530`), so that a layer may be skipped for ever. `MCLayerSkip`, `LayerSkip.cfg` with `SPECIFICATION EngineSpec`, `Thresholds <- Weak`.
- `Q4BlocksLoad` of `Squeeze`: the writer puts a scale before each Q4 and Q2 block and the loader takes the block for
  codes alone (`src/quant_format.cpp:324`). `Squeeze.cfg` with `Types <- OnlyQ4`.
- `UncompressedBlocksLoad` of `Squeeze`: where zstd fails, `compress_block` returns the block as it is, "fallback: store
  uncompressed" (`src/quant_format.cpp:165`), and nothing in the entry says so; both loaders decompress every block (`:292`, `:361`) and
  give nothing for it. `LoadsWhatWasStored` therefore speaks of the blocks that were compressed. `Squeeze.cfg` with `INVARIANTS UncompressedBlocksLoad`.
- `ComparesWithPreviousToken` of `LayerSkip`: `src/layer_skip.cpp:38` says "Compare with previous token's attention output at
  this layer" and `include/forge/layer_skip.hpp:15` speaks of the change "from previous token"; a pass that skips a layer records nothing, so the
  comparison is with the last token whose FFN ran (`include/forge/layer_skip.hpp:72` says "from previous token or last full compute", of the other cache). The input may drift by less than the
  threshold in every pass; only the anchor ends it. `LayerSkip.cfg` with `PROPERTY ComparesWithPreviousToken` instead of its invariants.
- `SinkKeepsFirstTokens` of `Session`: `include/forge/kv_cache.hpp:15` says of the sink "first 4 tokens (never evicted, int8)"; the engine passes
  the layer number as the position, so layers 0-3 keep one token, the last, and the others none in the sink. `Session.cfg` with this invariant.

Met while modelling and followed by the models as the code has them, or left out:

- Rows that have left the window wait in the accumulator until `pool_block` have gathered and
  are scored in no tier meanwhile (`src/kv_cache.cpp:89`; `include/forge/kv_cache.hpp:19` says attention
  covers all three tiers).
- A round begins with room for four tokens and emits up to `mtp_heads + 1`
  (`src/engine.cpp:305`): one more than `--tokens` with four heads.
- Accepted drafts are verified by one forward pass each (`src/engine.cpp:338`); `README.md` calls them free.
- The anchor's period is `skip_interval + 1` (`src/layer_skip.cpp:84`).
- Of the skip controller, `cached_hidden_` is written and read by nothing, a skipped FFN adds nothing to the residual (`src/engine.cpp:540`), `total_skipped()` is
  always 0, and the engine never calls `reset()`, so that the first pass of a request is compared with the one before it. A new controller
  compares with zeros, the output of no token: `SkippedAfterRun` is about outputs that are further from zero than a threshold reaches.
- The index of a squeeze file is at its end, not after the header as `include/forge/quant_format.hpp:13` draws it;
  a file whose writer died before the second header still opens (`src/quant_format.cpp:246`).
- `round(x + 0.5f)` makes 128 of the largest weight of a Q8 block (`src/quant_format.cpp:68`), and
  the tool divides by the scale where the GGUF reader multiplies
  (`src/quant_tool.cpp:433`, `src/gguf_reader.cpp:395`).
- A tensor of the GGUF reader needs its padded size inside the file, so the last one of a file without padding
  does not load (`src/gguf_reader.cpp:350`); metadata read past the end are zero and values of an unknown type are not stepped over; FP16
  subnormals come out wrong.
- `load_layer_weights()` and `load_weight_block()` (`src/engine.cpp:606`, `860`) are called by nothing: the projections are the
  placeholders that stand in for missing weights. The engine's prefetch of the next layer fills the slots once, and nothing takes
  or releases them.
- `attention_weighted_sum` writes at offset 0 of `attn_out_` for every head (`src/engine.cpp:771`): the heads overwrite each
  other, and head 0 loses its own term. A key is rotated once for each query head that shares it.
- `src/main.cpp:71` calls `set_max_context()` before `load_model()`, which overwrites the configuration, so `--ctx`
  has no effect, against the comment at `src/main.cpp:69`. Called after it, `set_max_context()` would resize the scores and not
  the cache; nothing does, and `Session` leaves it out.
- The memory budget counts a byte for each weight of an embedding table of floats, is halved once and not looked at again
  (`src/engine.cpp:55`, `121`); the branch that skips a table as too large is undone by a later `resize`; up to 32000 rows are
  read of a table of up to 16384 (`src/engine.cpp:573`). `src/forge_server.cpp:394` calls a `check_memory_budget()` that only reads.
- The last token of a prompt is forwarded twice: in the prompt loop and in the first round.
- Tool calls: quote, backslash and line break in a value do not survive a turn (`args_json` escapes nothing, `parse` drops the backslash
  and keeps the letter); a call without a name is passed over; "required" and a named function are read and
  not enforced; `tool_call_id` is ignored; ids are seconds, so two calls may share one; the finish reason of a
  text is always "length"; the sampling options are read and not used; `parse_tool_choice` is called by nothing.
- The loop of `parse_json` over an array does not move on at a character it does not expect (`src/http_server.cpp:65`);
  no modelled client sends such a body.
- `src/engine.cpp:181` uses `n_cols` of a `LoadResult`, which has no such member.

## 6. Not modelled

Floating-point kernels, norms, softmax and sampling arithmetic: the models leave their
results free or compare names. Of the engine, `load_model`, its fallbacks and the memory budget: they run once, before
anything else, and read files and numbers; what they set up is in the assumptions of the modules. The
command line (`src/main.cpp`), printing, the routes that only read, and the parsing of header lines. Malformed
requests, signals, `EINTR`, a failing `write`. GGUF metadata and the values of weights. The byte tables and `decode`
of the tokenizer. `step_mtp` and `speculative_accept` (`src/mtp.cpp`), which nothing calls.
`zstd`, the socket layer and the file system appear only as the code uses them; `ZSTD_decompress` is taken to fail
on a block that was stored as it is, which begins with a scale or codes and not with the mark of a zstd frame. A disk that fills up in the middle of
`write_squeeze` (whose `fwrite` results are ignored) is not modelled; a crash is.
In `Prefetch`, callers of `wait_for_block` may outlive `stop` asleep: the predicate does not look at
`running_`, so `WaitsEnd` is checked for owners that do not stop.

## 7. Plan

Done in this order: KV cache, prefetch pipeline, generation, layer skipping, tokenizer, squeeze files,
HTTP server; then the session over the cache, the chat with tools, the GGUF index, and the proofs of the
cache's refinement, of the session, of the tokenizer, of the squeeze files and of tool calls, found and carried through a turn. What could follow:

1. `QuantCodes`: quantize and load of one block on 8-bit values (`% 256`), against a nearest-code
   reference over all small weights.
2. A medium that fails in the middle of `write_squeeze` and writes again.
3. `load_model`, its fallbacks, and a pipeline that is replaced while its worker runs.
