------------------------------- MODULE Squeeze -------------------------------
(* forge-quant: the conversion of main() in quant_tool.cpp, write_squeeze(), which
   may be cut short between any two writes, and the WeightLoader that opens what
   is left on the disk.

   A file is a sequence of units: the header, the units of the compressed blocks
   and the entries of the index are units; offsets count units from 0.  zstd is
   external: ZSTD_compress() makes any number of units of a block, or fails, and
   ZSTD_decompress() undoes it on exactly those units. *)
EXTENDS QuantLayout, FiniteSets

CONSTANTS
    NLayers,    \* cfg.n_layers
    Matrices,   \* matrices per layer, 7 in the code
    Shapes,     \* what a tensor may be: n_rows, n_cols, units it compresses to,
                \* 0 of them where ZSTD_compress() fails
    Types       \* quantization types the command line may ask for

ASSUME SqueezeAssumption ==
    /\ NLayers \in Nat /\ Matrices \in 0 .. 7
    /\ Shapes \subseteq (Nat \ {0}) \X (Nat \ {0}) \X Nat
    /\ Types \subseteq QuantTypes

\* The tensors in the order main() stores them, as <<layer_id, matrix_id>>.
Embedding == <<0, 10>>
Output == <<0, 11>>
LayerTensors(l) == [m \in 1 .. Matrices |-> <<l - 1, m - 1>>]
NormTensors(l) == << <<l - 1, 7>>, <<l - 1, 8>> >>
Tensors == FlattenSeq([l \in 1 .. NLayers |-> LayerTensors(l)])
           \o <<Embedding, Output, <<0, 9>>>>
           \o FlattenSeq([l \in 1 .. NLayers |-> NormTensors(l)])
IsNorm(id) == id[2] \in 7 .. 9

VARIABLES
    phase,                   \* "convert", "data", "index", "header", "close"; then
                             \* "done", "failed" or "crashed"
    quant_type, embed_quant,
    next,                    \* the tensor to convert, then the block to write
    blocks, compressed_data, \* as main() hands them to write_squeeze()
    file, data_offset,       \* what was written, and where the next block goes
    written_blocks,
    disk,                    \* what a reader finds when the writer is gone
    loader, index_,          \* "closed", "open" or "garbage", and the index read
    loaded                   \* the last block loaded, with its scales per row

conversion == <<quant_type, embed_quant, blocks, compressed_data>>
writing == <<file, data_offset, written_blocks>>
reading == <<loader, index_, loaded>>
vars == <<phase, next, conversion, writing, disk, reading>>

Header(index_offset) ==
    [kind |-> "header", n_blocks |-> Len(blocks), index_offset |-> index_offset]
NothingLoaded == [id |-> <<0, 0>>, data |-> <<>>, row_scales |-> <<>>]

Init ==
    /\ phase = "convert" /\ next = 1
    /\ quant_type \in Types /\ embed_quant \in Types
    /\ blocks = <<>> /\ compressed_data = <<>>
    /\ file = <<>> /\ data_offset = 0 /\ written_blocks = <<>>
    /\ disk = <<>>
    /\ loader = "closed" /\ index_ = <<>> /\ loaded = NothingLoaded
-----------------------------------------------------------------------------
\* A tensor that is not in the model, cannot be read or, for embedding and
\* output, is not Q8_0 is left out.
Missing_KeepEntry ==
    /\ phase = "convert" /\ next <= Len(Tensors)
    /\ next' = next + 1
    /\ blocks' = Append(blocks, [kind |-> "entry", id |-> Tensors[next], n_rows |-> 1, n_cols |-> 1,
                    quant_type |-> quant_type, original_size |-> 0, compressed_size |-> 0, offset |-> 0])
    /\ UNCHANGED <<phase, quant_type, embed_quant, compressed_data, writing, disk, reading>>

Missing ==
    /\ phase = "convert" /\ next <= Len(Tensors)
    /\ next' = next + 1
    /\ UNCHANGED <<phase, conversion, writing, disk, reading>>

\* A block that does not compress is handed over as it is, and nothing marks it.
compress_block(raw, size) ==
    [raw |-> raw, size |-> IF size = 0 THEN Len(raw) ELSE size, packed |-> size # 0]

Convert(n_rows, n_cols, size) ==
    LET id == Tensors[next]
        type == IF id = Embedding THEN embed_quant ELSE quant_type
        raw == IF id \in {Embedding, Output}
               THEN quantize_chunks(type, n_rows, n_cols)
               ELSE quantize_matrix(type, 0, n_rows * n_cols)
        stored == compress_block(raw, size)
    IN  /\ phase = "convert" /\ next <= Len(Tensors)
        /\ IsNorm(id) => n_rows = 1
        /\ blocks' = Append(blocks,
                [kind |-> "entry", id |-> id, n_rows |-> n_rows, n_cols |-> n_cols,
                 quant_type |-> type, original_size |-> Len(raw),
                 compressed_size |-> stored.size, offset |-> 0])
        /\ compressed_data' = Append(compressed_data, stored)
        /\ next' = next + 1
        /\ UNCHANGED <<phase, quant_type, embed_quant, writing, disk, reading>>

\* fopen() truncates what was there; when it fails nothing is written.
WriteHeader ==
    /\ phase = "convert" /\ next > Len(Tensors)
    /\ phase' = "data" /\ next' = 1
    /\ file' = <<Header(0)>> /\ data_offset' = 1 /\ written_blocks' = <<>>
    /\ UNCHANGED <<conversion, disk, reading>>

CannotOpen ==
    /\ phase = "convert" /\ next > Len(Tensors)
    /\ phase' = "failed"
    /\ UNCHANGED <<next, conversion, writing, disk, reading>>

\* A block is entered in the index where the one after it will be.
WriteBlock_NextOffset ==
    LET size == compressed_data[next].size
    IN  /\ phase = "data" /\ next <= Len(blocks)
        /\ written_blocks' = Append(written_blocks,
               [blocks[next] EXCEPT !.offset = data_offset + size, !.compressed_size = size])
        /\ file' = file \o [k \in 1 .. size |-> [kind |-> "data", block |-> next, at |-> k]]
        /\ data_offset' = data_offset + size
        /\ next' = next + 1
        /\ UNCHANGED <<phase, conversion, disk, reading>>

WriteBlock ==
    LET size == compressed_data[next].size
    IN  /\ phase = "data" /\ next <= Len(blocks)
        /\ written_blocks' = Append(written_blocks,
               [blocks[next] EXCEPT !.offset = data_offset, !.compressed_size = size])
        /\ file' = file \o [k \in 1 .. size |-> [kind |-> "data", block |-> next, at |-> k]]
        /\ data_offset' = data_offset + size
        /\ next' = next + 1
        /\ UNCHANGED <<phase, conversion, disk, reading>>

WriteIndex ==
    /\ phase = "data" /\ next > Len(blocks)
    /\ phase' = "header"
    /\ file' = file \o written_blocks
    /\ UNCHANGED <<next, conversion, data_offset, written_blocks, disk, reading>>

\* fseek() has flushed everything before it; header.index_offset is data_offset.
RewriteHeader ==
    /\ phase = "header"
    /\ phase' = "close"
    /\ file' = [file EXCEPT ![1] = Header(data_offset)]
    /\ UNCHANGED <<next, conversion, data_offset, written_blocks, disk, reading>>

CloseFile ==
    /\ phase = "close"
    /\ phase' = "done" /\ disk' = file
    /\ UNCHANGED <<next, conversion, writing, reading>>

\* The process ends before fclose().  Buffered writes reach the file in order: a
\* part of them is there, and once fseek() has been called all but the header's
\* second version, which may be.
Crash ==
    /\ \/ /\ phase \in {"data", "header"}
          /\ \E k \in 0 .. Len(file) : disk' = SubSeq(file, 1, k)
       \/ /\ phase = "close"
          /\ disk' \in {file, [file EXCEPT ![1] = Header(0)]}
    /\ phase' = "crashed"
    /\ UNCHANGED <<next, conversion, writing, reading>>
-----------------------------------------------------------------------------
\* The reader comes when the writer is gone.
Readable == phase \in {"done", "crashed"} /\ loader = "closed"

\* mmap() of an empty file fails and open() returns FALSE.  The magic is that of
\* the first header written, whose index_offset is 0: the index is then read
\* from the header's own bytes, and what it holds is not described.
Open ==
    /\ Readable /\ disk # <<>>
    /\ LET first == disk[1].index_offset IN
         \/ first # 0 /\ loader' = "open"
            /\ index_' = SubSeq(disk, first + 1, first + disk[1].n_blocks)
         \/ first = 0 /\ loader' = "garbage" /\ index_' = <<>>
    /\ UNCHANGED <<phase, next, conversion, writing, disk, loaded>>

\* The first entry of the index with this id, if any.
Entry(id) == SelectInSeq(index_, LAMBDA blk : blk.id = id)

\* ZSTD_decompress() of the units an entry points to.  It fails on a block stored
\* as it is, which begins with a scale or with codes and not with a zstd frame.
Decompressed(blk) ==
    LET units == SubSeq(disk, blk.offset + 1, blk.offset + blk.compressed_size)
        b == units[1].block
    IN  IF /\ \A k \in 1 .. Len(units) : units[k].kind = "data" /\ units[k].block = b /\ units[k].at = k
           /\ Len(units) = compressed_data[b].size /\ Len(compressed_data[b].raw) <= blk.original_size
           /\ compressed_data[b].packed
        THEN compressed_data[b].raw ELSE <<>>

LoadedData(blk) ==
    LET raw == Decompressed(blk)
    IN  IF raw = <<>> THEN <<>> ELSE dequantize(blk.quant_type, raw, blk.n_rows * blk.n_cols)

\* load_block() reports a scale of its own, which nothing relates to the file.
load_block(id) ==
    /\ loader = "open"
    /\ loaded' = [id |-> id, row_scales |-> <<>>,
                  data |-> IF Entry(id) = 0 THEN <<>> ELSE LoadedData(index_[Entry(id)])]
    /\ UNCHANGED <<phase, next, conversion, writing, disk, loader, index_>>

load_block_with_scales(id) ==
    LET blk == index_[Entry(id)] IN
    /\ loader = "open" /\ Entry(id) # 0
    /\ loaded' = [id |-> id, data |-> LoadedData(blk),
                  row_scales |-> IF blk.quant_type # Q8 \/ Decompressed(blk) = <<>> THEN <<>>
                                 ELSE row_scales(Decompressed(blk), blk.n_rows, blk.n_cols)]
    /\ UNCHANGED <<phase, next, conversion, writing, disk, loader, index_>>

Tool ==
    \/ Missing
    \/ \E shape \in Shapes : Convert(shape[1], shape[2], shape[3])
    \/ WriteHeader \/ CannotOpen \/ WriteBlock \/ WriteIndex \/ RewriteHeader \/ CloseFile \/ Crash
Reader == Open \/ \E id \in ToSet(Tensors) : load_block(id) \/ load_block_with_scales(id)
Next == Tool \/ Reader
Spec == Init /\ [][Next]_vars
-----------------------------------------------------------------------------
TypeOK ==
    /\ phase \in {"convert", "data", "header", "close", "done", "failed", "crashed"}
    /\ quant_type \in Types /\ embed_quant \in Types
    /\ next \in 1 .. Len(Tensors) + 1
    /\ Len(blocks) = Len(compressed_data)
    /\ \A b \in 1 .. Len(blocks) : blocks[b].original_size = Len(compressed_data[b].raw)
    /\ phase = "data" => Len(written_blocks) = next - 1 /\ data_offset = Len(file)
    /\ loader \in {"closed", "open", "garbage"}

\* The order of the writes makes the second header a commit: a file whose header
\* names an index has all of it and of the data, each entry pointing at the
\* units of its own block, however the writer ended; a finished file has it.
IndexedFileIsWhole ==
    LET first == disk[1].index_offset IN
    /\ phase = "done" => first # 0
    /\ disk # <<>> /\ first # 0 =>
          /\ Len(disk) = first + Len(blocks)
          /\ \A b \in 1 .. Len(blocks) :
                LET e == disk[first + b] IN
                /\ e.id = blocks[b].id /\ e.quant_type = blocks[b].quant_type
                /\ SubSeq(disk, e.offset + 1, e.offset + e.compressed_size)
                     = [k \in 1 .. compressed_data[b].size |-> [kind |-> "data", block |-> b, at |-> k]]

\* What the reader takes for weight i is what the converter stored as weight i,
\* in matrices quantized whole or chunk by chunk (Q8 and ternary).  Nothing is
\* loaded of a tensor that was left out, nor of one whose block is stored as it
\* is: compress_block() falls back to that, and the loader knows of no such block.
StoredIds == {blocks[b].id : b \in 1 .. Len(blocks)}
PackedIds == {blocks[b].id : b \in {c \in 1 .. Len(blocks) : compressed_data[c].packed}}
LoadedIs(type) ==
    \A b \in 1 .. Len(blocks) :
       loaded.data # <<>> /\ blocks[b].id = loaded.id /\ blocks[b].quant_type = type =>
           loaded.data = WeightsInPlace(blocks[b].n_rows * blocks[b].n_cols)
LoadsWhatWasStored ==
    /\ LoadedIs(Q8) /\ LoadedIs(Ternary)
    /\ loaded # NothingLoaded => (loaded.data = <<>> <=> loaded.id \notin PackedIds)

\* Rows of whole blocks get the scales of their own blocks, all of them.
RowsGetTheirScales ==
    \A b \in 1 .. Len(blocks) :
       /\ blocks[b].id = loaded.id /\ blocks[b].n_cols % Block = 0
       /\ loaded.row_scales # <<>>
       => \A row \in 0 .. blocks[b].n_rows - 1 :
             loaded.row_scales[row] = ScalesOfRow(row, blocks[b].n_cols)

\* matmul_neon.cpp:35, "Q4: each byte has 2 values: low nibble = val0, high nibble
\* = val1": the bytes read so are those written so.
Q4BlocksLoad == LoadedIs(Q4)

\* quant_format.cpp:165, "fallback: store uncompressed": such a block is stored, so
\* that loading it gives its weights.
UncompressedBlocksLoad ==
    loaded # NothingLoaded /\ loaded.id \in StoredIds => loaded.data # <<>>
=============================================================================
