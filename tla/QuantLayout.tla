----------------------------- MODULE QuantLayout -----------------------------
(* The bytes Quantizer::quantize_matrix() lays a matrix out in, and the place in
   the matrix where WeightLoader puts each of them again.

   A code stands for what it encodes: <<"weight", i>> for weight i in row-major
   order, <<"scale", b>> for the scale of the weights from b * Block on, <<"pad", 0>>
   for padding.  A byte is the sequence of the codes packed in it, low bits first. *)
EXTENDS Integers, Sequences, SequencesExt

CONSTANTS
    Block,        \* weights per block, 32 in the code
    ScaleBytes,   \* sizeof(float)
    ChunkRows     \* CHUNK_ROWS, rows of an embedding quantized at a time

ASSUME QuantLayoutAssumption ==
    /\ Block \in Nat \ {0} /\ Block % 4 = 0
    /\ ScaleBytes \in Nat \ {0}
    /\ ChunkRows \in Nat \ {0} /\ ChunkRows % Block = 0

Q8 == 0
Q4 == 1
Q2 == 2
Ternary == 3
QuantTypes == Q8 .. Ternary

PerByte(type) == CASE type = Q8 -> 1 [] type = Q2 -> 4 [] OTHER -> 2
Scales(type) == IF type = Ternary THEN 0 ELSE ScaleBytes
BlockBytes(type) == Scales(type) + Block \div PerByte(type)
Blocks(n) == (n + Block - 1) \div Block

\* A byte of a scale reads the same whichever bits of it are taken.
ScaleByte(b) == [j \in 1 .. 4 |-> <<"scale", b>>]

\* quantize_matrix() of n weights, the first of which is weight `first`.
quantize_matrix(type, first, n) ==
    [k \in 1 .. Blocks(n) * BlockBytes(type) |->
        LET b == (k - 1) \div BlockBytes(type)
            r == ((k - 1) % BlockBytes(type)) - Scales(type)
            Place(j) == b * Block + r * PerByte(type) + j - 1
        IN  IF r < 0 THEN ScaleByte((first + b * Block) \div Block)
            ELSE [j \in 1 .. PerByte(type) |->
                     IF Place(j) < n THEN <<"weight", first + Place(j)>> ELSE <<"pad", 0>>]]

\* The chunks of an embedding or output matrix, laid out one after the other.
ChunksOf(type, n_rows, n_cols, rows) ==
    LET chunks == (n_rows + rows - 1) \div rows
        Least(a, b) == IF a < b THEN a ELSE b
    IN  FlattenSeq([c \in 1 .. chunks |->
            quantize_matrix(type, (c - 1) * rows * n_cols,
                            (Least(c * rows, n_rows) - (c - 1) * rows) * n_cols)])

\* A chunk of one row less.
quantize_chunks_Short(type, n_rows, n_cols) == ChunksOf(type, n_rows, n_cols, ChunkRows - 1)

quantize_chunks(type, n_rows, n_cols) == ChunksOf(type, n_rows, n_cols, ChunkRows)

\* What load_block() puts at each place: the scales are stepped over for Q8 only,
\* dequant_*_to_int8() reads a stream without scales.
dequantize(type, bytes, n) ==
    [i \in 0 .. n - 1 |->
        IF type = Q8
        THEN bytes[(i \div Block) * BlockBytes(Q8) + ScaleBytes + (i % Block) + 1][1]
        ELSE bytes[i \div PerByte(type) + 1][(i % PerByte(type)) + 1]]

\* Per row, the scales that load_block_with_scales() averages into its own: block
\* b is taken for one of row b / blocks_per_row.
RowOf_ByRows(b, n_rows, n_cols) == b \div Blocks(n_rows)

RowOf(b, n_rows, n_cols) == b \div Blocks(n_cols)

row_scales(bytes, n_rows, n_cols) ==
    [row \in 0 .. n_rows - 1 |->
        {bytes[b * BlockBytes(Q8) + 1][1] :
            b \in {c \in 0 .. Blocks(n_rows * n_cols) - 1 : RowOf(c, n_rows, n_cols) = row}}]

\* The blocks a row of whole blocks is stored in.
ScalesOfRow(row, n_cols) ==
    {<<"scale", b>> : b \in row * Blocks(n_cols) .. (row + 1) * Blocks(n_cols) - 1}

WeightsInPlace(n) == [i \in 0 .. n - 1 |-> <<"weight", i>>]
=============================================================================
