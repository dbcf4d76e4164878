------------------------------ MODULE MCSqueeze ------------------------------
(* Small instances of Squeeze: blocks of four weights, chunks of four rows; a
   matrix of more rows than a chunk, with a chunk and a block cut short, two of
   whole blocks, one of them of two chunks, and one that zstd does not compress. *)
EXTENDS Squeeze
SmallShapes == {<<1, 3, 1>>, <<2, 3, 0>>, <<5, 3, 2>>, <<5, 4, 1>>, <<2, 8, 2>>}
Q8AndTernary == {Q8, Ternary}
OnlyQ4 == {Q4}
=============================================================================
