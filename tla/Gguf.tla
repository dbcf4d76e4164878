-------------------------------- MODULE Gguf --------------------------------
(* The tensor index of a GGUF file as GGUFFile reads it (gguf_reader.cpp): the
   entries of the index into the map tensors_, then an offset for each tensor,
   then reads of the mapped file.

   The metadata before the index is left out.  The file is written by another
   program, which lays the tensors out one after the other in the order of its
   index, each padded to 32 bytes; their sizes are taken to be the reader's. *)
EXTENDS Integers, Sequences, TLC

CONSTANTS
    Files,     \* indexes a file may have: sequences of Entry records
    IndexEnd   \* byte where the index of a file ends

VARIABLES
    index,        \* the file: the entries of its index
    phase,        \* where open() is: "index", "offsets", "open" or "failed"
    at,           \* entry of the index read next
    tensors,      \* tensors_
    todo,         \* names the loop over tensors_ has not come to
    data_offset   \* data_offset of open()

vars == <<index, phase, at, tensors, todo, data_offset>>

-----------------------------------------------------------------------------
(* Sizes *)

Plain  == {"F32", "F16", "I8", "I16", "I32", "I64", "F64", "BF16"}
Short  == {"Q4_0", "Q4_1", "Q5_0", "Q5_1", "Q8_0", "Q8_1", "IQ4_NL"}

is_quantized(type) == type \notin Plain

element_size(type) == CASE type = "I8" -> 1
                        [] type \in {"F16", "I16"} -> 2
                        [] OTHER -> 4

block_size(type) == IF type \in Short THEN 32 ELSE IF type \in Plain THEN 1 ELSE 256

\* The IQ types have no size here, so a tensor of such a type has no bytes.
block_bytes(type) ==
    CASE type = "Q4_0" -> 18 [] type = "Q4_1" -> 20 [] type = "Q5_0" -> 22
      [] type = "Q5_1" -> 24 [] type = "Q8_0" -> 34 [] type = "Q8_1" -> 40
      [] type = "Q2_K" -> 28 [] type = "Q3_K" -> 42 [] type = "Q4_K" -> 48
      [] type = "Q5_K" -> 62 [] type = "Q6_K" -> 76 [] type = "Q8_K" -> 80
      [] OTHER -> 0

Align(bytes) == ((bytes + 31) \div 32) * 32

\* Bytes of a tensor, padded.
Padded(info) ==
    LET bs == block_size(info.type)
    IN  Align(IF is_quantized(info.type)
                THEN ((info.n_elems + bs - 1) \div bs) * block_bytes(info.type)
                ELSE info.n_elems * element_size(info.type))

-----------------------------------------------------------------------------
(* The file *)

\* Where the i-th tensor of the file begins, and where the file ends.
Begin == LET B[i \in 1 .. Len(index) + 1] ==
               IF i = 1 THEN Align(IndexEnd) ELSE B[i - 1] + Padded(index[i - 1])
         IN  B
FileSize == Begin[Len(index) + 1]

-----------------------------------------------------------------------------
(* open() *)

Init ==
    /\ index \in Files
    /\ phase = "index" /\ at = 1
    /\ tensors = <<>> /\ todo = {} /\ data_offset = 0

\* The stored offset is skipped.  A name seen before is overwritten.
ReadInfo ==
    /\ phase = "index" /\ at <= Len(index)
    /\ LET e == index[at] IN
       IF e.n_dims \in 1 .. 4
         THEN /\ tensors' = (e.name :> [type |-> e.type, n_elems |-> e.n_elems,
                                        offset |-> 0]) @@ tensors
              /\ at' = at + 1
              /\ UNCHANGED phase
         ELSE /\ phase' = "failed"
              /\ UNCHANGED <<tensors, at>>
    /\ UNCHANGED <<index, todo, data_offset>>

StartOffsets ==
    /\ phase = "index" /\ at > Len(index)
    /\ phase' = "offsets"
    /\ todo' = DOMAIN tensors
    /\ data_offset' = Align(IndexEnd)
    /\ UNCHANGED <<index, at, tensors>>

\* The order of an unordered_map is any order.
AssignOffset(name) ==
    /\ phase = "offsets" /\ name \in todo
    /\ tensors' = [tensors EXCEPT ![name].offset = data_offset]
    /\ data_offset' = data_offset + Padded(tensors[name])
    /\ todo' = todo \ {name}
    /\ UNCHANGED <<index, phase, at>>

EndOffsets ==
    /\ phase = "offsets" /\ todo = {}
    /\ phase' = "open"
    /\ UNCHANGED <<index, at, tensors, todo, data_offset>>

Next == ReadInfo \/ StartOffsets \/ (\E name \in todo : AssignOffset(name)) \/ EndOffsets
Spec == Init /\ [][Next]_vars

-----------------------------------------------------------------------------
(* Reading *)

\* First and last byte copied; <<>> when nothing is.
read_tensor_data(name) ==
    IF name \notin DOMAIN tensors THEN <<>>
    ELSE LET info == tensors[name]
             end  == info.offset + Padded(info)
         IN  IF end > FileSize \/ Padded(info) = 0 THEN <<>> ELSE <<info.offset, end - 1>>

\* The bytes the weights are made of; no weights for a type not supported.
dequantize_tensor(name) ==
    IF name \in DOMAIN tensors /\ tensors[name].type \in {"F32", "F16", "Q8_0", "Q4_0"}
      THEN read_tensor_data(name)
      ELSE <<>>

(* gguf_reader.cpp:237: "GGUF stores tensors sequentially after the index".  So
   the weights of a tensor are made of the bytes at its place in that sequence;
   the code gives the places out in the order of a hash map. *)
TensorsInSequence ==
    phase = "open" =>
        \A i \in 1 .. Len(index) :
            dequantize_tensor(index[i].name)
                \in {<<>>, <<Begin[i], Begin[i] + Padded(index[i]) - 1>>}
=============================================================================
