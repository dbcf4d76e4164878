------------------------------- MODULE MCGguf -------------------------------
(* Files of up to three tensors with names of their own, of a plain and two
   quantized types, one of them not supported. *)
EXTENDS Gguf

Names == <<"a", "b", "c">>
Kinds == {"F32", "Q8_0", "Q4_K"}
Entry == [type : Kinds, n_elems : {8, 64}, n_dims : {0, 1, 2}]

Index(entries) == [i \in DOMAIN entries |->
    [name |-> Names[i], type |-> entries[i].type,
     n_elems |-> entries[i].n_elems, n_dims |-> entries[i].n_dims]]

MCFiles == UNION {{Index(entries) : entries \in [1 .. n -> Entry]} : n \in 0 .. 3}
=============================================================================
