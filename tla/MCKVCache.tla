------------------------------ MODULE MCKVCache ------------------------------
(* Small instances of KVCache. *)
EXTENDS KVCache
CONSTANTS c1, c2
OneCell == {c1}
TwoCells == {c1, c2}
=============================================================================
