----------------------------- MODULE MCGenerate -----------------------------
(* Small instances of Generate. *)
EXTENDS Generate
TwoTokens == {0, 1}
=============================================================================
