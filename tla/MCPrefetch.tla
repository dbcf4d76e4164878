----------------------------- MODULE MCPrefetch -----------------------------
(* Small instances of Prefetch. *)
EXTENDS Prefetch
CONSTANTS a, b
OneClient == {a}
TwoClients == {a, b}
NoneMissing == {}
SomeMissing == {<<1, 1>>}
=============================================================================
