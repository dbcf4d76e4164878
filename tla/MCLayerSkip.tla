----------------------------- MODULE MCLayerSkip -----------------------------
(* Small instances of LayerSkip: seven layers are the fewest with an unprotected
   layer on either side of the middle's edge.  The outputs of one of these come
   near zero, those of the others do not. *)
EXTENDS LayerSkip
Weak == {1}
WeakAndStrong == {1, 2}
SomeHiddens == [l \in Layers |-> CASE Protected(l) -> {1} [] l = 2 -> 0 .. 2 [] OTHER -> 4 .. 6]
=============================================================================
