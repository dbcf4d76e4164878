----------------------------- MODULE MCBpeMerge -----------------------------
(* Small instances of BpeMerge: 1 and 2 are characters with a token, 3 has only
   the token of its raw byte and 4 has none. *)
EXTENDS BpeMerge
FourChars == 1 .. 4
Raw == [c \in FourChars |-> <<10 * c>>]
SomeVocab == {<<1>>, <<2>>, <<30>>, <<1, 1>>, <<1, 2>>, <<2, 1>>, <<1, 1, 2>>,
              <<1, 2, 1>>, <<1, 1, 1>>}
Letters == BoundedSeq({1, 2}, 5)
ShortTexts == Letters \cup BoundedSeq(FourChars, 3)
Cuts(s) == {<<SubSeq(s, 1, i), SubSeq(s, i + 1, Len(s))>> : i \in 1 .. Len(s) - 1}
AllCuts == UNION {Cuts(s) : s \in SomeVocab}
GoodCuts == {c \in AllCuts : c[1] \in SomeVocab /\ c[2] \in SomeVocab}
GoodMerges == BoundedSeq(GoodCuts, 3)
\* <<2, 2>> is merged but is no token.
BadMerges == {<< <<<<1>>, <<2>>>>, <<<<2>>, <<2>>>> >>}
=============================================================================
