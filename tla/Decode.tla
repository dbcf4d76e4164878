------------------------------- MODULE Decode -------------------------------
(* What generating text promises, speculative or not: the model reads the text
   token by token and in order, no token is added before all the text has been
   read, and an added token is one the model offered after its last reading.
   The last token may be read a second time before the next one is added. *)
EXTENDS Integers, Sequences

CONSTANTS Tokens, Prompts, NoText   \* NoText: what is read for an empty text

VARIABLES
    text,
    read,     \* how many tokens of the text have been read
    input,    \* the token read last
    offer     \* the tokens the model offered for the next place

vars == <<text, read, input, offer>>

Offers == {N \in SUBSET Tokens : N # {}}
TokenAt(i) == IF i = 0 THEN NoText ELSE text[i]

Init ==
    /\ text = <<>>
    /\ read = 0
    /\ input = NoText
    /\ offer = {}

Begin(p) ==
    /\ text' = p
    /\ read' = 0
    /\ UNCHANGED <<input, offer>>

Read ==
    /\ read < Len(text)
    /\ read' = read + 1
    /\ input' = text[read + 1]
    /\ offer' \in Offers
    /\ UNCHANGED text

Emit(t) ==
    /\ read \in {Len(text) - 1, Len(text)}
    /\ read' = Len(text)
    /\ input' = TokenAt(Len(text))
    /\ offer' \in Offers
    /\ t \in offer'
    /\ text' = Append(text, t)

Next == (\E p \in Prompts : Begin(p)) \/ Read \/ (\E t \in Tokens : Emit(t))
Spec == Init /\ [][Next]_vars
=============================================================================
