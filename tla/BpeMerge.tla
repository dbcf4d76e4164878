------------------------------ MODULE BpeMerge ------------------------------
(* BPETokenizer::encode() and bpe_merge() of tokenizer.cpp: the symbols of a
   text, then one merge of the pair with the lowest rank in each round.

   A character is a number and a string a sequence of them; a token stands for
   its string, token_strings_[id]. *)
EXTENDS Integers, Sequences, SequencesExt

CONSTANTS
    Chars,    \* what byte_encoder_ makes of the bytes
    RawByte,  \* per character, its byte as a string of its own
    Vocab,    \* token_to_id_: the strings that are tokens
    Texts,    \* the texts to encode
    Merges    \* what load_merges() may be given: sequences of pairs of strings

\* load_merges() takes no line with an empty part.
Strings == Seq(Int) \ {<<>>}

ASSUME BpeAssumption ==
    /\ Vocab \subseteq Seq(Int) /\ Texts \subseteq Seq(Chars)
    /\ \A m \in Merges : m \in Seq(Strings \X Strings)

VARIABLES
    merges,   \* merge_ranks_: the rank of a pair is its place
    start,    \* symbol_ids, before the first round
    symbols,
    pc        \* "merge" or "done"

vars == <<merges, start, symbols, pc>>

\* A character is its own token, or the token of its raw byte, or is left out.
CharToken(c) == IF <<c>> \in Vocab THEN <<c>> ELSE RawByte[c]

Symbols_KeepAll(text) == [i \in 1 .. Len(text) |-> CharToken(text[i])]

Symbols(text) ==
    LET ids[n \in 0 .. Len(text)] ==
            IF n = 0 THEN <<>>
            ELSE IF CharToken(text[n]) \in Vocab THEN Append(ids[n - 1], CharToken(text[n]))
            ELSE ids[n - 1]
    IN  ids[Len(text)]

Init ==
    /\ merges \in Merges
    /\ \E text \in Texts : start = Symbols(text)
    /\ symbols = start
    /\ pc = "merge"

Pair(s, i) == <<s[i], s[i + 1]>>

\* The places of `s` where a pair has a rank, and the rank: the last one given.
Ranked(s) == {i \in 1 .. Len(s) - 1 : \E k \in 1 .. Len(merges) : merges[k] = Pair(s, i)}
get_pair_rank(s, i) ==
    CHOOSE k \in 1 .. Len(merges) :
        merges[k] = Pair(s, i) /\ \A j \in k + 1 .. Len(merges) : merges[j] # Pair(s, i)

best_pos_Last(s) ==
    CHOOSE i \in Ranked(s) : \A j \in Ranked(s) :
        \/ get_pair_rank(s, i) < get_pair_rank(s, j)
        \/ get_pair_rank(s, i) = get_pair_rank(s, j) /\ j <= i

\* The first place with the lowest rank.
best_pos(s) ==
    CHOOSE i \in Ranked(s) : \A j \in Ranked(s) :
        \/ get_pair_rank(s, i) < get_pair_rank(s, j)
        \/ get_pair_rank(s, i) = get_pair_rank(s, j) /\ i <= j

\* The merged string is looked up with the space that separates a merge's parts.
Merged_Spaced(s, i) ==
    LET merged == s[i] \o <<0>> \o s[i + 1]
    IN  IF merged \in Vocab THEN <<merged>> ELSE Pair(s, i)

\* A merged string that is no token leaves the pair as it was.
Merged(s, i) ==
    LET merged == s[i] \o s[i + 1]
    IN  IF merged \in Vocab THEN <<merged>> ELSE Pair(s, i)

Round ==
    /\ pc = "merge" /\ Len(symbols) > 1 /\ Ranked(symbols) # {}
    /\ LET i == best_pos(symbols)
       IN  symbols' = SubSeq(symbols, 1, i - 1) \o Merged(symbols, i)
                      \o SubSeq(symbols, i + 2, Len(symbols))
    /\ UNCHANGED <<merges, start, pc>>

Finish ==
    /\ pc = "merge" /\ (Len(symbols) <= 1 \/ Ranked(symbols) = {})
    /\ pc' = "done"
    /\ UNCHANGED <<merges, start, symbols>>

Next == Round \/ Finish
\* encode() is a sequential function.
Spec == Init /\ [][Next]_vars /\ WF_vars(Next)
-----------------------------------------------------------------------------
TypeOK ==
    /\ merges \in Merges
    /\ start \in Seq(Vocab) /\ symbols \in Seq(Vocab)
    /\ pc \in {"merge", "done"}

\* The reference: the merges in order of rank, each applied wherever its pair
\* stands, from left to right.
Push(done, next, m) ==
    IF done # <<>> /\ <<Last(done), next>> = m
    THEN Append(Front(done), m[1] \o m[2])
    ELSE Append(done, next)
Swept(s, m) ==
    LET done[n \in 0 .. Len(s)] == IF n = 0 THEN <<>> ELSE Push(done[n - 1], s[n], m)
    IN  done
Sweep(s, m) == Swept(s, m)[Len(s)]
After(s) ==
    LET list[k \in 0 .. Len(merges)] == IF k = 0 THEN s ELSE Sweep(list[k - 1], merges[k])
    IN  list
Reference(s) == After(s)[Len(merges)]

\* A list in which each merge comes before those that make what it takes: no pair
\* twice, and none makes a part of a merge of a lower rank.  A list that training
\* made is one when each merge has a token of its own.
Trained(m) ==
    \A k \in 1 .. Len(m) : \A j \in 1 .. k - 1 :
        m[j] # m[k] /\ m[k][1] \o m[k][2] \notin {m[j][1], m[j][2]}

\* With such a list, choosing the lowest rank anew in each round gives what
\* applying the merges one after the other gives.
EncodesLikeReference == pc = "done" /\ Trained(merges) => symbols = Reference(start)

\* encode() returns.  tokenizer.cpp:184 says of a merged string that is no token
\* "Should not happen for valid BPE, but fallback".
EncodeEnds == <>(pc = "done")
=============================================================================
