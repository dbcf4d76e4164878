\* Every list of three merges whose products are tokens.
SPECIFICATION Spec
CONSTANTS
    Chars <- FourChars
    RawByte <- Raw
    Vocab <- SomeVocab
    Texts <- ShortTexts
    Merges <- GoodMerges
INVARIANTS TypeOK EncodesLikeReference
PROPERTIES EncodeEnds
\* encode() returns.
CHECK_DEADLOCK FALSE
