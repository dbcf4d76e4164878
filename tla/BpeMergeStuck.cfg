\* A merge list whose product is missing from the vocabulary.
SPECIFICATION Spec
CONSTANTS
    Chars <- FourChars
    RawByte <- Raw
    Vocab <- SomeVocab
    Texts <- ShortTexts
    Merges <- BadMerges
PROPERTIES EncodeEnds
\* encode() returns.
CHECK_DEADLOCK FALSE
