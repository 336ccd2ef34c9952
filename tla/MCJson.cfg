\* The parser on all texts of at most MaxLength tokens and on what dumps() writes.
SPECIFICATION LoadSpec
CONSTANTS
    Texts <- MCTexts
    Structure <- MCStructure
    Contents <- MCContents
    Escapes <- MCEscapes
    Continuations <- MCContinuations
    Values <- MCValues
    MaxLength = 7
    NumberRoom = 7
INVARIANTS
    NodesFormTree
    PassesAgree
    
    FreesAll
    ReadBack
PROPERTIES
    Returns
\* loads() returns with every text.
CHECK_DEADLOCK FALSE
