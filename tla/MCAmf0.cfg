CONSTANTS
    Base = 12
    Keys <- MCKeys
    Values <- MCValues
    Peer <- MCPeer
    Parts <- MCParts
    Rests <- MCRests
    MaxLength = 2
    MaxMade = 3
    Whole <- MCWhole
SPECIFICATION JsonSpec
INVARIANTS KeysUnique SizeExact RoundTrip PartialRead CopySame 
