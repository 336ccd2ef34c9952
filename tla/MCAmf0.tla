------------------------------- MODULE MCAmf0 -------------------------------
(* A byte has 12 values, so a string of 72 bytes has a negative length.  What *)
(* a reader could take for something else ends in bytes that are no marker,  *)
(* so that a misreading ends soon.                                           *)
EXTENDS AmfJson

Long(n) == [i \in 1 .. n |-> 7]   \* not the marker of any value
Zone == <<0, 1>>
Double(a, b) == <<a, b, 7, 7, 7, 7, 7, 7>>

MCWhole == {Double(0, 0)}
MCKeys == {<<>>, <<1>>}
MCLeaves ==
    {Number(Double(0, 9)), Number(Double(0, 0)), Boolean(TRUE), String(<<2, 0, 3>>),
     String(Long(71)), String(Long(72)), Null, ObjectEOF, Date(Double(9, 9), Zone)}
MCValues ==
    MCLeaves \cup
    {Object(<<Property(<<>>, Undefined)>>), StrictArray(<<>>, 1),
     StrictArray(<<Boolean(FALSE)>>, 1)}

\* The other side repeats a key, and counts as it likes.
MCPeer ==
    {Object(<<Property(<<1>>, Null), Property(<<>>, Null), Property(<<1>>, Undefined)>>),
     EcmaArray(<<Property(<<1>>, EcmaArray(<<>>, -1))>>, 2),
     StrictArray(<<Null, Undefined>>, 1)}

\* What is inside of those.
MCParts == MCValues \cup MCPeer \cup {Undefined, Boolean(FALSE), EcmaArray(<<>>, -1)}

MCRests == {EofBytes, NullBytes}
=============================================================================
