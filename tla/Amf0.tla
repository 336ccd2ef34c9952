--------------------------------- MODULE Amf0 ---------------------------------
(***************************************************************************)
(* A program that builds an AMF0 value with set(), append(), remove(),     *)
(* clear() and copy(), sends it, and goes on with what it has received     *)
(* (trunk/src/protocol/srs_protocol_amf0.cpp): its own value, written and  *)
(* read back, or one of a peer, all of the bytes or those that have        *)
(* arrived.                                                                *)
(***************************************************************************)
EXTENDS Amf0Codec

CONSTANTS
    Keys,        \* the keys the program uses
    Values,      \* the values it puts into objects and arrays
    Peer,        \* what the other side may send; its keys need not be unique
    Parts,       \* what Values and Peer consist of
    Rests,       \* what may follow a value in a message
    MaxLength,   \* bound: the elements of an object or array
    MaxMade      \* bound: the objects and arrays in what the program receives

ASSUME BytesAssumption == Keys \cup Rests \subseteq Seq(Byte)

ASSUME PartsAssumption ==
    /\ Values \cup Peer \subseteq Parts
    /\ \A v \in Parts :
          /\ Proper(v)
          /\ IsContainer(v) => \A i \in DOMAIN Entries(v) : EntryValue(v, i) \in Parts

\* The number of elements is an int32_t.
ASSUME MaxLengthAssumption == MaxLength \in Nat /\ MaxLength < Limit4

VARIABLE value   \* an object, an ECMA array or a strict array

vars == <<value, codecVars>>

Init ==
    /\ value \in {Object(<<>>), EcmaArray(<<>>, 0), StrictArray(<<>>, 0)}
    /\ CodecInit

\* The program does something with its value by itself.
Changes == stage = "idle" /\ UNCHANGED codecVars

\* set() with a value: the count of an ECMA array is not touched.
SetProp(k, v) ==
    /\ Changes /\ HasProps(value)
    /\ value' = [value EXCEPT !.props = SetProperty(@, k, v)]
    /\ Len(value'.props) <= MaxLength

\* set() with NULL.
UnsetProp(k) ==
    /\ Changes /\ HasProps(value)
    /\ value' = [value EXCEPT !.props = Erase(@, k)]

\* remove(): an ECMA array does not have it.
RemoveProp(k) ==
    /\ Changes /\ value.marker = Marker.Object
    /\ value' = [value EXCEPT !.props = RemoveProperty(@, k)]

AppendElem(v) ==
    /\ Changes /\ HasElems(value) /\ Len(value.elems) < MaxLength
    /\ value' = StrictArray(Append(value.elems, v), Len(value.elems) + 1)

\* clear(): the count of an array is not touched.
Clear ==
    /\ Changes
    /\ \/ HasProps(value) /\ value' = [value EXCEPT !.props = <<>>]
       \/ HasElems(value) /\ value' = [value EXCEPT !.elems = <<>>]

\* The buffer is allocated with total_size(), or it is too small.
Call ==
    \/ StartCopy(value)
    \/ Send(value)
    \/ \E v \in Peer : value = Object(<<>>) /\ Send(v)   \* bound: whatever the program has
    \/ Allocate(size) \/ Allocate(size - 1)
    \/ \E n \in 0 .. Len(out) : Arrive(SubSeq(out, 1, n))
    \/ \E rest \in Rests : Arrive(out \o rest)

\* What was read or copied; an error leaves nothing.
Receive ==
    /\ stage \in {"read", "copied"} /\ result.ok
    /\ IsFiniteSet(made) /\ Cardinality(made) <= MaxMade
    /\ value' = result.value
    /\ Finish

Next ==
    \/ \E k \in Keys, v \in Values : SetProp(k, v)
    \/ \E k \in Keys : UnsetProp(k) \/ RemoveProp(k)
    \/ \E v \in Values : AppendElem(v)
    \/ Clear
    \/ (Call \/ CodecStep \/ Finish) /\ UNCHANGED value
    \/ Receive

Spec == Init /\ [][Next]_vars

-----------------------------------------------------------------------------
\* No object has two properties with one key, also when the other side sends them
\* or a copy is made: set(), unlike remove(), only looks at the first one.  What is
\* inside of a value was made by itself before.
KeysUnique == \A v \in made \cup {value} : KeysDistinct(v)

-----------------------------------------------------------------------------
\* v with other entries.
With(v, es) == IF HasProps(v) THEN [v EXCEPT !.props = es] ELSE [v EXCEPT !.elems = es]

\* r has the first entries of v.
FirstEntries(r, v) ==
    /\ IsContainer(r) /\ IsContainer(v) /\ Len(Entries(r)) <= Len(Entries(v))
    /\ r = With(v, SubSeq(Entries(v), 1, Len(Entries(r))))

\* So it has but for its last one, of which the key is the same.
CutInside(r, v) ==
    LET n == Len(Entries(r))
    IN  /\ IsContainer(r) /\ IsContainer(v)
        /\ n \in 1 .. Len(Entries(v)) /\ EntryKey(r, n) = EntryKey(v, n)
        /\ r = With(v, Append(SubSeq(Entries(v), 1, n - 1), Entries(r)[n]))

\* r and v, the last entry of r and what v has there, the last one of that, and so on.
Ends(r, v, depth) ==
    LET end[n \in 0 .. depth] ==
            IF n = 0 THEN [part |-> r, of |-> v]
            ELSE LET e == end[n - 1]
                     last == Len(Entries(e.part))
                 IN  [part |-> EntryValue(e.part, last), of |-> EntryValue(e.of, last)]
    IN  end

\* r is v, or v cut off somewhere.
PartOf(r, v, depth) ==
    LET end == Ends(r, v, depth)
    IN  r = v \/ \E n \in 0 .. depth :
                    /\ \A m \in 0 .. n - 1 : CutInside(end[m].part, end[m].of)
                    /\ FirstEntries(end[n].part, end[n].of)

\* A message of which only the first bytes have arrived is an error, or a part of
\* what was sent: nothing is made up and nothing is in the wrong place.  No value is
\* deeper than it has bytes.
PartialRead ==
    stage = "read" /\ IsPrefix(input, out) /\ AllReadable /\ result.ok
        => PartOf(result.value, walk.root, Len(out))
=============================================================================
