---------------------------- MODULE PropertyTable ----------------------------
(***************************************************************************)
(* SrsUnSortedHashtable (trunk/src/protocol/srs_protocol_amf0.cpp): the    *)
(* properties of an AMF0 object in the order in which they were set, as a  *)
(* sequence of records with a key and a value.                             *)
(***************************************************************************)
EXTENDS Naturals, Sequences, SequencesExt

Property(k, v) == [key |-> k, value |-> v]

\* Where the properties with this key are.
Hits(props, k) == {i \in DOMAIN props : props[i].key = k}

\* set() stops at the first property with the key.
Erase(props, k) ==
    IF Hits(props, k) = {} THEN props
    ELSE RemoveAt(props, CHOOSE i \in Hits(props, k) : \A j \in Hits(props, k) : i <= j)

\* Faulty variant: the property that is there already stays.
SetPropertyAgain(props, k, v) == Append(props, Property(k, v))

\* set(): an existing property is freed, and the new one comes last.
SetProperty(props, k, v) == Append(Erase(props, k), Property(k, v))

\* remove() goes through all properties.
RemoveProperty(props, k) ==
    LET kept[i \in 0 .. Len(props)] ==
            IF i = 0 THEN <<>>
            ELSE IF props[i].key = k THEN kept[i - 1]
            ELSE Append(kept[i - 1], props[i])
    IN  kept[Len(props)]

UniqueKeys(props) ==
    \A i, j \in DOMAIN props : props[i].key = props[j].key => i = j
=============================================================================
