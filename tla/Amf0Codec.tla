------------------------------ MODULE Amf0Codec ------------------------------
(***************************************************************************)
(* total_size(), write(), read() and copy() of the AMF0 values in          *)
(* trunk/src/protocol/srs_protocol_amf0.cpp.  Each of these recursive      *)
(* functions is a machine that goes through a value, or through the bytes  *)
(* of one, step by step, with a stack in place of its calls: the path to   *)
(* where total_size(), write() and copy() are in the value, and the        *)
(* objects and arrays that read() and copy() are filling.                  *)
(*                                                                         *)
(* A byte has Base values, so that the 16-bit length of a string has a     *)
(* limit that strings of a model can exceed; the code has Base = 256.      *)
(***************************************************************************)
EXTENDS PropertyTable, Integers

CONSTANT Base   \* how many values a byte has

ASSUME BaseAssumption == Base \in Nat /\ Base >= 12 /\ Base % 2 = 0

VARIABLES
    stage,     \* "idle", "sizing", "writing", "overflow", "reading", "read", "copying" or "copied"
    walk,      \* where total_size(), write() or copy() is
    size,      \* what total_size() has added up
    visited,   \* history: the values that total_size() or copy() has been called for
    room,      \* how many bytes the buffer has
    out,       \* what write() has put into it
    input,     \* the bytes that read() gets
    pos,       \* where it is in them
    frames,    \* the objects and arrays that are being filled, the innermost one last
    result,    \* of read() or copy()
    made       \* history: the objects and arrays that read() or copy() has filled

codecVars ==
    <<stage, walk, size, visited, room, out, input, pos, frames, result, made>>

Marker == [Number |-> 0, Boolean |-> 1, String |-> 2, Object |-> 3, Null |-> 5,
           Undefined |-> 6, EcmaArray |-> 8, ObjectEnd |-> 9, StrictArray |-> 10,
           Date |-> 11]

Number(b) == [marker |-> Marker.Number, number |-> b]
Boolean(b) == [marker |-> Marker.Boolean, boolean |-> b]
String(s) == [marker |-> Marker.String, string |-> s]
Object(ps) == [marker |-> Marker.Object, props |-> ps]
Null == [marker |-> Marker.Null]
Undefined == [marker |-> Marker.Undefined]
EcmaArray(ps, n) == [marker |-> Marker.EcmaArray, props |-> ps, count |-> n]
ObjectEOF == [marker |-> Marker.ObjectEnd]
StrictArray(es, n) == [marker |-> Marker.StrictArray, elems |-> es, count |-> n]
Date(b, z) == [marker |-> Marker.Date, date |-> b, zone |-> z]

HasProps(v) == v.marker \in {Marker.Object, Marker.EcmaArray}
HasElems(v) == v.marker = Marker.StrictArray
IsContainer(v) == HasProps(v) \/ HasElems(v)

Entries(v) == IF HasProps(v) THEN v.props ELSE v.elems
EntryKey(v, i) == IF HasProps(v) THEN v.props[i].key ELSE <<>>
EntryValue(v, i) == IF HasProps(v) THEN v.props[i].value ELSE v.elems[i]

\* An object has no count.
CountOf(v) == IF v.marker = Marker.Object THEN 0 ELSE v.count

-----------------------------------------------------------------------------
(* Integers in a buffer, the most significant byte first *)

IntToBytes2(i) == <<(i \div Base) % Base, i % Base>>

IntToBytes4(i) == IntToBytes2((i \div Base) \div Base) \o IntToBytes2(i)

\* Half of the values of 16 bits, and of 32 bits.
Limit == Base * (Base \div 2)
Limit4 == (Limit * Base) * Base

Unsigned2(b) == b[1] * Base + b[2]
Unsigned4(b) == (Unsigned2(b) * Base + b[3]) * Base + b[4]

BytesToInt2(b) == IF Unsigned2(b) < Limit THEN Unsigned2(b) ELSE Unsigned2(b) - 2 * Limit
BytesToInt4(b) == IF Unsigned4(b) < Limit4 THEN Unsigned4(b) ELSE Unsigned4(b) - 2 * Limit4

-----------------------------------------------------------------------------
(* Where a function is in a value: at one of its parts, if due, or else in *)
(* the loop over the entries of the innermost object or array.  The path   *)
(* has these, the outermost one first, and how many entries were begun.    *)

Begin(v) == [root |-> v, path |-> <<>>, due |-> TRUE]

Top(w) == Last(w.path)
Item(w) == IF w.path = <<>> THEN w.root ELSE EntryValue(Top(w).of, Top(w).done)

AtContainer(w) == w.due /\ IsContainer(Item(w))
AtScalar(w) == w.due /\ ~IsContainer(Item(w))
AtEntry(w) == ~w.due /\ w.path # <<>> /\ Top(w).done < Len(Entries(Top(w).of))
AtEnd(w) == ~w.due /\ w.path # <<>> /\ Top(w).done >= Len(Entries(Top(w).of))
Ended(w) == ~w.due /\ w.path = <<>>

\* The entry that the loop comes to next.
NextKey(w) == EntryKey(Top(w).of, Top(w).done + 1)

After(w) ==
    CASE AtContainer(w) ->
            [w EXCEPT !.path = Append(@, [of |-> Item(w), done |-> 0]), !.due = FALSE]
      [] AtScalar(w) -> [w EXCEPT !.due = FALSE]
      [] AtEntry(w) -> [w EXCEPT !.path[Len(w.path)].done = @ + 1, !.due = TRUE]
      [] AtEnd(w) -> [w EXCEPT !.path = Front(@)]

-----------------------------------------------------------------------------
(* total_size() *)

Utf8Size(s) == 2 + Len(s)
StringSize(s) == 1 + Utf8Size(s)
NumberSize == 1 + 8
\* Faulty variant: a date without its time zone.
DateSizeUnzoned == 1 + 8
DateSize == 1 + 8 + 2
NullSize == 1
UndefinedSize == 1
BooleanSize == 1 + 1
EofSize == 2 + 1

ScalarSize(v) ==
    CASE v.marker = Marker.Number -> NumberSize
      [] v.marker = Marker.Boolean -> BooleanSize
      [] v.marker = Marker.String -> StringSize(v.string)
      [] v.marker = Marker.Null -> NullSize
      [] v.marker = Marker.Undefined -> UndefinedSize
      [] v.marker = Marker.ObjectEnd -> EofSize
      [] v.marker = Marker.Date -> DateSize

ContainerSize(v) == IF v.marker = Marker.Object THEN 1 ELSE 1 + 4
EntrySize(v, key) == IF HasProps(v) THEN Utf8Size(key) ELSE 0
EndSize(v) == IF HasProps(v) THEN EofSize ELSE 0

SizeOf(w) ==
    CASE AtContainer(w) -> ContainerSize(Item(w))
      [] AtScalar(w) -> ScalarSize(Item(w))
      [] AtEntry(w) -> EntrySize(Top(w).of, NextKey(w))
      [] AtEnd(w) -> EndSize(Top(w).of)

-----------------------------------------------------------------------------
(* write() *)

\* srs_amf0_write_utf8: the length is cut to 16 bits.
Utf8Bytes(s) == IntToBytes2(Len(s)) \o s

StringBytes(s) == <<Marker.String>> \o Utf8Bytes(s)
BooleanBytes(x) == <<Marker.Boolean>> \o <<IF x THEN 1 ELSE 0>>
NumberBytes(b) == <<Marker.Number>> \o b
NullBytes == <<Marker.Null>>
UndefinedBytes == <<Marker.Undefined>>
DateBytes(v) == <<Marker.Date>> \o (v.date \o v.zone)
EofBytes == <<0, 0, Marker.ObjectEnd>>

ScalarBytes(v) ==
    CASE v.marker = Marker.Number -> NumberBytes(v.number)
      [] v.marker = Marker.Boolean -> BooleanBytes(v.boolean)
      [] v.marker = Marker.String -> StringBytes(v.string)
      [] v.marker = Marker.Null -> NullBytes
      [] v.marker = Marker.Undefined -> UndefinedBytes
      [] v.marker = Marker.ObjectEnd -> EofBytes
      [] v.marker = Marker.Date -> DateBytes(v)

ContainerBytes(v) ==
    <<v.marker>> \o (IF v.marker = Marker.Object THEN <<>> ELSE IntToBytes4(v.count))
EntryBytes(v, key) == IF HasProps(v) THEN Utf8Bytes(key) ELSE <<>>
EndBytes(v) == IF HasProps(v) THEN EofBytes ELSE <<>>

BytesOf(w) ==
    CASE AtContainer(w) -> ContainerBytes(Item(w))
      [] AtScalar(w) -> ScalarBytes(Item(w))
      [] AtEntry(w) -> EntryBytes(Top(w).of, NextKey(w))
      [] AtEnd(w) -> EndBytes(Top(w).of)

-----------------------------------------------------------------------------
(* read() from position p of the bytes b *)

Failure == [ok |-> FALSE]
Got(v, p) == [ok |-> TRUE, value |-> v, next |-> p]

Require(b, p, n) == n >= 0 /\ n <= Len(b) - p + 1
Bytes(b, p, n) == SubSeq(b, p, p + n - 1)

\* Faulty variant: also where there are not enough bytes, whatever comes after them.
ReadFieldUnchecked(b, p, n) ==
    Got([i \in 1 .. n |-> IF Require(b, p, i) THEN b[p + i - 1] ELSE 0], p + n)

ReadField(b, p, n) == IF Require(b, p, n) THEN Got(Bytes(b, p, n), p + n) ELSE Failure

\* srs_amf0_is_object_eof
IsObjectEof(b, p) == Require(b, p, 3) /\ Bytes(b, p, 3) = EofBytes

\* Faulty variant: a string's last byte is left behind.
ReadUtf8Short(b, p) ==
    IF ~Require(b, p, 2) THEN Failure
    ELSE LET len == BytesToInt2(Bytes(b, p, 2))
         IN  IF len <= 0 THEN Got(<<>>, p + 2)
             ELSE IF Require(b, p + 2, len) THEN Got(Bytes(b, p + 2, len), p + 1 + len)
             ELSE Failure

\* srs_amf0_read_utf8: a negative length is an empty string.
ReadUtf8(b, p) ==
    IF ~Require(b, p, 2) THEN Failure
    ELSE LET len == BytesToInt2(Bytes(b, p, 2))
         IN  IF len <= 0 THEN Got(<<>>, p + 2) ELSE ReadField(b, p + 2, len)

\* The field r as a value.
Convert(r, Make(_)) == IF r.ok THEN Got(Make(r.value), r.next) ELSE Failure

ReadString(b, p) == Convert(ReadUtf8(b, p + 1), String)
ReadBoolean(b, p) == Convert(ReadField(b, p + 1, 1), LAMBDA x : Boolean(x # <<0>>))
ReadNumber(b, p) == Convert(ReadField(b, p + 1, 8), Number)
ReadNull(b, p) == Got(Null, p + 1)
ReadUndefined(b, p) == Got(Undefined, p + 1)
ReadDate(b, p) ==
    Convert(ReadField(b, p + 1, 8 + 2), LAMBDA x : Date(SubSeq(x, 1, 8), SubSeq(x, 9, 10)))
ReadEof(b, p) == Got(ObjectEOF, p + EofSize)
ReadCount(b, p) == Convert(ReadField(b, p, 4), BytesToInt4)

\* SrsAmf0Any::discovery looks for the end marker before anything else.
Discovers(b, p, markers) == ~IsObjectEof(b, p) /\ Require(b, p, 1) /\ b[p] \in markers

AnyScalar(b, p) ==
    CASE IsObjectEof(b, p) -> ReadEof(b, p)
      [] Discovers(b, p, {Marker.Number}) -> ReadNumber(b, p)
      [] Discovers(b, p, {Marker.Boolean}) -> ReadBoolean(b, p)
      [] Discovers(b, p, {Marker.String}) -> ReadString(b, p)
      [] Discovers(b, p, {Marker.Null}) -> ReadNull(b, p)
      [] Discovers(b, p, {Marker.Undefined}) -> ReadUndefined(b, p)
      [] Discovers(b, p, {Marker.Date}) -> ReadDate(b, p)
      [] OTHER -> Failure

\* What comes before the entries of an object or array: the count of an array.
AnyCount(b, p) == IF b[p] = Marker.Object THEN Got(0, p + 1) ELSE ReadCount(b, p + 1)

-----------------------------------------------------------------------------
(* What read() and copy() fill: an entry has its key while its value is    *)
(* being made.                                                             *)

Frame(marker, n) == [marker |-> marker, count |-> n, items |-> <<>>, entry |-> <<>>]

Fill(f, v) ==
    [f EXCEPT !.items = IF HasElems(f) THEN Append(@, v) ELSE SetProperty(@, f.entry[1], v),
              !.entry = <<>>]

Filled(f) ==
    CASE f.marker = Marker.Object -> Object(f.items)
      [] f.marker = Marker.EcmaArray -> EcmaArray(f.items, f.count)
      [] f.marker = Marker.StrictArray -> StrictArray(f.items, f.count)

\* Where v goes that was made for the innermost one of fs: the loop that called for it
\* goes on, or the first call returns.
Deliver(v, fs, p) ==
    \/ /\ fs # <<>>
       /\ frames' = Append(Front(fs), Fill(Last(fs), v))
       /\ UNCHANGED <<stage, result>>
    \/ /\ fs = <<>>
       /\ frames' = <<>> /\ result' = Got(v, p)
       /\ stage' = IF stage = "copying" THEN "copied" ELSE "read"

\* The innermost one is full.
Close(p) ==
    /\ Deliver(Filled(Last(frames)), Front(frames), p)
    /\ made' = made \cup {Filled(Last(frames))}

BeginEntry(key) ==
    /\ frames' = [frames EXCEPT ![Len(frames)].entry = <<key>>]
    /\ UNCHANGED <<stage, result, made>>

Open(marker, n) ==
    /\ frames' = Append(frames, Frame(marker, n))
    /\ UNCHANGED <<stage, result, made>>

-----------------------------------------------------------------------------
CodecInit ==
    /\ stage = "idle" /\ walk = Begin(Null) /\ size = 0 /\ visited = {}
    /\ room = 0 /\ out = <<>> /\ input = <<>> /\ pos = 1
    /\ frames = <<>> /\ result = Failure /\ made = {}

\* A value is to be sent.
Send(v) ==
    /\ stage = "idle"
    /\ stage' = "sizing" /\ walk' = Begin(v)
    /\ UNCHANGED <<size, visited, room, out, input, pos, frames, result, made>>

\* total_size() and copy() are called for the values, write() and read() follow them.
Visit == visited' = IF walk.due THEN visited \cup {Item(walk)} ELSE visited

Measure ==
    /\ stage = "sizing" /\ ~Ended(walk)
    /\ size' = size + SizeOf(walk)
    /\ walk' = After(walk)
    /\ Visit
    /\ UNCHANGED <<stage, room, out, input, pos, frames, result, made>>

Allocate(n) ==
    /\ stage = "sizing" /\ Ended(walk)
    /\ stage' = "writing" /\ room' = n /\ walk' = Begin(walk.root)
    /\ UNCHANGED <<size, visited, out, input, pos, frames, result, made>>

Fits == Len(out) + Len(BytesOf(walk)) <= room

Write ==
    /\ stage = "writing" /\ ~Ended(walk) /\ Fits
    /\ out' = out \o BytesOf(walk)
    /\ walk' = After(walk)
    /\ UNCHANGED <<stage, size, visited, room, input, pos, frames, result, made>>

\* A require() of the code fails.  The bytes before it are lost with the message.
Overflow ==
    /\ stage = "writing" /\ ~Ended(walk) /\ ~Fits
    /\ stage' = "overflow"
    /\ UNCHANGED <<walk, size, visited, room, out, input, pos, frames, result, made>>

\* The other side has got the bytes b.
Arrive(b) ==
    /\ stage = "writing" /\ Ended(walk)
    /\ stage' = "reading" /\ input' = b
    /\ UNCHANGED <<walk, size, visited, room, out, pos, frames, result, made>>

\* In the loop over the entries of the innermost one, not at the value of one.
InLoop == frames # <<>> /\ Last(frames).entry = <<>>

Containers == {Marker.Object, Marker.EcmaArray, Marker.StrictArray}

\* An error frees whatever was read.
Fail ==
    /\ stage' = "read" /\ result' = Failure /\ frames' = <<>>
    /\ UNCHANGED <<pos, made>>

ReadScalar ==
    /\ stage = "reading" /\ ~InLoop /\ ~Discovers(input, pos, Containers)
    /\ LET r == AnyScalar(input, pos)
       IN  \/ r.ok /\ Deliver(r.value, frames, r.next) /\ pos' = r.next /\ UNCHANGED made
           \/ ~r.ok /\ Fail
    /\ UNCHANGED <<walk, size, visited, room, out, input>>

ReadContainer ==
    /\ stage = "reading" /\ ~InLoop /\ Discovers(input, pos, Containers)
    /\ LET n == AnyCount(input, pos)
       IN  \/ n.ok /\ Open(input[pos], n.value) /\ pos' = n.next
           \/ ~n.ok /\ Fail
    /\ UNCHANGED <<walk, size, visited, room, out, input>>

\* The loop over properties ends at the end marker, or where the bytes end.
ReadProperty ==
    /\ stage = "reading" /\ InLoop /\ ~HasElems(Last(frames))
    /\ \/ pos > Len(input) /\ Close(pos) /\ UNCHANGED pos
       \/ IsObjectEof(input, pos) /\ Close(pos + EofSize) /\ pos' = pos + EofSize
       \/ /\ pos <= Len(input) /\ ~IsObjectEof(input, pos)
          /\ LET key == ReadUtf8(input, pos)
             IN  \/ key.ok /\ BeginEntry(key.value) /\ pos' = key.next
                 \/ ~key.ok /\ Fail
    /\ UNCHANGED <<walk, size, visited, room, out, input>>

\* So does the loop over the elements of an array, and at its count.
ReadElement ==
    LET ends == Len(Last(frames).items) >= Last(frames).count \/ pos > Len(input)
    IN  /\ stage = "reading" /\ InLoop /\ HasElems(Last(frames))
        /\ \/ ends /\ Close(pos)
           \/ ~ends /\ BeginEntry(<<>>)
        /\ UNCHANGED <<walk, size, visited, room, out, input, pos>>

-----------------------------------------------------------------------------
(* copy() *)

StartCopy(v) ==
    /\ stage = "idle"
    /\ stage' = "copying" /\ walk' = Begin(v)
    /\ UNCHANGED <<size, visited, room, out, input, pos, frames, result, made>>

\* A string is copied as a C string.
CString(s) == SubSeq(s, 1, SelectInSeq(Append(s, 0), LAMBDA x : x = 0) - 1)

CopyOf(v) == IF v.marker = Marker.String THEN String(CString(v.string)) ELSE v

\* Faulty variant: the count of an array is not copied.
CopyOpenUncounted == AtContainer(walk) /\ Open(Item(walk).marker, 0)

CopyOpen == AtContainer(walk) /\ Open(Item(walk).marker, CountOf(Item(walk)))

CopyScalar ==
    AtScalar(walk) /\ Deliver(CopyOf(Item(walk)), frames, pos) /\ UNCHANGED made

CopyEntry == AtEntry(walk) /\ BeginEntry(NextKey(walk))

CopyClose == AtEnd(walk) /\ Close(pos)

Copy ==
    /\ stage = "copying"
    /\ CopyOpen \/ CopyScalar \/ CopyEntry \/ CopyClose
    /\ walk' = After(walk)
    /\ Visit
    /\ UNCHANGED <<size, room, out, input, pos>>

CodecStep ==
    Measure \/ Write \/ Overflow
    \/ ReadScalar \/ ReadContainer \/ ReadProperty \/ ReadElement \/ Copy

\* The result is taken, or the error; what follows has nothing to do with it.
Finish ==
    /\ stage \in {"overflow", "read", "copied"}
    /\ stage' = "idle" /\ walk' = Begin(Null) /\ size' = 0 /\ visited' = {}
    /\ room' = 0 /\ out' = <<>> /\ input' = <<>> /\ pos' = 1
    /\ frames' = <<>> /\ result' = Failure /\ made' = {}

-----------------------------------------------------------------------------
\* What an object of these classes can hold.
Byte == 0 .. Base - 1
Int32 == 0 - Limit4 .. Limit4 - 1

Table(s) == s \in Seq(Range(s))
ProperProps(ps) ==
    /\ Table(ps)
    /\ \A i \in DOMAIN ps : ps[i] = Property(ps[i].key, ps[i].value) /\ ps[i].key \in Seq(Byte)

Proper(v) ==
    \/ v \in {Null, Undefined, ObjectEOF}
    \/ /\ v.marker = Marker.Number
       /\ v = Number(v.number) /\ v.number \in Seq(Byte) /\ Len(v.number) = 8
    \/ v.marker = Marker.Boolean /\ v = Boolean(v.boolean) /\ v.boolean \in BOOLEAN
    \/ v.marker = Marker.String /\ v = String(v.string) /\ v.string \in Seq(Byte)
    \/ /\ v.marker = Marker.Date
       /\ v = Date(v.date, v.zone) /\ v.date \in Seq(Byte) /\ Len(v.date) = 8
       /\ v.zone \in Seq(Byte) /\ Len(v.zone) = 2
    \/ v.marker = Marker.Object /\ v = Object(v.props) /\ ProperProps(v.props)
    \/ /\ v.marker = Marker.EcmaArray
       /\ v = EcmaArray(v.props, v.count) /\ ProperProps(v.props) /\ v.count \in Int32
    \/ /\ v.marker = Marker.StrictArray
       /\ v = StrictArray(v.elems, v.count) /\ Table(v.elems) /\ v.count \in Int32

KeysDistinct(v) == HasProps(v) => UniqueKeys(v.props)

\* What can be read back as it was: short strings and keys, numbers that do not look
\* like an end marker, and arrays that were not cleared or cut off.
Readable(v) ==
    /\ v.marker = Marker.String => Len(v.string) < Limit
    /\ v.marker = Marker.Number => SubSeq(v.number, 1, 2) # <<0, Marker.ObjectEnd>>
    /\ HasProps(v) => \A i \in DOMAIN v.props : Len(v.props[i].key) < Limit
    /\ HasElems(v) => v.count = Len(v.elems)
    /\ KeysDistinct(v)

AllProper == \A v \in visited : Proper(v)
AllReadable == \A v \in visited : Readable(v)

\* total_size() is exactly the room that write() needs: a buffer of that size is
\* filled, a smaller one is an error.
SizeExact ==
    /\ stage = "overflow" => room < size
    /\ stage = "writing" /\ Ended(walk) => Len(out) = size /\ size <= room

\* What is written is read back, and no more than that is consumed, whatever
\* follows it in the message.
RoundTrip ==
    stage = "read" /\ IsPrefix(out, input) /\ AllReadable
        => result = Got(walk.root, Len(out) + 1)

\* A copy is the same value in the same order, with the same count, unless a string
\* has a zero byte in it.
CopySame ==
    (/\ stage = "copied"
     /\ \A v \in visited :
            KeysDistinct(v) /\ (v.marker = Marker.String => CString(v.string) = v.string))
        => result.value = walk.root
=============================================================================
