------------------------------- MODULE AmfJson -------------------------------
(***************************************************************************)
(* The conversions between AMF0 and JSON values: to_json() in              *)
(* trunk/src/protocol/srs_protocol_amf0.cpp and to_amf0() in               *)
(* trunk/src/protocol/srs_protocol_json.cpp.                               *)
(***************************************************************************)
EXTENDS Amf0

CONSTANT Whole   \* the numbers that are equal to a 64-bit integer

Json(type, x) == [type |-> type, is |-> x]

\* SrsAmf0Any::to_json: a number is an integer if it is equal to one; what JSON
\* does not have is null.
RECURSIVE ToJson(_)
JsonFields(ps) ==
    FoldLeft(LAMBDA acc, p : SetProperty(acc, p.key, ToJson(p.value)), <<>>, ps)
ToJson(v) ==
    CASE v.marker = Marker.String -> Json("string", CString(v.string))
      [] v.marker = Marker.Boolean -> Json("boolean", v.boolean)
      [] v.marker = Marker.Number ->
            Json(IF v.number \in Whole THEN "integer" ELSE "number", v.number)
      [] HasProps(v) -> Json("object", JsonFields(v.props))
      [] HasElems(v) -> Json("array", [i \in DOMAIN v.elems |-> ToJson(v.elems[i])])
      [] OTHER -> Json("null", {})

RECURSIVE ToAmf0(_)
AmfProps(fs) ==
    FoldLeft(LAMBDA acc, f : SetProperty(acc, f.key, ToAmf0(f.value)), <<>>, fs)

\* Faulty variant: the array is made with its elements, but they are not appended.
AmfElemsUncounted(vs) == StrictArray([i \in DOMAIN vs |-> ToAmf0(vs[i])], 0)

AmfElems(vs) == StrictArray([i \in DOMAIN vs |-> ToAmf0(vs[i])], Len(vs))

\* SrsJsonAny::to_amf0
ToAmf0(j) ==
    CASE j.type = "string" -> String(CString(j.is))
      [] j.type = "boolean" -> Boolean(j.is)
      [] j.type \in {"integer", "number"} -> Number(j.is)
      [] j.type = "object" -> Object(AmfProps(j.is))
      [] j.type = "array" -> AmfElems(j.is)
      [] OTHER -> Null

ThroughJson == Changes /\ value' = ToAmf0(ToJson(value))

JsonSpec == Init /\ [][Next \/ ThroughJson]_vars

-----------------------------------------------------------------------------
\* What is left of a value that was JSON once: an object in place of an ECMA array,
\* null in place of what JSON does not have.
RECURSIVE Plain(_)
Plain(v) ==
    CASE HasProps(v) ->
            Object([i \in DOMAIN v.props |-> Property(v.props[i].key, Plain(v.props[i].value))])
      [] HasElems(v) -> StrictArray([i \in DOMAIN v.elems |-> Plain(v.elems[i])], Len(v.elems))
      [] v.marker = Marker.String -> String(CString(v.string))
      [] v.marker \in {Marker.Undefined, Marker.Date, Marker.ObjectEnd} -> Null
      [] OTHER -> v

\* A value that goes through JSON keeps its structure, the order of its properties
\* and its numbers; the count of an array that was cleared or cut off before is right
\* again, and a second time nothing more is lost.
JsonKeeps ==
    LET v == ToAmf0(ToJson(value))
    IN  stage = "idle" => v = Plain(value) /\ ToJson(v) = ToJson(value)
=============================================================================
