------------------------------- MODULE JsonText -------------------------------
(***************************************************************************)
(* SrsJsonAny (trunk/src/protocol/srs_protocol_json.cpp): what loads()     *)
(* makes of the tree of the parser and what dumps() writes, and a          *)
(* reference for both: the texts that are accepted and their values.       *)
(***************************************************************************)
EXTENDS JsonFree, PropertyTable

CONSTANTS
    Values,      \* the values that are written
    Continuations,   \* ends that are tried where the parser fails
    NumberRoom   \* how many characters of a double dumps() has room for; 21 in the code

Literal(b) == [type |-> b]
String(s) == [type |-> "string", string |-> s]
Integer(n) == [type |-> "integer", m |-> n]
Array(vs) == [type |-> "array", items |-> vs]
Object(ps) == [type |-> "object", props |-> ps]

\* m times 10 to the k, with the smallest m.
RECURSIVE Double(_, _)
Double(m, k) ==
    IF m = 0 THEN [type |-> "double", m |-> 0, k |-> 0]
    ELSE IF m % 10 = 0 THEN Double(m \div 10, k + 1)
    ELSE [type |-> "double", m |-> m, k |-> k]

-----------------------------------------------------------------------------
(* loads(): srs_json_parse_tree goes through the nodes *)

RECURSIVE Tree(_)
Tree(i) ==
    LET n == parser.nodes[i]
    IN  CASE n.type = "string" -> String(n.items)
          [] n.type = "integer" -> Integer(n.m)
          [] n.type = "double" -> Double(n.m, n.k)
          [] n.type = "array" -> Array([j \in DOMAIN n.items |-> Tree(n.items[j])])
          [] n.type = "object" ->
                Object(FoldLeft(LAMBDA ps, j : SetProperty(ps, n.names[j], Tree(n.items[j])),
                                <<>>, [j \in DOMAIN n.items |-> j]))
          [] OTHER -> Literal(n.type)

-----------------------------------------------------------------------------
(* dumps() *)

RECURSIVE Decimal(_)
Decimal(n) ==
    LET d == CHOOSE d \in Digits : DigitOf[d] = n % 10
    IN  IF n < 10 THEN <<d>> ELSE Append(Decimal(n \div 10), d)

Signed(m, s) == IF m < 0 THEN <<"-">> \o s ELSE s
Absolute(m) == IF m < 0 THEN -m ELSE m

\* %.2f, rounded to the even one of two that are equally near.
Hundredths(m, k) ==
    IF k >= -2 THEN m * 10 ^ (k + 2)
    ELSE LET unit == 10 ^ (-2 - k)
             low == m \div unit
             twice == 2 * (m % unit)
         IN  IF twice < unit \/ (twice = unit /\ low % 2 = 0) THEN low ELSE low + 1

IntegerDumps(n) == Signed(n, Decimal(Absolute(n)))
DoubleText(m, k) ==
    LET h == Hundredths(Absolute(m), k)
    IN  Signed(m, Decimal(h \div 100) \o <<".">> \o Decimal((h \div 10) % 10) \o Decimal(h % 10))
DoubleDumps(m, k) ==
    LET s == DoubleText(m, k)
    IN  SubSeq(s, 1, IF Len(s) < NumberRoom THEN Len(s) ELSE NumberRoom)

\* Faulty variant: a backslash is written as it is.
SerializeQuotes(s) ==
    <<Quote>> \o FlattenSeq([i \in DOMAIN s |->
        CASE s[i] = Quote -> <<Backslash, Quote>>
          [] s[i] = "newline" -> <<Backslash, "n">>
          [] OTHER -> <<s[i]>>]) \o <<Quote>>

\* json_serialize_string
Serialize(s) ==
    <<Quote>> \o FlattenSeq([i \in DOMAIN s |->
        CASE s[i] \in {Quote, Backslash} -> <<Backslash, s[i]>>
          [] s[i] = "newline" -> <<Backslash, "n">>
          [] OTHER -> <<s[i]>>]) \o <<Quote>>

RECURSIVE Dumps(_)
List(ss) == FlattenSeq([i \in DOMAIN ss |-> IF i = 1 THEN ss[i] ELSE <<",">> \o ss[i]])
\* SRS_JFIELD_NAME: a key is written as it is.
Field(p) == <<Quote>> \o p.key \o <<Quote, ":">> \o Dumps(p.value)
Dumps(v) ==
    CASE v.type = "string" -> Serialize(v.string)
      [] v.type = "integer" -> IntegerDumps(v.m)
      [] v.type = "double" -> DoubleDumps(v.m, v.k)
      [] v.type = "array" ->
            <<"[">> \o List([i \in DOMAIN v.items |-> Dumps(v.items[i])]) \o <<"]">>
      [] v.type = "object" ->
            <<"{">> \o List([i \in DOMAIN v.props |-> Field(v.props[i])]) \o <<"}">>
      [] OTHER -> <<v.type>>

-----------------------------------------------------------------------------
(* The reference: values of the text t from position p on *)

No == [ok |-> FALSE]
Yes(v, p) == [ok |-> TRUE, value |-> v, next |-> p]
At(t, p) == IF p <= Len(t) THEN t[p] ELSE End

RECURSIVE SkipSpace(_, _)
SkipSpace(t, p) == IF At(t, p) = Space THEN SkipSpace(t, p + 1) ELSE p

\* A string may hold every character but the two that are escaped, and anything
\* may be escaped.
RECURSIVE RefString(_, _, _)
RefString(t, p, s) ==
    CASE At(t, p) = End -> No
      [] At(t, p) = Quote -> Yes(s, p + 1)
      [] At(t, p) = Backslash ->
            IF At(t, p + 1) \in {End, "uBad"} THEN No
            ELSE RefString(t, p + 2, Append(s, Escaped(t[p + 1])))
      [] OTHER -> RefString(t, p + 1, Append(s, t[p]))

AllDigits(s) == \A i \in DOMAIN s : s[i] \in Digits
Natural(s) == FoldLeft(LAMBDA acc, d : 10 * acc + DigitOf[d], 0, s)
Exponent(s) ==
    IF Head(s) \in {"+", "-"} THEN IF Head(s) = "-" THEN -Natural(Tail(s)) ELSE Natural(Tail(s))
    ELSE Natural(s)

\* A number is an integer without leading zeros, a fraction and an exponent.  After
\* a minus sign the integer may be missing if there is no fraction.
RefNumber(s) ==
    LET sign == IF s[1] = "-" THEN -1 ELSE 1
        u == IF s[1] = "-" THEN Tail(s) ELSE s
        parts == {<<i, j>> \in (0 .. Len(u)) \X (0 .. Len(u)) :
            /\ i <= j
            /\ AllDigits(SubSeq(u, 1, i)) /\ (i > 1 => u[1] # "0")
            /\ i = 0 => j = 0 /\ sign = -1
            /\ j > i => j > i + 1 /\ u[i + 1] = "." /\ AllDigits(SubSeq(u, i + 2, j))
            /\ j < Len(u) =>
                  /\ u[j + 1] = "e"
                  /\ LET x == SubSeq(u, j + 2, Len(u))
                         d == IF x # <<>> /\ Head(x) \in {"+", "-"} THEN Tail(x) ELSE x
                     IN  d # <<>> /\ AllDigits(d)}
    IN  IF parts = {} THEN No
        ELSE LET part == CHOOSE part \in parts : TRUE
                 i == part[1]
                 j == part[2]
                 fraction == SubSeq(u, i + 2, j)
                 e == IF j = Len(u) THEN 0 ELSE Exponent(SubSeq(u, j + 2, Len(u)))
             IN  IF i = Len(u) THEN Yes(Integer(sign * Natural(u)), 0)
                 ELSE Yes(Double(sign * Natural(SubSeq(u, 1, i) \o fraction), e - Len(fraction)), 0)

RECURSIVE RefValue(_, _)

\* Items and members end at the bracket; a comma may stand before it, but not alone.
RECURSIVE RefItems(_, _, _)
RefItems(t, p, vs) ==
    LET v == RefValue(t, SkipSpace(t, p))
        q == SkipSpace(t, v.next)
    IN  IF At(t, SkipSpace(t, p)) = "]" THEN Yes(Array(vs), SkipSpace(t, p) + 1)
        ELSE IF ~v.ok THEN No
        ELSE IF At(t, q) = "," THEN RefItems(t, q + 1, Append(vs, v.value))
        ELSE IF At(t, q) = "]" THEN Yes(Array(Append(vs, v.value)), q + 1)
        ELSE No

RECURSIVE RefMembers(_, _, _)
RefMembers(t, p, ps) ==
    LET start == SkipSpace(t, p)
        name == RefString(t, start + 1, <<>>)
        colon == SkipSpace(t, name.next)
        v == RefValue(t, SkipSpace(t, colon + 1))
        q == SkipSpace(t, v.next)
        more == SetProperty(ps, name.value, v.value)
    IN  IF At(t, start) = "}" THEN Yes(Object(ps), start + 1)
        ELSE IF At(t, start) # Quote THEN No
        ELSE IF ~name.ok THEN No
        ELSE IF At(t, colon) # ":" THEN No
        ELSE IF ~v.ok THEN No
        ELSE IF At(t, q) = "," THEN RefMembers(t, q + 1, more)
        ELSE IF At(t, q) = "}" THEN Yes(Object(more), q + 1)
        ELSE No

RefValue(t, p) ==
    LET b == At(t, p)
        end == CHOOSE i \in p .. Len(t) + 1 :
                    /\ \A j \in p .. i - 1 : t[j] \in NumberTokens
                    /\ i <= Len(t) => t[i] \notin NumberTokens
        s == RefString(t, p + 1, <<>>)
        n == RefNumber(SubSeq(t, p, end - 1))
    IN  CASE b \in Literals -> Yes(Literal(b), p + 1)
          [] b = Quote -> IF s.ok THEN Yes(String(s.value), s.next) ELSE No
          [] b = "[" -> RefItems(t, p + 1, <<>>)
          [] b = "{" -> RefMembers(t, p + 1, <<>>)
          [] b \in Digits \cup {"-"} -> IF n.ok THEN Yes(n.value, end) ELSE No
          [] OTHER -> No

Reference(t) ==
    LET v == RefValue(t, SkipSpace(t, 1))
    IN  IF v.ok /\ SkipSpace(t, v.next) = Len(t) + 1 THEN v ELSE No

-----------------------------------------------------------------------------
\* What loads() says of a text is what the reference says: it is accepted if it is
\* JSON, with the value that the reference has for it; and where the parser fails,
\* no continuation makes it JSON.
ParsesReference ==
    /\ parser.status = "accepted" /\ stage = "parsing" =>
          Reference(text).ok /\ Tree(1) = Reference(text).value
    /\ parser.status = "failed" /\ stage = "parsing" =>
          \A rest \in {<<>>} \cup (IF complete THEN {} ELSE Continuations) :
              ~Reference(text \o rest).ok

\* What dumps() keeps of a value: doubles have two digits.
RECURSIVE Rounded(_)
Rounded(v) ==
    CASE v.type = "double" ->
            Double((IF v.m < 0 THEN -1 ELSE 1) * Hundredths(Absolute(v.m), v.k), -2)
      [] v.type = "array" -> Array([i \in DOMAIN v.items |-> Rounded(v.items[i])])
      [] v.type = "object" ->
            Object([i \in DOMAIN v.props |-> Property(v.props[i].key, Rounded(v.props[i].value))])
      [] OTHER -> v

\* Does dumps() have room for all doubles of the value?
RECURSIVE HasRoom(_)
HasRoom(v) ==
    CASE v.type = "double" -> Len(DoubleText(v.m, v.k)) <= NumberRoom
      [] v.type = "array" -> \A i \in DOMAIN v.items : HasRoom(v.items[i])
      [] v.type = "object" -> \A i \in DOMAIN v.props : HasRoom(v.props[i].value)
      [] OTHER -> TRUE

\* Every value with what dumps() writes for it.
Written == {[value |-> v, text |-> Dumps(v)] : v \in {w \in Values : HasRoom(w)}}

\* loads() reads what dumps() has written: the same value with rounded doubles, if
\* names need no escape and doubles have room.
ReadBack ==
    parser.status # "parsing" /\ stage = "parsing" =>
        \A w \in Written :
            text = w.text => parser.status = "accepted" /\ Tree(1) = Rounded(w.value)
=============================================================================
