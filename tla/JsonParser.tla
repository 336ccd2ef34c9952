------------------------------ MODULE JsonParser ------------------------------
(***************************************************************************)
(* json_parse_ex (trunk/src/protocol/srs_protocol_json.cpp): a text is     *)
(* read twice, one character at a time.  The first pass allocates the      *)
(* nodes of the tree and counts what they hold; the second pass takes the  *)
(* nodes in the same order, allocates the room that was counted, and fills *)
(* it.                                                                     *)
(*                                                                         *)
(* A text is a sequence of tokens: characters, words, and the escapes that *)
(* may follow a backslash.  It is given, or it is chosen while it is read. *)
(***************************************************************************)
EXTENDS Integers, Sequences

CONSTANTS
    Texts,       \* texts that are given
    Structure,   \* the tokens chosen from outside of strings,
    Contents,    \* in strings,
    Escapes,     \* and after a backslash
    MaxLength    \* bound: the length of a text that is chosen

ASSUME TextsAssumption == \A t \in Texts : Len(t) \in Nat

VARIABLES
    text,        \* what has been read of it, or all of it
    complete,    \* is that all?
    parser       \* json_state, the locals of the function, and the nodes

vars == <<text, complete, parser>>

End == "end"
Space == "space"
Quote == "quote"
Backslash == "backslash"
Literals == {"true", "false", "null"}
DigitOf == [d \in {"0", "1", "2", "3", "4", "5", "6", "7", "8", "9"} |->
               CASE d = "0" -> 0 [] d = "1" -> 1 [] d = "2" -> 2 [] d = "3" -> 3
                 [] d = "4" -> 4 [] d = "5" -> 5 [] d = "6" -> 6 [] d = "7" -> 7
                 [] d = "8" -> 8 [] d = "9" -> 9]
Digits == DOMAIN DigitOf
NumberTokens == Digits \cup {"+", "-", "e", "."}

\* \u escapes of two, of three and of four bytes (a surrogate pair), and a wrong one.
Unescape == [n |-> "newline", u2 |-> "wide2", u3 |-> "wide3", u4 |-> "wide4"]
Escaped(b) == IF b \in DOMAIN Unescape THEN Unescape[b] ELSE b
Bytes(b) == CASE b = "wide2" -> 2 [] b = "wide3" -> 3 [] b \in {"wide4", "true", "null"} -> 4
              [] b = "false" -> 5 [] OTHER -> 1

Node(type, parent) ==
    [type |-> type, parent |-> parent,
     length |-> 0,              \* entries, or bytes of a string
     bytes |-> 0,               \* the names of an object, with a zero byte each
     room |-> <<0, 0>>,         \* what the second pass has allocated for these two
     m |-> 0, k |-> 0,          \* a number is m times 10 to the k
     name |-> <<>>, names |-> <<>>, items |-> <<>>]

Start(pass, nodes) ==
    [status |-> "parsing", pass |-> pass, pos |-> 1, flags |-> {"seek_value"},
     nodes |-> nodes, top |-> 0, alloc |-> 1,
     string |-> <<>>, length |-> 0, digits |-> 0, fraction |-> 0, e |-> 0]

Init ==
    /\ \/ text = <<>> /\ complete = FALSE
       \/ text \in Texts /\ complete = TRUE
    /\ parser = Start(1, <<>>)

-----------------------------------------------------------------------------
(* Helpers: a parser p, or what has become of it in this step *)

On(p, fs) == [p EXCEPT !.flags = @ \cup fs]
Off(p, fs) == [p EXCEPT !.flags = @ \ fs]

\* Faulty variant: a node does not know its parent.
NewDetached(p, type) ==
    IF p.pass = 1
    THEN [p EXCEPT !.nodes = Append(@, Node(type, 0)), !.top = Len(p.nodes) + 1]
    ELSE IF p.alloc > Len(p.nodes) THEN [p EXCEPT !.status = "crashed"]
    ELSE [p EXCEPT !.top = p.alloc, !.alloc = @ + 1]

\* new_value()
New(p, type) ==
    IF p.pass = 1
    THEN [p EXCEPT !.nodes = Append(@, Node(type, p.top)), !.top = Len(p.nodes) + 1]
    ELSE IF p.alloc > Len(p.nodes) THEN [p EXCEPT !.status = "crashed"]
    ELSE [p EXCEPT !.top = p.alloc, !.alloc = @ + 1,
                   !.nodes[p.alloc].room = <<p.nodes[p.alloc].length, p.nodes[p.alloc].bytes>>,
                   !.nodes[p.alloc].length = 0, !.nodes[p.alloc].bytes = 0]

BeginString(p) == [On(p, {"string"}) EXCEPT !.string = <<>>, !.length = 0]

\* Faulty variant: the first pass counts every character as one byte.
StringAddNarrow(p, b) ==
    IF p.pass = 1 THEN [p EXCEPT !.length = @ + 1]
    ELSE [p EXCEPT !.length = @ + Bytes(b), !.string = Append(@, b)]

\* string_add, and the same for the bytes of a \u escape.
StringAdd(p, b) ==
    IF p.pass = 1 THEN [p EXCEPT !.length = @ + Bytes(b)]
    ELSE [p EXCEPT !.length = @ + Bytes(b), !.string = Append(@, b)]

\* The end of a string, or of a name: the second pass puts it where it belongs.
EndString(p) ==
    IF p.nodes[p.top].type = "string"
    THEN [p EXCEPT !.flags = (@ \ {"string"}) \cup {"next"},
                   !.nodes[p.top].length = p.length,
                   !.nodes[p.top].items = p.string]
    ELSE [p EXCEPT !.flags = (@ \ {"string"}) \cup {"seek_value", "need_colon"},
                   !.nodes[p.top].bytes = @ + p.length + 1,
                   !.nodes[p.top].name = p.string]

BeginNumber(p) ==
    [Off(p, {"num_negative", "num_e", "num_e_got_sign", "num_e_negative", "num_zero"})
        EXCEPT !.digits = 0, !.fraction = 0, !.e = 0]

\* Where the second pass finds the end of a number.
NumberEnd(p) ==
    CHOOSE i \in p.pos .. Len(text) + 1 :
        /\ \A j \in p.pos .. i - 1 : text[j] \in NumberTokens
        /\ i <= Len(text) => text[i] \notin NumberTokens

\* flag_next: a value is complete and goes to its parent.
Complete(p) ==
    LET parent == p.nodes[p.top].parent
        done == On(Off(p, {"next"}), {"need_comma"})
    IN  IF parent = 0 THEN On(done, {"done"})
        ELSE [On(done, IF p.nodes[parent].type = "array" THEN {"seek_value"} ELSE {})
                EXCEPT !.top = parent,
                       !.nodes[parent].length = @ + 1,
                       !.nodes[parent].names = IF p.pass = 2
                            THEN Append(@, p.nodes[parent].name) ELSE @,
                       !.nodes[parent].items = IF p.pass = 2 THEN Append(@, p.top) ELSE @]

\* Faulty variant: the flag stays set.
GoStuck(p) ==
    LET q == IF "reproc" \in p.flags THEN p ELSE [p EXCEPT !.pos = @ + 1]
    IN  parser' = IF "next" \in q.flags THEN Complete(q) ELSE q

\* The rest of the loop: the next character, unless this one is to be read again.
Go(p) ==
    LET q == IF "reproc" \in p.flags THEN Off(p, {"reproc"}) ELSE [p EXCEPT !.pos = @ + 1]
    IN  parser' = IF "next" \in q.flags THEN Complete(q) ELSE q

Fail == parser' = [parser EXCEPT !.status = "failed"]

Is(flag) == flag \in parser.flags
Top == parser.nodes[parser.top]

-----------------------------------------------------------------------------
(* What the loop does with a token b *)

InString(b) ==
    /\ Is("string")
    /\ \/ b = End /\ Fail
       \/ /\ b # End /\ Is("escaped")
          /\ IF b = "uBad" THEN Fail ELSE Go(StringAdd(Off(parser, {"escaped"}), Escaped(b)))
       \/ /\ b # End /\ ~Is("escaped")
          /\ Go(CASE b = Backslash -> On(parser, {"escaped"})
                  [] b = Quote -> EndString(parser)
                  [] OTHER -> StringAdd(parser, b))

\* Behind the root value there may be white space.
AfterRoot(b) ==
    /\ ~Is("string") /\ Is("done")
    /\ \/ b = End /\ parser.pass = 1 /\ parser' = Start(2, parser.nodes)
       \/ b = End /\ parser.pass = 2 /\ parser' = [parser EXCEPT !.status = "accepted"]
       \/ b = Space /\ Go(parser)
       \/ b \notin {End, Space} /\ Fail

\* The second pass skips a number, whose value the first has left in the node.
NumberBegins(p, b) ==
    IF p.pass = 2
    THEN Go([On(New(p, "integer"), {"next", "reproc"}) EXCEPT !.pos = NumberEnd(p)])
    ELSE Go(On(BeginNumber(New(p, "integer")), {IF b = "-" THEN "num_negative" ELSE "reproc"}))

ValueBegins(b) ==
    LET p == Off(parser, {"seek_value"})
    IN  \/ b = "{" /\ Go(New(p, "object"))
        \/ b = "[" /\ Go(On(New(p, "array"), {"seek_value"}))
        \/ b = Quote /\ Go(BeginString(New(p, "string")))
        \/ b \in Literals /\ Go(On(New(p, b), {"next"}))
        \/ b \in Digits \cup {"-"} /\ NumberBegins(p, b)
        \/ b \notin {"{", "[", Quote, "-"} \cup Literals \cup Digits /\ Fail

\* Faulty variant: a comma is not asked for.
SeekValueAnyway(b) ==
    /\ ~Is("string") /\ ~Is("done") /\ Is("seek_value")
    /\ \/ b = Space /\ Go(parser)
       \/ /\ b = "]"
          /\ IF parser.top # 0 /\ Top.type = "array"
             THEN Go(On(Off(parser, {"need_comma", "seek_value"}), {"next"})) ELSE Fail
       \/ b \notin {Space, "]"} /\ b = "," /\ Is("need_comma") /\ Go(Off(parser, {"need_comma"}))
       \/ b \notin {Space, "]", ","} /\ Is("need_colon")
            /\ IF b = ":" THEN Go(Off(parser, {"need_colon"})) ELSE Fail
       \/ b \notin {Space, "]", ","} /\ ~Is("need_colon") /\ ValueBegins(b)

SeekValue(b) ==
    /\ ~Is("string") /\ ~Is("done") /\ Is("seek_value")
    /\ \/ b = Space /\ Go(parser)
       \/ /\ b = "]"
          /\ IF parser.top # 0 /\ Top.type = "array"
             THEN Go(On(Off(parser, {"need_comma", "seek_value"}), {"next"})) ELSE Fail
       \/ /\ b \notin {Space, "]"} /\ Is("need_comma")
          /\ IF b = "," THEN Go(Off(parser, {"need_comma"})) ELSE Fail
       \/ /\ b \notin {Space, "]"} /\ ~Is("need_comma") /\ Is("need_colon")
          /\ IF b = ":" THEN Go(Off(parser, {"need_colon"})) ELSE Fail
       \/ /\ b \notin {Space, "]"} /\ ~Is("need_comma") /\ ~Is("need_colon")
          /\ ValueBegins(b)

In(types) == ~Is("string") /\ ~Is("done") /\ ~Is("seek_value") /\ Top.type \in types

InObject(b) ==
    /\ In({"object"})
    /\ \/ b = Space /\ Go(parser)
       \/ b = Quote /\ IF Is("need_comma") THEN Fail ELSE Go(BeginString(parser))
       \/ b = "}" /\ Go(On(Off(parser, {"need_comma"}), {"next"}))
       \/ b = "," /\ IF Is("need_comma") THEN Go(Off(parser, {"need_comma"})) ELSE Fail
       \/ b \notin {Space, Quote, "}", ","} /\ Fail

\* A digit of the integer, of the fraction or of the exponent.
Digit(b) ==
    LET p == [parser EXCEPT !.digits = @ + 1]
        d == DigitOf[b]
    IN  \/ /\ Is("num_e")
           /\ Go([On(p, {"num_e_got_sign"}) EXCEPT !.e = 10 * @ + d])
        \/ /\ ~Is("num_e") /\ Top.type = "double"
           /\ Go([p EXCEPT !.fraction = 10 * @ + d])
        \/ /\ ~Is("num_e") /\ Top.type = "integer"
           /\ IF Is("num_zero") THEN Fail
              ELSE Go([On(p, IF p.digits = 1 /\ d = 0 THEN {"num_zero"} ELSE {})
                        EXCEPT !.nodes[p.top].m = 10 * @ + d])

ExponentSign(b) == b \in {"+", "-"} /\ Is("num_e") /\ ~Is("num_e_got_sign")
PointOfInteger(b) == b = "." /\ Top.type = "integer"

\* What the node holds when the fraction is added.
WithFraction(p) ==
    IF p.nodes[p.top].type = "double" /\ "num_e" \notin p.flags
    THEN [p EXCEPT !.nodes[p.top].m = @ * 10 ^ p.digits + p.fraction,
                   !.nodes[p.top].k = @ - p.digits]
    ELSE p

\* And the exponent, and the sign.
WithExponent(p) ==
    IF "num_e" \in p.flags
    THEN [p EXCEPT !.nodes[p.top].k = IF "num_e_negative" \in p.flags THEN @ - p.e ELSE @ + p.e]
    ELSE p
WithSign(p) ==
    IF "num_negative" \in p.flags THEN [p EXCEPT !.nodes[p.top].m = -@] ELSE p

InNumber(b) ==
    /\ In({"integer", "double"})
    /\ \/ b \in Digits /\ Digit(b)
       \/ /\ ExponentSign(b)
          /\ Go(On(parser, {"num_e_got_sign"} \cup IF b = "-" THEN {"num_e_negative"} ELSE {}))
       \/ /\ PointOfInteger(b)
          /\ IF parser.digits = 0 THEN Fail
             ELSE Go([parser EXCEPT !.nodes[parser.top].type = "double", !.digits = 0])
       \/ /\ b \notin Digits /\ ~ExponentSign(b) /\ ~PointOfInteger(b)
          /\ (Is("num_e") \/ Top.type = "double") /\ parser.digits = 0
          /\ Fail
       \/ /\ b \notin Digits /\ ~ExponentSign(b) /\ ~PointOfInteger(b)
          /\ ~((Is("num_e") \/ Top.type = "double") /\ parser.digits = 0)
          /\ IF b = "e" /\ ~Is("num_e")
             THEN Go([On(Off(WithFraction(parser), {"num_zero"}), {"num_e"})
                        EXCEPT !.nodes[parser.top].type = "double", !.digits = 0])
             ELSE Go(On(WithSign(WithExponent(WithFraction(parser))), {"next", "reproc"}))

\* What can be read next.
Offered ==
    IF parser.pos <= Len(text) THEN {text[parser.pos]}
    ELSE IF complete \/ Len(text) = MaxLength THEN {End}
    ELSE {End} \cup (IF Is("escaped") THEN Escapes ELSE IF Is("string") THEN Contents
                     ELSE Structure)

Next ==
    /\ parser.status = "parsing"
    /\ \E b \in Offered :
        /\ complete' = (complete \/ b = End)
        /\ text' = IF b # End /\ parser.pos > Len(text) THEN Append(text, b) ELSE text
        /\ InString(b) \/ AfterRoot(b) \/ SeekValue(b) \/ InObject(b) \/ InNumber(b)

Spec == Init /\ [][Next]_vars /\ WF_vars(Next)

-----------------------------------------------------------------------------
\* Every variable has its type, and the parser is never outside of the text.
TypeOK ==
    /\ complete \in BOOLEAN
    /\ parser.status \in {"parsing", "accepted", "failed", "crashed"} /\ parser.pass \in {1, 2}
    /\ parser.pos \in 1 .. Len(text) + 1
    /\ parser.top \in 0 .. Len(parser.nodes)

\* The nodes of both passes form one tree, in the order of their allocation: what
\* json_value_free_ex, which walks from the items of a node to the nodes and from
\* their parents back, relies on, also when parsing fails anywhere.
NodesFormTree ==
    \A i \in DOMAIN parser.nodes :
        LET n == parser.nodes[i]
        IN  /\ n.parent \in 0 .. i - 1
            /\ n.parent = 0 <=> i = 1
            /\ n.type \in {"array", "object"} =>
                  \A j \in DOMAIN n.items :
                      /\ n.items[j] \in DOMAIN parser.nodes
                      /\ parser.nodes[n.items[j]].parent = i

\* The two passes agree: the second does not fail, takes a node of the first for
\* every value, and never has more to put into a node than the first has counted.
PassesAgree ==
    /\ parser.status # "crashed"
    /\ parser.pass = 2 =>
        /\ parser.status # "failed"
        /\ \A i \in 1 .. parser.alloc - 1 :
            LET n == parser.nodes[i]
            IN  n.length <= n.room[1] /\ n.bytes <= n.room[2]
        /\ Is("string") /\ Top.type = "string" => parser.length <= Top.room[1]
        /\ Is("string") /\ Top.type = "object" =>
              Top.length < Top.room[1] /\ Top.bytes + parser.length + 1 <= Top.room[2]
        /\ parser.status = "accepted" =>
              /\ parser.alloc = Len(parser.nodes) + 1
              /\ \A i \in DOMAIN parser.nodes :
                    <<parser.nodes[i].length, parser.nodes[i].bytes>> = parser.nodes[i].room
=============================================================================
