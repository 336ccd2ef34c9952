------------------------------- MODULE MCJson -------------------------------
(* The parser on all short texts, and on what dumps() writes for some values *)
EXTENDS JsonText

MCStructure == {Space, Quote, ",", ":", "[", "]", "{", "}", "true", "0", "1", "-", ".", "e", "x"}
MCContents == {Quote, Backslash, "x", "wide2"}
MCEscapes == {Quote, Backslash, "n", "x", "u2", "u4", "uBad"}

MCContinuations ==
    LET close == {<<>>, <<"]">>, <<"}">>, <<"]", "]">>, <<"}", "}">>}
        begin == {<<>>, <<"1">>, <<"+", "1">>, <<Quote>>, <<Quote, ":", "1">>, <<":", "1">>}
    IN  {b \o c : b \in begin, c \in close}

Simple == {Literal("true"), Literal("false"), Literal("null"),
           String(<<>>), String(<<"x", Quote>>), String(<<Backslash, "newline", "wide3">>),
           Integer(0), Integer(-10), Double(0, 0), Double(-25, -1), Double(12345, -3),
           Double(125, -3), Double(1, 5)}
MCValues ==
    LET flat == Simple \cup {Array(<<v, w>>) : v \in Simple, w \in Simple}
                       \cup {Object(<<Property(<<"x">>, v), Property(<<>>, v)>>) : v \in Simple}
    IN  flat \cup {Array(<<v, Array(<<>>), v>>) : v \in flat}
             \cup {Object(<<Property(<<"x", "wide2">>, v)>>) : v \in flat}
MCTexts == {w.text : w \in Written}
           \cup {<<"{", Quote, "x", Quote, ":", "1", ",", Quote, "n", Quote, ":", "2", ",",
                   Quote, "x", Quote, ":", "3", "}">>}
=============================================================================
