------------------------------- MODULE JsonPass -------------------------------
(***************************************************************************)
(* A pass of JsonParser, whichever it is, seen from the tree: how far it   *)
(* has come in the text, the nodes it has taken so far and what it has put *)
(* into them.  The state of a pass in this view is a function of the text  *)
(* that it has read, so that both passes go through the same views; that   *)
(* the second finds room for what it puts into a node then comes down to   *)
(* that the first only ever counts up.                                     *)
(*                                                                         *)
(* The operators that begin with V are those of JsonParser on views.  A    *)
(* number is one step here, since the second pass skips it.                *)
(***************************************************************************)
EXTENDS JsonParser

NumberFlags == {"num_negative", "num_e", "num_e_got_sign", "num_e_negative", "num_zero"}
Kind(type) == IF type = "double" THEN "integer" ELSE type
HeldNode(type, parent, length, bytes) ==
    [type |-> type, parent |-> parent, length |-> length, bytes |-> bytes]
Held(n) == HeldNode(Kind(n.type), n.parent, n.length, n.bytes)

\* How many nodes the pass has taken.
Count(p) == IF p.pass = 1 THEN Len(p.nodes) ELSE p.alloc - 1

FlagsOf(p) == p.flags \ NumberFlags
Put(nodes, i, n) == [nodes EXCEPT ![i] = n]

V(status, pos, flags, top, length, count, nodes) ==
    [status |-> status, pos |-> pos, flags |-> flags, top |-> top, length |-> length,
     count |-> count, nodes |-> nodes]
View(p) ==
    V(p.status, p.pos, FlagsOf(p), p.top, p.length,
      Count(p), [i \in 1 .. Count(p) |-> Held(p.nodes[i])])

\* The tree and what the first pass has counted for each of its nodes: the second
\* pass changes nothing of it.
Counted(p) ==
    [i \in DOMAIN p.nodes |->
        [type |-> Kind(p.nodes[i].type), parent |-> p.nodes[i].parent,
         room |-> IF i < p.alloc THEN p.nodes[i].room
                  ELSE <<p.nodes[i].length, p.nodes[i].bytes>>]]

-----------------------------------------------------------------------------
(* The steps *)

VFlags(v, fs) == V(v.status, v.pos, fs, v.top, v.length, v.count, v.nodes)
VOn(v, fs) == VFlags(v, v.flags \cup fs)
VOff(v, fs) == VFlags(v, v.flags \ fs)
VFail(v) == V("failed", v.pos, v.flags, v.top, v.length, v.count, v.nodes)
VAt(v, pos) == V(v.status, pos, v.flags, v.top, v.length, v.count, v.nodes)
VText(v, length) == V(v.status, v.pos, v.flags, v.top, length, v.count, v.nodes)
VNew(v, type) ==
    V(v.status, v.pos, v.flags, v.count + 1, v.length, v.count + 1,
      [i \in 1 .. v.count + 1 |->
          IF i = v.count + 1 THEN HeldNode(type, v.top, 0, 0) ELSE v.nodes[i]])

VBeginString(v) == VText(VOn(v, {"string"}), 0)
VStringAdd(v, b) == VText(v, v.length + Bytes(b))
VEndString(v) ==
    LET n == v.nodes[v.top]
    IN  IF n.type = "string"
        THEN V(v.status, v.pos, (v.flags \ {"string"}) \cup {"next"},
               v.top, v.length, v.count,
               Put(v.nodes, v.top, HeldNode("string", n.parent, v.length, n.bytes)))
        ELSE V(v.status, v.pos, (v.flags \ {"string"}) \cup {"seek_value", "need_colon"},
               v.top, v.length, v.count,
               Put(v.nodes, v.top,
                   HeldNode(n.type, n.parent, n.length, n.bytes + v.length + 1)))

VComplete(v) ==
    LET parent == v.nodes[v.top].parent
        n == v.nodes[parent]
        done == VOn(VOff(v, {"next"}), {"need_comma"})
        more == IF n.type = "array" THEN {"seek_value"} ELSE {}
    IN  IF parent = 0 THEN VOn(done, {"done"})
        ELSE V(v.status, v.pos, done.flags \cup more, parent, v.length, v.count,
               Put(v.nodes, parent, HeldNode(n.type, n.parent, n.length + 1, n.bytes)))

VGo(v) ==
    LET w == IF "reproc" \in v.flags THEN VOff(v, {"reproc"}) ELSE VAt(v, v.pos + 1)
    IN  IF "next" \in w.flags THEN VComplete(w) ELSE w

VInString(v, b) ==
    IF b = End \/ ("escaped" \in v.flags /\ b = "uBad") THEN VFail(v)
    ELSE IF "escaped" \in v.flags THEN VGo(VStringAdd(VOff(v, {"escaped"}), Escaped(b)))
    ELSE IF b = Backslash THEN VGo(VOn(v, {"escaped"}))
    ELSE IF b = Quote THEN VGo(VEndString(v))
    ELSE VGo(VStringAdd(v, b))

VAfterRoot(v, b) == IF b = Space THEN VGo(v) ELSE VFail(v)

VValueBegins(v, b) ==
    LET w == VOff(v, {"seek_value"})
    IN  IF b = "{" THEN VGo(VNew(w, "object"))
        ELSE IF b = "[" THEN VGo(VOn(VNew(w, "array"), {"seek_value"}))
        ELSE IF b = Quote THEN VGo(VBeginString(VNew(w, "string")))
        ELSE IF b \in Literals THEN VGo(VOn(VNew(w, b), {"next"}))
        ELSE VFail(v)

VSeekValue(v, b) ==
    IF b = Space THEN VGo(v)
    ELSE IF b = "]"
    THEN IF v.top # 0 /\ v.nodes[v.top].type = "array"
         THEN VGo(VOn(VOff(v, {"need_comma", "seek_value"}), {"next"})) ELSE VFail(v)
    ELSE IF "need_comma" \in v.flags
    THEN IF b = "," THEN VGo(VOff(v, {"need_comma"})) ELSE VFail(v)
    ELSE IF "need_colon" \in v.flags
    THEN IF b = ":" THEN VGo(VOff(v, {"need_colon"})) ELSE VFail(v)
    ELSE VValueBegins(v, b)

VInObject(v, b) ==
    IF b = Space THEN VGo(v)
    ELSE IF b = Quote
    THEN IF "need_comma" \in v.flags THEN VFail(v) ELSE VGo(VBeginString(v))
    ELSE IF b = "}" THEN VGo(VOn(VOff(v, {"need_comma"}), {"next"}))
    ELSE IF b = "," /\ "need_comma" \in v.flags THEN VGo(VOff(v, {"need_comma"}))
    ELSE VFail(v)

\* The step with the token b, unless a number begins with it.
VStep(v, b) ==
    IF "string" \in v.flags THEN VInString(v, b)
    ELSE IF "done" \in v.flags THEN VAfterRoot(v, b)
    ELSE IF "seek_value" \in v.flags THEN VSeekValue(v, b)
    ELSE VInObject(v, b)

NumberStarts(v, b) ==
    /\ "string" \notin v.flags /\ "done" \notin v.flags /\ "seek_value" \in v.flags
    /\ "need_comma" \notin v.flags /\ "need_colon" \notin v.flags
    /\ b \in Digits \cup {"-"}

\* In the number, before the token at e, and behind it when it ends there.
VInNumber(v, e) == VAt(VNew(VOff(v, {"seek_value"}), "integer"), e)
VNumber(v, e) == VGo(VOn(VInNumber(v, e), {"next", "reproc"}))

AllNumber(t, from, to) == \A j \in from .. to - 1 : t[j] \in NumberTokens

\* The step of a pass over the text t that does not fail.
Follows(t, v, w) ==
    /\ v.pos \in 1 .. Len(t) /\ w.status = "parsing"
    /\ IF NumberStarts(v, t[v.pos])
       THEN \E e \in v.pos .. Len(t) + 1 : AllNumber(t, v.pos, e) /\ w = VNumber(v, e)
       ELSE w = VStep(v, t[v.pos])

-----------------------------------------------------------------------------
(* What is counted for a node *)

\* The nodes on the way from the current one to the root: they are in every set
\* that is closed under parents and holds the current one.
Parents(v) == [i \in 1 .. v.count |-> v.nodes[i].parent]
Closed(parents, S) == \A j \in S : parents[j] # 0 => parents[j] \in S
Ancestors(parents, top) ==
    {i \in DOMAIN parents :
        \A S \in SUBSET DOMAIN parents : top \in S /\ Closed(parents, S) => i \in S}
Open(v) == Ancestors(Parents(v), v.top)

\* An entry of the node has begun, which is counted when it is complete.
Awaits(v, i) ==
    \/ i \in Open(v) /\ i # v.top
    \/ i = v.top /\ v.nodes[i].type = "object"
       /\ ("string" \in v.flags \/ "seek_value" \in v.flags)

\* What the node will hold at least.
LengthAt(v, i) ==
    IF i = v.top /\ "string" \in v.flags /\ v.nodes[i].type = "string" THEN v.length
    ELSE IF Awaits(v, i) THEN v.nodes[i].length + 1 ELSE v.nodes[i].length
BytesAt(v, i) ==
    IF i = v.top /\ "string" \in v.flags /\ v.nodes[i].type = "object"
    THEN v.nodes[i].bytes + v.length + 1 ELSE v.nodes[i].bytes

\* The pass has gone on from v to w: it has not lost a node, and none holds less.
Grows(v, w) ==
    /\ v.count <= w.count
    /\ \A i \in 1 .. v.count :
        /\ w.nodes[i].type = v.nodes[i].type /\ w.nodes[i].parent = v.nodes[i].parent
        /\ LengthAt(v, i) <= LengthAt(w, i) /\ BytesAt(v, i) <= BytesAt(w, i)

\* What holds of a view,
Placed(v) ==
    /\ v.pos \in Nat /\ v.count \in Nat /\ v.length \in Nat
    /\ v.top \in 0 .. v.count /\ (v.top = 0 => v.count = 0)
    /\ DOMAIN v.nodes = 1 .. v.count
    /\ \A i \in 1 .. v.count :
        /\ v.nodes[i].length \in Nat /\ v.nodes[i].bytes \in Nat
        /\ v.nodes[i].parent \in 0 .. i - 1
        /\ v.nodes[i].parent # 0 => v.nodes[v.nodes[i].parent].type \in {"array", "object"}

\* and between two steps.
Flagged(v) ==
    /\ "next" \notin v.flags /\ "reproc" \notin v.flags
    /\ v.top = 0 => v.flags = {"seek_value"}
    /\ "string" \in v.flags =>
          /\ "seek_value" \notin v.flags /\ "done" \notin v.flags
          /\ v.nodes[v.top].type \in {"string", "object"}
          /\ v.nodes[v.top].type = "string" => v.nodes[v.top].length = 0
    /\ "seek_value" \in v.flags =>
          /\ "done" \notin v.flags
          /\ v.top # 0 => v.nodes[v.top].type \in {"array", "object"}
    /\ "done" \in v.flags => v.nodes[v.top].parent = 0
    /\ "string" \notin v.flags /\ "seek_value" \notin v.flags /\ "done" \notin v.flags =>
          v.nodes[v.top].type = "object"
Sound(v) == Placed(v) /\ Flagged(v)
=============================================================================
