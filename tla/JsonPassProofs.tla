--------------------------- MODULE JsonPassProofs ---------------------------
(***************************************************************************)
(* The two passes of the parser agree, for every text, and what they have  *)
(* allocated is freed.                                                     *)
(*                                                                         *)
(* What is counted for a node only grows along the views of a pass (from   *)
(* GrowsThen to FollowsSound).  The first pass leaves behind the list of   *)
(* the views it has gone through (Run, FirstStep); the second goes through *)
(* the same list (SecondStep), so that at every view the room that the     *)
(* last one has asked for is enough (RoomFits).                            *)
(*                                                                         *)
(* The second pass leaves a tree whose nodes are each an entry of their    *)
(* parent once (Whole), and json_value_free_ex keeps the nodes on its way  *)
(* to the root (Walks).                                                    *)
(***************************************************************************)
EXTENDS JsonParserProofs, JsonFree

-----------------------------------------------------------------------------
(* What is counted for a node only grows *)

LEMMA LengthsNat ==
    ASSUME NEW v, Placed(v), NEW i \in 1 .. v.count
    PROVE  LengthAt(v, i) \in Nat /\ BytesAt(v, i) \in Nat
<1>1. v.length \in Nat /\ v.nodes[i].length \in Nat /\ v.nodes[i].bytes \in Nat
  BY DEF Placed
<1>2. LengthAt(v, i) \in {v.length, v.nodes[i].length + 1, v.nodes[i].length}
  BY DEF LengthAt
<1>3. BytesAt(v, i) \in {v.nodes[i].bytes + v.length + 1, v.nodes[i].bytes}
  BY DEF BytesAt
<1> QED
  BY <1>1, <1>2, <1>3

LEMMA GrowsThen ==
    ASSUME NEW v, Placed(v), NEW w, Placed(w), NEW x, Placed(x), Grows(v, w), Grows(w, x)
    PROVE  Grows(v, x)
<1>1. v.count \in Nat /\ w.count \in Nat /\ x.count \in Nat
  BY DEF Placed
<1>2. v.count <= w.count /\ w.count <= x.count
  BY DEF Grows
<1>3. ASSUME NEW i \in 1 .. v.count
      PROVE  /\ x.nodes[i].type = v.nodes[i].type /\ x.nodes[i].parent = v.nodes[i].parent
             /\ LengthAt(v, i) <= LengthAt(x, i) /\ BytesAt(v, i) <= BytesAt(x, i)
  <2>1. i \in 1 .. w.count /\ i \in 1 .. x.count
    BY <1>1, <1>2
  <2>2. /\ LengthAt(v, i) \in Nat /\ BytesAt(v, i) \in Nat
        /\ LengthAt(w, i) \in Nat /\ BytesAt(w, i) \in Nat
        /\ LengthAt(x, i) \in Nat /\ BytesAt(x, i) \in Nat
    BY <2>1, LengthsNat
  <2>3. /\ w.nodes[i].type = v.nodes[i].type /\ w.nodes[i].parent = v.nodes[i].parent
        /\ LengthAt(v, i) <= LengthAt(w, i) /\ BytesAt(v, i) <= BytesAt(w, i)
    BY DEF Grows
  <2>4. /\ x.nodes[i].type = w.nodes[i].type /\ x.nodes[i].parent = w.nodes[i].parent
        /\ LengthAt(w, i) <= LengthAt(x, i) /\ BytesAt(w, i) <= BytesAt(x, i)
    BY <2>1 DEF Grows
  <2> QED
    BY <2>2, <2>3, <2>4
<1> QED
  BY <1>1, <1>2, <1>3 DEF Grows

\* The lengths of the nodes that are not the current one.
LEMMA LengthElsewhere ==
    ASSUME NEW v, NEW i, i # v.top
    PROVE  /\ LengthAt(v, i) = IF i \in Open(v) THEN v.nodes[i].length + 1 ELSE v.nodes[i].length
           /\ BytesAt(v, i) = v.nodes[i].bytes
BY DEF LengthAt, BytesAt, Awaits

LEMMA GrowsHere ==
    ASSUME NEW v, Placed(v), NEW w, w.count = v.count, w.top = v.top,
           \A i \in 1 .. v.count :
              /\ w.nodes[i].type = v.nodes[i].type /\ w.nodes[i].parent = v.nodes[i].parent
              /\ i # v.top => /\ w.nodes[i].length = v.nodes[i].length
                              /\ w.nodes[i].bytes = v.nodes[i].bytes,
           v.top # 0 => /\ LengthAt(v, v.top) <= LengthAt(w, v.top)
                        /\ BytesAt(v, v.top) <= BytesAt(w, v.top)
    PROVE  Grows(v, w)
<1>1. Open(w) = Open(v)
  <2>1. Parents(w) = Parents(v)
    BY DEF Parents
  <2> QED
    BY <2>1 DEF Open
<1>2. ASSUME NEW i \in 1 .. v.count, i # v.top
      PROVE  LengthAt(v, i) <= LengthAt(w, i) /\ BytesAt(v, i) <= BytesAt(w, i)
  <2>1. LengthAt(v, i) = LengthAt(w, i) /\ BytesAt(v, i) = BytesAt(w, i)
    BY <1>1, <1>2, LengthElsewhere
  <2>2. LengthAt(v, i) \in Nat /\ BytesAt(v, i) \in Nat
    BY LengthsNat
  <2> QED
    BY <2>1, <2>2
<1>3. v.count \in Nat /\ \A i \in 1 .. v.count : i = v.top => v.top # 0
  BY DEF Placed
<1> QED
  BY <1>2, <1>3 DEF Grows

\* A node is put below the current one.
LEMMA OpenBelow ==
    ASSUME NEW v, Placed(v), NEW w, w.count = v.count + 1, w.top = v.count + 1,
           \A i \in 1 .. v.count : w.nodes[i] = v.nodes[i],
           w.nodes[v.count + 1].parent = v.top
    PROVE  /\ \A i \in 1 .. v.count : i \in Open(v) => i \in Open(w)
           /\ v.top # 0 => v.top \in Open(w)
<1> DEFINE P == Parents(v)
           R == Parents(w)
           c == v.count + 1
<1>1. /\ v.count \in Nat /\ DOMAIN P = 1 .. v.count /\ DOMAIN R = 1 .. c
      /\ v.top \in 0 .. v.count /\ (v.top = 0 => v.count = 0)
  BY DEF Placed, Parents
<1>2. /\ \A i \in 1 .. v.count : P[i] = v.nodes[i].parent /\ R[i] = v.nodes[i].parent
      /\ R[c] = v.top
  BY <1>1 DEF Parents
<1>3. \A i \in 1 .. v.count : P[i] \in 0 .. v.count
  BY <1>2 DEF Placed
<1> HIDE DEF P, R
<1>4. ASSUME NEW S \in SUBSET (1 .. c), c \in S, Closed(R, S), v.top # 0
      PROVE  /\ v.top \in S /\ S \cap (1 .. v.count) \in SUBSET (1 .. v.count)
             /\ v.top \in S \cap (1 .. v.count) /\ Closed(P, S \cap (1 .. v.count))
  BY <1>1, <1>2, <1>3, <1>4 DEF Closed
<1>5. ASSUME v.top # 0 PROVE v.top \in Ancestors(R, c)
  <2>1. v.top \in DOMAIN R
    BY <1>1, <1>5
  <2> QED
    BY <1>1, <1>4, <1>5, <2>1 DEF Ancestors
<1>6. ASSUME NEW i \in 1 .. v.count, i \in Ancestors(P, v.top) PROVE i \in Ancestors(R, c)
  <2>1. v.top # 0 /\ i \in DOMAIN R
    BY <1>1
  <2>2. ASSUME NEW S \in SUBSET DOMAIN R, c \in S, Closed(R, S) PROVE i \in S
    BY <1>1, <1>4, <1>6, <2>1, <2>2 DEF Ancestors
  <2> QED
    BY <2>1, <2>2 DEF Ancestors
<1> QED
  BY <1>5, <1>6 DEF Open, P, R

\* The parent of the current node becomes the current one.
LEMMA OpenAbove ==
    ASSUME NEW v, Placed(v), v.top # 0, v.nodes[v.top].parent # 0, NEW w, w.count = v.count,
           w.top = v.nodes[v.top].parent,
           \A i \in 1 .. v.count : w.nodes[i].parent = v.nodes[i].parent
    PROVE  /\ \A i \in 1 .. v.count : i \in Open(v) /\ i # v.top => i \in Open(w)
           /\ w.top \in Open(v) /\ w.top \in 1 .. v.count /\ w.top # v.top
<1> DEFINE P == Parents(v)
<1>1. P = Parents(w)
  BY DEF Parents
<1>2. /\ DOMAIN P = 1 .. v.count /\ v.top \in 1 .. v.count /\ w.top \in 1 .. v.count
      /\ w.top # v.top /\ P[v.top] = w.top /\ w.top # 0
  BY DEF Parents, Placed
<1> HIDE DEF P
<1>3. w.top \in Ancestors(P, v.top)
  BY <1>2 DEF Ancestors, Closed
<1>4. ASSUME NEW i \in 1 .. v.count, i \in Ancestors(P, v.top), i # v.top
      PROVE  i \in Ancestors(P, w.top)
  <2>1. ASSUME NEW S \in SUBSET DOMAIN P, w.top \in S, Closed(P, S)
        PROVE  i \in S
    <3> DEFINE T == S \cup {v.top}
    <3>1. T \in SUBSET DOMAIN P /\ v.top \in T
      BY <1>2
    <3>2. Closed(P, T)
      BY <1>2, <2>1 DEF Closed
    <3> HIDE DEF T
    <3>3. i \in T
      BY <1>4, <3>1, <3>2 DEF Ancestors
    <3> QED
      BY <1>4, <3>3 DEF T
  <2> QED
    BY <1>2, <2>1 DEF Ancestors
<1> QED
  BY <1>1, <1>2, <1>3, <1>4 DEF Open, P

LEMMA GrowsBelow ==
    ASSUME NEW v, Placed(v), "seek_value" \in v.flags, "string" \notin v.flags,
           NEW w, w.count = v.count + 1, w.top = v.count + 1,
           \A i \in 1 .. v.count : w.nodes[i] = v.nodes[i],
           w.nodes[v.count + 1].parent = v.top
    PROVE  Grows(v, w)
<1>1. v.count \in Nat
  BY DEF Placed
<1>2. ASSUME NEW i \in 1 .. v.count
      PROVE  LengthAt(v, i) <= LengthAt(w, i) /\ BytesAt(v, i) <= BytesAt(w, i)
  <2>1. i # w.top /\ w.nodes[i] = v.nodes[i]
    BY <1>1
  <2>2. v.nodes[i].length \in Nat /\ v.nodes[i].bytes \in Nat
    BY DEF Placed
  <2>3. /\ LengthAt(w, i) = IF i \in Open(w) THEN v.nodes[i].length + 1 ELSE v.nodes[i].length
        /\ BytesAt(w, i) = v.nodes[i].bytes
    BY <2>1, LengthElsewhere
  <2>4. CASE i # v.top
    <3>1. /\ LengthAt(v, i) = IF i \in Open(v) THEN v.nodes[i].length + 1 ELSE v.nodes[i].length
          /\ BytesAt(v, i) = v.nodes[i].bytes
      BY <2>4, LengthElsewhere
    <3>2. i \in Open(v) => i \in Open(w)
      BY OpenBelow
    <3> QED
      BY <2>2, <2>3, <3>1, <3>2
  <2>5. CASE i = v.top
    <3>1. /\ LengthAt(v, i) \in {v.nodes[i].length, v.nodes[i].length + 1}
          /\ BytesAt(v, i) = v.nodes[i].bytes
      BY <2>5 DEF LengthAt, BytesAt
    <3>2. i # 0
      BY <1>1
    <3>3. i \in Open(w)
      BY <2>5, <3>2, OpenBelow
    <3> QED
      BY <2>2, <2>3, <3>1, <3>3
  <2> QED
    BY <2>4, <2>5
<1> QED
  BY <1>1, <1>2 DEF Grows

LEMMA GrowsAbove ==
    ASSUME NEW v, Placed(v), v.top # 0, v.nodes[v.top].parent # 0,
           "string" \notin v.flags, "seek_value" \notin v.flags,
           NEW w, w.count = v.count, w.top = v.nodes[v.top].parent, "string" \notin w.flags,
           \A i \in 1 .. v.count :
              /\ w.nodes[i].type = v.nodes[i].type /\ w.nodes[i].parent = v.nodes[i].parent
              /\ w.nodes[i].bytes = v.nodes[i].bytes
              /\ i = w.top => w.nodes[i].length = v.nodes[i].length + 1
              /\ i # w.top => w.nodes[i].length = v.nodes[i].length
    PROVE  Grows(v, w)
<1>1. v.count \in Nat
  BY DEF Placed
<1>2. ASSUME NEW i \in 1 .. v.count
      PROVE  LengthAt(v, i) <= LengthAt(w, i) /\ BytesAt(v, i) <= BytesAt(w, i)
  <2>1. v.nodes[i].length \in Nat /\ v.nodes[i].bytes \in Nat
    BY DEF Placed
  <2>2. /\ w.nodes[i].bytes = v.nodes[i].bytes
        /\ i = w.top => w.nodes[i].length = v.nodes[i].length + 1
        /\ i # w.top => w.nodes[i].length = v.nodes[i].length
    BY <2>1
  <2>3. BytesAt(v, i) = v.nodes[i].bytes /\ BytesAt(w, i) = v.nodes[i].bytes
    BY <2>2 DEF BytesAt
  <2>4. CASE i = w.top
    <3>1. LengthAt(v, i) \in {v.nodes[i].length, v.nodes[i].length + 1}
      BY DEF LengthAt
    <3>2. LengthAt(v, i) <= v.nodes[i].length + 1
      BY <2>1, <3>1
    <3>3. LengthAt(w, i) \in {w.nodes[i].length, w.nodes[i].length + 1}
      BY DEF LengthAt
    <3> DEFINE a == v.nodes[i].length
               b == w.nodes[i].length
               l == LengthAt(w, i)
    <3>4. a \in Nat /\ b = a + 1 /\ l \in {b, b + 1}
      BY <2>1, <2>2, <2>4, <3>3
    <3> HIDE DEF a, b, l
    <3>5. a + 1 <= l /\ l \in Nat
      BY <3>4
    <3>6. LengthAt(v, i) \in Nat
      BY <2>1, <3>1
    <3> QED
      BY <2>1, <2>3, <3>2, <3>4, <3>5, <3>6 DEF a, l
  <2>5. CASE i = v.top
    <3>1. i # w.top
      BY <2>5, OpenAbove
    <3>2. LengthAt(v, i) = v.nodes[i].length
      BY <2>5 DEF LengthAt, Awaits
    <3>3. LengthAt(w, i) \in {w.nodes[i].length, w.nodes[i].length + 1}
      BY <3>1 DEF LengthAt
    <3> QED
      BY <2>1, <2>2, <2>3, <3>1, <3>2, <3>3
  <2>6. CASE i # w.top /\ i # v.top
    <3>1. i \in Open(v) => i \in Open(w)
      BY <2>6, OpenAbove
    <3>2. LengthAt(v, i) = IF i \in Open(v) THEN v.nodes[i].length + 1 ELSE v.nodes[i].length
      BY <2>6, LengthElsewhere
    <3>3. LengthAt(w, i) = IF i \in Open(w) THEN w.nodes[i].length + 1 ELSE w.nodes[i].length
      BY <2>6, LengthElsewhere
    <3> QED
      BY <2>1, <2>2, <2>3, <2>6, <3>1, <3>2, <3>3
  <2> QED
    BY <2>4, <2>5, <2>6
<1> QED
  BY <1>1, <1>2 DEF Grows

\* Before the rest of the loop.
Going(x) ==
    /\ Placed(x)
    /\ IF "next" \in x.flags
       THEN x.top # 0 /\ x.flags \cap {"string", "seek_value", "done"} = {}
       ELSE Flagged(VOff(x, {"reproc"}))

LEMMA GoSound ==
    ASSUME NEW x, Going(x)
    PROVE  Sound(VGo(x)) /\ Grows(x, VGo(x)) /\ VGo(x).status = x.status
<1> DEFINE w == IF "reproc" \in x.flags THEN VOff(x, {"reproc"}) ELSE VAt(x, x.pos + 1)
<1>1. /\ Placed(x) /\ x.pos \in Nat
  BY DEF Going, Placed
<1>2. /\ w.status = x.status /\ w.flags = x.flags \ {"reproc"} /\ w.top = x.top
      /\ w.length = x.length /\ w.count = x.count /\ w.nodes = x.nodes
      /\ w.pos \in {x.pos, x.pos + 1}
  <2>1. x.flags = x.flags \ {"reproc"} \/ "reproc" \in x.flags
    OBVIOUS
  <2> QED
    BY <2>1 DEF VOff, VFlags, VAt, V
<1>3. VGo(x) = (IF "next" \in w.flags THEN VComplete(w) ELSE w)
  BY DEF VGo
<1> HIDE DEF w
<1>4. Placed(w)
  <2>1. w.pos \in Nat
    BY <1>1, <1>2
  <2> QED
    BY <1>1, <1>2, <2>1 DEF Placed
<1>5. ASSUME NEW y, y.count = x.count, y.top = x.top, y.nodes = x.nodes, y.length = x.length,
             "string" \in x.flags <=> "string" \in y.flags,
             "seek_value" \in x.flags <=> "seek_value" \in y.flags
      PROVE  Grows(x, y)
  <2>1. /\ LengthAt(y, x.top) = LengthAt(x, x.top)
        /\ BytesAt(y, x.top) = BytesAt(x, x.top)
    <3>1. Awaits(y, x.top) <=> Awaits(x, x.top)
      BY <1>5 DEF Awaits
    <3> QED
      BY <1>5, <3>1 DEF LengthAt, BytesAt
  <2>2. x.top # 0 => x.top \in 1 .. x.count
    BY <1>1 DEF Placed
  <2>3. x.top # 0 => LengthAt(x, x.top) \in Nat /\ BytesAt(x, x.top) \in Nat
    BY <1>1, <2>2, LengthsNat
  <2> QED
    BY <1>1, <1>5, <2>1, <2>3, GrowsHere
<1>6. CASE "next" \notin x.flags
  <2>1. VGo(x) = w
    BY <1>2, <1>3, <1>6
  <2>2. Grows(x, w)
    BY <1>2, <1>5
  <2>3. Flagged(w)
    <3>1. Flagged(VOff(x, {"reproc"}))
      BY <1>6 DEF Going
    <3>2. LET z == VOff(x, {"reproc"})
          IN  z.flags = w.flags /\ z.top = w.top /\ z.nodes = w.nodes
      BY <1>2 DEF VOff, VFlags, V
    <3> QED
      BY <3>1, <3>2 DEF Flagged
  <2> QED
    BY <1>2, <1>4, <2>1, <2>2, <2>3 DEF Sound
<1>7. CASE "next" \in x.flags
  <2> DEFINE parent == w.nodes[w.top].parent
             y == VComplete(w)
             n == w.nodes[parent]
             m == HeldNode(n.type, n.parent, n.length + 1, n.bytes)
             done == VOn(VOff(w, {"next"}), {"need_comma"})
             more == IF n.type = "array" THEN {"seek_value"} ELSE {}
  <2>1. x.top # 0 /\ "string" \notin x.flags /\ "seek_value" \notin x.flags /\ "done" \notin x.flags
    BY <1>7 DEF Going
  <2>2. VGo(x) = y
    BY <1>2, <1>3, <1>7
  <2>3. done.flags = (w.flags \ {"next"}) \cup {"need_comma"}
    BY DEF VOn, VOff, VFlags, V
  <2>4. CASE parent = 0
    <3>1. /\ y.flags = done.flags \cup {"done"} /\ y.top = w.top /\ y.nodes = w.nodes
          /\ y.count = w.count /\ y.pos = w.pos /\ y.length = w.length /\ y.status = w.status
      BY <2>4 DEF VComplete, VOn, VOff, VFlags, V
    <3> HIDE DEF y, done, parent
    <3>2. /\ "string" \notin y.flags /\ "seek_value" \notin y.flags /\ "done" \in y.flags
          /\ "next" \notin y.flags /\ "reproc" \notin y.flags
      BY <1>2, <2>1, <2>3, <3>1
    <3>3. Flagged(y)
      BY <1>2, <2>1, <2>4, <3>1, <3>2 DEF Flagged, parent
    <3>4. Placed(y)
      BY <1>4, <3>1 DEF Placed
    <3>5. Grows(x, y)
      BY <1>2, <1>5, <2>1, <3>1, <3>2
    <3> QED
      BY <1>2, <2>2, <3>1, <3>3, <3>4, <3>5 DEF Sound
  <2>5. CASE parent # 0
    <3>1. /\ y.flags = done.flags \cup more /\ y.top = parent
          /\ y.nodes = Put(w.nodes, parent, m)
          /\ y.count = w.count /\ y.pos = w.pos /\ y.length = w.length /\ y.status = w.status
      BY <2>5 DEF VComplete, VOn, VOff, VFlags, V
    <3>2. /\ m.type = n.type /\ m.parent = n.parent /\ m.length = n.length + 1
          /\ m.bytes = n.bytes
      BY DEF HeldNode
    <3> HIDE DEF y, done, m
    <3>3. /\ parent \in 1 .. w.count /\ w.top \in 1 .. w.count
          /\ n.length \in Nat /\ n.type \in {"array", "object"}
      BY <1>2, <1>4, <2>1, <2>5 DEF Placed
    <3>4. \/ more = {"seek_value"} /\ n.type = "array"
          \/ more = {} /\ n.type = "object"
      BY <3>3
    <3>5. ASSUME NEW i \in 1 .. w.count
          PROVE  /\ y.nodes[i].type = w.nodes[i].type /\ y.nodes[i].parent = w.nodes[i].parent
                 /\ y.nodes[i].bytes = w.nodes[i].bytes
                 /\ i = parent => y.nodes[i].length = w.nodes[i].length + 1
                 /\ i # parent => y.nodes[i].length = w.nodes[i].length
      <4>1. i \in DOMAIN w.nodes
        BY <1>4 DEF Placed
      <4>2. y.nodes[i] = IF i = parent THEN m ELSE w.nodes[i]
        BY <3>1, <4>1 DEF Put
      <4> QED
        BY <3>2, <4>2
    <3> HIDE DEF more, parent, n
    <3>6. /\ "string" \notin y.flags /\ "done" \notin y.flags
          /\ "next" \notin y.flags /\ "reproc" \notin y.flags
      BY <1>2, <2>1, <2>3, <3>1, <3>4
    <3>7. y.nodes[y.top].type = n.type
      BY <3>1, <3>3, <3>5 DEF n
    <3>8. Flagged(y)
      BY <1>2, <2>1, <2>3, <2>5, <3>1, <3>4, <3>6, <3>7 DEF Flagged
    <3>9. Placed(y)
      <4>1. /\ w.pos \in Nat /\ w.count \in Nat /\ w.length \in Nat
            /\ DOMAIN w.nodes = 1 .. w.count
        BY <1>4 DEF Placed
      <4>2. y.top \in 0 .. y.count /\ y.top # 0 /\ DOMAIN y.nodes = 1 .. y.count
        BY <2>5, <3>1, <3>3, <4>1 DEF Put
      <4>3. ASSUME NEW i \in 1 .. w.count
            PROVE  /\ y.nodes[i].length \in Nat /\ y.nodes[i].bytes \in Nat
                   /\ y.nodes[i].parent \in 0 .. i - 1
        <5>1. /\ w.nodes[i].length \in Nat /\ w.nodes[i].bytes \in Nat
              /\ w.nodes[i].parent \in 0 .. i - 1
          BY <1>4 DEF Placed
        <5>2. y.nodes[i].length \in {w.nodes[i].length + 1, w.nodes[i].length}
          BY <3>5
        <5> QED
          BY <3>5, <5>1, <5>2
      <4>4. ASSUME NEW i \in 1 .. w.count, y.nodes[i].parent # 0
            PROVE  y.nodes[y.nodes[i].parent].type \in {"array", "object"}
        <5>1. y.nodes[i].parent = w.nodes[i].parent /\ w.nodes[i].parent \in 1 .. w.count
          BY <1>4, <4>1, <4>4, <3>5 DEF Placed
        <5>2. w.nodes[w.nodes[i].parent].type \in {"array", "object"}
          BY <1>4, <4>4, <5>1 DEF Placed
        <5> QED
          BY <3>5, <5>1, <5>2
      <4> QED
        BY <3>1, <4>1, <4>2, <4>3, <4>4 DEF Placed
    <3>10. Grows(x, y)
      <4>1. x.nodes[x.top].parent = y.top /\ y.top # 0
        BY <1>2, <2>5, <3>1 DEF parent
      <4>2. \A i \in 1 .. x.count :
              /\ y.nodes[i].type = x.nodes[i].type /\ y.nodes[i].parent = x.nodes[i].parent
              /\ y.nodes[i].bytes = x.nodes[i].bytes
              /\ i = y.top => y.nodes[i].length = x.nodes[i].length + 1
              /\ i # y.top => y.nodes[i].length = x.nodes[i].length
        BY <1>2, <3>1, <3>5
      <4> QED
        BY <1>1, <1>2, <2>1, <3>1, <3>6, <4>1, <4>2, GrowsAbove
    <3> QED
      BY <1>2, <2>2, <3>1, <3>8, <3>9, <3>10 DEF Sound
  <2> QED
    BY <2>4, <2>5
<1> QED
  BY <1>6, <1>7

LEMMA StepSound ==
    ASSUME NEW v, Sound(v), NEW x, Going(x), Grows(v, x)
    PROVE  Sound(VGo(x)) /\ Grows(v, VGo(x))
<1>1. Placed(v) /\ Placed(x)
  BY DEF Sound, Going
<1>2. Sound(VGo(x)) /\ Grows(x, VGo(x))
  BY GoSound
<1>3. Placed(VGo(x))
  BY <1>2 DEF Sound
<1> QED
  BY <1>1, <1>2, <1>3, GrowsThen

LEMMA GoingFlagged ==
    ASSUME NEW x, Placed(x), Flagged(x)
    PROVE  Going(x)
<1>1. "next" \notin x.flags /\ "reproc" \notin x.flags
  BY DEF Flagged
<1>2. x.flags \ {"reproc"} = x.flags
  BY <1>1
<1>3. LET z == VOff(x, {"reproc"}) IN z.flags = x.flags /\ z.top = x.top /\ z.nodes = x.nodes
  BY <1>2 DEF VOff, VFlags, V
<1>4. Flagged(VOff(x, {"reproc"}))
  BY <1>3 DEF Flagged
<1> QED
  BY <1>1, <1>4 DEF Going

\* x is v with other flags, another length and another position.
Beside(v, x) ==
    /\ x.count = v.count /\ x.top = v.top /\ x.nodes = v.nodes
    /\ x.pos \in Nat /\ x.length \in Nat

LEMMA BesideGrows ==
    ASSUME NEW v, Sound(v), NEW x, Beside(v, x),
           "string" \in v.flags => v.length <= x.length,
           "string" \in x.flags => "string" \in v.flags \/ v.nodes[v.top].type = "object",
           "string" \in v.flags => "string" \in x.flags,
           v.top # 0 /\ v.nodes[v.top].type = "object" /\ "seek_value" \in v.flags
               => "seek_value" \in x.flags
    PROVE  Placed(x) /\ Grows(v, x)
<1> DEFINE t == v.top
           n == v.nodes[t]
<1>1. /\ Placed(v) /\ v.length \in Nat
      /\ "string" \in v.flags => n.type \in {"string", "object"}
      /\ t # 0 => t \in 1 .. v.count /\ n.length \in Nat /\ n.bytes \in Nat
  BY DEF Sound, Placed, Flagged
<1>2. Placed(x)
  BY <1>1 DEF Placed, Beside
<1>3. /\ x.top = t /\ x.nodes[t] = n /\ x.length \in Nat
  BY DEF Beside
<1> HIDE DEF n, t
<1>4. /\ LengthAt(v, t) = IF "string" \in v.flags /\ n.type = "string" THEN v.length
                          ELSE IF n.type = "object" /\ ("string" \in v.flags \/ "seek_value" \in v.flags)
                          THEN n.length + 1 ELSE n.length
      /\ BytesAt(v, t) = IF "string" \in v.flags /\ n.type = "object"
                         THEN n.bytes + v.length + 1 ELSE n.bytes
  BY DEF LengthAt, BytesAt, Awaits, t, n
<1>5. /\ LengthAt(x, t) = IF "string" \in x.flags /\ n.type = "string" THEN x.length
                          ELSE IF n.type = "object" /\ ("string" \in x.flags \/ "seek_value" \in x.flags)
                          THEN n.length + 1 ELSE n.length
      /\ BytesAt(x, t) = IF "string" \in x.flags /\ n.type = "object"
                         THEN n.bytes + x.length + 1 ELSE n.bytes
  BY <1>3 DEF LengthAt, BytesAt, Awaits
<1>6. /\ "string" \in v.flags => v.length <= x.length
      /\ "string" \in x.flags => "string" \in v.flags \/ n.type = "object"
      /\ "string" \in v.flags => "string" \in x.flags
      /\ t # 0 /\ n.type = "object" /\ "seek_value" \in v.flags => "seek_value" \in x.flags
  BY DEF n, t
<1>7. ASSUME t # 0 PROVE LengthAt(v, t) <= LengthAt(x, t) /\ BytesAt(v, t) <= BytesAt(x, t)
  <2>1. n.length \in Nat /\ n.bytes \in Nat
    BY <1>1, <1>7
  <2>2. LengthAt(v, t) <= LengthAt(x, t)
    BY <1>1, <1>3, <1>4, <1>5, <1>6, <1>7, <2>1
  <2>3. BytesAt(v, t) <= BytesAt(x, t)
    BY <1>1, <1>3, <1>4, <1>5, <1>6, <1>7, <2>1
  <2> QED
    BY <2>2, <2>3
<1>8. Grows(v, x)
  <2>1. /\ x.count = v.count /\ x.top = v.top /\ x.nodes = v.nodes
    BY DEF Beside
  <2>2. v.top # 0 => /\ LengthAt(v, v.top) <= LengthAt(x, v.top)
                     /\ BytesAt(v, v.top) <= BytesAt(x, v.top)
    BY <1>7 DEF t
  <2> QED
    BY <1>1, <2>1, <2>2, GrowsHere
<1> QED
  BY <1>2, <1>8

\* A step that changes only the flags, and goes on.
LEMMA FlagsSound ==
    ASSUME NEW v, Sound(v), NEW x, Beside(v, x), v.top # 0 \/ x.flags = v.flags,
           "next" \notin x.flags, "reproc" \notin x.flags,
           "string" \in x.flags <=> "string" \in v.flags,
           "string" \in v.flags => v.length <= x.length,
           "seek_value" \in x.flags <=> "seek_value" \in v.flags,
           "done" \in x.flags <=> "done" \in v.flags
    PROVE  Sound(VGo(x)) /\ Grows(v, VGo(x))
<1>1. Placed(x) /\ Grows(v, x)
  BY BesideGrows
<1>2. x.top = v.top /\ x.nodes = v.nodes /\ Flagged(v)
  BY DEF Beside, Sound
<1>3. Flagged(x)
  BY <1>2 DEF Flagged
<1> QED
  BY <1>1, <1>3, GoingFlagged, StepSound

\* A step that completes the current value without changing it.
LEMMA EndSound ==
    ASSUME NEW v, Sound(v), NEW x, Beside(v, x), v.top # 0, "next" \in x.flags,
           x.flags \cap {"string", "seek_value", "done"} = {}, "string" \notin v.flags,
           "seek_value" \in v.flags => v.nodes[v.top].type = "array"
    PROVE  Sound(VGo(x)) /\ Grows(v, VGo(x))
<1>1. Placed(x) /\ Grows(v, x)
  BY BesideGrows
<1>2. Going(x)
  BY <1>1 DEF Going, Beside
<1> QED
  BY <1>1, <1>2, StepSound

\* A value begins.
LEMMA BegunGrows ==
    ASSUME NEW v, Sound(v), "seek_value" \in v.flags, NEW type,
           NEW x, x.nodes = VBegun(v, type).nodes, x.count = VBegun(v, type).count,
           x.top = VBegun(v, type).top, x.pos \in Nat, x.length \in Nat
    PROVE  /\ Placed(x) /\ Grows(v, x) /\ x.top # 0
           /\ x.nodes[x.top].type = type /\ x.nodes[x.top].length = 0
<1> DEFINE c == v.count + 1
           new == HeldNode(type, v.top, 0, 0)
<1>1. /\ Placed(v) /\ v.count \in Nat /\ v.top \in 0 .. v.count /\ "string" \notin v.flags
      /\ v.top # 0 => v.nodes[v.top].type \in {"array", "object"}
  BY DEF Sound, Placed, Flagged
<1>2. /\ x.nodes = [i \in 1 .. c |-> IF i = c THEN new ELSE v.nodes[i]]
      /\ x.count = c /\ x.top = c
  BY DEF VBegun, VNew, VOff, VFlags, V
<1>3. new.type = type /\ new.parent = v.top /\ new.length = 0 /\ new.bytes = 0
  BY DEF HeldNode
<1> HIDE DEF new
<1>4. x.nodes[c] = new /\ (\A i \in 1 .. v.count : x.nodes[i] = v.nodes[i])
      /\ DOMAIN x.nodes = 1 .. c
  BY <1>1, <1>2
<1>5. Placed(x)
  <2>1. ASSUME NEW i \in 1 .. c
        PROVE  /\ x.nodes[i].length \in Nat /\ x.nodes[i].bytes \in Nat
               /\ x.nodes[i].parent \in 0 .. i - 1
               /\ x.nodes[i].parent # 0 =>
                     x.nodes[x.nodes[i].parent].type \in {"array", "object"}
    <3>1. CASE i = c
      BY <1>1, <1>3, <1>4, <3>1
    <3>2. CASE i # c
      <4>1. i \in 1 .. v.count /\ x.nodes[i] = v.nodes[i]
        BY <1>1, <1>4, <3>2
      <4>2. /\ v.nodes[i].length \in Nat /\ v.nodes[i].bytes \in Nat
            /\ v.nodes[i].parent \in 0 .. i - 1
            /\ v.nodes[i].parent # 0 =>
                  v.nodes[v.nodes[i].parent].type \in {"array", "object"}
        BY <1>1, <4>1 DEF Placed
      <4>3. v.nodes[i].parent # 0 => v.nodes[i].parent \in 1 .. v.count
        BY <1>1, <4>1, <4>2
      <4> QED
        BY <1>4, <4>1, <4>2, <4>3
    <3> QED
      BY <3>1, <3>2
  <2>2. /\ x.count \in Nat /\ x.top \in 0 .. x.count /\ x.top # 0
        /\ x.count = c /\ DOMAIN x.nodes = 1 .. x.count
    BY <1>1, <1>2, <1>4
  <2> HIDE DEF c
  <2> QED
    BY <2>1, <2>2 DEF Placed
<1>6. Grows(v, x)
  BY <1>1, <1>2, <1>3, <1>4, GrowsBelow
<1> QED
  BY <1>1, <1>2, <1>3, <1>4, <1>5, <1>6

-----------------------------------------------------------------------------
(* The steps of a view *)

LEMMA StringSteps ==
    ASSUME NEW v, Sound(v), "string" \in v.flags, NEW b, VInString(v, b).status = "parsing",
           v.status = "parsing"
    PROVE  Sound(VInString(v, b)) /\ Grows(v, VInString(v, b))
<1> DEFINE t == v.top
           n == v.nodes[t]
<1>1. /\ v.pos \in Nat /\ v.length \in Nat /\ v.top # 0 /\ Placed(v) /\ v.count \in Nat
      /\ "next" \notin v.flags /\ "reproc" \notin v.flags
      /\ "seek_value" \notin v.flags /\ "done" \notin v.flags
      /\ n.type \in {"string", "object"} /\ n.length \in Nat /\ n.bytes \in Nat
      /\ t \in 1 .. v.count
  <2>1. Placed(v) /\ Flagged(v)
    BY DEF Sound
  <2>2. /\ v.pos \in Nat /\ v.length \in Nat /\ v.count \in Nat /\ v.top \in 0 .. v.count
    BY <2>1 DEF Placed
  <2>3. /\ "next" \notin v.flags /\ "reproc" \notin v.flags
        /\ "seek_value" \notin v.flags /\ "done" \notin v.flags
        /\ v.top # 0 /\ n.type \in {"string", "object"}
    BY <2>1 DEF Flagged
  <2>4. t \in 1 .. v.count
    BY <2>2, <2>3
  <2>5. n.length \in Nat /\ n.bytes \in Nat
    BY <2>1, <2>4 DEF Placed
  <2> QED
    BY <2>1, <2>2, <2>3, <2>4, <2>5
<1>2. \A c : Bytes(c) \in Nat
  BY DEF Bytes
<1>3. ASSUME NEW fs, NEW c, fs \in {v.flags, v.flags \ {"escaped"}}
      PROVE  LET x == VStringAdd(VFlags(v, fs), c) IN Sound(VGo(x)) /\ Grows(v, VGo(x))
  <2> DEFINE x == VStringAdd(VFlags(v, fs), c)
  <2>1. /\ x.count = v.count /\ x.top = v.top /\ x.nodes = v.nodes /\ x.flags = fs
        /\ x.pos = v.pos /\ x.length = v.length + Bytes(c)
    BY DEF VStringAdd, VText, VFlags, V
  <2> HIDE DEF x
  <2>2. x.length \in Nat /\ v.length <= x.length
    <3>1. Bytes(c) \in Nat
      BY <1>2
    <3> QED
      BY <1>1, <2>1, <3>1
  <2>3. Beside(v, x)
    BY <1>1, <2>1, <2>2 DEF Beside
  <2> QED
    BY <1>1, <1>3, <2>1, <2>2, <2>3, FlagsSound DEF x
<1>4. LET x == VOn(v, {"escaped"}) IN Sound(VGo(x)) /\ Grows(v, VGo(x))
  <2> DEFINE x == VOn(v, {"escaped"})
  <2>1. /\ x.count = v.count /\ x.top = v.top /\ x.nodes = v.nodes
        /\ x.flags = v.flags \cup {"escaped"} /\ x.pos = v.pos /\ x.length = v.length
    BY DEF VOn, VFlags, V
  <2> HIDE DEF x
  <2>2. Beside(v, x)
    BY <1>1, <2>1 DEF Beside
  <2>3. v.length <= x.length
    BY <1>1, <2>1
  <2> QED
    BY <1>1, <2>1, <2>2, <2>3, FlagsSound DEF x
<1>5. LET x == VEndString(v) IN Sound(VGo(x)) /\ Grows(v, VGo(x))
  <2> DEFINE x == VEndString(v)
             m == IF n.type = "string" THEN HeldNode("string", n.parent, v.length, n.bytes)
                  ELSE HeldNode(n.type, n.parent, n.length, n.bytes + v.length + 1)
             fs == IF n.type = "string" THEN {"next"} ELSE {"seek_value", "need_colon"}
  <2>1. /\ x.count = v.count /\ x.top = v.top /\ x.pos = v.pos /\ x.length = v.length
        /\ x.nodes = Put(v.nodes, t, m) /\ x.flags = (v.flags \ {"string"}) \cup fs
    BY DEF VEndString, V
  <2>2. /\ m.type = n.type /\ m.parent = n.parent /\ m.length \in Nat /\ m.bytes \in Nat
        /\ n.type = "string" => m.length = v.length /\ m.bytes = n.bytes
        /\ n.type = "object" => m.length = n.length /\ m.bytes = n.bytes + v.length + 1
    BY <1>1 DEF HeldNode
  <2>3. \/ n.type = "string" /\ fs = {"next"}
        \/ n.type = "object" /\ fs = {"seek_value", "need_colon"}
    BY <1>1
  <2> HIDE DEF x, m, fs
  <2>4. /\ DOMAIN x.nodes = 1 .. v.count /\ x.nodes[t] = m
        /\ \A i \in 1 .. v.count : i # t => x.nodes[i] = v.nodes[i]
    BY <1>1, <2>1 DEF Put, Placed
  <2>5. \A i \in 1 .. v.count : x.nodes[i].type = v.nodes[i].type
                               /\ x.nodes[i].parent = v.nodes[i].parent
    BY <2>2, <2>4
  <2>6. Placed(x)
    <3>1. ASSUME NEW i \in 1 .. v.count
          PROVE  /\ x.nodes[i].length \in Nat /\ x.nodes[i].bytes \in Nat
                 /\ x.nodes[i].parent \in 0 .. i - 1
                 /\ x.nodes[i].parent # 0 =>
                       x.nodes[x.nodes[i].parent].type \in {"array", "object"}
      <4>1. /\ v.nodes[i].length \in Nat /\ v.nodes[i].bytes \in Nat
            /\ v.nodes[i].parent \in 0 .. i - 1
            /\ v.nodes[i].parent # 0 =>
                  v.nodes[v.nodes[i].parent].type \in {"array", "object"}
        BY <1>1 DEF Placed
      <4>2. v.nodes[i].parent # 0 => v.nodes[i].parent \in 1 .. v.count
        BY <1>1, <4>1
      <4>3. x.nodes[i].length \in Nat /\ x.nodes[i].bytes \in Nat
        BY <2>2, <2>4, <4>1
      <4> QED
        BY <2>5, <4>1, <4>2, <4>3
    <3>2. x.count \in Nat /\ x.top \in 0 .. x.count /\ x.top # 0
          /\ x.count = v.count /\ DOMAIN x.nodes = 1 .. x.count
      BY <1>1, <2>1, <2>4
    <3>3. x.pos \in Nat /\ x.length \in Nat
      BY <1>1, <2>1
    <3> QED
      BY <3>1, <3>2, <3>3 DEF Placed
  <2>7. "string" \notin x.flags
    BY <2>1, <2>3
  <2>8. LengthAt(v, t) <= LengthAt(x, t) /\ BytesAt(v, t) <= BytesAt(x, t)
    <3>1. x.top = t
      BY <2>1
    <3>2. CASE n.type = "string"
      <4>1. LengthAt(v, t) = v.length /\ BytesAt(v, t) = n.bytes
        BY <3>2 DEF LengthAt, BytesAt
      <4>2. LengthAt(x, t) = m.length /\ BytesAt(x, t) = m.bytes
        BY <2>2, <2>4, <2>7, <3>1, <3>2 DEF LengthAt, BytesAt, Awaits
      <4> QED
        BY <1>1, <2>2, <3>2, <4>1, <4>2
    <3>3. CASE n.type = "object"
      <4>1. LengthAt(v, t) = n.length + 1 /\ BytesAt(v, t) = n.bytes + v.length + 1
        BY <3>3 DEF LengthAt, BytesAt, Awaits
      <4>2. "seek_value" \in x.flags
        BY <2>1, <2>3, <3>3
      <4>3. LengthAt(x, t) = m.length + 1 /\ BytesAt(x, t) = m.bytes
        BY <2>2, <2>4, <2>7, <3>1, <3>3, <4>2 DEF LengthAt, BytesAt, Awaits
      <4> QED
        BY <1>1, <2>2, <3>3, <4>1, <4>3
    <3> QED
      BY <1>1, <3>2, <3>3
  <2>9. Grows(v, x)
    BY <1>1, <2>1, <2>4, <2>5, <2>8, GrowsHere
  <2>10. Going(x)
    <3>1. CASE n.type = "string"
      <4>1. "next" \in x.flags /\ x.flags \cap {"string", "seek_value", "done"} = {}
        BY <1>1, <2>1, <2>3, <3>1
      <4> QED
        BY <1>1, <2>1, <2>6, <4>1 DEF Going
    <3>2. CASE n.type = "object"
      <4>1. /\ "next" \notin x.flags /\ "reproc" \notin x.flags /\ "seek_value" \in x.flags
            /\ "done" \notin x.flags
        BY <1>1, <2>1, <2>3, <3>2
      <4>2. x.nodes[x.top].type = "object" /\ x.top # 0
        BY <1>1, <2>1, <2>2, <2>4, <3>2
      <4>3. Flagged(x)
        BY <2>7, <4>1, <4>2 DEF Flagged
      <4> QED
        BY <2>6, <4>3, GoingFlagged
    <3> QED
      BY <1>1, <3>1, <3>2
  <2> QED
    BY <2>9, <2>10, StepSound DEF x
<1>6. VFail(v).status # "parsing"
  BY DEF VFail, V
<1>7. VStringAdd(v, b) = VStringAdd(VFlags(v, v.flags), b)
  BY DEF VStringAdd, VText, VFlags, V
<1>8. CASE VInString(v, b) = VFail(v)
  BY <1>6, <1>8
<1>9. CASE VInString(v, b) = VGo(VStringAdd(VOff(v, {"escaped"}), Escaped(b)))
  BY <1>3, <1>9 DEF VOff
<1>10. CASE VInString(v, b) = VGo(VStringAdd(v, b))
  BY <1>3, <1>7, <1>10
<1>11. CASE VInString(v, b) \in {VGo(VOn(v, {"escaped"})), VGo(VEndString(v))}
  BY <1>4, <1>5, <1>11
<1> QED
  BY <1>8, <1>9, <1>10, <1>11 DEF VInString

LEMMA Outside ==
    ASSUME NEW v, Sound(v)
    PROVE  /\ v.pos \in Nat /\ v.length \in Nat /\ v.count \in Nat
           /\ "next" \notin v.flags /\ "reproc" \notin v.flags /\ Beside(v, v)
           /\ "string" \in v.flags \/ "done" \in v.flags \/ "seek_value" \notin v.flags => v.top # 0
           /\ v.flags # {"seek_value"} => v.top # 0
           /\ "string" \notin v.flags /\ "seek_value" \notin v.flags /\ "done" \notin v.flags
                 => v.nodes[v.top].type = "object"
           /\ "seek_value" \in v.flags => "string" \notin v.flags /\ "done" \notin v.flags
<1>1. v.pos \in Nat /\ v.length \in Nat /\ v.count \in Nat
  BY DEF Sound, Placed
<1> QED
  BY <1>1 DEF Sound, Flagged, Beside

LEMMA ColonSteps ==
    ASSUME NEW v, Sound(v), NEW fs \in {{}, {"need_comma"}, {"need_colon"}},
           fs = {} \/ v.flags # {"seek_value"}
    PROVE  LET x == VOff(v, fs) IN Sound(VGo(x)) /\ Grows(v, VGo(x))
<1> DEFINE x == VOff(v, fs)
<1>1. /\ x.count = v.count /\ x.top = v.top /\ x.nodes = v.nodes
      /\ x.flags = v.flags \ fs /\ x.pos = v.pos /\ x.length = v.length
  BY DEF VOff, VFlags, V
<1> HIDE DEF x
<1>2. Beside(v, x) /\ v.length <= x.length
  BY <1>1, Outside DEF Beside
<1>3. v.top # 0 \/ x.flags = v.flags
  BY <1>1, Outside
<1>4. /\ "next" \notin x.flags /\ "reproc" \notin x.flags
      /\ "string" \in x.flags <=> "string" \in v.flags
      /\ "seek_value" \in x.flags <=> "seek_value" \in v.flags
      /\ "done" \in x.flags <=> "done" \in v.flags
  BY <1>1, Outside
<1>5. Sound(VGo(x)) /\ Grows(v, VGo(x))
  BY <1>2, <1>3, <1>4, FlagsSound
<1> QED
  BY <1>5 DEF x

LEMMA SpaceSteps ==
    ASSUME NEW v, Sound(v)
    PROVE  Sound(VGo(v)) /\ Grows(v, VGo(v))
<1>1. Beside(v, v) /\ v.length <= v.length /\ "next" \notin v.flags /\ "reproc" \notin v.flags
  BY Outside
<1> QED
  BY <1>1, FlagsSound

LEMMA CloseSteps ==
    ASSUME NEW v, Sound(v), v.top # 0, "string" \notin v.flags, "done" \notin v.flags,
           NEW fs \in {{"need_comma"}, {"need_comma", "seek_value"}},
           "seek_value" \in v.flags => v.nodes[v.top].type = "array" /\ "seek_value" \in fs
    PROVE  LET x == VOn(VOff(v, fs), {"next"}) IN Sound(VGo(x)) /\ Grows(v, VGo(x))
<1> DEFINE x == VOn(VOff(v, fs), {"next"})
<1>1. /\ x.count = v.count /\ x.top = v.top /\ x.nodes = v.nodes
      /\ x.flags = (v.flags \ fs) \cup {"next"} /\ x.pos = v.pos /\ x.length = v.length
  BY DEF VOn, VOff, VFlags, V
<1> HIDE DEF x
<1>2. Beside(v, x)
  BY <1>1, Outside DEF Beside
<1>3. "next" \in x.flags /\ x.flags \cap {"string", "seek_value", "done"} = {}
  BY <1>1
<1>4. Sound(VGo(x)) /\ Grows(v, VGo(x))
  BY <1>2, <1>3, EndSound
<1> QED
  BY <1>4 DEF x

LEMMA NameSteps ==
    ASSUME NEW v, Sound(v), "string" \notin v.flags, "done" \notin v.flags,
           "seek_value" \notin v.flags
    PROVE  LET x == VBeginString(v) IN Sound(VGo(x)) /\ Grows(v, VGo(x))
<1> DEFINE x == VBeginString(v)
<1>1. /\ x.count = v.count /\ x.top = v.top /\ x.nodes = v.nodes
      /\ x.flags = v.flags \cup {"string"} /\ x.pos = v.pos /\ x.length = 0
  BY DEF VBeginString, VText, VOn, VFlags, V
<1> HIDE DEF x
<1>2. /\ Beside(v, x) /\ v.top # 0 /\ v.nodes[v.top].type = "object"
  BY <1>1, Outside DEF Beside
<1>3. /\ "string" \in x.flags /\ "seek_value" \notin x.flags /\ "done" \notin x.flags
      /\ "next" \notin x.flags /\ "reproc" \notin x.flags
  BY <1>1, Outside
<1>4. Flagged(x)
  BY <1>1, <1>2, <1>3 DEF Flagged
<1>5. Placed(x) /\ Grows(v, x)
  BY <1>2, <1>3, BesideGrows
<1>6. Sound(VGo(x)) /\ Grows(v, VGo(x))
  BY <1>4, <1>5, GoingFlagged, StepSound
<1> QED
  BY <1>6 DEF x

\* A value begins, and maybe it is complete already.
LEMMA BegunSound ==
    ASSUME NEW v, Sound(v), "seek_value" \in v.flags, NEW type,
           NEW x, x.nodes = VBegun(v, type).nodes, x.count = VBegun(v, type).count,
           x.top = VBegun(v, type).top, x.pos \in Nat, x.length \in Nat,
           \/ /\ x.flags \in {v.flags \ {"seek_value"},
                              (v.flags \ {"seek_value"}) \cup {"seek_value"}}
              /\ type \in {"array", "object"}
              /\ type = "array" => "seek_value" \in x.flags
           \/ type = "string" /\ x.flags = (v.flags \ {"seek_value"}) \cup {"string"}
           \/ x.flags \in {(v.flags \ {"seek_value"}) \cup {"next"},
                           (v.flags \ {"seek_value"}) \cup {"next", "reproc"}}
    PROVE  Sound(VGo(x)) /\ Grows(v, VGo(x))
<1>1. /\ Placed(x) /\ Grows(v, x) /\ x.top # 0
      /\ x.nodes[x.top].type = type /\ x.nodes[x.top].length = 0
  BY BegunGrows
<1>2. /\ "string" \notin v.flags /\ "done" \notin v.flags
      /\ "next" \notin v.flags /\ "reproc" \notin v.flags
  BY Outside
<1>3. Going(x)
  <2>1. CASE /\ x.flags \in {v.flags \ {"seek_value"},
                             (v.flags \ {"seek_value"}) \cup {"seek_value"}}
             /\ type \in {"array", "object"}
             /\ type = "array" => "seek_value" \in x.flags
    <3>1. Flagged(x)
      BY <1>1, <1>2, <2>1 DEF Flagged
    <3> QED
      BY <1>1, <3>1, GoingFlagged
  <2>2. CASE type = "string" /\ x.flags = (v.flags \ {"seek_value"}) \cup {"string"}
    <3>1. Flagged(x)
      BY <1>1, <1>2, <2>2 DEF Flagged
    <3> QED
      BY <1>1, <3>1, GoingFlagged
  <2>3. CASE x.flags \in {(v.flags \ {"seek_value"}) \cup {"next"},
                          (v.flags \ {"seek_value"}) \cup {"next", "reproc"}}
    <3>1. "next" \in x.flags /\ x.flags \cap {"string", "seek_value", "done"} = {}
      BY <1>2, <2>3
    <3> QED
      BY <1>1, <3>1 DEF Going
  <2> QED
    BY <2>1, <2>2, <2>3
<1> QED
  BY <1>1, <1>3, StepSound

LEMMA BegunLength ==
    ASSUME NEW v, NEW type
    PROVE  VBegun(v, type).length = v.length
BY DEF VBegun, VNew, VOff, VFlags, V

LEMMA ValueSteps ==
    ASSUME NEW v, Sound(v), "seek_value" \in v.flags, NEW b,
           VValueBegins(v, b).status = "parsing"
    PROVE  Sound(VValueBegins(v, b)) /\ Grows(v, VValueBegins(v, b))
<1>1. v.pos \in Nat /\ v.length \in Nat /\ v.count \in Nat
  BY Outside
<1>2. \A type : LET y == VBegun(v, type)
                IN  y.pos = v.pos /\ y.length = v.length /\ y.flags = v.flags \ {"seek_value"}
  BY <1>1, BegunFacts, BegunLength
<1>3. CASE VValueBegins(v, b) = VGo(VBegun(v, "object"))
  <2> DEFINE x == VBegun(v, "object")
  <2>1. x.pos \in Nat /\ x.length \in Nat /\ x.flags = v.flags \ {"seek_value"}
    BY <1>1, <1>2
  <2>2. x.nodes = VBegun(v, "object").nodes /\ x.count = VBegun(v, "object").count
        /\ x.top = VBegun(v, "object").top
    OBVIOUS
  <2> HIDE DEF x
  <2> QED
    BY <1>3, <2>1, <2>2, BegunSound DEF x
<1>4. CASE VValueBegins(v, b) = VGo(VOn(VBegun(v, "array"), {"seek_value"}))
  <2> DEFINE y == VBegun(v, "array")
             x == VOn(y, {"seek_value"})
  <2>1. /\ x.pos = y.pos /\ x.length = y.length /\ x.flags = y.flags \cup {"seek_value"}
        /\ x.nodes = y.nodes /\ x.count = y.count /\ x.top = y.top
    BY DEF VOn, VFlags, V
  <2>2. y.pos = v.pos /\ y.length = v.length /\ y.flags = v.flags \ {"seek_value"}
    BY <1>2
  <2> HIDE DEF x
  <2> QED
    BY <1>1, <1>4, <2>1, <2>2, BegunSound DEF x
<1>5. CASE VValueBegins(v, b) = VGo(VBeginString(VBegun(v, "string")))
  <2> DEFINE y == VBegun(v, "string")
             x == VBeginString(y)
  <2>1. /\ x.pos = y.pos /\ x.length = 0 /\ x.flags = y.flags \cup {"string"}
        /\ x.nodes = y.nodes /\ x.count = y.count /\ x.top = y.top
    BY DEF VBeginString, VText, VOn, VFlags, V
  <2>2. y.pos = v.pos /\ y.length = v.length /\ y.flags = v.flags \ {"seek_value"}
    BY <1>2
  <2> HIDE DEF x
  <2> QED
    BY <1>1, <1>5, <2>1, <2>2, BegunSound DEF x
<1>6. CASE VValueBegins(v, b) = VGo(VOn(VBegun(v, b), {"next"}))
  <2> DEFINE y == VBegun(v, b)
             x == VOn(y, {"next"})
  <2>1. /\ x.pos = y.pos /\ x.length = y.length /\ x.flags = y.flags \cup {"next"}
        /\ x.nodes = y.nodes /\ x.count = y.count /\ x.top = y.top
    BY DEF VOn, VFlags, V
  <2>2. y.pos = v.pos /\ y.length = v.length /\ y.flags = v.flags \ {"seek_value"}
    BY <1>2
  <2> HIDE DEF x
  <2> QED
    BY <1>1, <1>6, <2>1, <2>2, BegunSound DEF x
<1>7. CASE VValueBegins(v, b) = VFail(VOff(v, {"seek_value"})) \/ VValueBegins(v, b) = VFail(v)
  BY <1>7 DEF VFail, V
<1> QED
  BY <1>3, <1>4, <1>5, <1>6, <1>7 DEF VValueBegins, VBegun

LEMMA NumberSteps ==
    ASSUME NEW v, Sound(v), NEW b, NumberStarts(v, b), NEW e \in Nat
    PROVE  Sound(VNumber(v, e)) /\ Grows(v, VNumber(v, e))
<1> DEFINE z == VBegun(v, "integer")
           y == VOn(z, {"next", "reproc"})
           x == VAt(y, e)
<1>1. v.pos \in Nat /\ v.length \in Nat /\ v.count \in Nat
  BY Outside
<1>2. z.length = v.length /\ z.flags = v.flags \ {"seek_value"}
  BY <1>1, BegunFacts, BegunLength
<1>3. /\ y.pos = z.pos /\ y.length = z.length /\ y.flags = z.flags \cup {"next", "reproc"}
      /\ y.nodes = z.nodes /\ y.count = z.count /\ y.top = z.top
  BY DEF VOn, VFlags, V
<1>4. VNumber(v, e) = VGo(x)
  BY <1>1, NumberViews
<1> HIDE DEF y
<1>5. /\ x.pos = e /\ x.length = y.length /\ x.flags = y.flags
      /\ x.nodes = y.nodes /\ x.count = y.count /\ x.top = y.top
  BY DEF VAt, V
<1> HIDE DEF x
<1>6. "seek_value" \in v.flags
  BY DEF NumberStarts
<1> QED
  BY <1>1, <1>2, <1>3, <1>4, <1>5, <1>6, BegunSound

\* A step keeps a view sound, and what it counts grows.
LEMMA OtherSteps ==
    ASSUME NEW v, Sound(v), v.status = "parsing", NEW b, VStep(v, b).status = "parsing"
    PROVE  Sound(VStep(v, b)) /\ Grows(v, VStep(v, b))
<1> DEFINE w == VStep(v, b)
<1>1. VFail(v).status # "parsing"
  BY DEF VFail, V
<1>2. CASE "string" \in v.flags
  <2>1. w = VInString(v, b)
    BY <1>2 DEF VStep
  <2> QED
    BY <1>2, <2>1, StringSteps
<1>3. CASE "string" \notin v.flags /\ "done" \in v.flags
  <2>1. w \in {VGo(v), VFail(v)}
    BY <1>3 DEF VStep, VAfterRoot
  <2> QED
    BY <1>1, <2>1, SpaceSteps
<1>4. CASE "string" \notin v.flags /\ "done" \notin v.flags /\ "seek_value" \in v.flags
  <2>1. w = VSeekValue(v, b)
    BY <1>4 DEF VStep
  <2>2. CASE w \in {VGo(v), VFail(v)}
    BY <1>1, <2>2, SpaceSteps
  <2>3. CASE /\ w = VGo(VOn(VOff(v, {"need_comma", "seek_value"}), {"next"}))
             /\ v.top # 0 /\ v.nodes[v.top].type = "array"
    BY <1>4, <2>3, CloseSteps
  <2>4. CASE "need_comma" \in v.flags /\ w = VGo(VOff(v, {"need_comma"}))
    BY <2>4, ColonSteps
  <2>5. CASE "need_colon" \in v.flags /\ w = VGo(VOff(v, {"need_colon"}))
    BY <2>5, ColonSteps
  <2>6. CASE w = VValueBegins(v, b)
    BY <1>4, <2>6, ValueSteps
  <2> QED
    BY <2>1, <2>2, <2>3, <2>4, <2>5, <2>6 DEF VSeekValue
<1>5. CASE "string" \notin v.flags /\ "done" \notin v.flags /\ "seek_value" \notin v.flags
  <2>1. w = VInObject(v, b) /\ v.top # 0
    BY <1>5, Outside DEF VStep
  <2>2. CASE w \in {VGo(v), VFail(v)}
    BY <1>1, <2>2, SpaceSteps
  <2>3. CASE w = VGo(VBeginString(v))
    BY <1>5, <2>3, NameSteps
  <2>4. CASE w = VGo(VOn(VOff(v, {"need_comma"}), {"next"}))
    BY <1>5, <2>1, <2>4, CloseSteps
  <2>5. CASE "need_comma" \in v.flags /\ w = VGo(VOff(v, {"need_comma"}))
    BY <2>5, ColonSteps
  <2> QED
    BY <2>1, <2>2, <2>3, <2>4, <2>5 DEF VInObject
<1> QED
  BY <1>2, <1>3, <1>4, <1>5

LEMMA FollowsSound ==
    ASSUME NEW t, NEW v, Sound(v), v.status = "parsing", NEW w, Follows(t, v, w), Len(t) \in Nat
    PROVE  Sound(w) /\ Grows(v, w)
<1>1. CASE NumberStarts(v, t[v.pos])
  <2>1. PICK e \in v.pos .. Len(t) + 1 : w = VNumber(v, e)
    BY <1>1 DEF Follows
  <2>2. e \in Nat
    BY Outside
  <2> QED
    BY <1>1, <2>1, <2>2, NumberSteps
<1>2. CASE ~NumberStarts(v, t[v.pos])
  BY <1>2, OtherSteps DEF Follows
<1> QED
  BY <1>1, <1>2

-----------------------------------------------------------------------------
(* The views of a pass *)

VStart == View(Start(1, <<>>))

\* The views of a pass over the text t.
Run(tr, t) ==
    /\ IsSeq(tr) /\ Len(tr) > 0 /\ tr[1] = VStart
    /\ \A k \in 1 .. Len(tr) :
        /\ Sound(tr[k]) /\ tr[k].status = "parsing" /\ Grows(tr[k], tr[Len(tr)])
        /\ k < Len(tr) => Follows(t, tr[k], tr[k + 1])

LEMMA StartView ==
    /\ VStart.status = "parsing" /\ Sound(VStart) /\ Grows(VStart, VStart)
    /\ \A ns : View(Start(2, ns)) = VStart
<1>1. ASSUME NEW ns, NEW pass \in {1, 2}, pass = 1 => ns = <<>>
      PROVE  LET p == Start(pass, ns)
             IN  /\ Count(p) = 0 /\ FlagsOf(p) = {"seek_value"} /\ p.status = "parsing"
                 /\ p.pos = 1 /\ p.top = 0 /\ p.length = 0
  BY <1>1 DEF Start, Count, FlagsOf, NumberFlags
<1>2. ASSUME NEW ns, NEW pass \in {1, 2}, pass = 1 => ns = <<>>
      PROVE  View(Start(pass, ns)) = V("parsing", 1, {"seek_value"}, 0, 0, 0, <<>>)
  <2> DEFINE p == Start(pass, ns)
  <2>1. /\ Count(p) = 0 /\ FlagsOf(p) = {"seek_value"} /\ p.status = "parsing"
        /\ p.pos = 1 /\ p.top = 0 /\ p.length = 0
    BY <1>1, <1>2
  <2> HIDE DEF p
  <2>2. [i \in 1 .. Count(p) |-> Held(p.nodes[i])] = <<>>
    BY <2>1
  <2>3. View(p) = V("parsing", 1, {"seek_value"}, 0, 0, 0, <<>>)
    BY <2>1, <2>2 DEF View
  <2> QED
    BY <2>3 DEF p
<1>3. VStart = V("parsing", 1, {"seek_value"}, 0, 0, 0, <<>>)
  BY <1>2 DEF VStart
<1>4. /\ VStart.status = "parsing" /\ VStart.pos = 1 /\ VStart.flags = {"seek_value"}
      /\ VStart.top = 0 /\ VStart.length = 0 /\ VStart.count = 0 /\ VStart.nodes = <<>>
  BY <1>3 DEF V
<1>5. Sound(VStart)
  BY <1>4 DEF Sound, Placed, Flagged
<1>6. Grows(VStart, VStart)
  BY <1>4 DEF Grows
<1> QED
  BY <1>2, <1>3, <1>4, <1>5, <1>6

LEMMA RunStarts == ASSUME NEW t PROVE Run(<<VStart>>, t)
<1>1. IsSeq(<<VStart>>) /\ Len(<<VStart>>) = 1 /\ <<VStart>>[1] = VStart
  <2>1. <<VStart>> \in Seq({VStart})
    OBVIOUS
  <2> QED
    BY <2>1 DEF IsSeq
<1> QED
  BY <1>1, StartView DEF Run

LEMMA RunFacts ==
    ASSUME NEW tr, NEW t, Run(tr, t)
    PROVE  /\ Len(tr) \in Nat /\ DOMAIN tr = 1 .. Len(tr) /\ 1 \in 1 .. Len(tr)
           /\ Len(tr) \in 1 .. Len(tr)
BY SeqFacts DEF Run

LEMMA RunGoesOn ==
    ASSUME NEW tr, NEW t, Run(tr, t), Len(t) \in Nat, NEW w, Follows(t, tr[Len(tr)], w)
    PROVE  Run(Append(tr, w), t)
<1> DEFINE n == Len(tr)
           next == Append(tr, w)
<1>1. n \in Nat /\ 1 \in 1 .. n /\ n \in 1 .. n /\ IsSeq(tr)
  BY RunFacts DEF Run
<1>2. /\ IsSeq(next) /\ Len(next) = n + 1 /\ next[n + 1] = w
      /\ \A k \in 1 .. n : next[k] = tr[k]
  BY <1>1, AppendFacts
<1> HIDE DEF n, next
<1>3. \A k \in 1 .. n :
        /\ Sound(tr[k]) /\ tr[k].status = "parsing" /\ Grows(tr[k], tr[n])
        /\ k < n => Follows(t, tr[k], tr[k + 1])
  BY DEF Run, n
<1>4. Follows(t, tr[n], w)
  BY DEF n
<1>5. Sound(w) /\ Grows(tr[n], w)
  BY <1>1, <1>3, <1>4, FollowsSound
<1>6. w.status = "parsing"
  BY <1>4 DEF Follows
<1>7. Grows(w, w)
  <2>1. Placed(w) /\ w.count \in Nat
    BY <1>5 DEF Sound, Placed
  <2>2. \A i \in 1 .. w.count : LengthAt(w, i) \in Nat /\ BytesAt(w, i) \in Nat
    BY <2>1, LengthsNat
  <2> QED
    BY <2>1, <2>2 DEF Grows
<1>8. \A k \in 1 .. n : Grows(tr[k], w)
  BY <1>1, <1>3, <1>5, GrowsThen DEF Sound
<1>9. ASSUME NEW k \in 1 .. n + 1
      PROVE  /\ Sound(next[k]) /\ next[k].status = "parsing" /\ Grows(next[k], w)
             /\ k < n + 1 => Follows(t, next[k], next[k + 1])
  <2>1. CASE k = n + 1
    BY <1>2, <1>5, <1>6, <1>7, <2>1
  <2>2. CASE k < n
    <3>1. k \in 1 .. n /\ k + 1 \in 1 .. n
      BY <1>1, <2>2
    <3> QED
      BY <1>2, <1>3, <1>8, <2>2, <3>1
  <2>3. CASE k = n
    BY <1>1, <1>2, <1>3, <1>4, <1>5, <2>3
  <2> QED
    BY <1>1, <2>1, <2>2, <2>3
<1>10. next[1] = VStart /\ n + 1 > 0
  BY <1>1, <1>2 DEF Run
<1>11. Run(next, t)
  BY <1>2, <1>9, <1>10 DEF Run
<1> QED
  BY <1>11 DEF next

\* A longer text.
LEMMA TextGrows ==
    ASSUME NEW t, IsSeq(t), NEW b
    PROVE  /\ \A v, w : Follows(t, v, w) => Follows(Append(t, b), v, w)
           /\ \A tr : Run(tr, t) => Run(tr, Append(t, b))
<1> DEFINE u == Append(t, b)
           n == Len(t)
<1>1. n \in Nat /\ Len(u) = n + 1 /\ \A i \in 1 .. n : u[i] = t[i]
  BY SeqFacts, AppendFacts
<1> HIDE DEF u, n
<1>2. ASSUME NEW v, NEW w, Follows(t, v, w) PROVE Follows(u, v, w)
  <2>1. v.pos \in 1 .. n /\ w.status = "parsing"
    BY <1>2 DEF Follows, n
  <2>2. v.pos \in 1 .. Len(u) /\ u[v.pos] = t[v.pos]
    BY <1>1, <2>1
  <2>3. CASE NumberStarts(v, t[v.pos])
    <3>1. PICK e \in v.pos .. n + 1 : AllNumber(t, v.pos, e) /\ w = VNumber(v, e)
      BY <1>2, <2>3 DEF Follows, n
    <3>2. e \in v.pos .. Len(u) + 1
      BY <1>1, <2>1
    <3>3. \A j \in v.pos .. e - 1 : j \in 1 .. n
      BY <1>1, <2>1
    <3>4. AllNumber(u, v.pos, e)
      BY <1>1, <3>1, <3>3 DEF AllNumber
    <3> QED
      BY <2>1, <2>2, <2>3, <3>1, <3>2, <3>4 DEF Follows
  <2>4. CASE ~NumberStarts(v, t[v.pos])
    BY <1>2, <2>1, <2>2, <2>4 DEF Follows
  <2> QED
    BY <2>3, <2>4
<1>3. \A tr : Run(tr, t) => Run(tr, u)
  BY <1>2 DEF Run
<1> QED
  BY <1>2, <1>3 DEF u

LEMMA GoStatus == ASSUME NEW x PROVE VGo(x).status = x.status
<1> DEFINE w == IF "reproc" \in x.flags THEN VOff(x, {"reproc"}) ELSE VAt(x, x.pos + 1)
<1>1. w.status = x.status
  BY DEF VOff, VFlags, VAt, V
<1>2. VGo(x) = (IF "next" \in w.flags THEN VComplete(w) ELSE w)
  BY DEF VGo
<1> HIDE DEF w
<1>3. VComplete(w).status = w.status
  BY DEF VComplete, VOn, VOff, VFlags, V
<1> QED
  BY <1>1, <1>2, <1>3

LEMMA StepStatus ==
    ASSUME NEW v, NEW b
    PROVE  VStep(v, b).status \in {v.status, "failed"}
<1>1. VFail(v).status = "failed" /\ VFail(VOff(v, {"seek_value"})).status = "failed"
  BY DEF VFail, V
<1>2. \A fs : VOn(v, fs).status = v.status /\ VOff(v, fs).status = v.status
  BY DEF VOn, VOff, VFlags, V
<1>3. /\ VBeginString(v).status = v.status /\ VEndString(v).status = v.status
      /\ \A c : /\ VStringAdd(v, c).status = v.status
                /\ VStringAdd(VOff(v, {"escaped"}), c).status = v.status
  BY DEF VBeginString, VEndString, VStringAdd, VText, VOn, VOff, VFlags, V
<1>4. \A fs : VOn(VOff(v, fs), {"next"}).status = v.status
  BY DEF VOn, VOff, VFlags, V
<1>5. /\ \A y, type : VNew(y, type).status = y.status
      /\ \A y, fs : VOn(y, fs).status = y.status /\ VOff(y, fs).status = y.status
      /\ \A y : VBeginString(y).status = y.status
  <2>1. \A y, type : VNew(y, type).status = y.status
    BY DEF VNew, V
  <2>2. \A y, fs : VOn(y, fs).status = y.status /\ VOff(y, fs).status = y.status
    BY DEF VOn, VOff, VFlags, V
  <2>3. \A y : VBeginString(y).status = y.status
    BY DEF VBeginString, VText, VOn, VFlags, V
  <2> QED
    BY <2>1, <2>2, <2>3
<1>6. VInString(v, b).status \in {v.status, "failed"}
  BY <1>1, <1>2, <1>3, GoStatus DEF VInString
<1>7. VAfterRoot(v, b).status \in {v.status, "failed"}
  BY <1>1, GoStatus DEF VAfterRoot
<1>8. VValueBegins(v, b).status \in {v.status, "failed"}
  <2> DEFINE w == VOff(v, {"seek_value"})
  <2>1. VValueBegins(v, b) \in {VGo(VNew(w, "object")), VGo(VOn(VNew(w, "array"), {"seek_value"})),
                               VGo(VBeginString(VNew(w, "string"))),
                               VGo(VOn(VNew(w, b), {"next"})), VFail(v)}
    BY DEF VValueBegins
  <2>2. w.status = v.status
    BY <1>5
  <2> HIDE DEF w
  <2>3. \A type, fs : /\ VNew(w, type).status = v.status
                     /\ VOn(VNew(w, type), fs).status = v.status
                     /\ VBeginString(VNew(w, type)).status = v.status
    BY <1>5, <2>2
  <2> QED
    BY <1>1, <2>1, <2>3, GoStatus
<1>9. VSeekValue(v, b).status \in {v.status, "failed"}
  BY <1>1, <1>2, <1>4, <1>8, GoStatus DEF VSeekValue
<1>10. VInObject(v, b).status \in {v.status, "failed"}
  BY <1>1, <1>2, <1>3, <1>4, GoStatus DEF VInObject
<1> QED
  BY <1>6, <1>7, <1>9, <1>10 DEF VStep

\* Nothing goes on at the end of the text,
LEMMA EndStops ==
    ASSUME NEW v
    PROVE  VStep(v, End).status = "failed" /\ ~NumberStarts(v, End)
<1>1. VFail(v).status = "failed" /\ VFail(VOff(v, {"seek_value"})).status = "failed"
  BY DEF VFail, V
<1>2. End \notin {Space, Quote, "]", "}", ",", ":", "{", "[", "-"} \cup Literals \cup Digits
  BY DEF End, Space, Quote, Literals, Digits, DigitOf
<1>3. VValueBegins(v, End).status = "failed"
  BY <1>1, <1>2 DEF VValueBegins
<1>4. VSeekValue(v, End).status = "failed"
  BY <1>1, <1>2, <1>3 DEF VSeekValue
<1>5. VInObject(v, End).status = "failed"
  BY <1>1, <1>2 DEF VInObject
<1>6. VInString(v, End).status = "failed" /\ VAfterRoot(v, End).status = "failed"
  BY <1>1, <1>2 DEF VInString, VAfterRoot
<1> QED
  BY <1>2, <1>4, <1>5, <1>6 DEF VStep, NumberStarts

\* and with what could belong to a number but comes behind it.
LEMMA NumberTokenStops ==
    ASSUME NEW v, NEW b \in NumberTokens, "need_comma" \in v.flags, "string" \notin v.flags
    PROVE  VStep(v, b).status = "failed" /\ ~NumberStarts(v, b)
<1>1. VFail(v).status = "failed"
  BY DEF VFail, V
<1>2. b \notin {Space, Quote, "]", "}", ","}
  BY DEF NumberTokens, Space, Quote, Digits, DigitOf
<1>3. VAfterRoot(v, b).status = "failed"
  BY <1>1, <1>2 DEF VAfterRoot
<1>4. VSeekValue(v, b).status = "failed"
  BY <1>1, <1>2 DEF VSeekValue
<1>5. VInObject(v, b).status = "failed"
  BY <1>1, <1>2 DEF VInObject
<1> QED
  BY <1>3, <1>4, <1>5 DEF VStep, NumberStarts

\* The view behind a number.
LEMMA BehindNumber ==
    ASSUME NEW v, Sound(v), NEW b, NumberStarts(v, b), NEW e
    PROVE  /\ VNumber(v, e).pos = e /\ "need_comma" \in VNumber(v, e).flags
           /\ "string" \notin VNumber(v, e).flags /\ VNumber(v, e).status = v.status
           /\ VInNumber(v, e).status = v.status
<1> DEFINE z == VInNumber(v, e)
           x == VOn(z, {"next", "reproc"})
           y == VOff(x, {"reproc"})
<1>1. v.count \in Nat
  BY Outside
<1>2. z.flags = v.flags \ {"seek_value"} /\ z.pos = e
  BY <1>1, NumberViews
<1>3. z.status = v.status
  BY DEF VInNumber, VAt, VNew, VOff, VFlags, V
<1>4. VNumber(v, e) = VGo(x)
  BY DEF VNumber
<1> HIDE DEF z
<1>5. /\ x.flags = z.flags \cup {"next", "reproc"} /\ x.pos = z.pos /\ x.status = z.status
  BY DEF VOn, VFlags, V
<1> HIDE DEF x
<1>6. y.flags = x.flags \ {"reproc"} /\ y.pos = x.pos
  BY DEF VOff, VFlags, V
<1> HIDE DEF y
<1>7. VGo(x) = VComplete(y)
  <2>1. "reproc" \in x.flags /\ "next" \in y.flags
    BY <1>5, <1>6
  <2> QED
    BY <2>1 DEF VGo, y
<1>8. /\ VComplete(y).pos = y.pos /\ "need_comma" \in VComplete(y).flags
      /\ "string" \in VComplete(y).flags => "string" \in y.flags
  BY DEF VComplete, VOn, VOff, VFlags, V
<1>9. "string" \notin y.flags
  BY <1>2, <1>5, <1>6 DEF NumberStarts
<1> QED
  BY <1>2, <1>3, <1>4, <1>5, <1>6, <1>7, <1>8, <1>9, GoStatus DEF z

-----------------------------------------------------------------------------
(* Where the passes are *)

\* In the middle of a number, whose text up to e has been read.
Within(v, e, t) ==
    /\ v.pos \in 1 .. Len(t) /\ NumberStarts(v, t[v.pos])
    /\ e \in v.pos .. Len(t) + 1 /\ AllNumber(t, v.pos, e)

\* The first pass has gone through the views of a run.
First(p, t) ==
    /\ Taking(p)
    /\ \E tr : /\ Run(tr, t)
               /\ \/ View(p) = tr[Len(tr)]
                  \/ \E e : Within(tr[Len(tr)], e, t) /\ View(p) = VInNumber(tr[Len(tr)], e)

\* The text is accepted behind the view v.
Final(v, t) == "done" \in v.flags /\ (v.pos > Len(t) \/ t[v.pos] = End)

\* The first pass has left the nodes of the view v.
Fitted(p, v) ==
    /\ DOMAIN Counted(p) = 1 .. v.count
    /\ \A i \in 1 .. v.count :
        /\ Counted(p)[i].type = v.nodes[i].type /\ Counted(p)[i].parent = v.nodes[i].parent
        /\ Counted(p)[i].room = <<v.nodes[i].length, v.nodes[i].bytes>>

\* The second goes through them again.
Second(p, t) ==
    /\ Taking(p)
    /\ \E tr : \E k \in 1 .. Len(tr) :
          /\ Run(tr, t) /\ View(p) = tr[k]
          /\ Final(tr[Len(tr)], t) /\ Fitted(p, tr[Len(tr)])

\* What the loop does with b, and where b is in the text.
Acts(b) == InString(b) \/ AfterRoot(b) \/ SeekValue(b) \/ InObject(b) \/ InNumber(b)
Reads(b, t) ==
    /\ Len(t) \in Nat /\ parser.pos \in Nat \ {0}
    /\ IF b = End THEN parser.pos > Len(t) \/ t[parser.pos] = End
       ELSE parser.pos <= Len(t) /\ t[parser.pos] = b

LEMMA SoundActs ==
    ASSUME Taking(parser), Sound(View(parser)), NEW b, Acts(b)
    PROVE  /\ InString(b) \/ AfterRoot(b) \/ SeekValue(b) \/ InObject(b)
           /\ NumberStarts(View(parser), b) => SeekValue(b)
           /\ AfterRoot(b) => "done" \in View(parser).flags
           /\ "done" \in View(parser).flags => AfterRoot(b)
<1> DEFINE v == View(parser)
<1>1. /\ "string" \in v.flags <=> Is("string")
      /\ "done" \in v.flags <=> Is("done")
      /\ "seek_value" \in v.flags <=> Is("seek_value")
  BY FlagFacts DEF Is, NumberFlags
<1>2. "done" \in v.flags => "string" \notin v.flags
  BY DEF Sound, Flagged
<1>3. ASSUME InNumber(b) PROVE FALSE
  <2>1. "string" \notin v.flags /\ "done" \notin v.flags /\ "seek_value" \notin v.flags
    BY <1>1, <1>3 DEF InNumber, In
  <2>2. v.top # 0 /\ v.nodes[v.top].type = "object"
    BY <2>1, Outside
  <2>3. v.top = parser.top /\ v.nodes = [i \in 1 .. Count(parser) |-> Held(parser.nodes[i])]
    BY ViewFields
  <2>4. v.top \in 1 .. Count(parser)
    BY <2>2, <2>3, TakingFacts
  <2> HIDE DEF v
  <2>5. v.nodes[v.top].type = Kind(Top.type)
    BY <2>3, <2>4 DEF Held, HeldNode, Top
  <2>6. Top.type \in {"integer", "double"}
    BY <1>3 DEF InNumber, In
  <2> QED
    BY <2>2, <2>5, <2>6 DEF Kind
<1>4. NumberStarts(v, b) => SeekValue(b)
  BY <1>1, <1>3 DEF NumberStarts, Acts, InString, AfterRoot, InObject, In
<1>5. AfterRoot(b) => "done" \in v.flags
  BY <1>1 DEF AfterRoot
<1>6. "done" \in v.flags => AfterRoot(b)
  BY <1>1, <1>2, <1>3 DEF Acts, InString, SeekValue, InObject, In
<1> QED
  BY <1>3, <1>4, <1>5, <1>6 DEF Acts

LEMMA NumberActsAlone ==
    ASSUME Taking(parser), NEW v, Sound(v), NEW c, NumberStarts(v, c), NEW e,
           View(parser) = VInNumber(v, e), NEW b, Acts(b)
    PROVE  InNumber(b)
<1> DEFINE x == VInNumber(v, e)
<1>1. v.count \in Nat
  BY Outside
<1>2. x.flags = v.flags \ {"seek_value"}
  BY <1>1, NumberViews
<1>3. x.nodes[x.top].type = "integer" /\ x.top # 0
  <2>1. /\ x.top = v.count + 1
        /\ x.nodes = [i \in 1 .. v.count + 1 |->
               IF i = v.count + 1 THEN HeldNode("integer", v.top, 0, 0) ELSE v.nodes[i]]
    BY DEF VInNumber, VAt, VNew, VOff, VFlags, V
  <2> HIDE DEF x
  <2>2. x.nodes[x.top] = HeldNode("integer", v.top, 0, 0)
    BY <1>1, <2>1
  <2> QED
    BY <1>1, <2>1, <2>2 DEF HeldNode
<1> HIDE DEF x
<1>4. ~Is("string") /\ ~Is("done") /\ ~Is("seek_value")
  <2>1. "string" \notin x.flags /\ "done" \notin x.flags /\ "seek_value" \notin x.flags
    BY <1>2 DEF NumberStarts
  <2> QED
    BY <2>1, FlagFacts DEF Is, NumberFlags, x
<1>5. x.top = parser.top /\ x.nodes = [i \in 1 .. Count(parser) |-> Held(parser.nodes[i])]
  BY ViewFields DEF x
<1>6. x.top \in 1 .. Count(parser)
  BY <1>3, <1>5, TakingFacts
<1>7. x.nodes[x.top].type = Kind(Top.type)
  BY <1>5, <1>6 DEF Held, HeldNode, Top
<1>8. Top.type # "object"
  BY <1>3, <1>7 DEF Kind
<1> QED
  BY <1>4, <1>8 DEF Acts, InString, AfterRoot, SeekValue, InObject, In

LEMMA FirstGrows ==
    ASSUME NEW p, NEW t, IsSeq(t), First(p, t), NEW b
    PROVE  First(p, Append(t, b))
<1> DEFINE u == Append(t, b)
           n == Len(t)
<1>1. n \in Nat /\ Len(u) = n + 1 /\ \A i \in 1 .. n : u[i] = t[i]
  BY SeqFacts, AppendFacts
<1>2. \A tr : Run(tr, t) => Run(tr, u)
  BY TextGrows
<1> HIDE DEF u, n
<1>3. ASSUME NEW v, NEW e, Within(v, e, t) PROVE Within(v, e, u)
  <2>1. v.pos \in 1 .. n /\ NumberStarts(v, t[v.pos]) /\ e \in v.pos .. n + 1
        /\ AllNumber(t, v.pos, e)
    BY <1>3 DEF Within, n
  <2>2. v.pos \in 1 .. Len(u) /\ u[v.pos] = t[v.pos] /\ e \in v.pos .. Len(u) + 1
    BY <1>1, <2>1
  <2>3. \A j \in v.pos .. e - 1 : j \in 1 .. n
    BY <1>1, <2>1
  <2>4. AllNumber(u, v.pos, e)
    BY <1>1, <2>1, <2>3 DEF AllNumber
  <2> QED
    BY <2>1, <2>2, <2>4 DEF Within
<1>4. First(p, u)
  BY <1>2, <1>3 DEF First
<1> QED
  BY <1>4 DEF u

\* The second pass starts.
LEMMA SecondStarts ==
    ASSUME First(parser, text'), parser.pass = 1, parser.status = "parsing", NEW b,
           AfterRoot(b), b = End, Reads(b, text'), Core(parser')
    PROVE  Second(parser', text') /\ parser'.status = "parsing" /\ parser'.pass = 2
<1>1. PICK tr : /\ Run(tr, text')
                /\ \/ View(parser) = tr[Len(tr)]
                   \/ \E e : /\ Within(tr[Len(tr)], e, text')
                             /\ View(parser) = VInNumber(tr[Len(tr)], e)
  BY DEF First
<1> DEFINE v == tr[Len(tr)]
<1>2. Sound(v) /\ Len(tr) \in 1 .. Len(tr) /\ 1 \in 1 .. Len(tr)
  BY <1>1, RunFacts DEF Run
<1>3. Taking(parser) /\ Acts(b)
  BY DEF First, Acts
<1>4. View(parser) = v
  <2> SUFFICES ASSUME NEW e, Within(v, e, text'), View(parser) = VInNumber(v, e) PROVE FALSE
    BY <1>1
  <2>1. InNumber(b)
    BY <1>2, <1>3, NumberActsAlone DEF Within
  <2> QED
    BY <2>1 DEF InNumber, In, AfterRoot
<1> HIDE DEF v
<1>5. parser' = Start(2, parser.nodes)
  BY DEF AfterRoot, End, Space
<1>6. /\ parser'.status = "parsing" /\ parser'.pass = 2 /\ parser'.top = 0
      /\ parser'.nodes = parser.nodes /\ parser'.alloc = 1
  BY <1>5 DEF Start
<1>7. View(parser') = VStart
  BY <1>5, StartView
<1>8. DOMAIN parser.nodes = 1 .. Len(parser.nodes) /\ Len(parser.nodes) \in Nat
      /\ Count(parser) = Len(parser.nodes)
  BY <1>3, TakingFacts DEF Count
<1>9. Taking(parser')
  <2>1. Count(parser') = 0
    BY <1>6 DEF Count
  <2>2. Linked(parser')
    <3>1. \A i : ~Pends(parser', i)
      BY <1>6 DEF Pends
    <3>2. /\ parser.alloc = 1 /\ \A i \in DOMAIN parser.nodes : ~(i < 1)
          /\ \A i \in DOMAIN parser.nodes :
                parser.nodes[i].type \in Containers => parser.nodes[i].items = <<>>
      BY <1>3, <1>8 DEF Taking, Linked
    <3> QED
      BY <1>6, <3>1, <3>2 DEF Linked
  <2> QED
    BY <1>6, <1>8, <2>1, <2>2 DEF Taking
<1>10. Final(v, text')
  <2>1. v.pos = parser.pos /\ "done" \in v.flags
    BY <1>2, <1>3, <1>4, ViewFields, SoundActs
  <2> QED
    BY <2>1 DEF Final, Reads
<1>11. Fitted(parser', v)
  <2>1. v.count = Len(parser.nodes) /\ v.nodes = [i \in 1 .. v.count |-> Held(parser.nodes[i])]
    BY <1>4, <1>8, ViewFields
  <2>2. DOMAIN Counted(parser') = 1 .. v.count
    BY <1>6, <1>8, <2>1 DEF Counted
  <2>3. ASSUME NEW i \in 1 .. v.count
        PROVE  /\ Counted(parser')[i].type = v.nodes[i].type
               /\ Counted(parser')[i].parent = v.nodes[i].parent
               /\ Counted(parser')[i].room = <<v.nodes[i].length, v.nodes[i].bytes>>
    <3> DEFINE n == parser.nodes[i]
    <3>1. v.nodes[i] = Held(n) /\ i \in DOMAIN parser.nodes /\ ~(i < 1)
      BY <1>8, <2>1
    <3>2. /\ v.nodes[i].type = Kind(n.type) /\ v.nodes[i].parent = n.parent
          /\ v.nodes[i].length = n.length /\ v.nodes[i].bytes = n.bytes
      BY <3>1 DEF Held, HeldNode
    <3>3. /\ Counted(parser')[i].type = Kind(n.type) /\ Counted(parser')[i].parent = n.parent
          /\ Counted(parser')[i].room = <<n.length, n.bytes>>
      BY <1>6, <3>1 DEF Counted
    <3> QED
      BY <3>2, <3>3
  <2> QED
    BY <2>2, <2>3 DEF Fitted
<1>12. tr[1] = VStart
  BY <1>1 DEF Run
<1> QED
  BY <1>1, <1>2, <1>6, <1>7, <1>9, <1>10, <1>11, <1>12 DEF Second, v

\* The first pass goes on.
LEMMA FirstStep ==
    ASSUME First(parser, text'), parser.pass = 1, parser.status = "parsing",
           NEW b, Acts(b), Reads(b, text'), ~(AfterRoot(b) /\ b = End)
    PROVE  /\ parser'.pass = 1 /\ parser'.status \in {"parsing", "failed"}
           /\ parser'.status = "parsing" => First(parser', text')
<1>1. PICK tr : /\ Run(tr, text')
                /\ \/ View(parser) = tr[Len(tr)]
                   \/ \E e : /\ Within(tr[Len(tr)], e, text')
                             /\ View(parser) = VInNumber(tr[Len(tr)], e)
  BY DEF First
<1> DEFINE v == tr[Len(tr)]
           t == text'
<1>2. /\ Sound(v) /\ v.status = "parsing" /\ Len(t) \in Nat
      /\ parser.pos \in Nat \ {0} /\ View(parser).pos = parser.pos
  BY <1>1, RunFacts, ViewFields DEF Run, Reads
<1>3. Taking(parser)
  BY DEF First
<1>4. ASSUME NEW w, Shows(parser, parser', w)
      PROVE  /\ Taking(parser') /\ parser'.pass = 1 /\ View(parser') = w
             /\ parser'.status = w.status
  BY <1>4, ViewFields DEF Shows
<1>5. ASSUME NEW w, Follows(t, v, w), Shows(parser, parser', w)
      PROVE  First(parser', t) /\ parser'.pass = 1 /\ parser'.status = "parsing"
  <2> DEFINE next == Append(tr, w)
  <2>1. Run(next, t)
    BY <1>1, <1>2, <1>5, RunGoesOn
  <2>2. next[Len(next)] = w
    BY <1>1, AppendFacts DEF Run
  <2>3. w.status = "parsing"
    BY <1>5 DEF Follows
  <2> HIDE DEF next
  <2> QED
    BY <1>4, <1>5, <2>1, <2>2, <2>3 DEF First
<1>6. ASSUME NEW e, Within(v, e, t), Shows(parser, parser', VInNumber(v, e))
      PROVE  First(parser', t) /\ parser'.pass = 1 /\ parser'.status = "parsing"
  <2>1. VInNumber(v, e).status = "parsing"
    BY <1>2, <1>6, BehindNumber DEF Within
  <2> QED
    BY <1>1, <1>4, <1>6, <2>1 DEF First
<1>7. CASE View(parser) = v
  <2>1. InString(b) \/ AfterRoot(b) \/ SeekValue(b) \/ InObject(b)
    BY <1>2, <1>3, <1>7, SoundActs
  <2>2. CASE NumberStarts(v, b)
    <3>1. SeekValue(b) /\ b \in NumberTokens
      BY <1>2, <1>3, <1>7, <2>2, SoundActs, NumberActs
    <3>2. PICK e \in {v.pos, v.pos + 1} : Shows(parser, parser', VInNumber(v, e))
      BY <1>2, <1>3, <1>7, <2>2, <3>1, BegunNumberShows
    <3>3. b # End /\ v.pos \in 1 .. Len(t) /\ t[v.pos] = b
      BY <1>2, <1>7, <2>2, EndStops DEF Reads
    <3>4. Within(v, e, t)
      <4>1. e \in v.pos .. Len(t) + 1 /\ \A j \in v.pos .. e - 1 : j = v.pos
        BY <1>2, <3>2, <3>3
      <4>2. AllNumber(t, v.pos, e)
        BY <3>1, <3>3, <4>1 DEF AllNumber
      <4> QED
        BY <2>2, <3>3, <4>1, <4>2 DEF Within
    <3> HIDE DEF v, t
    <3> QED
      BY <1>6, <3>2, <3>4 DEF t
  <2>3. CASE ~NumberStarts(v, b)
    <3> DEFINE w == VStep(v, b)
    <3>1. Matches(parser, w)
      BY DEF Matches
    <3>2. Shows(parser, parser', w)
      BY <1>2, <1>3, <1>7, <2>1, <2>3, <3>1, StepShows
    <3>3. w.status \in {"parsing", "failed"}
      BY <1>2, StepStatus
    <3>4. ASSUME w.status = "parsing" PROVE Follows(t, v, w)
      <4>1. b # End
        BY <3>4, EndStops
      <4>2. v.pos \in 1 .. Len(t) /\ t[v.pos] = b
        BY <1>2, <1>7, <4>1 DEF Reads
      <4> QED
        BY <2>3, <3>4, <4>2 DEF Follows
    <3> HIDE DEF v, t, w
    <3> QED
      BY <1>4, <1>5, <3>2, <3>3, <3>4 DEF t
  <2> QED
    BY <2>2, <2>3
<1>8. ASSUME NEW e, Within(v, e, t), View(parser) = VInNumber(v, e)
      PROVE  /\ parser'.pass = 1 /\ parser'.status \in {"parsing", "failed"}
             /\ parser'.status = "parsing" => First(parser', t)
  <2>1. NumberStarts(v, t[v.pos]) /\ v.pos \in 1 .. Len(t) /\ e \in v.pos .. Len(t) + 1
        /\ AllNumber(t, v.pos, e)
    BY <1>8 DEF Within
  <2>2. InNumber(b)
    BY <1>2, <1>3, <1>8, <2>1, NumberActsAlone
  <2>3. parser.pos = e
    <3>1. v.count \in Nat
      BY <1>2, Outside
    <3> HIDE DEF v
    <3>2. VInNumber(v, e).pos = e
      BY <3>1, NumberViews
    <3> QED
      BY <1>2, <1>8, <3>2
  <2> HIDE DEF v
  <2>4. CASE Fail
    BY <1>3, <2>4 DEF Fail, Taking, Core, IsRecord, Fields
  <2>5. CASE b \in NumberTokens /\ Shows(parser, parser', VInNumber(v, e + 1))
    <3>1. b # End
      BY <2>5 DEF NumberTokens, Digits, DigitOf, End
    <3>2. e <= Len(t) /\ t[e] = b /\ e \in Nat
      BY <1>2, <2>3, <3>1 DEF Reads
    <3>3. Within(v, e + 1, t)
      <4>1. e + 1 \in v.pos .. Len(t) + 1
        BY <1>2, <2>1, <3>2
      <4>2. \A j \in v.pos .. (e + 1) - 1 : j = e \/ j \in v.pos .. e - 1
        BY <1>2, <2>1, <3>2
      <4>3. AllNumber(t, v.pos, e + 1)
        BY <2>1, <2>5, <3>2, <4>2 DEF AllNumber
      <4> HIDE DEF t
      <4> QED
        BY <2>1, <4>1, <4>3 DEF Within
    <3> HIDE DEF t
    <3> QED
      BY <1>6, <2>5, <3>3
  <2>6. CASE Shows(parser, parser', VNumber(v, e))
    <3>1. VNumber(v, e).status = "parsing"
      BY <1>2, <2>1, BehindNumber
    <3>2. Follows(t, v, VNumber(v, e))
      BY <2>1, <3>1 DEF Follows
    <3> HIDE DEF t
    <3> QED
      BY <1>5, <2>6, <3>2
  <2> QED
    BY <1>2, <1>3, <1>8, <2>2, <2>4, <2>5, <2>6, InNumberShows
<1> QED
  BY <1>1, <1>7, <1>8

-----------------------------------------------------------------------------
(* The second pass *)

\* What the last view of a run holds is what was counted.
LEMMA FinalLengths ==
    ASSUME NEW v, Sound(v), NEW t, Final(v, t), NEW i \in 1 .. v.count
    PROVE  LengthAt(v, i) = v.nodes[i].length /\ BytesAt(v, i) = v.nodes[i].bytes
<1>1. /\ "done" \in v.flags /\ "string" \notin v.flags /\ "seek_value" \notin v.flags
      /\ v.top # 0 /\ v.nodes[v.top].parent = 0
  BY DEF Sound, Flagged, Final
<1>2. v.top \in 1 .. v.count
  BY <1>1 DEF Sound, Placed
<1>3. i # v.top => i \notin Open(v)
  <2> DEFINE P == Parents(v)
  <2>1. DOMAIN P = 1 .. v.count /\ P[v.top] = 0
    BY <1>1, <1>2 DEF Parents
  <2> HIDE DEF P
  <2>2. {v.top} \in SUBSET DOMAIN P /\ Closed(P, {v.top})
    BY <1>2, <2>1 DEF Closed
  <2> QED
    BY <2>2 DEF Ancestors, Open, P
<1> QED
  BY <1>1, <1>3 DEF LengthAt, BytesAt, Awaits

\* A tree that fits the last view of a run matches every one before.
LEMMA RunMatches ==
    ASSUME NEW t, NEW tr, Run(tr, t), NEW k \in 1 .. Len(tr), NEW p, Fitted(p, tr[Len(tr)])
    PROVE  Matches(p, tr[k])
<1> DEFINE v == tr[k]
           w == tr[Len(tr)]
<1>1. Grows(v, w) /\ Placed(v) /\ Placed(w)
  BY RunFacts DEF Run, Sound
<1> HIDE DEF v, w
<1>2. \A i \in 1 .. v.count : i \in 1 .. w.count
  BY <1>1 DEF Grows, Placed
<1>3. \A i \in 1 .. v.count : w.nodes[i].type = v.nodes[i].type
                             /\ w.nodes[i].parent = v.nodes[i].parent
  BY <1>1 DEF Grows
<1>4. Matches(p, v)
  BY <1>2, <1>3 DEF Matches, Fitted, w
<1> QED
  BY <1>4 DEF v

\* The second pass finds the number that the first has read.
LEMMA SameNumber ==
    ASSUME NEW tr, Run(tr, text), Len(text) \in Nat, NEW k \in 1 .. Len(tr), k # Len(tr),
           Final(tr[Len(tr)], text), View(parser) = tr[k],
           NumberStarts(tr[k], text[tr[k].pos])
    PROVE  tr[k + 1] = VNumber(tr[k], NumberEnd(parser))
<1> DEFINE v == tr[k]
           w == tr[k + 1]
           f == NumberEnd(parser)
           n == Len(text)
<1>1. /\ Sound(v) /\ Follows(text, v, w) /\ k + 1 \in 1 .. Len(tr)
      /\ k + 1 # Len(tr) => Follows(text, w, tr[k + 2])
  BY RunFacts DEF Run
<1>2. PICK e \in v.pos .. n + 1 : AllNumber(text, v.pos, e) /\ w = VNumber(v, e)
  BY <1>1 DEF Follows
<1>3. v.pos \in 1 .. n /\ parser.pos = v.pos /\ v.pos \in Nat /\ n \in Nat
  <2>1. v.pos \in 1 .. n
    BY <1>1 DEF Follows
  <2>2. v.pos = parser.pos
    BY ViewFields
  <2> HIDE DEF v
  <2> QED
    BY <2>1, <2>2
<1>4. /\ f \in v.pos .. n + 1 /\ \A j \in v.pos .. f - 1 : text[j] \in NumberTokens
      /\ f <= n => text[f] \notin NumberTokens
  BY <1>3, NumberEndInText
<1>5. /\ w.pos = e /\ "need_comma" \in w.flags /\ "string" \notin w.flags
  BY <1>1, <1>2, BehindNumber
<1> HIDE DEF v, w, f, n
<1>6. ASSUME e < f PROVE FALSE
  <2>1. e \in v.pos .. f - 1 /\ e <= n /\ e \in 1 .. n
    BY <1>2, <1>3, <1>4, <1>6
  <2>2. text[e] \in NumberTokens
    BY <1>4, <2>1
  <2>3. CASE k + 1 = Len(tr)
    <3>1. e > n \/ text[e] = End
      BY <1>5, <2>3 DEF Final, w, n
    <3>2. End \notin NumberTokens
      BY DEF NumberTokens, Digits, DigitOf, End
    <3>3. ~(e > n)
      BY <1>3, <2>1 DEF n
    <3> QED
      BY <2>2, <3>1, <3>2, <3>3
  <2>4. CASE k + 1 # Len(tr)
    <3>1. VStep(w, text[e]).status = "failed" /\ ~NumberStarts(w, text[e])
      BY <1>5, <2>2, NumberTokenStops
    <3>2. Follows(text, w, tr[k + 2])
      BY <1>1, <2>4
    <3> QED
      BY <1>5, <3>1, <3>2 DEF Follows
  <2> QED
    BY <2>3, <2>4
<1>7. ASSUME f < e PROVE FALSE
  <2>1. f \in v.pos .. e - 1 /\ f <= n
    BY <1>2, <1>3, <1>4, <1>7 DEF n
  <2> QED
    BY <1>2, <1>4, <2>1 DEF AllNumber
<1>8. e = f
  BY <1>2, <1>3, <1>4, <1>6, <1>7 DEF n
<1> QED
  BY <1>2, <1>8 DEF v, w, f

\* The second pass goes on.
LEMMA SecondStep ==
    ASSUME Second(parser, text), parser.pass = 2, parser.status = "parsing",
           NEW b, Acts(b), Reads(b, text)
    PROVE  /\ parser'.pass = 2
           /\ \/ parser'.status = "parsing" /\ Second(parser', text)
              \/ parser' = [parser EXCEPT !.status = "accepted"]
                 /\ \E v : Sound(v) /\ Final(v, text) /\ Fitted(parser, v) /\ View(parser) = v
<1>1. PICK tr : \E k \in 1 .. Len(tr) :
          /\ Run(tr, text) /\ View(parser) = tr[k]
          /\ Final(tr[Len(tr)], text) /\ Fitted(parser, tr[Len(tr)])
  BY DEF Second
<1>2. PICK k \in 1 .. Len(tr) :
          /\ Run(tr, text) /\ View(parser) = tr[k]
          /\ Final(tr[Len(tr)], text) /\ Fitted(parser, tr[Len(tr)])
  BY <1>1
<1> DEFINE v == tr[k]
           last == tr[Len(tr)]
<1>3. Taking(parser) /\ Sound(v) /\ v.status = "parsing" /\ Sound(last)
      /\ Len(text) \in Nat /\ v.pos = parser.pos
  BY <1>2, RunFacts, ViewFields DEF Second, Run, Reads
<1>4. CASE k = Len(tr)
  <2>1. "done" \in v.flags /\ (v.pos > Len(text) \/ text[v.pos] = End)
    BY <1>2, <1>4 DEF Final
  <2>2. b = End
    BY <1>3, <2>1 DEF Reads
  <2> HIDE DEF v
  <2>3. AfterRoot(b)
    BY <1>2, <1>3, <2>1, SoundActs DEF v
  <2>4. parser' = [parser EXCEPT !.status = "accepted"]
    BY <2>2, <2>3 DEF AfterRoot, End, Space
  <2>5. parser'.pass = 2
    BY <1>3, <2>4 DEF Taking, Core, IsRecord, Fields
  <2> QED
    BY <1>2, <1>3, <1>4, <2>4, <2>5
<1>5. CASE k # Len(tr)
  <2>1. /\ k + 1 \in 1 .. Len(tr) /\ Follows(text, v, tr[k + 1])
        /\ tr[k + 1].status = "parsing"
    BY <1>2, <1>5, RunFacts DEF Run
  <2>2. Matches(parser, tr[k + 1])
    BY <1>2, <2>1, RunMatches
  <2>3. v.pos \in 1 .. Len(text)
    BY <2>1 DEF Follows
  <2>4. text[v.pos] = b
    BY <1>3, <2>3 DEF Reads
  <2>5. Shows(parser, parser', tr[k + 1])
    <3>1. CASE NumberStarts(v, b)
      <4>1. SeekValue(b)
        BY <1>2, <1>3, <3>1, SoundActs
      <4>2. tr[k + 1] = VNumber(v, NumberEnd(parser))
        BY <1>2, <1>3, <1>5, <2>4, <3>1, SameNumber
      <4> QED
        BY <1>2, <1>3, <2>2, <3>1, <4>1, <4>2, SkippedShows
    <3>2. CASE ~NumberStarts(v, b)
      <4>1. tr[k + 1] = VStep(v, b)
        BY <2>1, <2>4, <3>2 DEF Follows
      <4>2. b # End
        BY <2>1, <4>1, EndStops
      <4>3. InString(b) \/ AfterRoot(b) \/ SeekValue(b) \/ InObject(b)
        BY <1>2, <1>3, SoundActs
      <4> QED
        BY <1>2, <1>3, <2>2, <3>2, <4>1, <4>2, <4>3, StepShows
    <3> QED
      BY <3>1, <3>2
  <2>6. /\ Taking(parser') /\ parser'.pass = 2 /\ View(parser') = tr[k + 1]
        /\ Counted(parser') = Counted(parser)
    BY <2>5 DEF Shows
  <2>7. parser'.status = "parsing"
    BY <2>1, <2>6, ViewFields
  <2>8. Fitted(parser', last)
    BY <1>2, <2>6 DEF Fitted
  <2> QED
    BY <1>2, <2>1, <2>6, <2>7, <2>8 DEF Second
<1> QED
  BY <1>4, <1>5

\* The nodes of the second pass hold what those of its view hold, and their room is
\* what the first pass has counted.
LEMMA RoomFits ==
    ASSUME NEW p, Taking(p), p.pass = 2, NEW v, View(p) = v,
           NEW w, NEW t, Sound(w), Final(w, t), Fitted(p, w), Grows(v, w), NEW i \in 1 .. Count(p)
    PROVE  /\ p.nodes[i].length = v.nodes[i].length /\ p.nodes[i].bytes = v.nodes[i].bytes
           /\ Kind(p.nodes[i].type) = v.nodes[i].type
           /\ LengthAt(v, i) <= p.nodes[i].room[1] /\ BytesAt(v, i) <= p.nodes[i].room[2]
           /\ p.nodes[i].room = <<w.nodes[i].length, w.nodes[i].bytes>>
<1>1. v.count = Count(p) /\ v.nodes = [j \in 1 .. Count(p) |-> Held(p.nodes[j])]
  BY ViewFields
<1>2. v.nodes[i] = Held(p.nodes[i])
  BY <1>1
<1>3. /\ p.nodes[i].length = v.nodes[i].length /\ p.nodes[i].bytes = v.nodes[i].bytes
      /\ Kind(p.nodes[i].type) = v.nodes[i].type
  BY <1>2 DEF Held, HeldNode
<1>4. i \in 1 .. w.count
  <2>1. v.count \in Nat /\ v.count <= w.count /\ w.count \in Nat
    BY <1>1, TakingFacts DEF Grows, Sound, Placed
  <2> QED
    BY <1>1, <2>1
<1>5. LengthAt(v, i) <= w.nodes[i].length /\ BytesAt(v, i) <= w.nodes[i].bytes
  <2>1. LengthAt(v, i) <= LengthAt(w, i) /\ BytesAt(v, i) <= BytesAt(w, i)
    BY <1>1 DEF Grows
  <2> QED
    BY <1>4, <2>1, FinalLengths
<1>6. Counted(p)[i].room = <<w.nodes[i].length, w.nodes[i].bytes>>
  BY <1>4 DEF Fitted
<1>7. Counted(p)[i].room = p.nodes[i].room
  <2>1. i \in DOMAIN p.nodes /\ i < p.alloc
    BY TakingFacts DEF Taking, Core
  <2> QED
    BY <2>1 DEF Counted
<1>8. p.nodes[i].room = <<w.nodes[i].length, w.nodes[i].bytes>>
  BY <1>6, <1>7
<1>9. p.nodes[i].room[1] = w.nodes[i].length /\ p.nodes[i].room[2] = w.nodes[i].bytes
  BY <1>8
<1>10. LengthAt(v, i) <= p.nodes[i].room[1] /\ BytesAt(v, i) <= p.nodes[i].room[2]
  BY <1>5, <1>9
<1> QED
  BY <1>3, <1>8, <1>10

\* The second pass has taken every node, and filled it.
Filled(p) ==
    /\ p.alloc = Len(p.nodes) + 1 /\ "string" \notin p.flags
    /\ \A i \in DOMAIN p.nodes :
        LET n == p.nodes[i]
        IN  n.length \in Nat /\ n.bytes \in Nat /\ <<n.length, n.bytes>> = n.room

LEMMA FinalFills ==
    ASSUME NEW p, Taking(p), p.pass = 2, NEW v, View(p) = v, NEW t,
           Sound(v), Final(v, t), Fitted(p, v)
    PROVE  Filled(p)
<1>1. /\ v.count = Count(p) /\ v.flags = FlagsOf(p) /\ v.count \in Nat
      /\ DOMAIN p.nodes = 1 .. Len(p.nodes) /\ Len(p.nodes) \in Nat
      /\ Count(p) = p.alloc - 1 /\ p.alloc \in Nat
  <2>1. v.count = Count(p) /\ v.flags = FlagsOf(p)
    BY ViewFields
  <2>2. p.alloc \in Nat
    BY DEF Taking, Core
  <2> QED
    BY <2>1, <2>2, TakingFacts
<1>2. Len(p.nodes) = v.count
  <2>1. DOMAIN p.nodes = 1 .. v.count
    BY DEF Fitted, Counted
  <2> QED
    BY <1>1, <2>1
<1>3. \A i \in 1 .. v.count :
        /\ v.nodes[i].length \in Nat /\ v.nodes[i].bytes \in Nat
        /\ LengthAt(v, i) = v.nodes[i].length /\ BytesAt(v, i) = v.nodes[i].bytes
  BY FinalLengths DEF Sound, Placed
<1>4. Grows(v, v)
  BY <1>1, <1>3 DEF Grows
<1>5. \A i \in 1 .. v.count :
        /\ p.nodes[i].length = v.nodes[i].length /\ p.nodes[i].bytes = v.nodes[i].bytes
        /\ p.nodes[i].room = <<v.nodes[i].length, v.nodes[i].bytes>>
  BY <1>1, <1>4, RoomFits
<1>6. "string" \notin p.flags
  <2>1. "string" \notin v.flags
    BY DEF Sound, Flagged, Final
  <2> QED
    BY <1>1, <2>1 DEF FlagsOf, NumberFlags
<1>7. p.alloc = Len(p.nodes) + 1
  BY <1>1, <1>2
<1>8. ASSUME NEW i \in DOMAIN p.nodes
      PROVE  /\ p.nodes[i].length \in Nat /\ p.nodes[i].bytes \in Nat
             /\ <<p.nodes[i].length, p.nodes[i].bytes>> = p.nodes[i].room
  <2>1. i \in 1 .. v.count
    BY <1>1, <1>2
  <2> QED
    BY <1>3, <1>5, <2>1
<1> QED
  BY <1>6, <1>7, <1>8 DEF Filled

\* The tree that it leaves: every node but the root is an entry of its parent, once.
Whole(ns) ==
    /\ Tree(ns) /\ ns # <<>>
    /\ \A i \in DOMAIN ns :
          /\ ns[i].length \in Nat
          /\ ns[i].type \in Containers => Listed(ns[i], Len(ns) + 1)
          /\ ns[i].parent # 0 =>
                /\ ns[ns[i].parent].type \in Containers
                /\ \E j \in DOMAIN ns[ns[i].parent].items : ns[ns[i].parent].items[j] = i

LEMMA FinalWhole ==
    ASSUME NEW p, Taking(p), p.pass = 2, NEW v, View(p) = v, NEW t,
           Sound(v), Final(v, t), Fitted(p, v)
    PROVE  Whole(p.nodes)
<1> DEFINE ns == p.nodes
<1>1. Filled(p)
  BY FinalFills
<1>2. Tree(ns) /\ Linked(p) /\ p.top \in Nat
  BY TakingFacts DEF Taking, Core
<1>3. DOMAIN ns = 1 .. Len(ns) /\ Len(ns) \in Nat /\ p.alloc = Len(ns) + 1
  BY <1>1, <1>2, SeqFacts DEF Tree, Filled
<1>4. /\ v.top = p.top /\ v.count = Count(p) /\ Count(p) = p.alloc - 1
      /\ v.nodes = [i \in 1 .. Count(p) |-> Held(p.nodes[i])]
  BY ViewFields, TakingFacts
<1>5. p.top # 0 /\ p.top \in 1 .. Len(ns) /\ ns[p.top].parent = 0
  <2>1. v.top # 0 /\ v.nodes[v.top].parent = 0
    BY DEF Sound, Flagged, Final
  <2>2. p.top \in 1 .. Count(p)
    BY <1>2, <1>4, <2>1, TakingFacts
  <2>3. v.nodes[p.top].parent = p.nodes[p.top].parent
    <3>1. v.nodes[p.top] = Held(p.nodes[p.top])
      BY <1>4, <2>2
    <3>2. \A n : Held(n).parent = n.parent
      BY DEF Held, HeldNode
    <3> QED
      BY <3>1, <3>2
  <2> QED
    BY <1>3, <1>4, <2>1, <2>2, <2>3
<1>6. p.top = 1
  <2>1. Fits(ns, p.top, ns[p.top])
    BY <1>2, <1>3, <1>5 DEF Tree
  <2> QED
    BY <1>5, <2>1 DEF Fits
<1>7. \A i \in DOMAIN ns : Pends(p, i) => i <= 1
  BY <1>5, <1>6, <1>2 DEF Linked
<1>8. ASSUME NEW i \in DOMAIN ns, ns[i].parent # 0
      PROVE  \E j \in DOMAIN ns[ns[i].parent].items : ns[ns[i].parent].items[j] = i
  <2>1. i # 1
    <3>1. Fits(ns, i, ns[i])
      BY <1>2 DEF Tree
    <3> QED
      BY <1>8, <3>1 DEF Fits
  <2>2. ~Pends(p, i) /\ i \in 1 .. p.alloc - 1
    BY <1>3, <1>7, <2>1
  <2> QED
    BY <1>8, <2>2 DEF Pends
<1>9. ASSUME NEW i \in DOMAIN ns
      PROVE  /\ ns[i].length \in Nat
             /\ ns[i].type \in Containers => Listed(ns[i], Len(ns) + 1)
             /\ ns[i].parent # 0 => ns[ns[i].parent].type \in Containers
  <2>1. i < p.alloc
    BY <1>3
  <2>2. ns[i].type \in Containers => Listed(ns[i], p.alloc)
    BY <1>2, <2>1 DEF Linked
  <2>3. ns[i].parent # 0 => ns[ns[i].parent].type \in Containers
    BY <1>2, <2>1 DEF Linked
  <2>4. ns[i].length \in Nat
    BY <1>1 DEF Filled
  <2> QED
    BY <1>3, <2>2, <2>3, <2>4
<1>10. ns # <<>>
  BY <1>3, <1>5
<1> QED
  BY <1>2, <1>8, <1>9, <1>10 DEF Whole

LEMMA SecondAgrees ==
    ASSUME Second(parser, text), parser.pass = 2, parser.status = "parsing"
    PROVE  PassesAgree
<1>1. PICK tr : \E k \in 1 .. Len(tr) :
          /\ Run(tr, text) /\ View(parser) = tr[k]
          /\ Final(tr[Len(tr)], text) /\ Fitted(parser, tr[Len(tr)])
  BY DEF Second
<1>2. PICK k \in 1 .. Len(tr) :
          /\ Run(tr, text) /\ View(parser) = tr[k]
          /\ Final(tr[Len(tr)], text) /\ Fitted(parser, tr[Len(tr)])
  BY <1>1
<1> DEFINE v == tr[k]
           w == tr[Len(tr)]
<1>3. Taking(parser) /\ View(parser) = v /\ Sound(v) /\ Sound(w) /\ Grows(v, w)
      /\ Final(w, text) /\ Fitted(parser, w)
  BY <1>2, RunFacts DEF Second, Run
<1> HIDE DEF v, w
<1>4. /\ Count(parser) = parser.alloc - 1 /\ v.count = Count(parser) /\ v.top = parser.top
      /\ v.length = parser.length /\ v.flags = FlagsOf(parser) /\ parser.alloc \in Nat
      /\ Count(parser) \in Nat
  BY <1>3, ViewFields, TakingFacts DEF Taking, Core
<1>5. \A i \in 1 .. Count(parser) :
        /\ parser.nodes[i].length = v.nodes[i].length
        /\ parser.nodes[i].bytes = v.nodes[i].bytes
        /\ Kind(parser.nodes[i].type) = v.nodes[i].type
        /\ LengthAt(v, i) <= parser.nodes[i].room[1]
        /\ BytesAt(v, i) <= parser.nodes[i].room[2]
        /\ parser.nodes[i].room = <<w.nodes[i].length, w.nodes[i].bytes>>
  BY <1>3, RoomFits
<1>6. \A i \in 1 .. Count(parser) :
        /\ v.nodes[i].length \in Nat /\ v.nodes[i].bytes \in Nat /\ v.length \in Nat
        /\ w.nodes[i].length \in Nat /\ w.nodes[i].bytes \in Nat
  <2>1. \A i \in 1 .. v.count : i \in 1 .. w.count
    BY <1>3, <1>4 DEF Grows, Sound, Placed
  <2> QED
    BY <1>3, <1>4, <2>1 DEF Sound, Placed
<1>7. ASSUME NEW i \in 1 .. Count(parser)
       PROVE  parser.nodes[i].room[1] \in Nat /\ parser.nodes[i].room[2] \in Nat
  <2>1. parser.nodes[i].room = <<w.nodes[i].length, w.nodes[i].bytes>>
    BY <1>5
  <2> QED
    BY <1>6, <2>1
<1>8. ASSUME NEW i \in 1 .. parser.alloc - 1
      PROVE  /\ parser.nodes[i].length <= parser.nodes[i].room[1]
             /\ parser.nodes[i].bytes <= parser.nodes[i].room[2]
  <2>1. i \in 1 .. Count(parser)
    BY <1>4
  <2>2. v.nodes[i].length <= LengthAt(v, i) /\ v.nodes[i].bytes <= BytesAt(v, i)
    <3>1. i = v.top /\ "string" \in v.flags /\ v.nodes[i].type = "string"
          => v.nodes[i].length = 0
      BY <1>3 DEF Sound, Flagged
    <3> QED
      BY <1>6, <2>1, <3>1 DEF LengthAt, BytesAt
  <2>3. LengthAt(v, i) \in Nat /\ BytesAt(v, i) \in Nat
    BY <1>3, <1>4, <2>1, LengthsNat DEF Sound
  <2>4. parser.nodes[i].room[1] \in Nat /\ parser.nodes[i].room[2] \in Nat
    BY <1>7, <2>1
  <2>5. LengthAt(v, i) <= parser.nodes[i].room[1] /\ BytesAt(v, i) <= parser.nodes[i].room[2]
    BY <1>5, <2>1
  <2>6. v.nodes[i].length \in Nat /\ v.nodes[i].bytes \in Nat
    BY <1>6, <2>1
  <2>7. ASSUME NEW a \in Nat, NEW b \in Nat, NEW c \in Nat, a <= b, b <= c PROVE a <= c
    BY <2>7
  <2>8. v.nodes[i].length <= parser.nodes[i].room[1]
    BY <2>2, <2>3, <2>4, <2>5, <2>6, <2>7
  <2>9. v.nodes[i].bytes <= parser.nodes[i].room[2]
    BY <2>2, <2>3, <2>4, <2>5, <2>6, <2>7
  <2> QED
    BY <1>5, <2>1, <2>8, <2>9
<1>9. ASSUME Is("string")
      PROVE  /\ Top.type = "string" => parser.length <= Top.room[1]
             /\ Top.type = "object" =>
                  Top.length < Top.room[1] /\ Top.bytes + parser.length + 1 <= Top.room[2]
  <2>1. "string" \in v.flags
    BY <1>4, <1>9 DEF Is, FlagsOf, NumberFlags
  <2>2. v.top \in 1 .. Count(parser)
    <3>1. v.top # 0
      BY <1>3, <2>1 DEF Sound, Flagged
    <3> QED
      BY <1>3, <1>4, <3>1, TakingFacts
  <2>3. Top = parser.nodes[v.top]
    BY <1>4 DEF Top
  <2>4. CASE Top.type = "string"
    <3>1. LengthAt(v, v.top) = v.length
      BY <1>5, <2>1, <2>2, <2>3, <2>4 DEF LengthAt, Kind
    <3> QED
      BY <1>4, <1>5, <2>2, <2>3, <2>4, <3>1
  <2>5. CASE Top.type = "object"
    <3>1. /\ LengthAt(v, v.top) = v.nodes[v.top].length + 1
          /\ BytesAt(v, v.top) = v.nodes[v.top].bytes + v.length + 1
      BY <1>5, <2>1, <2>2, <2>3, <2>5 DEF LengthAt, BytesAt, Awaits, Kind
    <3>2. Top.length + 1 <= Top.room[1] /\ Top.bytes + parser.length + 1 <= Top.room[2]
      BY <1>4, <1>5, <2>2, <2>3, <3>1
    <3>3. Top.length \in Nat /\ Top.room[1] \in Nat
      BY <1>5, <1>6, <1>7, <2>2, <2>3
    <3> QED
      BY <2>5, <3>2, <3>3
  <2> QED
    BY <2>4, <2>5
<1> QED
  BY <1>8, <1>9 DEF PassesAgree

-----------------------------------------------------------------------------
(* The theorem *)

\* Where the two passes are in their runs.
AgreeInv ==
    /\ JInv
    /\ parser.status # "crashed"
    /\ parser.status = "parsing" =>
          IF parser.pass = 1 THEN First(parser, text) ELSE complete /\ Second(parser, text)
    /\ parser.status = "failed" => parser.pass = 1
    /\ parser.status = "accepted" =>
          parser.pass = 2 /\ Filled(parser) /\ Whole(parser.nodes)

LEMMA AgreeInvAgrees == AgreeInv => PassesAgree
<1> SUFFICES ASSUME AgreeInv PROVE PassesAgree
  OBVIOUS
<1>1. parser.status \in Statuses /\ parser.pass \in {1, 2}
  BY DEF AgreeInv, JInv, Core
<1>2. CASE parser.pass = 1
  BY <1>2 DEF AgreeInv, PassesAgree
<1>3. CASE parser.pass = 2 /\ parser.status = "parsing"
  BY <1>3, SecondAgrees DEF AgreeInv
<1>4. CASE parser.status = "accepted"
  <2>1. Filled(parser)
    BY <1>4 DEF AgreeInv
  <2>2. /\ ~Is("string") /\ parser.alloc = Len(parser.nodes) + 1
        /\ \A i \in DOMAIN parser.nodes :
              /\ parser.nodes[i].length \in Nat /\ parser.nodes[i].bytes \in Nat
              /\ <<parser.nodes[i].length, parser.nodes[i].bytes>> = parser.nodes[i].room
    BY <2>1 DEF Filled, Is
  <2>3. DOMAIN parser.nodes = 1 .. parser.alloc - 1
    <3>1. DOMAIN parser.nodes = 1 .. Len(parser.nodes) /\ Len(parser.nodes) \in Nat
      BY SeqFacts DEF AgreeInv, JInv, Core, Tree
    <3> QED
      BY <2>2, <3>1
  <2>4. ASSUME NEW i \in 1 .. parser.alloc - 1
        PROVE  /\ parser.nodes[i].length <= parser.nodes[i].room[1]
               /\ parser.nodes[i].bytes <= parser.nodes[i].room[2]
    <3>1. /\ parser.nodes[i].length \in Nat /\ parser.nodes[i].bytes \in Nat
          /\ <<parser.nodes[i].length, parser.nodes[i].bytes>> = parser.nodes[i].room
      BY <2>2, <2>3
    <3>2. /\ parser.nodes[i].room[1] = parser.nodes[i].length
          /\ parser.nodes[i].room[2] = parser.nodes[i].bytes
      BY <3>1
    <3> QED
      BY <3>1, <3>2
  <2> QED
    BY <1>4, <2>2, <2>4 DEF PassesAgree
<1>5. CASE parser.pass = 2 /\ parser.status = "failed"
  BY <1>5 DEF AgreeInv
<1>6. parser.status # "crashed"
  BY DEF AgreeInv
<1> QED
  BY <1>1, <1>2, <1>3, <1>4, <1>5, <1>6 DEF Statuses

LEMMA AgreeInit == Init => AgreeInv
<1> SUFFICES ASSUME Init PROVE AgreeInv
  OBVIOUS
<1>1. parser = Start(1, <<>>) /\ JInv
  BY JInit DEF Init
<1>2. /\ parser.status = "parsing" /\ parser.pass = 1 /\ parser.top = 0
      /\ Count(parser) = Len(parser.nodes) /\ Len(parser.nodes) = 0
  BY <1>1 DEF Start, Count
<1>3. Taking(parser)
  <2>1. parser.alloc = 1 /\ parser.nodes = <<>>
    BY <1>1 DEF Start
  <2>2. Linked(parser)
    BY <1>1, <1>2, <2>1, FirstLinked DEF JInv
  <2> QED
    BY <1>1, <1>2, <2>2 DEF Taking, JInv
<1>4. View(parser) = VStart
  BY <1>1 DEF VStart
<1>5. <<VStart>>[Len(<<VStart>>)] = VStart
  OBVIOUS
<1>6. First(parser, text)
  BY <1>3, <1>4, <1>5, RunStarts DEF First
<1> QED
  BY <1>1, <1>2, <1>6 DEF AgreeInv

\* What has been read is the text so far.
LEMMA NextReads ==
    ASSUME JInv, NEW b \in Offered, complete' = (complete \/ b = End),
           text' = IF b # End /\ parser.pos > Len(text) THEN Append(text, b) ELSE text
    PROVE  /\ Reads(b, text')
           /\ complete => text' = text /\ complete'
           /\ b = End => complete'
           /\ text' = text \/ (IsSeq(text) /\ text' = Append(text, b))
<1>1. /\ Len(text) \in Nat /\ parser.pos \in 1 .. Len(text) + 1 /\ complete \in BOOLEAN
      /\ complete \/ IsSeq(text)
  BY DEF JInv
<1>2. (complete => complete') /\ (b = End => complete')
  BY <1>1
<1>3. CASE parser.pos <= Len(text)
  <2>1. b = text[parser.pos] /\ text' = text
    BY <1>1, <1>3 DEF Offered
  <2>2. Reads(b, text)
    BY <1>1, <1>3, <2>1 DEF Reads
  <2> QED
    BY <1>2, <2>1, <2>2
<1>4. CASE parser.pos > Len(text) /\ b = End
  <2>1. text' = text
    BY <1>4
  <2>2. Reads(b, text)
    BY <1>1, <1>4, <2>1 DEF Reads
  <2> QED
    BY <1>2, <2>1, <2>2
<1>5. CASE parser.pos > Len(text) /\ b # End
  <2>1. ~complete /\ parser.pos = Len(text) + 1
    BY <1>1, <1>5 DEF Offered
  <2>2. IsSeq(text) /\ text' = Append(text, b)
    BY <1>1, <1>5, <2>1
  <2>3. Len(text') = Len(text) + 1 /\ text'[parser.pos] = b
    BY <2>1, <2>2, AppendFacts
  <2> QED
    BY <1>1, <1>5, <2>1, <2>2, <2>3 DEF Reads
<1> QED
  BY <1>1, <1>3, <1>4, <1>5

LEMMA AgreeNext == AgreeInv /\ [Next]_vars => AgreeInv'
<1> SUFFICES ASSUME AgreeInv, [Next]_vars PROVE AgreeInv'
  OBVIOUS
<1>1. JInv /\ JInv'
  BY JNext DEF AgreeInv
<1>2. CASE Next
  <2>1. PICK b \in Offered :
          /\ complete' = (complete \/ b = End)
          /\ text' = IF b # End /\ parser.pos > Len(text) THEN Append(text, b) ELSE text
          /\ Acts(b)
    BY <1>2 DEF Next, Acts
  <2>2. /\ Reads(b, text')
        /\ complete => text' = text /\ complete'
        /\ b = End => complete'
        /\ text' = text \/ (IsSeq(text) /\ text' = Append(text, b))
    BY <1>1, <2>1, NextReads
  <2>3. parser.status = "parsing" /\ parser.pass \in {1, 2} /\ Core(parser')
    BY <1>1, <1>2 DEF Next, JInv, Core
  <2>4. CASE parser.pass = 1
    <3>1. First(parser, text')
      BY <2>2, <2>3, <2>4, FirstGrows DEF AgreeInv
    <3>2. CASE AfterRoot(b) /\ b = End
      <4>1. Second(parser', text') /\ parser'.status = "parsing" /\ parser'.pass = 2
        BY <2>2, <2>3, <2>4, <3>1, <3>2, SecondStarts
      <4> QED
        BY <1>1, <2>2, <3>2, <4>1 DEF AgreeInv
    <3>3. CASE ~(AfterRoot(b) /\ b = End)
      <4>1. /\ parser'.pass = 1 /\ parser'.status \in {"parsing", "failed"}
            /\ parser'.status = "parsing" => First(parser', text')
        BY <2>1, <2>2, <2>3, <2>4, <3>1, <3>3, FirstStep
      <4> QED
        BY <1>1, <4>1 DEF AgreeInv
    <3> QED
      BY <3>2, <3>3
  <2>5. CASE parser.pass = 2
    <3>1. complete /\ Second(parser, text)
      BY <2>3, <2>5 DEF AgreeInv
    <3>2. text' = text /\ complete' /\ Reads(b, text)
      BY <2>2, <3>1
    <3>3. /\ parser'.pass = 2
          /\ \/ parser'.status = "parsing" /\ Second(parser', text)
             \/ parser' = [parser EXCEPT !.status = "accepted"]
                /\ \E v : Sound(v) /\ Final(v, text) /\ Fitted(parser, v) /\ View(parser) = v
      BY <2>1, <2>3, <2>5, <3>1, <3>2, SecondStep
    <3>4. CASE parser'.status = "parsing" /\ Second(parser', text)
      BY <1>1, <3>2, <3>3, <3>4 DEF AgreeInv
    <3>5. CASE /\ parser' = [parser EXCEPT !.status = "accepted"]
               /\ \E v : Sound(v) /\ Final(v, text) /\ Fitted(parser, v) /\ View(parser) = v
      <4>1. Taking(parser)
        BY <3>1 DEF Second
      <4>2. Filled(parser) /\ Whole(parser.nodes)
        BY <2>5, <3>5, <4>1, FinalFills, FinalWhole
      <4>3. /\ parser'.status = "accepted" /\ parser'.alloc = parser.alloc
            /\ parser'.nodes = parser.nodes /\ parser'.flags = parser.flags
        BY <3>5, <4>1 DEF Taking, Core, IsRecord, Fields
      <4>4. Filled(parser') /\ Whole(parser'.nodes)
        BY <4>2, <4>3 DEF Filled
      <4> QED
        BY <1>1, <3>3, <4>3, <4>4 DEF AgreeInv
    <3> QED
      BY <3>3, <3>4, <3>5
  <2> QED
    BY <2>3, <2>4, <2>5
<1>3. CASE UNCHANGED vars
  <2>1. parser' = parser /\ text' = text /\ complete' = complete
    BY <1>3 DEF vars
  <2> QED
    BY <1>1, <2>1 DEF AgreeInv
<1> QED
  BY <1>2, <1>3

\* For every text: the second pass reads what the first has read, so that it does not
\* fail, takes a node of the first for every value, and finds the room it needs for
\* every string, every name and every entry; when it ends, it has used all of it.
THEOREM AgreeTheorem == Spec => []PassesAgree
BY AgreeInit, AgreeNext, AgreeInvAgrees, PTL DEF Spec

-----------------------------------------------------------------------------
(* json_value_free_ex *)

\* It has come to the node i, where l is what is left of the lengths.
Reached(ns, l, i) ==
    /\ i \in DOMAIN ns
    /\ LET r == ns[i].parent
       IN  r = 0 \/ \E j \in DOMAIN ns[r].items : j > l[r] /\ ns[r].items[j] = i

\* And has not freed it.
Kept(ns, l, fr, i) == Reached(ns, l, i) /\ i \notin fr

\* The nodes that it has come to and not freed are those on the way from the node v to
\* the root.
Walks(ns, l, v, fr) ==
    /\ DOMAIN l = DOMAIN ns
    /\ \A i \in DOMAIN ns : l[i] \in Nat /\ l[i] <= Entries(ns[i])
    /\ Kept(ns, l, fr, v) /\ \A i \in DOMAIN ns : Kept(ns, l, fr, i) => i <= v
    /\ \A i, j \in DOMAIN ns :
          Kept(ns, l, fr, i) /\ Kept(ns, l, fr, j) /\ i < j => i <= ns[j].parent
    /\ \A i \in DOMAIN ns :
          Kept(ns, l, fr, i) /\ ns[i].parent # 0 => Kept(ns, l, fr, ns[i].parent)
    /\ \A i \in fr : Reached(ns, l, i) /\ l[i] = 0

LEMMA WholeFacts ==
    ASSUME NEW ns, Whole(ns)
    PROVE  /\ 1 \in DOMAIN ns
           /\ \A i \in DOMAIN ns :
                 /\ i \in Nat /\ ns[i].parent \in Nat /\ ns[i].parent < i
                 /\ ns[i].parent = 0 <=> i = 1
                 /\ ns[i].parent # 0 =>
                       /\ ns[i].parent \in DOMAIN ns /\ ns[ns[i].parent].type \in Containers
                       /\ \E j \in DOMAIN ns[ns[i].parent].items :
                             ns[ns[i].parent].items[j] = i
                 /\ ns[i].length \in Nat /\ Entries(ns[i]) \in Nat
                 /\ ns[i].type \in Containers =>
                       /\ DOMAIN ns[i].items = 1 .. ns[i].length /\ Entries(ns[i]) = ns[i].length
                       /\ \A j \in DOMAIN ns[i].items :
                             ns[i].items[j] \in DOMAIN ns /\ ns[ns[i].items[j]].parent = i
                       /\ \A j, k \in DOMAIN ns[i].items :
                             ns[i].items[j] = ns[i].items[k] => j = k
                 /\ ns[i].type \notin Containers => Entries(ns[i]) = 0
<1>1. Len(ns) \in Nat /\ DOMAIN ns = 1 .. Len(ns)
  BY SeqFacts DEF Whole, Tree
<1>2. 1 \in DOMAIN ns
  <2>1. PICK S : ns \in Seq(S)
    BY DEF Whole, Tree, IsSeq
  <2>2. Len(ns) # 0
    BY <2>1, EmptySeq DEF Whole
  <2> QED
    BY <1>1, <2>2
<1>3. ASSUME NEW i \in DOMAIN ns
      PROVE  /\ i \in Nat /\ ns[i].parent \in Nat /\ ns[i].parent < i
             /\ ns[i].parent = 0 <=> i = 1
             /\ ns[i].parent # 0 => ns[i].parent \in DOMAIN ns
  <2>1. ns[i].parent \in 0 .. i - 1 /\ (ns[i].parent = 0 <=> i = 1)
    BY DEF Whole, Tree, Fits
  <2> QED
    BY <1>1, <2>1
<1>4. ASSUME NEW i \in DOMAIN ns, ns[i].type \in Containers
      PROVE  /\ DOMAIN ns[i].items = 1 .. ns[i].length /\ Entries(ns[i]) = ns[i].length
             /\ \A j \in DOMAIN ns[i].items :
                   ns[i].items[j] \in DOMAIN ns /\ ns[ns[i].items[j]].parent = i
             /\ \A j, k \in DOMAIN ns[i].items :
                   ns[i].items[j] = ns[i].items[k] => j = k
  <2>1. Listed(ns[i], Len(ns) + 1) /\ Fits(ns, i, ns[i])
    BY <1>4 DEF Whole, Tree
  <2>2. ns[i].items \in Seq(Nat)
    BY <1>4, <2>1 DEF Fits
  <2>3. DOMAIN ns[i].items = 1 .. ns[i].length
    BY <2>1, <2>2 DEF Listed
  <2>4. Entries(ns[i]) = ns[i].length
    BY <1>4 DEF Entries, Containers
  <2> QED
    BY <1>4, <2>1, <2>3, <2>4 DEF Listed, Fits
<1>5. ASSUME NEW i \in DOMAIN ns
      PROVE  /\ ns[i].length \in Nat /\ Entries(ns[i]) \in Nat
             /\ ns[i].type \notin Containers => Entries(ns[i]) = 0
  BY DEF Whole, Entries, Containers
<1>6. ASSUME NEW i \in DOMAIN ns, ns[i].parent # 0
      PROVE  /\ ns[ns[i].parent].type \in Containers
             /\ \E j \in DOMAIN ns[ns[i].parent].items : ns[ns[i].parent].items[j] = i
  BY <1>6 DEF Whole
<1> QED
  BY <1>2, <1>3, <1>4, <1>5, <1>6

\* Where it begins,
LEMMA WalkBegins ==
    ASSUME NEW ns, Whole(ns), NEW l, l = [i \in DOMAIN ns |-> Entries(ns[i])]
    PROVE  Walks(ns, l, 1, {})
<1>1. ASSUME NEW i \in DOMAIN ns PROVE Reached(ns, l, i) <=> i = 1
  <2>1. CASE i = 1
    BY <2>1, WholeFacts DEF Reached
  <2>2. CASE i # 1
    <3> DEFINE r == ns[i].parent
    <3>1. r \in DOMAIN ns /\ r # 0 /\ ns[r].type \in Containers
      BY <2>2, WholeFacts
    <3>2. l[r] = ns[r].length /\ DOMAIN ns[r].items = 1 .. ns[r].length /\ ns[r].length \in Nat
      BY <3>1, WholeFacts
    <3> HIDE DEF r
    <3>3. \A j \in DOMAIN ns[r].items : ~(j > l[r])
      BY <3>2
    <3> QED
      BY <2>2, <3>1, <3>3 DEF Reached, r
  <2> QED
    BY <2>1, <2>2
<1>2. \A i \in DOMAIN ns : Kept(ns, l, {}, i) <=> i = 1
  BY <1>1 DEF Kept
<1>3. \A i \in DOMAIN ns : l[i] \in Nat /\ l[i] <= Entries(ns[i])
  BY WholeFacts
<1>4. 1 \in DOMAIN ns /\ ns[1].parent = 0
  BY WholeFacts
<1> QED
  BY <1>2, <1>3, <1>4 DEF Walks

\* when it goes to an entry,
LEMMA WalkDown ==
    ASSUME NEW ns, Whole(ns), NEW l, NEW v, NEW fr, Walks(ns, l, v, fr), l[v] > 0
    PROVE  Walks(ns, [l EXCEPT ![v] = @ - 1], ns[v].items[l[v]], fr)
<1> DEFINE m == [l EXCEPT ![v] = @ - 1]
           k == ns[v].items[l[v]]
<1>1. /\ v \in DOMAIN ns /\ v \in Nat /\ l[v] \in Nat /\ l[v] <= Entries(ns[v])
      /\ DOMAIN l = DOMAIN ns /\ Kept(ns, l, fr, v)
      /\ \A i \in DOMAIN ns : Kept(ns, l, fr, i) => i <= v
  BY WholeFacts DEF Walks, Kept, Reached
<1>2. ns[v].type \in Containers
  BY <1>1, WholeFacts
<1>3. l[v] \in DOMAIN ns[v].items
  <2>1. DOMAIN ns[v].items = 1 .. Entries(ns[v]) /\ Entries(ns[v]) \in Nat
    BY <1>1, <1>2, WholeFacts
  <2> QED
    BY <1>1, <2>1
<1>4. /\ k \in DOMAIN ns /\ k \in Nat /\ ns[k].parent = v /\ v < k /\ v # 0
  <2>1. k \in DOMAIN ns /\ ns[k].parent = v
    BY <1>1, <1>2, <1>3, WholeFacts
  <2> HIDE DEF k
  <2>2. k \in Nat /\ ns[k].parent < k
    BY <2>1, WholeFacts
  <2>3. 0 \notin DOMAIN ns
    BY SeqFacts DEF Whole, Tree
  <2> QED
    BY <1>1, <2>1, <2>2, <2>3
<1>5. /\ DOMAIN m = DOMAIN ns /\ m[v] = l[v] - 1 /\ \A i \in DOMAIN ns : i # v => m[i] = l[i]
  BY <1>1
<1>6. \A j \in DOMAIN ns[v].items : j \in Nat /\ (ns[v].items[j] = k => j = l[v])
  <2>1. \A j \in DOMAIN ns[v].items : j \in Nat
    <3>1. DOMAIN ns[v].items = 1 .. ns[v].length /\ ns[v].length \in Nat
      BY <1>1, <1>2, WholeFacts
    <3> QED
      BY <3>1
  <2>2. \A j \in DOMAIN ns[v].items : ns[v].items[j] = k => j = l[v]
    BY <1>1, <1>2, <1>3, WholeFacts
  <2> QED
    BY <2>1, <2>2
<1> HIDE DEF m
<1>7. ASSUME NEW i \in DOMAIN ns PROVE Reached(ns, m, i) <=> Reached(ns, l, i) \/ i = k
  <2>1. CASE ns[i].parent = v
    <3> HIDE DEF k
    <3>1. Reached(ns, m, i) <=> \E j \in DOMAIN ns[v].items : j > l[v] - 1 /\ ns[v].items[j] = i
      BY <1>4, <1>5, <2>1 DEF Reached
    <3>2. Reached(ns, l, i) <=> \E j \in DOMAIN ns[v].items : j > l[v] /\ ns[v].items[j] = i
      BY <1>4, <2>1 DEF Reached
    <3>3. \A j \in DOMAIN ns[v].items : j > l[v] - 1 <=> j > l[v] \/ j = l[v]
      BY <1>1, <1>6
    <3>4. ns[v].items[l[v]] = k
      BY DEF k
    <3> QED
      BY <1>3, <1>6, <3>1, <3>2, <3>3, <3>4
  <2>2. CASE ns[i].parent # v
    <3>1. i # k
      BY <1>4, <2>2
    <3>2. ns[i].parent # 0 => m[ns[i].parent] = l[ns[i].parent]
      BY <1>5, <2>2, WholeFacts
    <3> HIDE DEF k
    <3> QED
      BY <3>1, <3>2 DEF Reached
  <2> QED
    BY <2>1, <2>2
<1>8. ~Reached(ns, l, k)
  <2> HIDE DEF k
  <2>1. Reached(ns, l, k) => \E j \in DOMAIN ns[v].items : j > l[v] /\ ns[v].items[j] = k
    BY <1>4 DEF Reached
  <2> QED
    BY <1>1, <1>6, <2>1
<1>9. k \notin fr
  BY <1>8 DEF Walks
<1> HIDE DEF k
<1>10. \A i \in DOMAIN ns : Kept(ns, m, fr, i) <=> Kept(ns, l, fr, i) \/ i = k
  BY <1>7, <1>9 DEF Kept
<1>11. ASSUME NEW i \in DOMAIN ns PROVE m[i] \in Nat /\ m[i] <= Entries(ns[i])
  <2>1. l[i] \in Nat /\ l[i] <= Entries(ns[i]) /\ Entries(ns[i]) \in Nat
    BY WholeFacts DEF Walks
  <2> QED
    BY <1>1, <1>5, <2>1
<1>12. ASSUME NEW i \in DOMAIN ns, Kept(ns, m, fr, i) PROVE i <= k
  <2>1. i \in Nat
    BY WholeFacts
  <2> QED
    BY <1>1, <1>4, <1>10, <1>12, <2>1
<1>13. ASSUME NEW i \in DOMAIN ns, NEW j \in DOMAIN ns,
              Kept(ns, m, fr, i), Kept(ns, m, fr, j), i < j
       PROVE  i <= ns[j].parent
  <2>1. i \in Nat /\ j \in Nat
    BY WholeFacts
  <2>2. Kept(ns, l, fr, i)
    <3>1. j <= k
      BY <1>12, <1>13
    <3> QED
      BY <1>4, <1>10, <1>13, <2>1, <3>1
  <2>3. CASE j = k
    BY <1>1, <1>4, <2>2, <2>3
  <2>4. CASE Kept(ns, l, fr, j)
    BY <1>13, <2>2, <2>4 DEF Walks
  <2> QED
    BY <1>10, <1>13, <2>3, <2>4
<1>14. ASSUME NEW i \in DOMAIN ns, Kept(ns, m, fr, i), ns[i].parent # 0
       PROVE  Kept(ns, m, fr, ns[i].parent)
  <2>1. Kept(ns, l, fr, ns[i].parent)
    <3>1. CASE i = k
      BY <1>1, <1>4, <3>1
    <3>2. CASE Kept(ns, l, fr, i)
      BY <1>14, <3>2 DEF Walks
    <3> QED
      BY <1>10, <1>14, <3>1, <3>2
  <2>2. ns[i].parent \in DOMAIN ns
    BY <1>14, WholeFacts
  <2> QED
    BY <1>10, <2>1, <2>2
<1>15. ASSUME NEW i \in fr PROVE Reached(ns, m, i) /\ m[i] = 0
  <2>1. Reached(ns, l, i) /\ l[i] = 0
    BY <1>15 DEF Walks
  <2>2. i \in DOMAIN ns /\ i # v
    BY <1>1, <2>1 DEF Reached, Kept
  <2> QED
    BY <1>5, <1>7, <2>1, <2>2
<1>16. Kept(ns, m, fr, k)
  BY <1>4, <1>10
<1> QED
  BY <1>5, <1>11, <1>12, <1>13, <1>14, <1>15, <1>16 DEF Walks, m, k

\* when it frees a node and goes back to its parent,
LEMMA WalkUp ==
    ASSUME NEW ns, Whole(ns), NEW l, NEW v, NEW fr, Walks(ns, l, v, fr), l[v] = 0,
           ns[v].parent # 0
    PROVE  Walks(ns, l, ns[v].parent, fr \cup {v})
<1> DEFINE u == ns[v].parent
           gr == fr \cup {v}
<1>1. /\ v \in DOMAIN ns /\ Kept(ns, l, fr, v)
      /\ \A i \in DOMAIN ns : Kept(ns, l, fr, i) => i <= v
  BY DEF Walks, Kept, Reached
<1>2. v \in Nat /\ u \in DOMAIN ns /\ u \in Nat /\ u < v
  BY <1>1, WholeFacts
<1>3. Kept(ns, l, fr, u)
  BY <1>1 DEF Walks
<1> HIDE DEF u
<1>4. \A i \in DOMAIN ns : Kept(ns, l, gr, i) <=> Kept(ns, l, fr, i) /\ i # v
  BY DEF Kept
<1> HIDE DEF gr
<1>5. ASSUME NEW i \in DOMAIN ns, Kept(ns, l, gr, i) PROVE i <= u
  <2>1. Kept(ns, l, fr, i) /\ i # v /\ i \in Nat /\ i <= v
    BY <1>1, <1>4, <1>5, WholeFacts
  <2>2. i < v
    BY <1>2, <2>1
  <2> QED
    BY <1>1, <2>1, <2>2 DEF Walks, u
<1>6. ASSUME NEW i \in DOMAIN ns, NEW j \in DOMAIN ns,
             Kept(ns, l, gr, i), Kept(ns, l, gr, j), i < j
      PROVE  i <= ns[j].parent
  BY <1>4, <1>6 DEF Walks
<1>7. ASSUME NEW i \in DOMAIN ns, Kept(ns, l, gr, i), ns[i].parent # 0
      PROVE  Kept(ns, l, gr, ns[i].parent)
  <2> DEFINE r == ns[i].parent
  <2>1. Kept(ns, l, fr, i) /\ i <= u /\ i \in Nat
    BY <1>4, <1>5, <1>7, WholeFacts
  <2>2. r \in DOMAIN ns /\ r \in Nat /\ r < i
    BY <1>7, WholeFacts
  <2>3. Kept(ns, l, fr, r)
    BY <1>7, <2>1 DEF Walks
  <2> HIDE DEF r
  <2>4. r # v
    BY <1>2, <2>1, <2>2
  <2>5. Kept(ns, l, gr, r)
    BY <1>4, <2>2, <2>3, <2>4
  <2> QED
    BY <2>5 DEF r
<1>8. Kept(ns, l, gr, u)
  BY <1>2, <1>3, <1>4
<1>9. ASSUME NEW i \in gr PROVE Reached(ns, l, i) /\ l[i] = 0
  <2>1. CASE i \in fr
    BY <2>1 DEF Walks
  <2>2. CASE i = v
    BY <1>1, <2>2 DEF Kept
  <2> QED
    BY <1>9, <2>1, <2>2 DEF gr
<1>10. /\ DOMAIN l = DOMAIN ns
       /\ \A i \in DOMAIN ns : l[i] \in Nat /\ l[i] <= Entries(ns[i])
  BY DEF Walks
<1>11. Walks(ns, l, u, gr)
  BY <1>5, <1>6, <1>7, <1>8, <1>9, <1>10 DEF Walks
<1> QED
  BY <1>11 DEF u, gr

\* It has come to the children of the nodes that it has freed.
LEMMA FreedReached ==
    ASSUME NEW ns, Whole(ns), NEW l, NEW i \in DOMAIN ns, ns[i].parent # 0,
           l[ns[i].parent] = 0
    PROVE  Reached(ns, l, i)
<1> DEFINE r == ns[i].parent
<1>1. r \in DOMAIN ns /\ ns[r].type \in Containers
  BY WholeFacts
<1>2. PICK j \in DOMAIN ns[r].items : ns[r].items[j] = i
  BY WholeFacts
<1>3. DOMAIN ns[r].items = 1 .. ns[r].length /\ ns[r].length \in Nat
  BY <1>1, WholeFacts
<1>4. l[r] = 0
  OBVIOUS
<1> HIDE DEF r
<1>5. j > l[r]
  BY <1>2, <1>3, <1>4
<1> QED
  BY <1>2, <1>5 DEF Reached, r

\* it is at a node that it has not freed yet, and has freed the children of the others
\* before them,
LEMMA WalkFrees ==
    ASSUME NEW ns, Whole(ns), NEW l, NEW v, NEW fr, Walks(ns, l, v, fr)
    PROVE  /\ v \in DOMAIN ns \ fr
           /\ \A i \in DOMAIN ns : ns[i].parent \in fr => i \in fr
<1>1. v \in DOMAIN ns \ fr
  BY DEF Walks, Kept, Reached
<1>2. ASSUME NEW i \in DOMAIN ns, ns[i].parent \in fr PROVE i \in fr
  <2>1. ns[i].parent \in DOMAIN ns /\ l[ns[i].parent] = 0
    BY <1>2 DEF Walks, Reached
  <2>2. ns[i].parent # 0
    BY <2>1, SeqFacts DEF Whole, Tree
  <2>3. Reached(ns, l, i)
    BY <2>1, <2>2, FreedReached
  <2>4. i \notin fr => Kept(ns, l, fr, ns[i].parent)
    BY <2>2, <2>3 DEF Walks, Kept
  <2> QED
    BY <1>2, <2>4 DEF Kept
<1> QED
  BY <1>1, <1>2

\* and when it has freed the root, it has freed every node and nothing else.
LEMMA WalkEnds ==
    ASSUME NEW ns, Whole(ns), NEW l, NEW v, NEW fr, Walks(ns, l, v, fr), l[v] = 0,
           ns[v].parent = 0
    PROVE  \A i : i \in fr \cup {v} <=> i \in DOMAIN ns
<1> DEFINE R == OpToRel(<, Nat)
           S == DOMAIN ns \ (fr \cup {v})
<1>1. v \in DOMAIN ns /\ \A i \in DOMAIN ns : Kept(ns, l, fr, i) => i <= v
  BY DEF Walks, Kept, Reached
<1>2. v = 1
  BY <1>1, WholeFacts
<1>3. fr \subseteq DOMAIN ns
  BY DEF Walks, Reached
<1>4. S \subseteq Nat
  BY WholeFacts
<1>5. ASSUME S # {} PROVE FALSE
  <2>1. PICK i \in S : \A j \in S : ~(<<j, i>> \in R)
    <3>1. IsWellFoundedOn(R, Nat)
      BY NatLessThanWellFounded
    <3> HIDE DEF S, R
    <3> QED
      BY <1>4, <1>5, <3>1, WFMin
  <2> DEFINE r == ns[i].parent
  <2>2. i \in DOMAIN ns /\ i \notin fr /\ i # v
    BY <2>1
  <2>3. i \in Nat /\ r # 0 /\ r \in DOMAIN ns /\ r \in Nat /\ r < i
    BY <1>2, <2>2, WholeFacts
  <2>4. r \notin S
    BY <2>1, <2>3 DEF OpToRel
  <2>5. l[r] = 0
    BY <2>3, <2>4 DEF Walks
  <2>6. Kept(ns, l, fr, i)
    BY <2>2, <2>3, <2>5, FreedReached DEF Kept
  <2>7. i <= v
    BY <1>1, <2>2, <2>6
  <2> QED
    BY <1>1, <1>2, <2>2, <2>3, <2>7, WholeFacts
<1> QED
  BY <1>1, <1>3, <1>5

-----------------------------------------------------------------------------
(* The theorem of loads() *)

FreeInv ==
    /\ AgreeInv
    /\ stage \in {"parsing", "freeing", "returned"}
    /\ stage = "parsing" => freed = {}
    /\ stage = "freeing" =>
          Whole(parser.nodes) /\ Walks(parser.nodes, left, value, freed)
    /\ stage = "returned" => freed = DOMAIN parser.nodes

LEMMA FreeInvFrees == FreeInv => FreesAll
<1> SUFFICES ASSUME FreeInv PROVE FreesAll
  OBVIOUS
<1>1. CASE stage = "parsing"
  BY <1>1 DEF FreeInv, FreesAll
<1>2. CASE stage = "freeing"
  <2>1. Whole(parser.nodes) /\ Walks(parser.nodes, left, value, freed)
    BY <1>2 DEF FreeInv
  <2> QED
    BY <1>2, <2>1, WalkFrees DEF FreesAll
<1>3. CASE stage = "returned"
  BY <1>3 DEF FreeInv, FreesAll
<1> QED
  BY <1>1, <1>2, <1>3 DEF FreeInv

LEMMA FreeInit == LoadInit => FreeInv
BY AgreeInit DEF LoadInit, FreeInv

LEMMA FreeNext == FreeInv /\ [LoadNext]_loadVars => FreeInv'
<1> SUFFICES ASSUME FreeInv, [LoadNext]_loadVars PROVE FreeInv'
  OBVIOUS
<1>1. ASSUME UNCHANGED vars PROVE AgreeInv' /\ parser' = parser
  <2>1. parser' = parser
    BY <1>1 DEF vars
  <2> QED
    BY <1>1, <2>1, AgreeNext DEF FreeInv
<1>2. CASE Parse
  <2>1. AgreeInv'
    BY <1>2, AgreeNext DEF FreeInv, Parse
  <2>2. stage' = "parsing" /\ freed' = {}
    BY <1>2 DEF FreeInv, Parse
  <2> QED
    BY <2>1, <2>2 DEF FreeInv
<1>3. CASE FreeChain
  <2>1. AgreeInv' /\ parser' = parser
    BY <1>1, <1>3 DEF FreeChain
  <2>2. stage' = "returned" /\ freed' = DOMAIN parser'.nodes
    BY <1>3, <2>1 DEF FreeChain
  <2> QED
    BY <2>1, <2>2 DEF FreeInv
<1>4. CASE FreeBegins
  <2>1. AgreeInv' /\ parser' = parser
    BY <1>1, <1>4 DEF FreeBegins
  <2>2. parser.status = "accepted" /\ freed = {}
    BY <1>4 DEF FreeBegins, FreeInv, AgreeInv
  <2>3. Whole(parser.nodes)
    BY <2>2 DEF FreeInv, AgreeInv
  <2>4. /\ stage' = "freeing" /\ value' = 1 /\ freed' = {}
        /\ left' = [i \in DOMAIN parser.nodes |-> Entries(parser.nodes[i])]
    BY <1>4, <2>2 DEF FreeBegins
  <2>5. Walks(parser'.nodes, left', value', freed')
    BY <2>1, <2>3, <2>4, WalkBegins
  <2> QED
    BY <2>1, <2>3, <2>4, <2>5 DEF FreeInv
<1>5. CASE FreeEntry
  <2>1. AgreeInv' /\ parser' = parser
    BY <1>1, <1>5 DEF FreeEntry
  <2>2. /\ Whole(parser.nodes) /\ Walks(parser.nodes, left, value, freed)
        /\ left[value] > 0 /\ stage' = "freeing"
    BY <1>5 DEF FreeEntry, FreeInv
  <2>3. /\ value' = parser.nodes[value].items[left[value]]
        /\ left' = [left EXCEPT ![value] = @ - 1] /\ freed' = freed
    BY <1>5 DEF FreeEntry
  <2>4. Walks(parser'.nodes, left', value', freed')
    BY <2>1, <2>2, <2>3, WalkDown
  <2> QED
    BY <2>1, <2>2, <2>4 DEF FreeInv
<1>6. CASE FreeNode
  <2>1. AgreeInv' /\ parser' = parser
    BY <1>1, <1>6 DEF FreeNode
  <2>2. /\ Whole(parser.nodes) /\ Walks(parser.nodes, left, value, freed)
        /\ left[value] = 0 /\ stage = "freeing"
    BY <1>6 DEF FreeNode, FreeInv
  <2>3. /\ value' = parser.nodes[value].parent /\ left' = left
        /\ freed' = freed \cup {value}
        /\ stage' = IF value' = 0 THEN "returned" ELSE "freeing"
    BY <1>6, <2>2 DEF FreeNode
  <2>4. CASE value' = 0
    <3>1. freed \cup {value} = DOMAIN parser.nodes
      <4>1. parser.nodes[value].parent = 0
        BY <2>3, <2>4
      <4>2. \A i : i \in freed \cup {value} <=> i \in DOMAIN parser.nodes
        BY <2>2, <4>1, WalkEnds
      <4> QED
        BY <4>2
    <3> QED
      BY <2>1, <2>2, <2>3, <2>4, <3>1 DEF FreeInv
  <2>5. CASE value' # 0
    <3>1. Walks(parser'.nodes, left', value', freed')
      BY <2>1, <2>2, <2>3, <2>5, WalkUp
    <3> QED
      BY <2>1, <2>2, <2>3, <2>5, <3>1 DEF FreeInv
  <2> QED
    BY <2>4, <2>5
<1>7. CASE UNCHANGED loadVars
  <2>1. AgreeInv' /\ parser' = parser
    BY <1>1, <1>7 DEF loadVars, vars
  <2>2. stage' = stage /\ value' = value /\ left' = left /\ freed' = freed
    BY <1>7 DEF loadVars
  <2> QED
    BY <2>1, <2>2 DEF FreeInv
<1> QED
  BY <1>2, <1>3, <1>4, <1>5, <1>6, <1>7 DEF LoadNext

\* While loads() runs, the parser is the one that the theorems of its own specification
\* are about.
THEOREM LoadTheorem == LoadSpec => [](NodesFormTree /\ PassesAgree)
<1>1. FreeInv => NodesFormTree /\ PassesAgree
  <2>1. FreeInv => NodesFormTree
    BY DEF FreeInv, AgreeInv, JInv, Core, Tree, Fits, NodesFormTree, Containers
  <2>2. FreeInv => PassesAgree
    BY AgreeInvAgrees DEF FreeInv
  <2> QED
    BY <2>1, <2>2
<1> QED
  BY <1>1, FreeInit, FreeNext, PTL DEF LoadSpec

\* For every text: json_value_free_ex does not come back to a node that it has freed, frees
\* a node after its children, and, when loads() returns, has freed every node that the
\* passes have allocated.
THEOREM FreeTheorem == LoadSpec => []FreesAll
BY FreeInit, FreeNext, FreeInvFrees, PTL DEF LoadSpec
=============================================================================
