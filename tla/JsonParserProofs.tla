--------------------------- MODULE JsonParserProofs ---------------------------
(***************************************************************************)
(* For every text, however long: the parser stays inside of it, and the    *)
(* nodes of both passes form a tree.  And what a step does to the parser   *)
(* is what JsonPass says of its view.                                      *)
(***************************************************************************)
EXTENDS JsonPass, SequenceTheorems, WellFoundedInduction, TLAPS

Fields == {"status", "pass", "pos", "flags", "nodes", "top", "alloc",
           "string", "length", "digits", "fraction", "e"}
NodeFields == {"type", "parent", "length", "bytes", "room", "m", "k",
               "name", "names", "items"}
Containers == {"array", "object"}

IsRecord(r, F) == r = [f \in F |-> r[f]]
IsSeq(s) == \E S : s \in Seq(S)

\* n can be the i-th of the nodes ns.
Fits(ns, i, n) ==
    /\ IsRecord(n, NodeFields)
    /\ n.parent \in 0 .. i - 1
    /\ n.parent = 0 <=> i = 1
    /\ n.type \in Containers =>
          /\ n.items \in Seq(Nat)
          /\ \A j \in DOMAIN n.items :
                n.items[j] \in DOMAIN ns /\ ns[n.items[j]].parent = i
Tree(ns) == IsSeq(ns) /\ \A i \in DOMAIN ns : Fits(ns, i, ns[i])

\* What holds of a parser also in the middle of a step.
Core(p) ==
    /\ IsRecord(p, Fields)
    /\ p.pass \in {1, 2}
    /\ Tree(p.nodes)
    /\ p.top \in 0 .. Len(p.nodes)
    /\ p.pass = 1 /\ p.top = 0 => p.nodes = <<>>
    /\ p.alloc \in Nat \ {0}
    /\ p.pass = 2 => Len(p.nodes) > 0 /\ (p.top = 0 => p.alloc = 1)

LEMMA SeqFacts ==
    ASSUME NEW s, IsSeq(s)
    PROVE  Len(s) \in Nat /\ DOMAIN s = 1 .. Len(s)
BY DEF IsSeq

LEMMA AppendFacts ==
    ASSUME NEW s, IsSeq(s), NEW x
    PROVE  /\ IsSeq(Append(s, x))
           /\ Len(Append(s, x)) = Len(s) + 1
           /\ DOMAIN Append(s, x) = 1 .. Len(s) + 1
           /\ Append(s, x)[Len(s) + 1] = x
           /\ \A i \in 1 .. Len(s) : Append(s, x)[i] = s[i]
<1>1. PICK S : s \in Seq(S)
  BY DEF IsSeq
<1>2. s \in Seq(S \cup {x})
  BY <1>1, SeqMonotonic
<1>3. Append(s, x) \in Seq(S \cup {x})
  BY <1>2
<1> QED
  BY <1>2, <1>3 DEF IsSeq

LEMMA ExceptFacts ==
    ASSUME NEW s, IsSeq(s), NEW i \in DOMAIN s, NEW x
    PROVE  /\ IsSeq([s EXCEPT ![i] = x])
           /\ Len([s EXCEPT ![i] = x]) = Len(s)
           /\ DOMAIN [s EXCEPT ![i] = x] = DOMAIN s
           /\ [s EXCEPT ![i] = x][i] = x
           /\ \A j \in DOMAIN s : j # i => [s EXCEPT ![i] = x][j] = s[j]
<1>1. PICK S : s \in Seq(S)
  BY DEF IsSeq
<1>2. s \in Seq(S \cup {x})
  BY <1>1, SeqMonotonic
<1>3. /\ [s EXCEPT ![i] = x] \in Seq(S \cup {x})
      /\ Len([s EXCEPT ![i] = x]) = Len(s)
  BY <1>2, ExceptSeq
<1> QED
  BY <1>2, <1>3 DEF IsSeq

\* A node that changes is still the same node of the tree.
LEMMA TreeExcept ==
    ASSUME NEW ns, Tree(ns), NEW i \in DOMAIN ns, NEW n,
           Fits(ns, i, n), n.parent = ns[i].parent
    PROVE  Tree([ns EXCEPT ![i] = n]) /\ Len([ns EXCEPT ![i] = n]) = Len(ns)
<1> DEFINE ms == [ns EXCEPT ![i] = n]
<1>1. /\ IsSeq(ms) /\ Len(ms) = Len(ns) /\ DOMAIN ms = DOMAIN ns
      /\ ms[i] = n /\ \A j \in DOMAIN ns : j # i => ms[j] = ns[j]
  BY ExceptFacts DEF Tree
<1>2. \A j \in DOMAIN ns : ms[j].parent = ns[j].parent
  BY <1>1
<1>3. ASSUME NEW j \in DOMAIN ms PROVE Fits(ms, j, ms[j])
  <2>1. Fits(ns, j, ms[j])
    BY <1>1, <1>3 DEF Tree
  <2> HIDE DEF ms
  <2> QED
    BY <1>1, <1>2, <2>1 DEF Fits
<1> QED
  BY <1>1, <1>3 DEF Tree

LEMMA TreeAppend ==
    ASSUME NEW ns, Tree(ns), NEW n, Fits(ns, Len(ns) + 1, n)
    PROVE  Tree(Append(ns, n)) /\ Len(Append(ns, n)) = Len(ns) + 1
<1> DEFINE ms == Append(ns, n)
<1>1. /\ IsSeq(ms) /\ Len(ms) = Len(ns) + 1 /\ DOMAIN ms = 1 .. Len(ns) + 1
      /\ ms[Len(ns) + 1] = n /\ \A j \in 1 .. Len(ns) : ms[j] = ns[j]
  BY AppendFacts DEF Tree
<1>2. Len(ns) \in Nat /\ DOMAIN ns = 1 .. Len(ns)
  BY SeqFacts DEF Tree
<1>3. ASSUME NEW j \in DOMAIN ms PROVE Fits(ms, j, ms[j])
  <2>1. Fits(ns, j, ms[j])
    BY <1>1, <1>2 DEF Tree
  <2> HIDE DEF ms
  <2> QED
    BY <1>1, <1>2, <2>1 DEF Fits
<1> QED
  BY <1>1, <1>3 DEF Tree

-----------------------------------------------------------------------------
(* The helpers of the parser *)

\* Nothing of Core has changed.
Alike(p, q) ==
    /\ IsRecord(q, Fields)
    /\ q.pass = p.pass /\ q.nodes = p.nodes /\ q.top = p.top /\ q.alloc = p.alloc

LEMMA AlikeCore == ASSUME NEW p, NEW q, Core(p), Alike(p, q) PROVE Core(q)
BY DEF Core, Alike

LEMMA FlagsCore ==
    ASSUME NEW p, Core(p), NEW fs
    PROVE  /\ Core(On(p, fs)) /\ Core(Off(p, fs))
           /\ On(p, fs).top = p.top /\ Off(p, fs).top = p.top
           /\ On(p, fs).pos = p.pos /\ Off(p, fs).pos = p.pos
           /\ On(p, fs).nodes = p.nodes /\ Off(p, fs).nodes = p.nodes
           /\ On(p, fs).pass = p.pass /\ Off(p, fs).pass = p.pass
           /\ On(p, fs).status = p.status /\ Off(p, fs).status = p.status
           /\ On(p, fs).flags = p.flags \cup fs /\ Off(p, fs).flags = p.flags \ fs
<1>1. Alike(p, On(p, fs)) /\ Alike(p, Off(p, fs))
  BY DEF Alike, On, Off, Core, IsRecord, Fields
<1> QED
  BY <1>1, AlikeCore DEF On, Off, Core, IsRecord, Fields

\* A parser whose current node is another one, of the same place in the tree.
LEMMA NodeCore ==
    ASSUME NEW p, Core(p), NEW i \in DOMAIN p.nodes, NEW n,
           Fits(p.nodes, i, n), n.parent = p.nodes[i].parent,
           NEW q, IsRecord(q, Fields), q.pass = p.pass, q.alloc = p.alloc,
           q.nodes = [p.nodes EXCEPT ![i] = n], q.top \in 0 .. Len(p.nodes),
           q.top = 0 => p.top = 0
    PROVE  Core(q)
<1>1. Tree(q.nodes) /\ Len(q.nodes) = Len(p.nodes)
  BY TreeExcept DEF Core
<1>2. p.nodes # <<>>
  BY SeqFacts DEF Core, Tree
<1> QED
  BY <1>1, <1>2 DEF Core

\* q is p that has taken the next node of the first pass, which becomes n.
Took(p, q, n) ==
    LET old == p.nodes[p.alloc]
    IN  /\ IsRecord(n, NodeFields) /\ n.type = old.type /\ n.parent = old.parent
        /\ n.items = old.items /\ n.length = 0 /\ n.bytes = 0
        /\ n.room = <<old.length, old.bytes>>
        /\ IsRecord(q, Fields) /\ q.nodes = [p.nodes EXCEPT ![p.alloc] = n]
        /\ q.top = p.alloc /\ q.alloc = p.alloc + 1
        /\ q.pass = p.pass /\ q.pos = p.pos /\ q.flags = p.flags /\ q.status = p.status
        /\ q.length = p.length

LEMMA NewTakes ==
    ASSUME NEW p, IsRecord(p, Fields), NEW type, p.pass # 1, ~(p.alloc > Len(p.nodes)),
           p.alloc \in DOMAIN p.nodes, IsRecord(p.nodes[p.alloc], NodeFields)
    PROVE  \E n : Took(p, New(p, type), n)
<1> DEFINE a == p.alloc
           next == p.alloc + 1
           old == p.nodes[a]
           room == <<old.length, old.bytes>>
           n == [old EXCEPT !.room = room, !.length = 0, !.bytes = 0]
           changed == [p.nodes EXCEPT ![a].room = room, ![a].length = 0, ![a].bytes = 0]
           q == New(p, type)
<1>1. q = [p EXCEPT !.top = a, !.alloc = next, !.nodes[a].room = room,
                    !.nodes[a].length = 0, !.nodes[a].bytes = 0]
  BY DEF New
<1>2. changed = [p.nodes EXCEPT ![a] = n]
  BY DEF IsRecord, NodeFields
<1>3. /\ IsRecord(n, NodeFields) /\ n.type = old.type /\ n.parent = old.parent
      /\ n.items = old.items /\ n.length = 0 /\ n.bytes = 0 /\ n.room = room
  BY DEF IsRecord, NodeFields
<1> HIDE DEF n, a, next, room, q, old
<1>4. q.nodes = changed
  BY <1>1 DEF IsRecord, Fields
<1> HIDE DEF changed
<1>5. q.top = a /\ q.alloc = next
  BY <1>1 DEF IsRecord, Fields
<1>6. /\ q.pass = p.pass /\ q.pos = p.pos /\ q.flags = p.flags
      /\ q.status = p.status /\ q.length = p.length
  BY <1>1 DEF IsRecord, Fields
<1>7. IsRecord(q, Fields)
  <2> DEFINE r1 == [p EXCEPT !.top = a, !.alloc = next]
             r2 == [r1 EXCEPT !.nodes[a].room = room]
             r3 == [r2 EXCEPT !.nodes[a].length = 0]
  <2>1. q = [r3 EXCEPT !.nodes[a].bytes = 0]
    BY <1>1
  <2>2. IsRecord(r1, Fields)
    BY DEF IsRecord, Fields
  <2> HIDE DEF r1
  <2>3. IsRecord(r2, Fields)
    BY <2>2 DEF IsRecord
  <2> HIDE DEF r2
  <2>4. IsRecord(r3, Fields)
    BY <2>3 DEF IsRecord
  <2> HIDE DEF r3
  <2> QED
    BY <2>1, <2>4 DEF IsRecord
<1>8. Took(p, q, n)
  BY <1>2, <1>3, <1>4, <1>5, <1>6, <1>7 DEF Took, a, next, room, old
<1> QED
  BY <1>8 DEF q

LEMMA NewCore ==
    ASSUME NEW p, Core(p), NEW type
    PROVE  /\ Core(New(p, type))
           /\ New(p, type).top # 0
           /\ New(p, type).pos = p.pos
           /\ New(p, type).flags = p.flags
           /\ New(p, type).status \in {p.status, "crashed"}
<1> DEFINE q == New(p, type)
<1>1. CASE p.pass = 1
  <2>1. Len(p.nodes) \in Nat /\ (Len(p.nodes) = 0 <=> p.nodes = <<>>)
    BY DEF Core, Tree, IsSeq
  <2>2. Fits(p.nodes, Len(p.nodes) + 1, Node(type, p.top))
    BY <1>1, <2>1 DEF Core, Fits, Node, IsRecord, NodeFields, Containers
  <2>3. /\ Tree(Append(p.nodes, Node(type, p.top)))
        /\ Len(Append(p.nodes, Node(type, p.top))) = Len(p.nodes) + 1
    BY <2>2, TreeAppend DEF Core
  <2>4. /\ q.nodes = Append(p.nodes, Node(type, p.top)) /\ q.top = Len(p.nodes) + 1
        /\ q.pass = p.pass /\ q.alloc = p.alloc /\ q.pos = p.pos /\ q.flags = p.flags
        /\ q.status = p.status /\ IsRecord(q, Fields)
    BY <1>1 DEF New, Core, IsRecord, Fields
  <2> HIDE DEF q
  <2> QED
    BY <1>1, <2>1, <2>3, <2>4 DEF Core, q
<1>2. CASE p.pass # 1 /\ p.alloc > Len(p.nodes)
  <2>1. Alike(p, q) /\ q.pos = p.pos /\ q.flags = p.flags /\ q.status = "crashed"
    BY <1>2 DEF New, Alike, Core, IsRecord, Fields
  <2>2. p.top # 0
    BY <1>2, SeqFacts DEF Core, Tree
  <2> HIDE DEF q
  <2> QED
    BY <2>1, <2>2, AlikeCore DEF Alike, q
<1>3. CASE p.pass # 1 /\ ~(p.alloc > Len(p.nodes))
  <2> DEFINE i == p.alloc
  <2>1. i \in DOMAIN p.nodes /\ i \in 1 .. Len(p.nodes) /\ p.pass = 2 /\ Len(p.nodes) \in Nat
    BY <1>3, SeqFacts DEF Core, Tree
  <2>2. Fits(p.nodes, i, p.nodes[i])
    BY <2>1 DEF Core, Tree
  <2>3. PICK n : Took(p, q, n)
    BY <1>3, <2>1, <2>2, NewTakes DEF Core, Fits
  <2> HIDE DEF q
  <2>4. /\ q.nodes = [p.nodes EXCEPT ![i] = n] /\ q.top = i /\ q.alloc = i + 1
        /\ q.pass = p.pass /\ q.pos = p.pos /\ q.flags = p.flags /\ q.status = p.status
        /\ IsRecord(q, Fields)
    BY <2>3 DEF Took
  <2>5. Fits(p.nodes, i, n) /\ n.parent = p.nodes[i].parent
    <3>1. /\ IsRecord(n, NodeFields) /\ n.type = p.nodes[i].type
          /\ n.parent = p.nodes[i].parent /\ n.items = p.nodes[i].items
      BY <2>3 DEF Took
    <3> HIDE DEF i
    <3> QED
      BY <2>2, <3>1 DEF Fits
  <2>6. Tree(q.nodes) /\ Len(q.nodes) = Len(p.nodes)
    <3> HIDE DEF i
    <3> QED
      BY <2>1, <2>4, <2>5, TreeExcept DEF Core
  <2> QED
    BY <2>1, <2>4, <2>6 DEF Core, q
<1> QED
  BY <1>1, <1>2, <1>3

\* q is what has become of p, whose current value is complete and goes into the node
\* n of its parent.
Entered(p, q, n) ==
    LET parent == p.nodes[p.top].parent
        old == p.nodes[parent]
    IN  /\ IsRecord(n, NodeFields) /\ n.type = old.type /\ n.parent = old.parent
        /\ n.room = old.room /\ n.length = old.length + 1 /\ n.bytes = old.bytes
        /\ n.items = IF p.pass = 2 THEN Append(old.items, p.top) ELSE old.items
        /\ IsRecord(q, Fields) /\ q.nodes = [p.nodes EXCEPT ![parent] = n]
        /\ q.top = parent /\ q.pass = p.pass /\ q.alloc = p.alloc /\ q.pos = p.pos
        /\ q.status = p.status /\ q.length = p.length
        /\ q.flags = ((p.flags \ {"next"}) \cup {"need_comma"})
                     \cup IF old.type = "array" THEN {"seek_value"} ELSE {}

LEMMA ParentFacts ==
    ASSUME NEW p, Core(p), p.top # 0
    PROVE  LET parent == p.nodes[p.top].parent
           IN  /\ p.top \in DOMAIN p.nodes /\ p.top \in Nat
               /\ parent \in 0 .. p.top - 1 /\ parent \in 0 .. Len(p.nodes)
               /\ parent # 0 => parent \in DOMAIN p.nodes /\ Fits(p.nodes, parent, p.nodes[parent])
<1>1. p.top \in DOMAIN p.nodes /\ Len(p.nodes) \in Nat /\ DOMAIN p.nodes = 1 .. Len(p.nodes)
  BY SeqFacts DEF Core, Tree
<1>2. \A i \in DOMAIN p.nodes : Fits(p.nodes, i, p.nodes[i])
  BY DEF Core, Tree
<1>3. p.nodes[p.top].parent \in 0 .. p.top - 1
  BY <1>1, <1>2 DEF Fits
<1> QED
  BY <1>1, <1>2, <1>3

LEMMA CompleteEnters ==
    ASSUME NEW p, Core(p), p.top # 0, p.nodes[p.top].parent # 0
    PROVE  \E n : Entered(p, Complete(p), n)
<1> DEFINE parent == p.nodes[p.top].parent
           done == On(Off(p, {"next"}), {"need_comma"})
           more == IF p.nodes[parent].type = "array" THEN {"seek_value"} ELSE {}
           base == On(done, more)
           old == p.nodes[parent]
           n == [old EXCEPT
                   !.length = @ + 1,
                   !.names = IF p.pass = 2 THEN Append(@, old.name) ELSE @,
                   !.items = IF p.pass = 2 THEN Append(@, p.top) ELSE @]
           changed == [p.nodes EXCEPT
                   ![parent].length = @ + 1,
                   ![parent].names = IF p.pass = 2 THEN Append(@, old.name) ELSE @,
                   ![parent].items = IF p.pass = 2 THEN Append(@, p.top) ELSE @]
           q == Complete(p)
<1>1. parent \in DOMAIN p.nodes /\ IsRecord(old, NodeFields)
  BY ParentFacts DEF Fits
<1>2. /\ IsRecord(base, Fields) /\ base.nodes = p.nodes /\ base.pass = p.pass
      /\ base.alloc = p.alloc /\ base.pos = p.pos /\ base.status = p.status
      /\ base.length = p.length
      /\ base.flags = ((p.flags \ {"next"}) \cup {"need_comma"}) \cup more
  <2> HIDE DEF more
  <2>1. IsRecord(p, Fields)
    BY DEF Core
  <2> QED
    BY <2>1 DEF On, Off, IsRecord, Fields
<1>3. changed = [p.nodes EXCEPT ![parent] = n]
  BY <1>1 DEF IsRecord, NodeFields
<1>4. /\ IsRecord(n, NodeFields) /\ n.type = old.type /\ n.parent = old.parent
      /\ n.room = old.room /\ n.length = old.length + 1 /\ n.bytes = old.bytes
      /\ n.items = IF p.pass = 2 THEN Append(old.items, p.top) ELSE old.items
  BY <1>1 DEF IsRecord, NodeFields
<1>5. q = [base EXCEPT !.top = parent,
                !.nodes[parent].length = @ + 1,
                !.nodes[parent].names = IF p.pass = 2 THEN Append(@, old.name) ELSE @,
                !.nodes[parent].items = IF p.pass = 2 THEN Append(@, p.top) ELSE @]
  BY DEF Complete
<1> HIDE DEF base, n
<1>6. q.nodes = changed
  <2> HIDE DEF parent
  <2>1. q = [base EXCEPT !.top = parent, !.nodes = changed]
    BY <1>2, <1>5 DEF IsRecord, Fields
  <2> HIDE DEF changed
  <2> QED
    BY <1>2, <2>1 DEF IsRecord, Fields
<1> HIDE DEF changed, old
<1>7. IsRecord(q, Fields) /\ q.top = parent
  <2> HIDE DEF parent
  <2> QED
    BY <1>2, <1>5 DEF IsRecord, Fields
<1>8. /\ q.pass = base.pass /\ q.alloc = base.alloc /\ q.pos = base.pos
      /\ q.status = base.status /\ q.length = base.length /\ q.flags = base.flags
  <2> HIDE DEF parent
  <2> QED
    BY <1>2, <1>5 DEF IsRecord, Fields
<1> HIDE DEF q
<1>9. Entered(p, q, n)
  BY <1>2, <1>3, <1>4, <1>6, <1>7, <1>8 DEF Entered, old, more
<1> QED
  BY <1>9 DEF q

\* The parent holds one more item, when it is that of the second pass.
LEMMA EnteredFits ==
    ASSUME NEW p, Core(p), p.top # 0, p.nodes[p.top].parent # 0, NEW q, NEW n, Entered(p, q, n)
    PROVE  Fits(p.nodes, p.nodes[p.top].parent, n)
<1> DEFINE parent == p.nodes[p.top].parent
           old == p.nodes[parent].items
<1>1. /\ p.top \in DOMAIN p.nodes /\ p.top \in Nat
      /\ Fits(p.nodes, parent, p.nodes[parent])
  BY ParentFacts
<1>2. /\ IsRecord(n, NodeFields) /\ n.parent = p.nodes[parent].parent
      /\ n.type = p.nodes[parent].type
      /\ n.items = IF p.pass = 2 THEN Append(old, p.top) ELSE old
  BY DEF Entered
<1>3. CASE n.type \in Containers /\ p.pass = 2
  <2>1. /\ old \in Seq(Nat)
        /\ \A j \in DOMAIN old : old[j] \in DOMAIN p.nodes /\ p.nodes[old[j]].parent = parent
    BY <1>1, <1>2, <1>3 DEF Fits
  <2>2. n.items = Append(old, p.top)
    BY <1>2, <1>3
  <2> HIDE DEF old
  <2>3. /\ n.items \in Seq(Nat) /\ DOMAIN n.items = 1 .. Len(old) + 1
        /\ n.items[Len(old) + 1] = p.top
        /\ \A j \in 1 .. Len(old) : n.items[j] = old[j]
    BY <1>1, <2>1, <2>2, AppendProperties
  <2>4. Len(old) \in Nat /\ DOMAIN old = 1 .. Len(old)
    BY <2>1, LenProperties
  <2>5. ASSUME NEW j \in DOMAIN n.items
        PROVE  n.items[j] \in DOMAIN p.nodes /\ p.nodes[n.items[j]].parent = parent
    <3>1. CASE j = Len(old) + 1
      BY <3>1, <1>1, <2>3
    <3>2. CASE j \in 1 .. Len(old)
      <4> HIDE DEF parent
      <4> QED
        BY <3>2, <2>1, <2>3, <2>4
    <3> QED
      BY <3>1, <3>2, <2>3, <2>4
  <2> QED
    BY <1>1, <1>2, <2>3, <2>5 DEF Fits
<1>4. CASE ~(n.type \in Containers /\ p.pass = 2)
  <2>1. n.type \in Containers => n.items = old
    BY <1>2, <1>4
  <2> HIDE DEF parent
  <2>2. Fits(p.nodes, parent, n)
    BY <1>1, <1>2, <2>1 DEF Fits
  <2> QED
    BY <2>2 DEF parent
<1> QED
  BY <1>3, <1>4

LEMMA CompleteCore ==
    ASSUME NEW p, Core(p), p.top # 0
    PROVE  /\ Core(Complete(p))
           /\ Complete(p).top # 0
           /\ Complete(p).pos = p.pos
           /\ Complete(p).status = p.status
<1> DEFINE parent == p.nodes[p.top].parent
           done == On(Off(p, {"next"}), {"need_comma"})
           q == Complete(p)
<1>1. CASE parent = 0
  <2>1. /\ Core(done) /\ done.top = p.top /\ done.pos = p.pos /\ done.status = p.status
    BY FlagsCore
  <2>2. Complete(p) = On(done, {"done"})
    BY <1>1 DEF Complete
  <2> HIDE DEF done
  <2> QED
    BY <2>1, <2>2, FlagsCore
<1>2. CASE parent # 0
  <2>1. PICK n : Entered(p, q, n)
    BY <1>2, CompleteEnters
  <2>2. Fits(p.nodes, parent, n)
    BY <1>2, <2>1, EnteredFits
  <2> HIDE DEF q
  <2>3. /\ IsRecord(q, Fields) /\ q.nodes = [p.nodes EXCEPT ![parent] = n]
        /\ q.top = parent /\ q.pass = p.pass /\ q.alloc = p.alloc /\ q.pos = p.pos
        /\ q.status = p.status /\ n.parent = p.nodes[parent].parent
    BY <2>1 DEF Entered
  <2>4. parent \in DOMAIN p.nodes /\ parent \in 0 .. Len(p.nodes)
    BY <1>2, ParentFacts
  <2> HIDE DEF parent
  <2>5. Core(q)
    BY <1>2, <2>2, <2>3, <2>4, NodeCore
  <2> QED
    BY <1>2, <2>3, <2>5 DEF q
<1> QED
  BY <1>1, <1>2

\* The current node has changed, but not its place in the tree nor what it contains.
LEMMA TopCore ==
    ASSUME NEW p, Core(p), p.top # 0,
           NEW n, IsRecord(n, NodeFields), n.parent = p.nodes[p.top].parent,
           n.type \in Containers => n.type = p.nodes[p.top].type /\ n.items = p.nodes[p.top].items,
           NEW q, IsRecord(q, Fields), q.pass = p.pass, q.alloc = p.alloc, q.top = p.top,
           q.nodes = [p.nodes EXCEPT ![p.top] = n]
    PROVE  Core(q) /\ q.nodes[q.top] = n
<1>1. p.top \in DOMAIN p.nodes
  BY SeqFacts DEF Core, Tree
<1>2. Fits(p.nodes, p.top, p.nodes[p.top])
  BY <1>1 DEF Core, Tree
<1>3. Fits(p.nodes, p.top, n)
  <2>1. CASE n.type \in Containers
    <3>1. n.type = p.nodes[p.top].type /\ n.items = p.nodes[p.top].items
      BY <2>1
    <3> QED
      BY <1>2, <2>1, <3>1 DEF Fits
  <2>2. CASE n.type \notin Containers
    BY <1>2, <2>2 DEF Fits
  <2> QED
    BY <2>1, <2>2
<1>4. q.nodes[q.top] = n
  BY <1>1, ExceptFacts DEF Core, Tree
<1>5. q.top \in 0 .. Len(p.nodes) /\ (q.top = 0 => p.top = 0)
  BY DEF Core
<1>6. Core(q)
  BY <1>1, <1>3, <1>5, NodeCore
<1> QED
  BY <1>4, <1>6

LEMMA TopFacts ==
    ASSUME NEW p, Core(p), p.top # 0
    PROVE  p.top \in DOMAIN p.nodes /\ IsRecord(p.nodes[p.top], NodeFields)
<1>1. p.top \in DOMAIN p.nodes
  BY SeqFacts DEF Core, Tree
<1> QED
  BY <1>1 DEF Core, Tree, Fits

\* The step stays where it is.
Stays(p, q) == q.top = p.top /\ q.pos = p.pos /\ q.status = p.status

LEMMA StringCore ==
    ASSUME NEW p, Core(p), NEW b
    PROVE  /\ Core(BeginString(p)) /\ Stays(p, BeginString(p))
           /\ Core(StringAdd(p, b)) /\ Stays(p, StringAdd(p, b))
           /\ Core(BeginNumber(p)) /\ Stays(p, BeginNumber(p))
<1> DEFINE f == On(p, {"string"})
           g == Off(p, {"num_negative", "num_e", "num_e_got_sign", "num_e_negative", "num_zero"})
<1>1. Core(f) /\ Stays(p, f) /\ Core(g) /\ Stays(p, g)
  BY FlagsCore DEF Stays
<1>2. Alike(f, BeginString(p)) /\ Stays(f, BeginString(p))
  <2>1. BeginString(p) = [f EXCEPT !.string = <<>>, !.length = 0]
    BY DEF BeginString
  <2> HIDE DEF f
  <2> QED
    BY <1>1, <2>1 DEF Alike, Stays, Core, IsRecord, Fields
<1>3. Alike(g, BeginNumber(p)) /\ Stays(g, BeginNumber(p))
  <2>1. BeginNumber(p) = [g EXCEPT !.digits = 0, !.fraction = 0, !.e = 0]
    BY DEF BeginNumber
  <2> HIDE DEF g
  <2> QED
    BY <1>1, <2>1 DEF Alike, Stays, Core, IsRecord, Fields
<1>4. Alike(p, StringAdd(p, b)) /\ Stays(p, StringAdd(p, b))
  BY DEF StringAdd, Alike, Stays, Core, IsRecord, Fields
<1> HIDE DEF f, g
<1> QED
  BY <1>1, <1>2, <1>3, <1>4, AlikeCore DEF Stays

LEMMA EndStringCore ==
    ASSUME NEW p, Core(p), p.top # 0
    PROVE  Core(EndString(p)) /\ Stays(p, EndString(p))
<1> DEFINE q == EndString(p)
           old == p.nodes[p.top]
<1>1. p.top \in DOMAIN p.nodes /\ IsRecord(old, NodeFields) /\ IsRecord(p, Fields)
  BY TopFacts DEF Core
<1>2. CASE old.type = "string"
  <2> DEFINE n == [old EXCEPT !.length = p.length, !.items = p.string]
             changed == [p.nodes EXCEPT ![p.top].length = p.length, ![p.top].items = p.string]
  <2>1. changed = [p.nodes EXCEPT ![p.top] = n]
    BY <1>1 DEF IsRecord, NodeFields
  <2>2. IsRecord(n, NodeFields) /\ n.parent = old.parent /\ n.type = "string"
    BY <1>1, <1>2 DEF IsRecord, NodeFields
  <2>3. q.nodes = changed
    BY <1>1, <1>2 DEF EndString, IsRecord, Fields
  <2> HIDE DEF n, changed
  <2>4. /\ q.top = p.top /\ q.pos = p.pos /\ q.status = p.status
        /\ q.pass = p.pass /\ q.alloc = p.alloc /\ IsRecord(q, Fields)
    BY <1>1, <1>2 DEF EndString, IsRecord, Fields
  <2>5. n.type \notin Containers
    BY <2>2 DEF Containers
  <2> HIDE DEF q
  <2> QED
    BY <2>1, <2>2, <2>3, <2>4, <2>5, TopCore DEF Stays, q
<1>3. CASE old.type # "string"
  <2> DEFINE n == [old EXCEPT !.bytes = @ + p.length + 1, !.name = p.string]
             changed == [p.nodes EXCEPT ![p.top].bytes = @ + p.length + 1,
                                        ![p.top].name = p.string]
  <2>1. changed = [p.nodes EXCEPT ![p.top] = n]
    BY <1>1 DEF IsRecord, NodeFields
  <2>2. /\ IsRecord(n, NodeFields) /\ n.parent = old.parent /\ n.type = old.type
        /\ n.items = old.items
    BY <1>1 DEF IsRecord, NodeFields
  <2>3. q.nodes = changed
    BY <1>1, <1>3 DEF EndString, IsRecord, Fields
  <2> HIDE DEF n, changed
  <2>4. /\ q.top = p.top /\ q.pos = p.pos /\ q.status = p.status
        /\ q.pass = p.pass /\ q.alloc = p.alloc /\ IsRecord(q, Fields)
    BY <1>1, <1>3 DEF EndString, IsRecord, Fields
  <2> HIDE DEF q
  <2> QED
    BY <2>1, <2>2, <2>3, <2>4, TopCore DEF Stays, q
<1> QED
  BY <1>2, <1>3

\* A number that has been read as an integer or as a double.
IsNumber(p) == p.nodes[p.top].type \in {"integer", "double"}

\* The node m stands in the tree where n does.
SamePlace(n, m) ==
    /\ m.parent = n.parent
    /\ m.type \in Containers <=> n.type \in Containers
    /\ n.type \in Containers => m.items = n.items /\ m.length = n.length

\* q has another number in the current node than p.
Refigured(p, q) ==
    /\ Core(q) /\ q.pass = p.pass /\ q.alloc = p.alloc /\ Stays(p, q)
    /\ q.length = p.length /\ FlagsOf(q) = FlagsOf(p)
    /\ Len(q.nodes) = Len(p.nodes)
    /\ \A i \in DOMAIN p.nodes :
          Held(q.nodes[i]) = Held(p.nodes[i]) /\ SamePlace(p.nodes[i], q.nodes[i])
    /\ IsNumber(q)

\* And it is in the node n.
Figured(p, q, n) ==
    LET old == p.nodes[p.top]
    IN  /\ IsRecord(n, NodeFields) /\ n.type \in {"integer", "double"}
        /\ n.parent = old.parent /\ n.length = old.length /\ n.bytes = old.bytes
        /\ IsRecord(q, Fields) /\ q.pass = p.pass /\ q.alloc = p.alloc /\ Stays(p, q)
        /\ q.length = p.length /\ FlagsOf(q) = FlagsOf(p)
        /\ q.nodes = [p.nodes EXCEPT ![p.top] = n]

LEMMA NumberCore ==
    ASSUME NEW p, Core(p), p.top # 0, IsNumber(p), NEW q, NEW n, Figured(p, q, n)
    PROVE  Refigured(p, q)
<1>1. /\ IsRecord(n, NodeFields) /\ n.type \in {"integer", "double"}
      /\ n.parent = p.nodes[p.top].parent /\ n.length = p.nodes[p.top].length
      /\ n.bytes = p.nodes[p.top].bytes
      /\ IsRecord(q, Fields) /\ q.pass = p.pass /\ q.alloc = p.alloc /\ Stays(p, q)
      /\ q.nodes = [p.nodes EXCEPT ![p.top] = n]
  BY DEF Figured
<1>2. p.top \in DOMAIN p.nodes
  BY TopFacts
<1>3. n.type \notin Containers
  BY <1>1 DEF Containers
<1>4. Core(q)
  BY <1>1, <1>3, TopCore DEF Stays
<1>5. /\ Len(q.nodes) = Len(p.nodes) /\ q.nodes[p.top] = n
      /\ \A i \in DOMAIN p.nodes : i # p.top => q.nodes[i] = p.nodes[i]
  BY <1>1, <1>2, ExceptFacts DEF Core, Tree
<1>6. Held(n) = Held(p.nodes[p.top])
  <2>1. Kind(n.type) = Kind(p.nodes[p.top].type)
    BY <1>1 DEF IsNumber, Kind
  <2> QED
    BY <1>1, <2>1 DEF Held
<1>7. IsNumber(q)
  BY <1>1, <1>5 DEF IsNumber, Stays
<1>8. SamePlace(p.nodes[p.top], n)
  BY <1>1, <1>3 DEF SamePlace, IsNumber, Containers
<1>9. \A i \in DOMAIN p.nodes : SamePlace(p.nodes[i], p.nodes[i])
  BY DEF SamePlace
<1>10. \A i \in DOMAIN p.nodes :
          Held(q.nodes[i]) = Held(p.nodes[i]) /\ SamePlace(p.nodes[i], q.nodes[i])
  BY <1>5, <1>6, <1>8, <1>9
<1> QED
  BY <1>1, <1>4, <1>5, <1>7, <1>10 DEF Refigured, Figured

LEMMA AlikeRefigured ==
    ASSUME NEW p, Core(p), p.top # 0, IsNumber(p), NEW q, Alike(p, q), Stays(p, q),
           q.length = p.length, FlagsOf(q) = FlagsOf(p)
    PROVE  Refigured(p, q)
<1>1. \A i \in DOMAIN p.nodes : SamePlace(p.nodes[i], p.nodes[i])
  BY DEF SamePlace
<1> QED
  BY <1>1, AlikeCore DEF Alike, Refigured, IsNumber

LEMMA RefiguredThen ==
    ASSUME NEW p, Core(p), NEW q, Refigured(p, q), NEW r, Refigured(q, r)
    PROVE  Refigured(p, r)
<1>1. DOMAIN p.nodes = 1 .. Len(p.nodes) /\ DOMAIN q.nodes = 1 .. Len(q.nodes)
  BY SeqFacts DEF Core, Tree, Refigured
<1>2. \A l, m, n : SamePlace(l, m) /\ SamePlace(m, n) => SamePlace(l, n)
  BY DEF SamePlace
<1>3. \A i \in DOMAIN p.nodes :
          Held(r.nodes[i]) = Held(p.nodes[i]) /\ SamePlace(p.nodes[i], r.nodes[i])
  BY <1>1, <1>2 DEF Refigured
<1> QED
  BY <1>3 DEF Refigured, Stays

\* Flags of numbers, and the fields that only numbers use.
LEMMA FlagsRefigured ==
    ASSUME NEW p, Core(p), p.top # 0, IsNumber(p), NEW fs, fs \subseteq NumberFlags
    PROVE  Refigured(p, On(p, fs)) /\ Refigured(p, Off(p, fs))
<1>1. IsRecord(p, Fields)
  BY DEF Core
<1>2. /\ Alike(p, On(p, fs)) /\ Stays(p, On(p, fs)) /\ On(p, fs).length = p.length
      /\ On(p, fs).flags = p.flags \cup fs
  BY <1>1 DEF On, Alike, Stays, IsRecord, Fields
<1>3. /\ Alike(p, Off(p, fs)) /\ Stays(p, Off(p, fs)) /\ Off(p, fs).length = p.length
      /\ Off(p, fs).flags = p.flags \ fs
  BY <1>1 DEF Off, Alike, Stays, IsRecord, Fields
<1>4. FlagsOf(On(p, fs)) = FlagsOf(p) /\ FlagsOf(Off(p, fs)) = FlagsOf(p)
  BY <1>2, <1>3 DEF FlagsOf
<1> QED
  BY <1>2, <1>3, <1>4, AlikeRefigured

LEMMA FractionRefigured ==
    ASSUME NEW p, Core(p), p.top # 0, IsNumber(p)
    PROVE  Refigured(p, WithFraction(p))
<1> DEFINE q == WithFraction(p)
           old == p.nodes[p.top]
           n == [old EXCEPT !.m = @ * 10 ^ p.digits + p.fraction, !.k = @ - p.digits]
           changed == [p.nodes EXCEPT ![p.top].m = @ * 10 ^ p.digits + p.fraction,
                                      ![p.top].k = @ - p.digits]
<1>1. p.top \in DOMAIN p.nodes /\ IsRecord(old, NodeFields) /\ IsRecord(p, Fields)
  BY TopFacts DEF Core
<1>2. CASE old.type = "double" /\ "num_e" \notin p.flags
  <2>1. changed = [p.nodes EXCEPT ![p.top] = n]
    BY <1>1 DEF IsRecord, NodeFields
  <2>2. /\ IsRecord(n, NodeFields) /\ n.parent = old.parent /\ n.type = old.type
        /\ n.length = old.length /\ n.bytes = old.bytes
    BY <1>1 DEF IsRecord, NodeFields
  <2>3. q.nodes = changed
    BY <1>1, <1>2 DEF WithFraction, IsRecord, Fields
  <2> HIDE DEF changed, n
  <2>4. /\ Stays(p, q) /\ q.flags = p.flags /\ q.length = p.length
        /\ q.pass = p.pass /\ q.alloc = p.alloc /\ IsRecord(q, Fields)
    BY <1>1, <1>2 DEF WithFraction, IsRecord, Fields, Stays
  <2> HIDE DEF q
  <2>5. Figured(p, q, n)
    BY <2>1, <2>2, <2>3, <2>4 DEF Figured, IsNumber, FlagsOf
  <2> QED
    BY <2>5, NumberCore DEF q
<1>3. CASE ~(old.type = "double" /\ "num_e" \notin p.flags)
  <2>1. q = p
    BY <1>3 DEF WithFraction
  <2> QED
    BY <2>1, <1>1, AlikeRefigured DEF Alike, Stays
<1> QED
  BY <1>2, <1>3

LEMMA ExponentRefigured ==
    ASSUME NEW p, Core(p), p.top # 0, IsNumber(p)
    PROVE  Refigured(p, WithExponent(p))
<1> DEFINE q == WithExponent(p)
           old == p.nodes[p.top]
           e == IF "num_e_negative" \in p.flags THEN old.k - p.e ELSE old.k + p.e
           n == [old EXCEPT !.k = e]
           changed == [p.nodes EXCEPT ![p.top].k = e]
<1>1. p.top \in DOMAIN p.nodes /\ IsRecord(old, NodeFields) /\ IsRecord(p, Fields)
  BY TopFacts DEF Core
<1>2. CASE "num_e" \in p.flags
  <2>1. changed = [p.nodes EXCEPT ![p.top] = n]
    OBVIOUS
  <2>2. /\ IsRecord(n, NodeFields) /\ n.parent = old.parent /\ n.type = old.type
        /\ n.length = old.length /\ n.bytes = old.bytes
    BY <1>1 DEF IsRecord, NodeFields
  <2>3. q.nodes = changed
    BY <1>1, <1>2 DEF WithExponent, IsRecord, Fields
  <2> HIDE DEF changed, n
  <2>4. /\ Stays(p, q) /\ q.flags = p.flags /\ q.length = p.length
        /\ q.pass = p.pass /\ q.alloc = p.alloc /\ IsRecord(q, Fields)
    BY <1>1, <1>2 DEF WithExponent, IsRecord, Fields, Stays
  <2> HIDE DEF q
  <2>5. Figured(p, q, n)
    BY <2>1, <2>2, <2>3, <2>4 DEF Figured, IsNumber, FlagsOf
  <2> QED
    BY <2>5, NumberCore DEF q
<1>3. CASE "num_e" \notin p.flags
  <2>1. q = p
    BY <1>3 DEF WithExponent
  <2> QED
    BY <2>1, <1>1, AlikeRefigured DEF Alike, Stays
<1> QED
  BY <1>2, <1>3

LEMMA SignRefigured ==
    ASSUME NEW p, Core(p), p.top # 0, IsNumber(p)
    PROVE  Refigured(p, WithSign(p))
<1> DEFINE q == WithSign(p)
           old == p.nodes[p.top]
           n == [old EXCEPT !.m = -@]
           changed == [p.nodes EXCEPT ![p.top].m = -@]
<1>1. p.top \in DOMAIN p.nodes /\ IsRecord(old, NodeFields) /\ IsRecord(p, Fields)
  BY TopFacts DEF Core
<1>2. CASE "num_negative" \in p.flags
  <2>1. changed = [p.nodes EXCEPT ![p.top] = n]
    BY <1>1
  <2>2. /\ IsRecord(n, NodeFields) /\ n.parent = old.parent /\ n.type = old.type
        /\ n.length = old.length /\ n.bytes = old.bytes
    BY <1>1 DEF IsRecord, NodeFields
  <2>3. q.nodes = changed
    BY <1>1, <1>2 DEF WithSign, IsRecord, Fields
  <2> HIDE DEF changed, n
  <2>4. /\ Stays(p, q) /\ q.flags = p.flags /\ q.length = p.length
        /\ q.pass = p.pass /\ q.alloc = p.alloc /\ IsRecord(q, Fields)
    BY <1>1, <1>2 DEF WithSign, IsRecord, Fields, Stays
  <2> HIDE DEF q
  <2>5. Figured(p, q, n)
    BY <2>1, <2>2, <2>3, <2>4 DEF Figured, IsNumber, FlagsOf
  <2> QED
    BY <2>5, NumberCore DEF q
<1>3. CASE "num_negative" \notin p.flags
  <2>1. q = p
    BY <1>3 DEF WithSign
  <2> QED
    BY <2>1, <1>1, AlikeRefigured DEF Alike, Stays
<1> QED
  BY <1>2, <1>3

\* The node becomes a number with a fraction or an exponent.
LEMMA DoubleRefigured ==
    ASSUME NEW p, Core(p), p.top # 0, IsNumber(p)
    PROVE  Refigured(p, [p EXCEPT !.nodes[p.top].type = "double", !.digits = 0])
<1> DEFINE old == p.nodes[p.top]
           n == [old EXCEPT !.type = "double"]
           changed == [p.nodes EXCEPT ![p.top].type = "double"]
           q == [p EXCEPT !.nodes[p.top].type = "double", !.digits = 0]
<1>1. p.top \in DOMAIN p.nodes /\ IsRecord(old, NodeFields) /\ IsRecord(p, Fields)
  BY TopFacts DEF Core
<1>2. changed = [p.nodes EXCEPT ![p.top] = n]
  BY <1>1
<1>3. /\ IsRecord(n, NodeFields) /\ n.parent = old.parent /\ n.type = "double"
      /\ n.length = old.length /\ n.bytes = old.bytes
  BY <1>1 DEF IsRecord, NodeFields
<1>4. q.nodes = changed
  BY <1>1 DEF IsRecord, Fields
<1> HIDE DEF changed, n
<1>5. /\ Stays(p, q) /\ q.flags = p.flags /\ q.length = p.length
      /\ q.pass = p.pass /\ q.alloc = p.alloc /\ IsRecord(q, Fields)
  BY <1>1 DEF IsRecord, Fields, Stays
<1> HIDE DEF q
<1>6. Figured(p, q, n)
  BY <1>2, <1>3, <1>4, <1>5 DEF Figured, FlagsOf
<1> QED
  BY <1>6, NumberCore DEF q

\* The node has one more digit.
LEMMA MantissaRefigured ==
    ASSUME NEW p, Core(p), p.top # 0, IsNumber(p), NEW d
    PROVE  Refigured(p, [p EXCEPT !.nodes[p.top].m = 10 * @ + d])
<1> DEFINE old == p.nodes[p.top]
           n == [old EXCEPT !.m = 10 * @ + d]
           changed == [p.nodes EXCEPT ![p.top].m = 10 * @ + d]
           q == [p EXCEPT !.nodes[p.top].m = 10 * @ + d]
<1>1. p.top \in DOMAIN p.nodes /\ IsRecord(old, NodeFields) /\ IsRecord(p, Fields)
  BY TopFacts DEF Core
<1>2. changed = [p.nodes EXCEPT ![p.top] = n]
  BY <1>1
<1>3. /\ IsRecord(n, NodeFields) /\ n.parent = old.parent /\ n.type = old.type
      /\ n.length = old.length /\ n.bytes = old.bytes
  BY <1>1 DEF IsRecord, NodeFields
<1>4. q.nodes = changed
  BY <1>1 DEF IsRecord, Fields
<1> HIDE DEF changed, n
<1>5. /\ Stays(p, q) /\ q.flags = p.flags /\ q.length = p.length
      /\ q.pass = p.pass /\ q.alloc = p.alloc /\ IsRecord(q, Fields)
  BY <1>1 DEF IsRecord, Fields, Stays
<1> HIDE DEF q
<1>6. Figured(p, q, n)
  BY <1>2, <1>3, <1>4, <1>5 DEF Figured, FlagsOf, IsNumber
<1> QED
  BY <1>6, NumberCore DEF q

-----------------------------------------------------------------------------
(* The steps *)

Statuses == {"parsing", "accepted", "failed", "crashed"}

JInv ==
    /\ Core(parser)
    /\ parser.top = 0 => parser.flags = {"seek_value"}
    /\ parser.status \in Statuses
    /\ Len(text) \in Nat
    /\ parser.pos \in 1 .. Len(text) + 1
    /\ complete \in BOOLEAN
    /\ complete \/ IsSeq(text)

\* What the parser is after the token b: behind it only when there is one.
Good(b) ==
    /\ Core(parser')
    /\ parser'.top = 0 => parser'.flags = {"seek_value"}
    /\ parser'.status \in Statuses
    /\ \/ parser'.pos \in 1 .. Len(text) + 1
       \/ b # End /\ parser'.pos = parser.pos + 1

\* A parser that can be passed to Go for the token b.
Ready(q, b) ==
    /\ Core(q)
    /\ q.top = 0 => q.flags = {"seek_value"}
    /\ q.status \in Statuses
    /\ q.pos \in 1 .. Len(text) + 1
    /\ "reproc" \notin q.flags => b # End /\ q.pos = parser.pos

\* The parser of a step that does not move.
Steady(q) == Core(q) /\ q.top # 0 /\ q.status \in Statuses /\ q.pos = parser.pos

LEMMA SteadyReady ==
    ASSUME JInv, NEW q, Steady(q), NEW b, b # End \/ "reproc" \in q.flags
    PROVE  Ready(q, b)
BY DEF JInv, Steady, Ready

LEMMA FlagsSteady ==
    ASSUME NEW q, Steady(q), NEW fs
    PROVE  Steady(On(q, fs)) /\ Steady(Off(q, fs))
BY FlagsCore DEF Steady

LEMMA StaysSteady ==
    ASSUME NEW p, Steady(p), NEW q, Core(q), Stays(p, q)
    PROVE  Steady(q)
BY DEF Steady, Stays

LEMMA NewSteady ==
    ASSUME NEW p, Core(p), p.status \in Statuses, p.pos = parser.pos, NEW type
    PROVE  Steady(New(p, type)) /\ New(p, type).flags = p.flags
BY NewCore DEF Steady, Statuses

LEMMA ParserSteady ==
    ASSUME JInv, parser.flags # {"seek_value"}
    PROVE  Steady(parser)
BY DEF JInv, Steady

\* The rest of the loop.
LEMMA GoGood ==
    ASSUME JInv, NEW q, NEW b, Ready(q, b), Go(q)
    PROVE  Good(b)
<1> DEFINE r == IF "reproc" \in q.flags THEN Off(q, {"reproc"}) ELSE [q EXCEPT !.pos = @ + 1]
<1>1. /\ Core(r) /\ r.top = q.top /\ r.status = q.status
      /\ r.flags = q.flags \ {"reproc"}
      /\ r.pos = IF "reproc" \in q.flags THEN q.pos ELSE q.pos + 1
  <2>1. CASE "reproc" \in q.flags
    BY <2>1, FlagsCore DEF Ready
  <2>2. CASE "reproc" \notin q.flags
    <3>1. Alike(q, r) /\ r.status = q.status /\ r.pos = q.pos + 1 /\ r.flags = q.flags
      BY <2>2 DEF Alike, Core, IsRecord, Fields, Ready
    <3> HIDE DEF r
    <3> QED
      BY <2>2, <3>1, AlikeCore DEF Alike, Ready
  <2> QED
    BY <2>1, <2>2
<1>2. parser' = IF "next" \in r.flags THEN Complete(r) ELSE r
  BY DEF Go
<1>3. \/ r.pos \in 1 .. Len(text) + 1
      \/ b # End /\ r.pos = parser.pos + 1
  BY <1>1 DEF Ready
<1> HIDE DEF r
<1>4. CASE "next" \in r.flags
  BY <1>1, <1>2, <1>3, <1>4, CompleteCore DEF Good, Ready
<1>5. CASE "next" \notin r.flags
  BY <1>1, <1>2, <1>3, <1>5 DEF Good, Ready
<1> QED
  BY <1>4, <1>5

LEMMA SteadyGood ==
    ASSUME JInv, NEW q, Steady(q), NEW b, b # End \/ "reproc" \in q.flags, Go(q)
    PROVE  Good(b)
<1>1. Ready(q, b)
  BY SteadyReady
<1> QED
  BY <1>1, GoGood

LEMMA FailGood ==
    ASSUME JInv, NEW b, Fail
    PROVE  Good(b)
<1>1. Alike(parser, parser') /\ parser'.flags = parser.flags
      /\ parser'.pos = parser.pos /\ parser'.status = "failed"
  BY DEF Fail, Alike, JInv, Core, IsRecord, Fields
<1> QED
  BY <1>1, AlikeCore DEF Good, Alike, JInv, Statuses

LEMMA InStringGood ==
    ASSUME JInv, NEW b, InString(b)
    PROVE  Good(b)
<1>1. Steady(parser)
  BY ParserSteady DEF InString, Is
<1>2. CASE Fail
  BY <1>2, FailGood
<1>3. CASE b # End /\ Go(StringAdd(Off(parser, {"escaped"}), Escaped(b)))
  <2>1. Steady(Off(parser, {"escaped"}))
    BY <1>1, FlagsSteady
  <2>2. Steady(StringAdd(Off(parser, {"escaped"}), Escaped(b)))
    BY <2>1, StringCore, StaysSteady DEF Steady
  <2> QED
    BY <1>3, <2>2, SteadyGood
<1>4. CASE b # End /\ Go(On(parser, {"escaped"}))
  BY <1>1, <1>4, FlagsSteady, SteadyGood
<1>5. CASE b # End /\ Go(EndString(parser))
  <2>1. Steady(EndString(parser))
    BY <1>1, EndStringCore, StaysSteady DEF Steady
  <2> QED
    BY <1>5, <2>1, SteadyGood
<1>6. CASE b # End /\ Go(StringAdd(parser, b))
  <2>1. Steady(StringAdd(parser, b))
    BY <1>1, StringCore, StaysSteady DEF Steady
  <2> QED
    BY <1>6, <2>1, SteadyGood
<1> QED
  BY <1>2, <1>3, <1>4, <1>5, <1>6 DEF InString

LEMMA AfterRootGood ==
    ASSUME JInv, NEW b, AfterRoot(b)
    PROVE  Good(b)
<1>1. Steady(parser)
  BY ParserSteady DEF AfterRoot, Is
<1>2. CASE parser' = Start(2, parser.nodes)
  <2>1. Len(parser.nodes) \in Nat \ {0} /\ Tree(parser.nodes)
    BY <1>1, SeqFacts DEF Steady, Core, Tree
  <2>2. /\ IsRecord(parser', Fields) /\ parser'.pass = 2 /\ parser'.nodes = parser.nodes
        /\ parser'.top = 0 /\ parser'.alloc = 1
    BY <1>2 DEF Start, IsRecord, Fields
  <2>3. Core(parser')
    BY <2>1, <2>2 DEF Core
  <2> QED
    BY <1>2, <2>3 DEF Start, Good, JInv, Statuses
<1>3. CASE parser' = [parser EXCEPT !.status = "accepted"]
  <2>1. /\ Alike(parser, parser') /\ parser'.flags = parser.flags
        /\ parser'.pos = parser.pos /\ parser'.status = "accepted"
    BY <1>3 DEF Alike, JInv, Core, IsRecord, Fields
  <2> QED
    BY <2>1, AlikeCore DEF Good, Alike, JInv, Statuses
<1>4. CASE b = Space /\ Go(parser)
  BY <1>1, <1>4, SteadyGood DEF Space, End
<1>5. CASE Fail
  BY <1>5, FailGood
<1> QED
  BY <1>2, <1>3, <1>4, <1>5 DEF AfterRoot

LEMMA InObjectGood ==
    ASSUME JInv, NEW b, InObject(b)
    PROVE  Good(b)
<1>1. Steady(parser)
  BY ParserSteady DEF InObject, In, Is
<1>2. CASE Fail
  BY <1>2, FailGood
<1>3. CASE b = Space /\ Go(parser)
  BY <1>1, <1>3, SteadyGood DEF Space, End
<1>4. CASE b = Quote /\ Go(BeginString(parser))
  <2>1. Steady(BeginString(parser))
    BY <1>1, StringCore, StaysSteady DEF Steady
  <2> QED
    BY <1>4, <2>1, SteadyGood DEF Quote, End
<1>5. CASE b = "}" /\ Go(On(Off(parser, {"need_comma"}), {"next"}))
  <2>1. Steady(On(Off(parser, {"need_comma"}), {"next"}))
    BY <1>1, FlagsSteady
  <2>2. b # End
    BY <1>5 DEF End
  <2> QED
    BY <1>5, <2>1, <2>2, SteadyGood
<1>6. CASE b = "," /\ Go(Off(parser, {"need_comma"}))
  <2>1. Steady(Off(parser, {"need_comma"}))
    BY <1>1, FlagsSteady
  <2>2. b # End
    BY <1>6 DEF End
  <2> QED
    BY <1>6, <2>1, <2>2, SteadyGood
<1> QED
  BY <1>2, <1>3, <1>4, <1>5, <1>6 DEF InObject

LEMMA NumberEndInText ==
    ASSUME NEW p, Len(text) \in Nat, p.pos \in 1 .. Len(text) + 1
    PROVE  /\ NumberEnd(p) \in p.pos .. Len(text) + 1
           /\ \A j \in p.pos .. NumberEnd(p) - 1 : text[j] \in NumberTokens
           /\ NumberEnd(p) <= Len(text) => text[NumberEnd(p)] \notin NumberTokens
<1> DEFINE N == Len(text) + 1
           Stop(i) == i <= Len(text) => text[i] \notin NumberTokens
           R == OpToRel(<, Nat)
           S == {i \in p.pos .. N : Stop(i)}
           P(i) == (\A j \in p.pos .. i - 1 : text[j] \in NumberTokens) /\ Stop(i)
<1>1. N \in S /\ S \subseteq Nat
  OBVIOUS
<1>2. PICK i \in S : \A j \in S : ~(<<j, i>> \in R)
  <2>1. IsWellFoundedOn(R, Nat)
    BY NatLessThanWellFounded
  <2> HIDE DEF S, R
  <2> QED
    BY <1>1, <2>1, WFMin
<1>3. ASSUME NEW j \in p.pos .. i - 1 PROVE text[j] \in NumberTokens
  <2>1. j \in Nat /\ i \in Nat /\ j < i /\ j \in p.pos .. N /\ j <= Len(text)
    BY <1>1, <1>3
  <2>2. <<j, i>> \in R
    BY <2>1 DEF OpToRel
  <2>3. j \notin S
    BY <1>2, <2>2
  <2> QED
    BY <2>1, <2>3
<1>4. i \in p.pos .. N /\ P(i)
  BY <1>2, <1>3
<1> HIDE DEF N, P
<1>5. LET e == CHOOSE k \in p.pos .. N : P(k) IN e \in p.pos .. N /\ P(e)
  BY <1>4
<1>6. NumberEnd(p) = CHOOSE k \in p.pos .. N : P(k)
  BY DEF NumberEnd, N, P
<1>7. NumberEnd(p) \in p.pos .. N /\ P(NumberEnd(p))
  BY <1>5, <1>6
<1> QED
  BY <1>7 DEF N, P

LEMMA ValueBeginsGood ==
    ASSUME JInv, parser.status = "parsing", NEW b, ValueBegins(b)
    PROVE  Good(b)
<1> DEFINE p == Off(parser, {"seek_value"})
<1>1. Core(p) /\ p.status \in Statuses /\ p.pos = parser.pos /\ p.pass = parser.pass
  BY FlagsCore DEF JInv
<1> HIDE DEF p
<1>2. CASE Fail
  BY <1>2, FailGood
<1>3. ASSUME NEW type PROVE Steady(New(p, type))
  BY <1>1, NewSteady
<1>4. CASE b = "{" /\ Go(New(p, "object"))
  <2>1. b # End
    BY <1>4 DEF End
  <2> QED
    BY <1>3, <1>4, <2>1, SteadyGood
<1>5. CASE b = "[" /\ Go(On(New(p, "array"), {"seek_value"}))
  <2>1. Steady(On(New(p, "array"), {"seek_value"}))
    BY <1>3, FlagsSteady
  <2>2. b # End
    BY <1>5 DEF End
  <2> QED
    BY <1>5, <2>1, <2>2, SteadyGood
<1>6. CASE b = Quote /\ Go(BeginString(New(p, "string")))
  <2>1. Steady(BeginString(New(p, "string")))
    BY <1>3, StringCore, StaysSteady DEF Steady
  <2> QED
    BY <1>6, <2>1, SteadyGood DEF Quote, End
<1>7. CASE b \in Literals /\ Go(On(New(p, b), {"next"}))
  <2>1. Steady(On(New(p, b), {"next"}))
    BY <1>3, FlagsSteady
  <2> QED
    BY <1>7, <2>1, SteadyGood DEF Literals, End
<1>8. CASE b \in Digits \cup {"-"} /\ NumberBegins(p, b)
  <2> DEFINE new == New(p, "integer")
  <2>1. Steady(new)
    BY <1>3
  <2>2. CASE p.pass = 2
    <3> DEFINE q == On(new, {"next", "reproc"})
               r == [q EXCEPT !.pos = NumberEnd(p)]
    <3>1. Steady(q) /\ q.flags = new.flags \cup {"next", "reproc"}
      BY <2>1, FlagsSteady, FlagsCore DEF Steady
    <3>2. NumberEnd(p) \in 1 .. Len(text) + 1
      BY <1>1, NumberEndInText DEF JInv
    <3>3. Go(r)
      BY <1>8, <2>2 DEF NumberBegins
    <3> HIDE DEF q, new
    <3>4. Alike(q, r) /\ r.pos = NumberEnd(p) /\ r.flags = q.flags /\ r.status = q.status
      BY <3>1 DEF Steady, Alike, Core, IsRecord, Fields
    <3> HIDE DEF r
    <3>5. Core(r) /\ r.top # 0
      BY <3>1, <3>4, AlikeCore DEF Steady, Alike
    <3>6. Ready(r, b)
      BY <3>1, <3>2, <3>4, <3>5 DEF Ready, Steady
    <3> QED
      BY <3>3, <3>6, GoGood
  <2>3. CASE p.pass # 2
    <3> DEFINE q == BeginNumber(new)
               f == IF b = "-" THEN "num_negative" ELSE "reproc"
    <3>1. Steady(q)
      BY <2>1, StringCore, StaysSteady DEF Steady
    <3>2. Steady(On(q, {f}))
      <4> HIDE DEF q, f
      <4> QED
        BY <3>1, FlagsSteady
    <3>3. b # End
      BY <1>8 DEF Digits, DigitOf, End
    <3>4. Go(On(q, {f}))
      BY <1>8, <2>3 DEF NumberBegins
    <3> HIDE DEF q, f
    <3> QED
      BY <3>2, <3>3, <3>4, SteadyGood
  <2> QED
    BY <2>2, <2>3
<1> QED
  BY <1>2, <1>4, <1>5, <1>6, <1>7, <1>8 DEF ValueBegins, p

LEMMA SeekValueGood ==
    ASSUME JInv, parser.status = "parsing", NEW b, SeekValue(b)
    PROVE  Good(b)
<1>1. CASE Fail
  BY <1>1, FailGood
<1>2. CASE b = Space /\ Go(parser)
  <2>1. Ready(parser, b)
    BY <1>2 DEF JInv, Ready, Space, End
  <2> QED
    BY <1>2, <2>1, GoGood
<1>3. CASE /\ b = "]" /\ parser.top # 0
           /\ Go(On(Off(parser, {"need_comma", "seek_value"}), {"next"}))
  <2>1. Steady(parser)
    BY <1>3 DEF JInv, Steady
  <2>2. Steady(On(Off(parser, {"need_comma", "seek_value"}), {"next"}))
    BY <2>1, FlagsSteady
  <2> QED
    BY <1>3, <2>2, SteadyGood DEF End
<1>4. ASSUME NEW f \in {"need_comma", "need_colon"}, Is(f), b # End, Go(Off(parser, {f}))
      PROVE  Good(b)
  <2>1. Steady(parser)
    BY <1>4, ParserSteady DEF Is
  <2>2. Steady(Off(parser, {f}))
    BY <2>1, FlagsSteady
  <2> QED
    BY <1>4, <2>2, SteadyGood
<1>5. CASE ValueBegins(b)
  BY <1>5, ValueBeginsGood
<1> QED
  BY <1>1, <1>2, <1>3, <1>4, <1>5 DEF SeekValue, End

\* In a number: it goes on with the token, or it has ended before it.
LEMMA DigitRefigures ==
    ASSUME NEW b, Core(parser), parser.top # 0, IsNumber(parser), Digit(b)
    PROVE  Fail \/ \E q : Refigured(parser, q) /\ Go(q)
<1> DEFINE p == [parser EXCEPT !.digits = @ + 1]
           d == DigitOf[b]
<1>1. Refigured(parser, p)
  <2>1. Alike(parser, p) /\ Stays(parser, p) /\ p.length = parser.length /\ p.flags = parser.flags
    BY DEF Core, Alike, Stays, IsRecord, Fields
  <2> HIDE DEF p
  <2> QED
    BY <2>1, AlikeRefigured DEF FlagsOf
<1> HIDE DEF p, d
<1>2. Core(p) /\ p.top # 0 /\ IsNumber(p)
  BY <1>1 DEF Refigured, Stays
<1>3. CASE Go([On(p, {"num_e_got_sign"}) EXCEPT !.e = 10 * @ + d])
  <2> DEFINE f == On(p, {"num_e_got_sign"})
             q == [f EXCEPT !.e = 10 * @ + d]
  <2>1. Refigured(p, f)
    BY <1>2, FlagsRefigured DEF NumberFlags
  <2> HIDE DEF f
  <2>2. Core(f) /\ f.top # 0 /\ IsNumber(f)
    BY <1>2, <2>1 DEF Refigured, Stays
  <2>3. Alike(f, q) /\ Stays(f, q) /\ q.length = f.length /\ q.flags = f.flags
    BY <2>2 DEF Core, Alike, Stays, IsRecord, Fields
  <2>4. Go(q)
    BY <1>3 DEF f
  <2> HIDE DEF q
  <2>5. Refigured(f, q)
    BY <2>2, <2>3, AlikeRefigured DEF FlagsOf
  <2> QED
    BY <1>1, <1>2, <2>1, <2>4, <2>5, RefiguredThen
<1>4. CASE Go([p EXCEPT !.fraction = 10 * @ + d])
  <2> DEFINE q == [p EXCEPT !.fraction = 10 * @ + d]
  <2>1. Alike(p, q) /\ Stays(p, q) /\ q.length = p.length /\ q.flags = p.flags
    BY <1>2 DEF Core, Alike, Stays, IsRecord, Fields
  <2> HIDE DEF q
  <2>2. Refigured(p, q)
    BY <1>2, <2>1, AlikeRefigured DEF FlagsOf
  <2> QED
    BY <1>1, <1>4, <2>2, RefiguredThen DEF q
<1>5. CASE Go([On(p, IF p.digits = 1 /\ d = 0 THEN {"num_zero"} ELSE {})
                 EXCEPT !.nodes[p.top].m = 10 * @ + d])
  <2> DEFINE f == On(p, IF p.digits = 1 /\ d = 0 THEN {"num_zero"} ELSE {})
             q == [f EXCEPT !.nodes[f.top].m = 10 * @ + d]
  <2>1. Refigured(p, f)
    BY <1>2, FlagsRefigured DEF NumberFlags
  <2> HIDE DEF f
  <2>2. Core(f) /\ f.top = p.top /\ IsNumber(f)
    BY <1>2, <2>1 DEF Refigured, Stays
  <2>3. Refigured(f, q)
    BY <1>2, <2>2, MantissaRefigured
  <2>4. Go(q)
    BY <1>5, <2>2 DEF f
  <2> HIDE DEF q
  <2> QED
    BY <1>1, <1>2, <2>1, <2>3, <2>4, RefiguredThen
<1> QED
  BY <1>3, <1>4, <1>5 DEF Digit, p, d

LEMMA InNumberRefigures ==
    ASSUME NEW b, Core(parser), parser.top # 0, InNumber(b)
    PROVE  /\ IsNumber(parser)
           /\ \/ Fail
              \/ b \in NumberTokens /\ \E q : Refigured(parser, q) /\ Go(q)
              \/ \E q : Refigured(parser, q) /\ Go(On(q, {"next", "reproc"}))
<1>1. IsNumber(parser)
  BY DEF InNumber, In, IsNumber, Top
<1>2. CASE b \in Digits /\ Digit(b)
  BY <1>1, <1>2, DigitRefigures DEF NumberTokens
<1>3. CASE /\ ExponentSign(b)
           /\ Go(On(parser, {"num_e_got_sign"} \cup IF b = "-" THEN {"num_e_negative"} ELSE {}))
  <2> DEFINE fs == {"num_e_got_sign"} \cup IF b = "-" THEN {"num_e_negative"} ELSE {}
  <2>1. fs \subseteq NumberFlags
    BY DEF NumberFlags
  <2>2. Go(On(parser, fs)) /\ b \in NumberTokens
    BY <1>3 DEF ExponentSign, NumberTokens
  <2> HIDE DEF fs
  <2> QED
    BY <1>1, <2>1, <2>2, FlagsRefigured
<1>4. CASE /\ PointOfInteger(b)
           /\ Go([parser EXCEPT !.nodes[parser.top].type = "double", !.digits = 0])
  <2>1. b \in NumberTokens
    BY <1>4 DEF PointOfInteger, NumberTokens
  <2> QED
    BY <1>1, <1>4, <2>1, DoubleRefigured
<1>5. CASE /\ b = "e"
           /\ Go([On(Off(WithFraction(parser), {"num_zero"}), {"num_e"})
                    EXCEPT !.nodes[parser.top].type = "double", !.digits = 0])
  <2> DEFINE w == WithFraction(parser)
             f == Off(w, {"num_zero"})
             p == On(f, {"num_e"})
             q == [p EXCEPT !.nodes[p.top].type = "double", !.digits = 0]
  <2>1. Refigured(parser, w)
    BY <1>1, FractionRefigured
  <2> HIDE DEF w
  <2>2. Core(w) /\ w.top = parser.top /\ IsNumber(w)
    BY <2>1 DEF Refigured, Stays
  <2>3. Refigured(w, f)
    BY <2>2, FlagsRefigured DEF NumberFlags
  <2> HIDE DEF f
  <2>4. Core(f) /\ f.top = parser.top /\ IsNumber(f)
    BY <2>2, <2>3 DEF Refigured, Stays
  <2>5. Refigured(f, p)
    BY <2>4, FlagsRefigured DEF NumberFlags
  <2> HIDE DEF p
  <2>6. Core(p) /\ p.top = parser.top /\ IsNumber(p)
    BY <2>4, <2>5 DEF Refigured, Stays
  <2>7. Refigured(p, q)
    BY <2>6, DoubleRefigured
  <2>8. Go(q) /\ b \in NumberTokens
    BY <1>5, <2>6 DEF p, f, w, NumberTokens
  <2> HIDE DEF q
  <2>9. Refigured(parser, f)
    BY <2>1, <2>3, RefiguredThen
  <2>10. Refigured(parser, p)
    BY <2>5, <2>9, RefiguredThen
  <2>11. Refigured(parser, q)
    BY <2>7, <2>10, RefiguredThen
  <2> QED
    BY <1>1, <2>8, <2>11
<1>6. CASE Go(On(WithSign(WithExponent(WithFraction(parser))), {"next", "reproc"}))
  <2> DEFINE w1 == WithFraction(parser)
             w2 == WithExponent(w1)
             w3 == WithSign(w2)
  <2>1. Refigured(parser, w1)
    BY <1>1, FractionRefigured
  <2> HIDE DEF w1
  <2>2. Core(w1) /\ w1.top # 0 /\ IsNumber(w1)
    BY <2>1 DEF Refigured, Stays
  <2>3. Refigured(w1, w2)
    BY <2>2, ExponentRefigured
  <2> HIDE DEF w2
  <2>4. Core(w2) /\ w2.top # 0 /\ IsNumber(w2)
    BY <2>2, <2>3 DEF Refigured, Stays
  <2>5. Refigured(w2, w3)
    BY <2>4, SignRefigured
  <2>6. Go(On(w3, {"next", "reproc"}))
    BY <1>6 DEF w2, w1
  <2> HIDE DEF w3
  <2>7. Refigured(parser, w2)
    BY <2>1, <2>3, RefiguredThen
  <2>8. Refigured(parser, w3)
    BY <2>5, <2>7, RefiguredThen
  <2> QED
    BY <1>1, <2>6, <2>8
<1> QED
  BY <1>1, <1>2, <1>3, <1>4, <1>5, <1>6 DEF InNumber

LEMMA InNumberGood ==
    ASSUME JInv, NEW b, InNumber(b)
    PROVE  Good(b)
<1>1. Steady(parser)
  BY ParserSteady DEF InNumber, In, Is
<1>2. CASE Fail
  BY <1>2, FailGood
<1>3. ASSUME NEW q, Refigured(parser, q)
      PROVE  Steady(q)
  BY <1>1, <1>3 DEF Steady, Refigured, Stays
<1>4. ASSUME b \in NumberTokens, NEW q, Refigured(parser, q), Go(q)
      PROVE  Good(b)
  <2>1. b # End
    BY <1>4 DEF NumberTokens, Digits, DigitOf, End
  <2> QED
    BY <1>3, <1>4, <2>1, SteadyGood
<1>5. ASSUME NEW q, Refigured(parser, q), Go(On(q, {"next", "reproc"}))
      PROVE  Good(b)
  <2> DEFINE r == On(q, {"next", "reproc"})
  <2>1. Steady(q)
    BY <1>3, <1>5
  <2>2. Steady(r) /\ "reproc" \in r.flags
    BY <2>1, FlagsSteady, FlagsCore DEF Steady
  <2>3. Go(r)
    BY <1>5
  <2> HIDE DEF r
  <2> QED
    BY <2>2, <2>3, SteadyGood
<1> QED
  BY <1>1, <1>2, <1>4, <1>5, InNumberRefigures DEF Steady

-----------------------------------------------------------------------------
(* The theorems *)

LEMMA JInit == Init => JInv
<1> SUFFICES ASSUME Init PROVE JInv
  OBVIOUS
<1>1. parser = Start(1, <<>>)
  BY DEF Init
<1>2. IsSeq(<<>>)
  BY DEF IsSeq
<1>3. Core(parser) /\ parser.flags = {"seek_value"} /\ parser.status = "parsing"
      /\ parser.pos = 1
  <2>1. Tree(<<>>)
    BY <1>2 DEF Tree
  <2>2. /\ IsRecord(parser, Fields) /\ parser.pass = 1 /\ parser.nodes = <<>>
        /\ parser.top = 0 /\ parser.alloc = 1 /\ parser.flags = {"seek_value"}
        /\ parser.status = "parsing" /\ parser.pos = 1
    BY <1>1 DEF Start, IsRecord, Fields
  <2> QED
    BY <2>1, <2>2 DEF Core
<1>4. Len(text) \in Nat /\ complete \in BOOLEAN /\ (complete \/ IsSeq(text))
  BY <1>2, TextsAssumption DEF Init
<1> QED
  BY <1>3, <1>4 DEF JInv, Statuses

LEMMA JNext == JInv /\ [Next]_vars => JInv'
<1> SUFFICES ASSUME JInv, [Next]_vars PROVE JInv'
  OBVIOUS
<1>1. CASE Next
  <2>1. PICK b \in Offered :
          /\ complete' = (complete \/ b = End)
          /\ text' = IF b # End /\ parser.pos > Len(text) THEN Append(text, b) ELSE text
          /\ InString(b) \/ AfterRoot(b) \/ SeekValue(b) \/ InObject(b) \/ InNumber(b)
    BY <1>1 DEF Next
  <2>2. Good(b)
    BY <1>1, <2>1, InStringGood, AfterRootGood, SeekValueGood, InObjectGood, InNumberGood
       DEF Next
  <2>3. CASE b # End /\ parser.pos > Len(text)
    <3>1. ~complete /\ IsSeq(text)
      BY <2>1, <2>3 DEF Offered, JInv
    <3>2. IsSeq(text') /\ Len(text') = Len(text) + 1 /\ complete' = FALSE
      BY <2>1, <2>3, <3>1, AppendFacts DEF JInv
    <3>3. Len(text) \in Nat /\ parser.pos \in 1 .. Len(text) + 1
      BY DEF JInv
    <3>4. parser'.pos \in 1 .. Len(text') + 1 /\ Len(text') \in Nat
      BY <2>2, <3>2, <3>3 DEF Good
    <3>5. /\ Core(parser') /\ parser'.status \in Statuses
          /\ parser'.top = 0 => parser'.flags = {"seek_value"}
      BY <2>2 DEF Good
    <3> QED
      BY <3>2, <3>4, <3>5 DEF JInv
  <2>4. CASE ~(b # End /\ parser.pos > Len(text))
    <3>1. text' = text /\ complete' \in BOOLEAN /\ (complete' \/ IsSeq(text'))
      BY <2>1, <2>4 DEF JInv
    <3> QED
      BY <2>2, <2>4, <3>1 DEF Good, JInv
  <2> QED
    BY <2>3, <2>4
<1>2. CASE UNCHANGED vars
  BY <1>2 DEF vars, JInv
<1> QED
  BY <1>1, <1>2

\* For every text: the parser never reads behind the end of its text, and the node it
\* is at is one of the nodes it has.
THEOREM ParserTypeCorrect == Spec => []TypeOK
<1>1. JInv => TypeOK
  BY DEF JInv, Core, TypeOK, Statuses
<1> QED
  BY <1>1, JInit, JNext, PTL DEF Spec

\* For every text, also one that is not accepted: the nodes are a tree in the order
\* of their allocation, whose root is the first, and what an array or an object holds
\* are nodes whose parent it is.
THEOREM TreeTheorem == Spec => []NodesFormTree
<1>1. JInv => NodesFormTree
  BY DEF JInv, Core, Tree, Fits, NodesFormTree, Containers
<1> QED
  BY <1>1, JInit, JNext, PTL DEF Spec

-----------------------------------------------------------------------------
(* What the second pass has put into the nodes *)

\* The node i has been taken, and is not yet among the items of its parent.
Pends(p, i) ==
    /\ i \in 1 .. p.alloc - 1
    /\ LET parent == p.nodes[i].parent
       IN  parent = 0 \/ \A j \in DOMAIN p.nodes[parent].items : p.nodes[parent].items[j] # i

\* The items of n are nodes below a, each of them once, and counted.
Listed(n, a) ==
    /\ Len(n.items) = n.length
    /\ \A j, k \in DOMAIN n.items : n.items[j] = n.items[k] => j = k
    /\ \A j \in DOMAIN n.items : n.items[j] < a

\* The nodes that are not among the items of their parents are those on the way from
\* the current node to the root.
Linked(p) ==
    /\ p.pass = 1 => p.alloc = 1
    /\ \A i \in DOMAIN p.nodes :
          p.nodes[i].type \in Containers =>
              IF i < p.alloc THEN Listed(p.nodes[i], p.alloc) ELSE p.nodes[i].items = <<>>
    /\ \A i \in DOMAIN p.nodes :
          i < p.alloc /\ p.nodes[i].parent # 0 =>
              p.nodes[p.nodes[i].parent].type \in Containers
    /\ \A i, j \in DOMAIN p.nodes :
          Pends(p, i) /\ Pends(p, j) /\ i < j => i <= p.nodes[j].parent
    /\ \A i \in DOMAIN p.nodes :
          Pends(p, i) /\ p.nodes[i].parent # 0 => Pends(p, p.nodes[i].parent)
    /\ p.pass = 2 /\ p.top # 0 =>
          Pends(p, p.top) /\ \A i \in DOMAIN p.nodes : Pends(p, i) => i <= p.top

\* In the first pass there are no items.
LEMMA FirstLinked ==
    ASSUME NEW p, Core(p), p.pass = 1, p.alloc = 1,
           \A i \in DOMAIN p.nodes : p.nodes[i].type \in Containers => p.nodes[i].items = <<>>
    PROVE  Linked(p)
<1>1. \A i \in DOMAIN p.nodes : ~(i < p.alloc)
  BY SeqFacts DEF Core, Tree
<1>2. \A i : ~Pends(p, i)
  BY DEF Pends
<1> QED
  BY <1>1, <1>2 DEF Linked

LEMMA PlaceFacts ==
    ASSUME NEW p, Core(p), p.alloc - 1 <= Len(p.nodes)
    PROVE  /\ p.alloc \in Nat /\ Len(p.nodes) \in Nat /\ DOMAIN p.nodes = 1 .. Len(p.nodes)
           /\ \A i : Pends(p, i) => i \in DOMAIN p.nodes
           /\ \A i \in DOMAIN p.nodes :
                 /\ i \in Nat /\ p.nodes[i].parent \in Nat /\ p.nodes[i].parent < i
                 /\ p.nodes[i].parent = 0 <=> i = 1
                 /\ p.nodes[i].parent # 0 => p.nodes[i].parent \in DOMAIN p.nodes
<1>1. p.alloc \in Nat /\ Len(p.nodes) \in Nat /\ DOMAIN p.nodes = 1 .. Len(p.nodes)
  BY SeqFacts DEF Core, Tree
<1>2. \A i \in DOMAIN p.nodes : Fits(p.nodes, i, p.nodes[i])
  BY DEF Core, Tree
<1>3. ASSUME NEW i \in DOMAIN p.nodes
      PROVE  /\ i \in Nat /\ p.nodes[i].parent \in Nat /\ p.nodes[i].parent < i
             /\ p.nodes[i].parent = 0 <=> i = 1
             /\ p.nodes[i].parent # 0 => p.nodes[i].parent \in DOMAIN p.nodes
  <2>1. p.nodes[i].parent \in 0 .. i - 1 /\ (p.nodes[i].parent = 0 <=> i = 1)
    BY <1>2 DEF Fits
  <2> QED
    BY <1>1, <2>1
<1>4. \A i : Pends(p, i) => i \in DOMAIN p.nodes
  BY <1>1 DEF Pends
<1> QED
  BY <1>1, <1>3, <1>4

LEMMA SameLinked ==
    ASSUME NEW p, Core(p), p.alloc - 1 <= Len(p.nodes), Linked(p),
           NEW q, q.pass = p.pass, q.alloc = p.alloc, q.top = p.top,
           DOMAIN q.nodes = DOMAIN p.nodes,
           \A i \in DOMAIN p.nodes : SamePlace(p.nodes[i], q.nodes[i])
    PROVE  Linked(q)
<1>1. ASSUME NEW i PROVE Pends(q, i) <=> Pends(p, i)
  <2> SUFFICES ASSUME i \in 1 .. p.alloc - 1 PROVE Pends(q, i) <=> Pends(p, i)
    BY DEF Pends
  <2>1. i \in DOMAIN p.nodes /\ i < p.alloc /\ q.nodes[i].parent = p.nodes[i].parent
    BY PlaceFacts DEF SamePlace
  <2>2. p.nodes[i].parent # 0 =>
            q.nodes[p.nodes[i].parent].items = p.nodes[p.nodes[i].parent].items
    <3> SUFFICES ASSUME p.nodes[i].parent # 0
                 PROVE  q.nodes[p.nodes[i].parent].items = p.nodes[p.nodes[i].parent].items
      OBVIOUS
    <3>1. p.nodes[i].parent \in DOMAIN p.nodes
      BY <2>1, PlaceFacts
    <3>2. p.nodes[p.nodes[i].parent].type \in Containers
      BY <2>1 DEF Linked
    <3> QED
      BY <3>1, <3>2 DEF SamePlace
  <2> QED
    BY <2>1, <2>2 DEF Pends
<1>2. ASSUME NEW i \in DOMAIN q.nodes, q.nodes[i].type \in Containers
      PROVE  IF i < q.alloc THEN Listed(q.nodes[i], q.alloc) ELSE q.nodes[i].items = <<>>
  <2>1. /\ i \in DOMAIN p.nodes /\ p.nodes[i].type \in Containers
        /\ q.nodes[i].items = p.nodes[i].items /\ q.nodes[i].length = p.nodes[i].length
    BY <1>2 DEF SamePlace
  <2>2. IF i < p.alloc THEN Listed(p.nodes[i], p.alloc) ELSE p.nodes[i].items = <<>>
    BY <2>1 DEF Linked
  <2> QED
    BY <2>1, <2>2 DEF Listed
<1>3. ASSUME NEW i \in DOMAIN q.nodes, i < q.alloc, q.nodes[i].parent # 0
      PROVE  q.nodes[q.nodes[i].parent].type \in Containers
  <2>1. i \in DOMAIN p.nodes /\ i < p.alloc /\ q.nodes[i].parent = p.nodes[i].parent
    BY <1>3 DEF SamePlace
  <2>2. p.nodes[i].parent \in DOMAIN p.nodes
    BY <1>3, <2>1, PlaceFacts
  <2>3. p.nodes[p.nodes[i].parent].type \in Containers
    BY <1>3, <2>1 DEF Linked
  <2> QED
    BY <2>1, <2>2, <2>3 DEF SamePlace
<1>4. ASSUME NEW i \in DOMAIN q.nodes, NEW j \in DOMAIN q.nodes,
             Pends(q, i), Pends(q, j), i < j
      PROVE  i <= q.nodes[j].parent
  BY <1>1, <1>4 DEF Linked, SamePlace
<1>5. ASSUME NEW i \in DOMAIN q.nodes, Pends(q, i), q.nodes[i].parent # 0
      PROVE  Pends(q, q.nodes[i].parent)
  <2>1. i \in DOMAIN p.nodes /\ q.nodes[i].parent = p.nodes[i].parent /\ Pends(p, i)
    BY <1>1, <1>5 DEF SamePlace
  <2>2. Pends(p, p.nodes[i].parent)
    BY <1>5, <2>1 DEF Linked
  <2> QED
    BY <1>1, <2>1, <2>2
<1>6. ASSUME q.pass = 2, q.top # 0
      PROVE  Pends(q, q.top) /\ \A i \in DOMAIN q.nodes : Pends(q, i) => i <= q.top
  BY <1>1, <1>6 DEF Linked
<1>7. q.pass = 1 => q.alloc = 1
  BY DEF Linked
<1> QED
  BY <1>2, <1>3, <1>4, <1>5, <1>6, <1>7 DEF Linked

LEMMA NewLinked ==
    ASSUME NEW p, Core(p), p.pass = 2, p.alloc <= Len(p.nodes), Linked(p),
           p.nodes[p.alloc].parent = p.top,
           p.top # 0 => p.nodes[p.top].type \in Containers,
           NEW q, NEW n, Took(p, q, n)
    PROVE  Linked(q)
<1> DEFINE a == p.alloc
<1>1. /\ a \in Nat \ {0} /\ Len(p.nodes) \in Nat /\ a - 1 <= Len(p.nodes)
      /\ DOMAIN p.nodes = 1 .. Len(p.nodes) /\ a \in DOMAIN p.nodes
  BY SeqFacts DEF Core, Tree
<1>2. /\ DOMAIN q.nodes = DOMAIN p.nodes /\ q.nodes[a] = n
      /\ \A i \in DOMAIN p.nodes : i # a => q.nodes[i] = p.nodes[i]
  <2>1. q.nodes = [p.nodes EXCEPT ![a] = n]
    BY DEF Took
  <2> QED
    BY <1>1, <2>1, ExceptFacts DEF Core, Tree
<1>3. /\ n.type = p.nodes[a].type /\ n.parent = p.top /\ n.items = p.nodes[a].items
      /\ n.length = 0 /\ q.pass = 2 /\ q.alloc = a + 1 /\ q.top = a
  BY DEF Took
<1>4. \A i \in DOMAIN p.nodes : /\ q.nodes[i].type = p.nodes[i].type
                                /\ q.nodes[i].parent = p.nodes[i].parent
                                /\ q.nodes[i].items = p.nodes[i].items
  BY <1>2, <1>3
<1>5. p.top # 0 => /\ p.top \in DOMAIN p.nodes /\ Pends(p, p.top)
                   /\ \A i \in DOMAIN p.nodes : Pends(p, i) => i <= p.top
  BY <1>1, PlaceFacts DEF Linked
<1> HIDE DEF a
<1>6. ASSUME NEW i \in 1 .. a - 1 PROVE Pends(q, i) <=> Pends(p, i)
  <2>1. i \in DOMAIN p.nodes /\ i \in 1 .. q.alloc - 1
    BY <1>1, <1>3
  <2>2. /\ q.nodes[i].parent = p.nodes[i].parent
        /\ p.nodes[i].parent # 0 =>
              q.nodes[p.nodes[i].parent].items = p.nodes[p.nodes[i].parent].items
    BY <1>1, <1>4, <2>1, PlaceFacts DEF a
  <2> QED
    BY <2>1, <2>2 DEF Pends, a
<1>7. Pends(q, a)
  <2>1. q.nodes[a].parent = p.top /\ a \in 1 .. q.alloc - 1
    BY <1>1, <1>2, <1>3
  <2>2. ASSUME p.top # 0
        PROVE  \A j \in DOMAIN q.nodes[p.top].items : q.nodes[p.top].items[j] # a
    <3>1. p.top \in DOMAIN p.nodes /\ p.top < a
      <4>1. p.top \in 1 .. p.alloc - 1
        BY <1>5, <2>2 DEF Pends
      <4> QED
        BY <1>1, <4>1 DEF a
    <3>2. Listed(p.nodes[p.top], a)
      BY <2>2, <3>1 DEF Linked, a
    <3>3. q.nodes[p.top].items = p.nodes[p.top].items
      BY <1>4, <3>1
    <3>4. \A j \in DOMAIN p.nodes[p.top].items : p.nodes[p.top].items[j] < a
      BY <3>2 DEF Listed
    <3> QED
      BY <1>1, <3>3, <3>4
  <2> QED
    BY <2>1, <2>2 DEF Pends
<1>8. ASSUME NEW i, Pends(q, i) PROVE i = a \/ (i \in 1 .. a - 1 /\ Pends(p, i))
  <2>1. i \in 1 .. a
    <3>1. i \in 1 .. q.alloc - 1
      BY <1>8 DEF Pends
    <3> QED
      BY <1>1, <1>3, <3>1
  <2>2. i = a \/ i \in 1 .. a - 1
    BY <1>1, <2>1
  <2> QED
    BY <1>6, <1>8, <2>2
<1>9. ASSUME NEW i \in DOMAIN q.nodes, q.nodes[i].type \in Containers
      PROVE  IF i < q.alloc THEN Listed(q.nodes[i], q.alloc) ELSE q.nodes[i].items = <<>>
  <2>1. /\ i \in DOMAIN p.nodes /\ p.nodes[i].type \in Containers
        /\ q.nodes[i].items = p.nodes[i].items
    BY <1>2, <1>4, <1>9
  <2>2. IF i < a THEN Listed(p.nodes[i], a) ELSE p.nodes[i].items = <<>>
    BY <2>1 DEF Linked, a
  <2>3. CASE i = a
    <3>1. q.nodes[i].items = <<>> /\ q.nodes[i].length = 0
      BY <1>1, <1>2, <1>3, <2>1, <2>2, <2>3
    <3>2. Listed(q.nodes[i], q.alloc)
      BY <3>1 DEF Listed
    <3> QED
      BY <1>1, <1>3, <2>3, <3>2
  <2>4. CASE i < a
    <3>1. q.nodes[i] = p.nodes[i] /\ i < q.alloc
      BY <1>1, <1>2, <1>3, <2>1, <2>4
    <3>2. Listed(p.nodes[i], a)
      BY <2>2, <2>4
    <3>3. p.nodes[i].items \in Seq(Nat)
      BY <2>1 DEF Core, Tree, Fits
    <3>4. ASSUME NEW j \in DOMAIN p.nodes[i].items PROVE p.nodes[i].items[j] < a + 1
      <4>1. p.nodes[i].items[j] < a
        BY <3>2 DEF Listed
      <4>2. p.nodes[i].items[j] \in Nat
        BY <3>3
      <4> QED
        BY <1>1, <4>1, <4>2
    <3>5. Listed(p.nodes[i], a + 1)
      BY <3>2, <3>4 DEF Listed
    <3> QED
      BY <1>3, <3>1, <3>5
  <2>5. CASE i > a
    <3>1. q.nodes[i].items = <<>>
      BY <1>1, <2>1, <2>2, <2>5
    <3> QED
      BY <1>1, <1>3, <2>1, <2>5, <3>1
  <2> QED
    BY <1>1, <2>1, <2>3, <2>4, <2>5
<1>10. ASSUME NEW i \in DOMAIN q.nodes, i < q.alloc, q.nodes[i].parent # 0
       PROVE  q.nodes[q.nodes[i].parent].type \in Containers
  <2>1. i \in DOMAIN p.nodes /\ q.nodes[i].parent = p.nodes[i].parent
    BY <1>2, <1>4
  <2>2. p.nodes[i].parent \in DOMAIN p.nodes
    BY <1>1, <1>10, <2>1, PlaceFacts DEF a
  <2>3. p.nodes[p.nodes[i].parent].type \in Containers
    <3>1. CASE i = a
      BY <1>10, <2>1, <3>1 DEF a
    <3>2. CASE i < a
      BY <1>10, <2>1, <3>2 DEF Linked, a
    <3> QED
      BY <1>1, <1>3, <1>10, <2>1, <3>1, <3>2
  <2> QED
    BY <1>4, <2>1, <2>2, <2>3
<1>11. ASSUME NEW i \in DOMAIN q.nodes, NEW j \in DOMAIN q.nodes,
              Pends(q, i), Pends(q, j), i < j
       PROVE  i <= q.nodes[j].parent
  <2>1. i \in 1 .. a - 1 /\ Pends(p, i)
    BY <1>1, <1>8, <1>11
  <2>2. CASE j = a
    <3>1. p.top # 0
      BY <2>1 DEF Core, a
    <3> QED
      BY <1>1, <1>2, <1>3, <1>5, <2>1, <2>2, <3>1
  <2>3. CASE Pends(p, j)
    BY <1>2, <1>4, <1>11, <2>1, <2>3 DEF Linked
  <2> QED
    BY <1>8, <1>11, <2>2, <2>3
<1>12. ASSUME NEW i \in DOMAIN q.nodes, Pends(q, i), q.nodes[i].parent # 0
       PROVE  Pends(q, q.nodes[i].parent)
  <2>1. i \in DOMAIN p.nodes /\ q.nodes[i].parent = p.nodes[i].parent
    BY <1>2, <1>4
  <2>2. Pends(p, p.nodes[i].parent)
    BY <1>5, <1>8, <1>12, <2>1 DEF Linked, a
  <2>3. p.nodes[i].parent \in 1 .. a - 1
    BY <2>2 DEF Pends, a
  <2> QED
    BY <1>6, <2>1, <2>2, <2>3
<1>13. \A i \in DOMAIN q.nodes : Pends(q, i) => i <= a
  BY <1>1, <1>8
<1>14. q.pass # 1
  BY <1>3
<1> QED
  BY <1>3, <1>7, <1>9, <1>10, <1>11, <1>12, <1>13, <1>14 DEF Linked

LEMMA FirstCompleteLinked ==
    ASSUME NEW p, Core(p), p.pass = 1, Linked(p), p.top # 0, p.nodes[p.top].parent # 0,
           NEW q, Core(q), NEW n, Entered(p, q, n)
    PROVE  Linked(q)
<1> DEFINE parent == p.nodes[p.top].parent
<1>1. parent \in DOMAIN p.nodes /\ IsSeq(p.nodes)
  BY ParentFacts DEF Core, Tree
<1>2. /\ q.nodes = [p.nodes EXCEPT ![parent] = n] /\ q.pass = 1 /\ q.alloc = p.alloc
      /\ n.type = p.nodes[parent].type /\ n.items = p.nodes[parent].items
  <2>1. n.items = IF p.pass = 2 THEN Append(p.nodes[parent].items, p.top)
                  ELSE p.nodes[parent].items
    BY DEF Entered
  <2>2. /\ q.nodes = [p.nodes EXCEPT ![parent] = n] /\ q.pass = p.pass /\ q.alloc = p.alloc
        /\ n.type = p.nodes[parent].type
    BY DEF Entered
  <2> HIDE DEF parent
  <2> QED
    BY <2>1, <2>2
<1> HIDE DEF parent
<1>3. /\ DOMAIN q.nodes = DOMAIN p.nodes
      /\ \A i \in DOMAIN p.nodes :
            q.nodes[i].type = p.nodes[i].type /\ q.nodes[i].items = p.nodes[i].items
  <2>1. /\ DOMAIN q.nodes = DOMAIN p.nodes /\ q.nodes[parent] = n
        /\ \A i \in DOMAIN p.nodes : i # parent => q.nodes[i] = p.nodes[i]
    BY <1>1, <1>2, ExceptFacts
  <2> QED
    BY <1>2, <2>1
<1>4. /\ p.alloc = 1
      /\ \A i \in DOMAIN p.nodes : p.nodes[i].type \in Containers => p.nodes[i].items = <<>>
  <2>1. \A i \in DOMAIN p.nodes : ~(i < 1)
    BY SeqFacts DEF Core, Tree
  <2> QED
    BY <2>1 DEF Linked
<1> QED
  BY <1>2, <1>3, <1>4, FirstLinked

LEMMA CompleteLinked ==
    ASSUME NEW p, Core(p), p.pass = 2, p.alloc - 1 <= Len(p.nodes), Linked(p),
           p.top # 0, p.nodes[p.top].parent # 0, NEW q, NEW n, Entered(p, q, n)
    PROVE  Linked(q)
<1> DEFINE t == p.top
           r == p.nodes[t].parent
           old == p.nodes[r].items
           a == p.alloc
<1>1. /\ a \in Nat /\ Len(p.nodes) \in Nat /\ DOMAIN p.nodes = 1 .. Len(p.nodes)
      /\ Pends(p, t) /\ \A i \in DOMAIN p.nodes : Pends(p, i) => i <= t
      /\ \A i : Pends(p, i) => i \in DOMAIN p.nodes
  BY PlaceFacts DEF Linked
<1>2. /\ t \in DOMAIN p.nodes /\ t \in Nat /\ r \in DOMAIN p.nodes /\ r \in Nat /\ r < t
      /\ t \in 1 .. a - 1 /\ t < a /\ r < a
  <2>1. t \in DOMAIN p.nodes /\ t \in 1 .. a - 1
    BY <1>1 DEF Pends
  <2>2. t \in Nat /\ r \in Nat /\ r < t /\ r \in DOMAIN p.nodes
    BY <2>1, PlaceFacts
  <2> HIDE DEF t, r, a
  <2> QED
    BY <1>1, <2>1, <2>2
<1>3. Pends(p, r) /\ p.nodes[r].type \in Containers /\ Listed(p.nodes[r], a)
  <2>1. Pends(p, r) /\ p.nodes[r].type \in Containers
    BY <1>1, <1>2 DEF Linked
  <2> QED
    BY <1>2, <2>1 DEF Linked
<1>4. old \in Seq(Nat)
  BY <1>2, <1>3 DEF Core, Tree, Fits
<1>5. /\ q.nodes = [p.nodes EXCEPT ![r] = n] /\ q.pass = 2 /\ q.alloc = a /\ q.top = r
      /\ n.type = p.nodes[r].type /\ n.parent = p.nodes[r].parent
      /\ n.length = p.nodes[r].length + 1 /\ n.items = Append(old, t)
  <2>1. n.items = Append(old, t)
    BY DEF Entered
  <2> HIDE DEF old
  <2> QED
    BY <2>1 DEF Entered
<1>6. \A j \in DOMAIN old : old[j] # t
  <2>1. r # 0
    OBVIOUS
  <2> QED
    BY <1>1, <2>1 DEF Pends
<1> HIDE DEF t, r, a
<1>7. /\ DOMAIN q.nodes = DOMAIN p.nodes /\ q.nodes[r] = n
      /\ \A i \in DOMAIN p.nodes : i # r => q.nodes[i] = p.nodes[i]
  BY <1>2, <1>5, ExceptFacts DEF Core, Tree
<1>8. \A i \in DOMAIN p.nodes : /\ q.nodes[i].type = p.nodes[i].type
                                /\ q.nodes[i].parent = p.nodes[i].parent
  BY <1>5, <1>7
<1>9. /\ Len(n.items) = Len(old) + 1 /\ DOMAIN n.items = 1 .. Len(old) + 1
      /\ n.items[Len(old) + 1] = t /\ \A j \in 1 .. Len(old) : n.items[j] = old[j]
      /\ DOMAIN old = 1 .. Len(old) /\ Len(old) \in Nat
  <2> HIDE DEF old
  <2> QED
    BY <1>2, <1>4, <1>5
<1>10. n.parent = p.nodes[r].parent /\ n.type = p.nodes[r].type
  BY <1>5
<1>11. ASSUME NEW i \in 1 .. a - 1 PROVE Pends(q, i) <=> Pends(p, i) /\ i # t
  <2> DEFINE s == p.nodes[i].parent
  <2>1. i \in DOMAIN p.nodes /\ q.nodes[i].parent = s /\ (s # 0 => s \in DOMAIN p.nodes)
    BY <1>1, <1>8, PlaceFacts DEF a
  <2>2. CASE s = r
    <3>1. (\A j \in DOMAIN n.items : n.items[j] # i)
          <=> (\A j \in DOMAIN old : old[j] # i) /\ i # t
      <4> HIDE DEF old, s
      <4>1. Len(old) + 1 \in DOMAIN n.items
        BY <1>9
      <4>2. \A j \in DOMAIN n.items : j = Len(old) + 1 \/ j \in 1 .. Len(old)
        BY <1>9
      <4>3. \A j \in 1 .. Len(old) : j \in DOMAIN n.items
        BY <1>9
      <4> QED
        BY <1>9, <4>1, <4>2, <4>3
    <3>2. r # 0
      BY DEF r, t
    <3>3. Pends(q, i) <=> \A j \in DOMAIN n.items : n.items[j] # i
      <4>1. q.nodes[i].parent = r /\ q.nodes[r] = n /\ i \in 1 .. q.alloc - 1
        BY <1>5, <1>7, <2>1, <2>2
      <4> HIDE DEF s, old
      <4> QED
        BY <3>2, <4>1 DEF Pends
    <3>4. Pends(p, i) <=> \A j \in DOMAIN old : old[j] # i
      BY <2>2, <3>2 DEF Pends, a
    <3> QED
      BY <3>1, <3>3, <3>4
  <2>3. CASE s # r
    <3>1. i # t
      BY <2>3 DEF r
    <3>2. s # 0 => q.nodes[s] = p.nodes[s]
      BY <1>7, <2>1, <2>3
    <3>3. Pends(q, i) <=> Pends(p, i)
      <4>1. /\ q.nodes[i].parent = p.nodes[i].parent /\ q.alloc = p.alloc
            /\ p.nodes[i].parent # 0 =>
                  q.nodes[p.nodes[i].parent] = p.nodes[p.nodes[i].parent]
        BY <1>5, <2>1, <3>2 DEF a
      <4> HIDE DEF s, old
      <4> QED
        BY <4>1 DEF Pends
    <3> QED
      BY <3>1, <3>3
  <2> QED
    BY <2>2, <2>3
<1>12. ASSUME NEW i PROVE Pends(q, i) <=> Pends(p, i) /\ i # t
  <2>1. Pends(q, i) \/ Pends(p, i) => i \in 1 .. a - 1
    BY <1>5 DEF Pends, a
  <2> QED
    BY <1>11, <2>1
<1>13. Listed(n, a)
  <2>1. Len(n.items) = n.length
    BY <1>3, <1>5, <1>9 DEF Listed
  <2>2. ASSUME NEW j \in DOMAIN n.items, NEW k \in DOMAIN n.items, n.items[j] = n.items[k]
        PROVE  j = k
    <3> HIDE DEF old
    <3>1. /\ j = Len(old) + 1 \/ j \in DOMAIN old
          /\ k = Len(old) + 1 \/ k \in DOMAIN old
      BY <1>9
    <3>2. CASE j \in DOMAIN old /\ k \in DOMAIN old
      BY <1>3, <1>9, <2>2, <3>2 DEF Listed, old
    <3>3. CASE j = Len(old) + 1 /\ k \in DOMAIN old
      BY <1>6, <1>9, <2>2, <3>3
    <3>4. CASE k = Len(old) + 1 /\ j \in DOMAIN old
      BY <1>6, <1>9, <2>2, <3>4
    <3> QED
      BY <3>1, <3>2, <3>3, <3>4
  <2>3. ASSUME NEW j \in DOMAIN n.items PROVE n.items[j] < a
    <3>1. CASE j = Len(old) + 1
      BY <1>2, <1>9, <3>1
    <3>2. CASE j \in 1 .. Len(old)
      BY <1>3, <1>9, <3>2 DEF Listed
    <3> HIDE DEF old
    <3> QED
      BY <1>9, <3>1, <3>2
  <2> QED
    BY <2>1, <2>2, <2>3 DEF Listed
<1>14. ASSUME NEW i \in DOMAIN q.nodes, q.nodes[i].type \in Containers
       PROVE  IF i < q.alloc THEN Listed(q.nodes[i], q.alloc) ELSE q.nodes[i].items = <<>>
  <2>1. CASE i = r
    BY <1>2, <1>5, <1>7, <1>13, <2>1
  <2>2. CASE i # r
    <3>1. i \in DOMAIN p.nodes /\ q.nodes[i] = p.nodes[i]
      BY <1>7, <2>2
    <3> QED
      BY <1>5, <1>14, <3>1 DEF Linked, a
  <2> QED
    BY <2>1, <2>2
<1>15. ASSUME NEW i \in DOMAIN q.nodes, i < q.alloc, q.nodes[i].parent # 0
       PROVE  q.nodes[q.nodes[i].parent].type \in Containers
  <2>1. i \in DOMAIN p.nodes /\ i < a /\ q.nodes[i].parent = p.nodes[i].parent
    BY <1>5, <1>7, <1>8, <1>15
  <2>2. p.nodes[i].parent \in DOMAIN p.nodes
    BY <1>15, <2>1, PlaceFacts
  <2>3. p.nodes[p.nodes[i].parent].type \in Containers
    BY <1>15, <2>1 DEF Linked, a
  <2> QED
    BY <1>8, <2>1, <2>2, <2>3
<1>16. ASSUME NEW i \in DOMAIN q.nodes, NEW j \in DOMAIN q.nodes,
              Pends(q, i), Pends(q, j), i < j
       PROVE  i <= q.nodes[j].parent
  <2>1. i \in DOMAIN p.nodes /\ j \in DOMAIN p.nodes /\ Pends(p, i) /\ Pends(p, j)
    BY <1>7, <1>12, <1>16
  <2> QED
    BY <1>8, <1>16, <2>1 DEF Linked
<1>17. ASSUME NEW i \in DOMAIN q.nodes, Pends(q, i), q.nodes[i].parent # 0
       PROVE  Pends(q, q.nodes[i].parent)
  <2>1. i \in DOMAIN p.nodes /\ q.nodes[i].parent = p.nodes[i].parent /\ Pends(p, i)
    BY <1>7, <1>8, <1>12, <1>17
  <2>2. Pends(p, p.nodes[i].parent)
    BY <1>17, <2>1 DEF Linked
  <2>3. p.nodes[i].parent # t
    <3>1. i <= t /\ p.nodes[i].parent < i /\ i \in Nat /\ p.nodes[i].parent \in Nat
      BY <1>1, <2>1, PlaceFacts
    <3> QED
      BY <1>2, <3>1
  <2> QED
    BY <1>12, <2>1, <2>2, <2>3
<1>18. Pends(q, r)
  BY <1>2, <1>3, <1>12
<1>19. ASSUME NEW i \in DOMAIN q.nodes, Pends(q, i) PROVE i <= r
  <2>1. i \in DOMAIN p.nodes /\ Pends(p, i) /\ i # t /\ i \in Nat
    BY <1>1, <1>7, <1>12, <1>19
  <2>2. i < t
    BY <1>1, <1>2, <2>1
  <2> QED
    BY <1>1, <1>2, <2>1, <2>2 DEF Linked, r
<1>20. q.pass # 1 /\ q.top = r
  BY <1>5
<1> QED
  BY <1>14, <1>15, <1>16, <1>17, <1>18, <1>19, <1>20 DEF Linked

-----------------------------------------------------------------------------
(* The views of a parser *)

Taking(p) ==
    Core(p) /\ Linked(p) /\ p.top <= Count(p) /\ Count(p) <= Len(p.nodes)

LEMMA TakingFacts ==
    ASSUME NEW p, Taking(p)
    PROVE  /\ Count(p) \in Nat /\ Len(p.nodes) \in Nat /\ DOMAIN p.nodes = 1 .. Len(p.nodes)
           /\ p.top \in 0 .. Count(p)
           /\ \A i \in 1 .. Count(p) : /\ i \in DOMAIN p.nodes
                                       /\ IsRecord(p.nodes[i], NodeFields)
                                       /\ p.nodes[i].parent \in 0 .. i - 1
           /\ p.pass = 2 => Count(p) = p.alloc - 1
           /\ p.alloc - 1 <= Len(p.nodes)
<1>1. Len(p.nodes) \in Nat /\ DOMAIN p.nodes = 1 .. Len(p.nodes)
  BY SeqFacts DEF Taking, Core, Tree
<1>2. Count(p) \in Nat /\ (p.pass = 2 => Count(p) = p.alloc - 1)
  BY <1>1 DEF Count, Taking, Core
<1>3. \A i \in DOMAIN p.nodes : Fits(p.nodes, i, p.nodes[i])
  BY DEF Taking, Core, Tree
<1>4. p.alloc - 1 <= Len(p.nodes)
  BY <1>1, <1>2 DEF Taking, Core, Linked
<1> QED
  BY <1>1, <1>2, <1>3, <1>4 DEF Taking, Core, Fits

\* The view of a parser whose nodes are those of another.
LEMMA AlikeView ==
    ASSUME NEW p, Taking(p), NEW q, Alike(p, q)
    PROVE  /\ Taking(q)
           /\ Counted(q) = Counted(p)
           /\ View(q) = V(q.status, q.pos, FlagsOf(q), q.top, q.length,
                        Count(p), View(p).nodes)
<1>1. Taking(q) /\ Count(q) = Count(p)
  <2>1. /\ q.pass = p.pass /\ q.nodes = p.nodes /\ q.top = p.top /\ q.alloc = p.alloc
        /\ \A i \in DOMAIN p.nodes : SamePlace(p.nodes[i], q.nodes[i])
    BY DEF Alike, SamePlace
  <2>2. Linked(q)
    BY <2>1, TakingFacts, SameLinked DEF Taking
  <2> QED
    BY <2>1, <2>2, AlikeCore DEF Taking, Count
<1>2. Counted(q) = Counted(p)
  BY DEF Counted, Alike
<1>3. [i \in 1 .. Count(q) |-> Held(q.nodes[i])] = [i \in 1 .. Count(p) |-> Held(p.nodes[i])]
  BY <1>1 DEF Alike
<1> QED
  BY <1>1, <1>2, <1>3 DEF View, V

\* q is a later parser of the same pass, with the view w.
Shows(p, q, w) ==
    /\ Taking(q) /\ q.pass = p.pass /\ View(q) = w
    /\ p.pass = 2 => Counted(q) = Counted(p)

LEMMA ShowsThen ==
    ASSUME NEW p, NEW q, NEW v, Shows(p, q, v), NEW r, NEW w, Shows(q, r, w)
    PROVE  Shows(p, r, w)
BY DEF Shows

\* q is p with another node at i, in the same place of the tree.
Changed(p, q, i, n) ==
    /\ IsRecord(n, NodeFields) /\ n.parent = p.nodes[i].parent /\ n.room = p.nodes[i].room
    /\ Kind(n.type) = Kind(p.nodes[i].type)
    /\ q.pass = p.pass /\ q.alloc = p.alloc /\ q.nodes = [p.nodes EXCEPT ![i] = n]

\* The view of q then.
ViewWith(p, q, i, n) ==
    V(q.status, q.pos, FlagsOf(q), q.top, q.length, Count(p), Put(View(p).nodes, i, Held(n)))

\* The view of a parser one of whose nodes has become n.
LEMMA NodeView ==
    ASSUME NEW p, Taking(p), NEW q, NEW i, i \in 1 .. Count(p), NEW n, Changed(p, q, i, n)
    PROVE  /\ Count(q) = Count(p) /\ Len(q.nodes) = Len(p.nodes)
           /\ p.pass = 2 => Counted(q) = Counted(p)
           /\ View(q) = ViewWith(p, q, i, n)
<1> USE DEF Changed
<1>1. i \in DOMAIN p.nodes /\ Count(p) <= Len(p.nodes) /\ DOMAIN p.nodes = 1 .. Len(p.nodes)
  BY TakingFacts DEF Taking
<1>2. /\ DOMAIN q.nodes = DOMAIN p.nodes /\ Len(q.nodes) = Len(p.nodes)
      /\ q.nodes[i] = n /\ \A j \in DOMAIN p.nodes : j # i => q.nodes[j] = p.nodes[j]
  BY <1>1, ExceptFacts DEF Taking, Core, Tree
<1>3. Count(q) = Count(p)
  BY <1>2 DEF Count
<1>4. p.pass = 2 => Counted(q) = Counted(p)
  <2> SUFFICES ASSUME p.pass = 2 PROVE Counted(q) = Counted(p)
    OBVIOUS
  <2>1. i < p.alloc
    BY DEF Taking, Core, Count
  <2>2. \A j \in DOMAIN p.nodes :
           /\ Kind(q.nodes[j].type) = Kind(p.nodes[j].type)
           /\ q.nodes[j].parent = p.nodes[j].parent
           /\ j < p.alloc => q.nodes[j].room = p.nodes[j].room
           /\ ~(j < p.alloc) => q.nodes[j] = p.nodes[j]
    BY <1>2, <2>1
  <2> QED
    BY <1>2, <2>2 DEF Counted
<1>5. [j \in 1 .. Count(q) |-> Held(q.nodes[j])] = Put(View(p).nodes, i, Held(n))
  <2>1. View(p).nodes = [j \in 1 .. Count(p) |-> Held(p.nodes[j])]
    BY DEF View, V
  <2>2. \A j \in 1 .. Count(p) : j \in DOMAIN p.nodes
    BY <1>1, TakingFacts
  <2>3. \A j \in 1 .. Count(p) :
           Held(q.nodes[j]) = IF j = i THEN Held(n) ELSE Held(p.nodes[j])
    BY <1>2, <2>2
  <2> QED
    BY <1>3, <2>1, <2>3 DEF Put
<1> QED
  BY <1>2, <1>3, <1>4, <1>5 DEF View, ViewWith

LEMMA ViewFields ==
    ASSUME NEW p
    PROVE  /\ View(p).status = p.status /\ View(p).pos = p.pos /\ View(p).top = p.top
           /\ View(p).flags = FlagsOf(p) /\ View(p).length = p.length
           /\ View(p).count = Count(p)
           /\ View(p).nodes = [i \in 1 .. Count(p) |-> Held(p.nodes[i])]
BY DEF View, V

LEMMA FlagsView ==
    ASSUME NEW p, Taking(p), NEW fs
    PROVE  /\ Shows(p, On(p, fs), VOn(View(p), fs \ NumberFlags))
           /\ Shows(p, Off(p, fs), VOff(View(p), fs \ NumberFlags))
<1>1. Alike(p, On(p, fs)) /\ Alike(p, Off(p, fs))
  BY DEF Taking, Alike, On, Off, Core, IsRecord, Fields
<1>2. /\ On(p, fs).pos = p.pos /\ Off(p, fs).pos = p.pos
      /\ On(p, fs).length = p.length /\ Off(p, fs).length = p.length
      /\ On(p, fs).top = p.top /\ Off(p, fs).top = p.top
      /\ On(p, fs).status = p.status /\ Off(p, fs).status = p.status
      /\ On(p, fs).flags = p.flags \cup fs /\ Off(p, fs).flags = p.flags \ fs
  BY DEF Taking, On, Off, Core, IsRecord, Fields
<1>3. View(On(p, fs)) = VOn(View(p), fs \ NumberFlags)
  <2>1. View(On(p, fs)) = V(On(p, fs).status, On(p, fs).pos, FlagsOf(On(p, fs)),
                            On(p, fs).top, On(p, fs).length, Count(p), View(p).nodes)
    BY <1>1, AlikeView
  <2>2. FlagsOf(On(p, fs)) = FlagsOf(p) \cup (fs \ NumberFlags)
    BY <1>2 DEF FlagsOf
  <2> QED
    BY <1>2, <2>1, <2>2, ViewFields DEF VOn, VOff, VFlags
<1>4. View(Off(p, fs)) = VOff(View(p), fs \ NumberFlags)
  <2>1. View(Off(p, fs)) = V(Off(p, fs).status, Off(p, fs).pos, FlagsOf(Off(p, fs)),
                            Off(p, fs).top, Off(p, fs).length, Count(p), View(p).nodes)
    BY <1>1, AlikeView
  <2>2. FlagsOf(Off(p, fs)) = FlagsOf(p) \ (fs \ NumberFlags)
    BY <1>2 DEF FlagsOf
  <2> QED
    BY <1>2, <2>1, <2>2, ViewFields DEF VOn, VOff, VFlags
<1>5. /\ Taking(On(p, fs)) /\ Counted(On(p, fs)) = Counted(p)
      /\ Taking(Off(p, fs)) /\ Counted(Off(p, fs)) = Counted(p)
  BY <1>1, AlikeView
<1>6. On(p, fs).pass = p.pass /\ Off(p, fs).pass = p.pass
  BY <1>1 DEF Alike
<1> QED
  BY <1>3, <1>4, <1>5, <1>6 DEF Shows

LEMMA NewView ==
    ASSUME NEW p, Taking(p), NEW type,
           p.pass = 2 => /\ p.alloc <= Len(p.nodes) /\ p.nodes[p.alloc].parent = p.top
                         /\ Kind(p.nodes[p.alloc].type) = Kind(type)
                         /\ p.top # 0 => p.nodes[p.top].type \in Containers
    PROVE  Shows(p, New(p, type), VNew(View(p), Kind(type)))
<1> DEFINE q == New(p, type)
           c == Count(p) + 1
           new == HeldNode(Kind(type), p.top, 0, 0)
<1>1. Core(q) /\ p.pass \in {1, 2}
  BY NewCore DEF Taking, Core
<1>2. Count(p) \in Nat /\ Len(p.nodes) \in Nat /\ DOMAIN p.nodes = 1 .. Len(p.nodes)
      /\ Count(p) <= Len(p.nodes)
  BY TakingFacts DEF Taking
<1>3. /\ q.pass = p.pass /\ q.pos = p.pos /\ q.flags = p.flags /\ q.status = p.status
      /\ q.length = p.length /\ q.top = c /\ Count(q) = c /\ Count(q) <= Len(q.nodes)
      /\ Held(q.nodes[c]) = new
      /\ \A i \in 1 .. Count(p) : q.nodes[i] = p.nodes[i]
      /\ p.pass = 2 => Counted(q) = Counted(p)
      /\ Linked(q)
  <2>1. CASE p.pass = 1
    <3>1. /\ q.nodes = Append(p.nodes, Node(type, p.top)) /\ q.top = Len(p.nodes) + 1
          /\ q.pass = p.pass /\ q.pos = p.pos /\ q.flags = p.flags /\ q.status = p.status
          /\ q.length = p.length /\ q.alloc = p.alloc
      BY <2>1 DEF New, Taking, Core, IsRecord, Fields
    <3>2. /\ Len(q.nodes) = Len(p.nodes) + 1 /\ q.nodes[Len(p.nodes) + 1] = Node(type, p.top)
          /\ \A i \in 1 .. Len(p.nodes) : q.nodes[i] = p.nodes[i]
      BY <3>1, AppendFacts DEF Taking, Core, Tree
    <3>3. Held(Node(type, p.top)) = new
      BY DEF Held, HeldNode, Node
    <3> HIDE DEF q, new
    <3>4. Linked(q)
      <4>1. /\ p.alloc = 1
            /\ \A i \in DOMAIN p.nodes :
                  p.nodes[i].type \in Containers => p.nodes[i].items = <<>>
        BY <1>2, <2>1 DEF Taking, Linked
      <4>2. Node(type, p.top).items = <<>>
        BY DEF Node
      <4>3. DOMAIN q.nodes = 1 .. Len(p.nodes) + 1
        BY <1>1, <3>2, SeqFacts DEF Core, Tree
      <4>4. \A i \in DOMAIN q.nodes :
                q.nodes[i].type \in Containers => q.nodes[i].items = <<>>
        BY <1>2, <3>2, <4>1, <4>2, <4>3
      <4> QED
        BY <1>1, <2>1, <3>1, <4>1, <4>4, FirstLinked
    <3> QED
      BY <2>1, <1>2, <3>1, <3>2, <3>3, <3>4 DEF Count
  <2>2. CASE p.pass = 2
    <3> DEFINE a == p.alloc
    <3>1. a = c /\ c \in DOMAIN p.nodes /\ p.pass # 1
      BY <2>2, <1>2 DEF Count, Taking, Core
    <3>2. IsRecord(p.nodes[a], NodeFields)
      BY <3>1 DEF Taking, Core, Tree, Fits
    <3>3. PICK n : Took(p, q, n)
      <4>1. p.pass # 1 /\ ~(p.alloc > Len(p.nodes)) /\ p.alloc \in DOMAIN p.nodes
        BY <1>2, <2>2, <3>1
      <4>2. IsRecord(p, Fields)
        BY DEF Taking, Core
      <4> QED
        BY <3>2, <4>1, <4>2, NewTakes
    <3>4. q.nodes = [p.nodes EXCEPT ![a] = n]
      BY <3>3 DEF Took
    <3>5. /\ n.type = p.nodes[a].type /\ n.parent = p.nodes[a].parent
          /\ n.length = 0 /\ n.bytes = 0
          /\ n.room = <<p.nodes[a].length, p.nodes[a].bytes>>
      BY <3>3 DEF Took
    <3>6. /\ q.top = a /\ q.alloc = a + 1
          /\ q.pass = p.pass /\ q.pos = p.pos /\ q.flags = p.flags /\ q.status = p.status
          /\ q.length = p.length
      BY <3>3 DEF Took
    <3> HIDE DEF q
    <3>7. /\ Len(q.nodes) = Len(p.nodes) /\ DOMAIN q.nodes = DOMAIN p.nodes
          /\ q.nodes[a] = n /\ \A i \in DOMAIN p.nodes : i # a => q.nodes[i] = p.nodes[i]
      BY <3>1, <3>4, ExceptFacts DEF Taking, Core, Tree
    <3>8. Count(q) = c
      BY <2>2, <3>1, <3>6, <1>2 DEF Count
    <3>9. Held(q.nodes[c]) = new
      BY <2>2, <3>1, <3>5, <3>7 DEF Held
    <3>10. Counted(q) = Counted(p)
      <4>1. \A i \in DOMAIN p.nodes :
               /\ Kind(q.nodes[i].type) = Kind(p.nodes[i].type)
               /\ q.nodes[i].parent = p.nodes[i].parent
        BY <3>5, <3>7
      <4>2. ASSUME NEW i \in DOMAIN p.nodes
            PROVE  (IF i < q.alloc THEN q.nodes[i].room
                    ELSE <<q.nodes[i].length, q.nodes[i].bytes>>)
                   = (IF i < p.alloc THEN p.nodes[i].room
                      ELSE <<p.nodes[i].length, p.nodes[i].bytes>>)
        <5>1. CASE i = a
          <6>1. q.nodes[i].room = <<p.nodes[i].length, p.nodes[i].bytes>>
            BY <5>1, <3>5, <3>7
          <6>2. i < q.alloc /\ ~(i < p.alloc)
            BY <5>1, <3>1, <3>6, <1>2
          <6> QED
            BY <6>1, <6>2
        <5>2. CASE i # a
          <6>1. q.nodes[i] = p.nodes[i] /\ (i < q.alloc <=> i < p.alloc)
            BY <5>2, <3>1, <3>6, <3>7, <1>2
          <6> QED
            BY <6>1
        <5> QED
          BY <5>1, <5>2
      <4> QED
        BY <3>7, <4>1, <4>2 DEF Counted
    <3>11. Count(p) < a /\ \A i \in 1 .. Count(p) : i \in DOMAIN p.nodes /\ i # a
      BY <1>2, <3>1
    <3>12. \A i \in 1 .. Count(p) : q.nodes[i] = p.nodes[i]
      BY <3>7, <3>11
    <3>13. Count(q) <= Len(q.nodes)
      BY <1>2, <3>1, <3>7, <3>8
    <3>14. Linked(q)
      BY <2>2, <3>3, NewLinked DEF Taking
    <3> HIDE DEF new, c
    <3> QED
      BY <3>1, <3>6, <3>8, <3>9, <3>10, <3>12, <3>13, <3>14
  <2> QED
    BY <1>1, <2>1, <2>2
<1> HIDE DEF q
<1>4. Taking(q)
  BY <1>1, <1>2, <1>3 DEF Taking
<1>5. [i \in 1 .. Count(q) |-> Held(q.nodes[i])]
      = [i \in 1 .. c |-> IF i = c THEN new ELSE View(p).nodes[i]]
  <2>1. \A i \in 1 .. c : i # c => i \in 1 .. Count(p)
    BY <1>2
  <2>2. \A i \in 1 .. c : Held(q.nodes[i]) = IF i = c THEN new ELSE View(p).nodes[i]
    <3>1. \A i \in 1 .. Count(p) : View(p).nodes[i] = Held(p.nodes[i])
      BY ViewFields
    <3> HIDE DEF new, c
    <3> QED
      BY <1>3, <2>1, <3>1
  <2> HIDE DEF new, c
  <2> QED
    BY <1>3, <2>2
<1>6. View(q) = VNew(View(p), Kind(type))
  <2>1. VNew(View(p), Kind(type)) =
          V(p.status, p.pos, FlagsOf(p), c, p.length, c,
            [i \in 1 .. c |-> IF i = c THEN new ELSE View(p).nodes[i]])
    BY ViewFields DEF VNew
  <2>2. View(q) = V(q.status, q.pos, FlagsOf(q), q.top, q.length,
                    Count(q), [i \in 1 .. Count(q) |-> Held(q.nodes[i])])
    BY DEF View
  <2>3. FlagsOf(q) = FlagsOf(p)
    BY <1>3 DEF FlagsOf
  <2> HIDE DEF new, c
  <2> QED
    BY <1>3, <1>5, <2>1, <2>2, <2>3
<1> QED
  BY <1>3, <1>4, <1>6 DEF Shows, q

\* The operators on the view of a parser.
LEMMA OnViews ==
    ASSUME NEW p, NEW x
    PROVE  /\ VFlags(View(p), x) =
                V(p.status, p.pos, x, p.top, p.length, Count(p), View(p).nodes)
           /\ VText(View(p), x) =
                V(p.status, p.pos, FlagsOf(p), p.top, x, Count(p), View(p).nodes)
           /\ VAt(View(p), x) =
                V(p.status, x, FlagsOf(p), p.top, p.length, Count(p), View(p).nodes)
<1>1. /\ View(p).status = p.status /\ View(p).pos = p.pos /\ View(p).top = p.top
      /\ View(p).flags = FlagsOf(p) /\ View(p).length = p.length
      /\ View(p).count = Count(p)
  BY ViewFields
<1> QED
  BY <1>1 DEF VFlags, VText, VAt

LEMMA BeginStringView ==
    ASSUME NEW p, Taking(p)
    PROVE  Shows(p, BeginString(p), VBeginString(View(p)))
<1> DEFINE f == On(p, {"string"})
           q == BeginString(p)
<1>1. Shows(p, f, VOn(View(p), {"string"}))
  <2>1. {"string"} \ NumberFlags = {"string"}
    BY DEF NumberFlags
  <2> QED
    BY <2>1, FlagsView
<1>2. q = [f EXCEPT !.string = <<>>, !.length = 0]
  BY DEF BeginString
<1> HIDE DEF f, q
<1>3. /\ Alike(f, q) /\ q.status = f.status /\ q.pos = f.pos /\ q.flags = f.flags
      /\ q.length = 0 /\ q.top = f.top
  BY <1>1, <1>2 DEF Shows, Alike, Taking, Core, IsRecord, Fields
<1>4. View(q) = VText(View(f), 0)
  <2>1. View(q) = V(q.status, q.pos, FlagsOf(q), q.top, q.length,
                    Count(f), View(f).nodes)
    BY <1>1, <1>3, AlikeView DEF Shows
  <2>2. FlagsOf(q) = FlagsOf(f)
    BY <1>3 DEF FlagsOf
  <2> QED
    BY <1>3, <2>1, <2>2, OnViews
<1>5. Taking(q) /\ Counted(q) = Counted(f) /\ q.pass = f.pass
  BY <1>1, <1>3, AlikeView DEF Shows, Alike
<1> QED
  BY <1>1, <1>3, <1>4, <1>5 DEF VBeginString, Shows, q

LEMMA StringAddView ==
    ASSUME NEW p, Taking(p), NEW b
    PROVE  Shows(p, StringAdd(p, b), VStringAdd(View(p), b))
<1> DEFINE q == StringAdd(p, b)
<1>1. /\ Alike(p, q) /\ q.status = p.status /\ q.pos = p.pos /\ q.flags = p.flags
      /\ q.length = p.length + Bytes(b) /\ q.top = p.top
  BY DEF StringAdd, Alike, Taking, Core, IsRecord, Fields
<1> HIDE DEF q
<1>2. View(q) = VStringAdd(View(p), b)
  <2>1. View(q) = V(q.status, q.pos, FlagsOf(q), q.top, q.length,
                    Count(p), View(p).nodes)
    BY <1>1, AlikeView
  <2>2. View(p).length = p.length
    BY ViewFields
  <2>3. VText(View(p), q.length) =
          V(p.status, p.pos, FlagsOf(p), p.top, q.length, Count(p), View(p).nodes)
    BY OnViews
  <2>4. FlagsOf(q) = FlagsOf(p)
    BY <1>1 DEF FlagsOf
  <2> QED
    BY <1>1, <2>1, <2>2, <2>3, <2>4 DEF VStringAdd
<1>3. Taking(q) /\ Counted(q) = Counted(p) /\ q.pass = p.pass
  BY <1>1, AlikeView DEF Alike
<1> QED
  BY <1>2, <1>3 DEF Shows, q

LEMMA EndStringView ==
    ASSUME NEW p, Taking(p), p.top # 0
    PROVE  Shows(p, EndString(p), VEndString(View(p)))
<1> DEFINE q == EndString(p)
           old == p.nodes[p.top]
           held == View(p).nodes[p.top]
<1>1. /\ p.top \in DOMAIN p.nodes /\ p.top \in 1 .. Count(p) /\ Count(p) \in Nat
      /\ IsRecord(old, NodeFields)
  BY TakingFacts
<1>2. /\ held = HeldNode(Kind(old.type), old.parent, old.length, old.bytes)
      /\ held.type = Kind(old.type) /\ held.parent = old.parent
      /\ held.length = old.length /\ held.bytes = old.bytes
  <2>1. View(p).nodes = [i \in 1 .. Count(p) |-> Held(p.nodes[i])]
    BY ViewFields
  <2>2. held = Held(old)
    BY <1>1, <2>1
  <2> QED
    BY <2>2 DEF Held, HeldNode
<1>3. Core(q) /\ q.top = p.top /\ q.pos = p.pos /\ q.status = p.status
  BY EndStringCore DEF Taking, Stays
<1>4. Kind(old.type) = "string" <=> old.type = "string"
  BY DEF Kind
<1>5. ASSUME NEW n, Changed(p, q, p.top, n), SamePlace(old, n)
      PROVE  /\ Taking(q) /\ (p.pass = 2 => Counted(q) = Counted(p))
             /\ View(q) = ViewWith(p, q, p.top, n)
  <2> HIDE DEF q, held
  <2>1. /\ Count(q) = Count(p) /\ Len(q.nodes) = Len(p.nodes)
        /\ p.pass = 2 => Counted(q) = Counted(p)
        /\ View(q) = ViewWith(p, q, p.top, n)
    BY <1>1, <1>5, NodeView
  <2>2. /\ q.pass = p.pass /\ q.alloc = p.alloc /\ q.nodes = [p.nodes EXCEPT ![p.top] = n]
    BY <1>5 DEF Changed
  <2>3. /\ DOMAIN q.nodes = DOMAIN p.nodes /\ q.nodes[p.top] = n
        /\ \A i \in DOMAIN p.nodes : i # p.top => q.nodes[i] = p.nodes[i]
    BY <1>1, <2>2, ExceptFacts DEF Taking, Core, Tree
  <2>4. \A i \in DOMAIN p.nodes : SamePlace(p.nodes[i], p.nodes[i])
    BY DEF SamePlace
  <2>5. \A i \in DOMAIN p.nodes : SamePlace(p.nodes[i], q.nodes[i])
    BY <1>5, <2>3, <2>4
  <2>6. Linked(q)
    BY <1>3, <2>2, <2>3, <2>5, TakingFacts, SameLinked DEF Taking
  <2> QED
    BY <1>3, <2>1, <2>6 DEF Taking
<1>6. CASE old.type = "string"
  <2> DEFINE n == [old EXCEPT !.length = p.length, !.items = p.string]
             changed == [p.nodes EXCEPT ![p.top].length = p.length, ![p.top].items = p.string]
  <2>1. changed = [p.nodes EXCEPT ![p.top] = n]
    BY <1>1 DEF IsRecord, NodeFields
  <2>2. /\ IsRecord(n, NodeFields) /\ n.parent = old.parent /\ n.type = "string"
        /\ n.room = old.room /\ n.length = p.length /\ n.bytes = old.bytes
    BY <1>1, <1>6 DEF IsRecord, NodeFields
  <2>3. SamePlace(old, n)
    <3> HIDE DEF n
    <3> QED
      BY <1>6, <2>2 DEF SamePlace, Containers
  <2>4. /\ q.nodes = changed /\ q.pass = p.pass /\ q.alloc = p.alloc /\ q.length = p.length
        /\ q.flags = (p.flags \ {"string"}) \cup {"next"}
    BY <1>6 DEF EndString, Taking, Core, IsRecord, Fields
  <2> HIDE DEF q, n, changed
  <2>5. Changed(p, q, p.top, n)
    BY <1>6, <2>1, <2>2, <2>4 DEF Changed
  <2>6. Held(n) = HeldNode("string", held.parent, p.length, held.bytes)
    BY <1>2, <2>2 DEF Held, Kind
  <2>7. FlagsOf(q) = ((FlagsOf(p)) \ {"string"}) \cup {"next"}
    BY <2>4 DEF NumberFlags, FlagsOf
  <2> HIDE DEF held
  <2>8. View(q) = VEndString(View(p))
    <3>1. VEndString(View(p)) =
            V(p.status, p.pos, FlagsOf(q), p.top, p.length, Count(p),
              Put(View(p).nodes, p.top, Held(n)))
      BY <1>2, <1>4, <1>6, <2>6, <2>7, ViewFields DEF VEndString, held
    <3> QED
      BY <1>3, <1>5, <2>4, <2>5, <2>3, <3>1 DEF ViewWith
  <2> QED
    BY <1>5, <2>4, <2>5, <2>8, <2>3 DEF Shows, q
<1>7. CASE old.type # "string"
  <2> DEFINE n == [old EXCEPT !.bytes = @ + p.length + 1, !.name = p.string]
             changed == [p.nodes EXCEPT ![p.top].bytes = @ + p.length + 1,
                                        ![p.top].name = p.string]
  <2>1. changed = [p.nodes EXCEPT ![p.top] = n]
    BY <1>1 DEF IsRecord, NodeFields
  <2>2. /\ IsRecord(n, NodeFields) /\ n.parent = old.parent /\ n.type = old.type
        /\ n.room = old.room /\ n.length = old.length /\ n.bytes = old.bytes + p.length + 1
        /\ n.items = old.items
    BY <1>1 DEF IsRecord, NodeFields
  <2>3. SamePlace(old, n)
    <3> HIDE DEF n
    <3> QED
      BY <2>2 DEF SamePlace
  <2>4. /\ q.nodes = changed /\ q.pass = p.pass /\ q.alloc = p.alloc /\ q.length = p.length
        /\ q.flags = (p.flags \ {"string"}) \cup {"seek_value", "need_colon"}
    BY <1>7 DEF EndString, Taking, Core, IsRecord, Fields
  <2> HIDE DEF q, n, changed
  <2>5. Changed(p, q, p.top, n)
    BY <1>7, <2>1, <2>2, <2>4 DEF Changed
  <2>6. Held(n) = HeldNode(held.type, held.parent, held.length, held.bytes + p.length + 1)
    BY <1>2, <2>2 DEF Held
  <2>7. FlagsOf(q)
        = ((FlagsOf(p)) \ {"string"}) \cup {"seek_value", "need_colon"}
    BY <2>4 DEF NumberFlags, FlagsOf
  <2> HIDE DEF held
  <2>8. View(q) = VEndString(View(p))
    <3>1. VEndString(View(p)) =
            V(p.status, p.pos, FlagsOf(q), p.top, p.length, Count(p),
              Put(View(p).nodes, p.top, Held(n)))
      BY <1>2, <1>4, <1>7, <2>6, <2>7, ViewFields DEF VEndString, held
    <3> QED
      BY <1>3, <1>5, <2>4, <2>5, <2>3, <3>1 DEF ViewWith
  <2> QED
    BY <1>5, <2>4, <2>5, <2>8, <2>3 DEF Shows, q
<1> QED
  BY <1>6, <1>7

LEMMA CompleteView ==
    ASSUME NEW p, Taking(p), p.top # 0
    PROVE  Shows(p, Complete(p), VComplete(View(p)))
<1> DEFINE parent == p.nodes[p.top].parent
           held == View(p).nodes[parent]
           without == Off(p, {"next"})
           done == On(without, {"need_comma"})
           vdone == VOn(VOff(View(p), {"next"}), {"need_comma"})
           q == Complete(p)
<1>1. /\ p.top \in 1 .. Count(p) /\ Count(p) \in Nat /\ parent \in 0 .. p.top - 1
  BY TakingFacts
<1>2. /\ \A i \in 1 .. Count(p) : View(p).nodes[i] = Held(p.nodes[i])
      /\ View(p).top = p.top
  BY ViewFields
<1>3. View(p).nodes[View(p).top].parent = parent
  <2>1. View(p).nodes[View(p).top] = Held(p.nodes[p.top])
    BY <1>1, <1>2
  <2> QED
    BY <2>1 DEF Held, HeldNode
<1>4. {"next"} \ NumberFlags = {"next"} /\ {"need_comma"} \ NumberFlags = {"need_comma"}
      /\ {"done"} \ NumberFlags = {"done"}
  BY DEF NumberFlags
<1>5. CASE parent = 0
  <2>1. Shows(p, without, VOff(View(p), {"next"}))
    BY <1>4, FlagsView
  <2> HIDE DEF without
  <2>2. Shows(without, done, VOn(View(without), {"need_comma"})) 
    BY <1>4, <2>1, FlagsView DEF Shows
  <2>3. Shows(p, done, vdone)
    BY <2>1, <2>2 DEF Shows
  <2> HIDE DEF done, vdone
  <2>4. Shows(done, On(done, {"done"}), VOn(View(done), {"done"}))
    BY <1>4, <2>3, FlagsView DEF Shows
  <2>5. q = On(done, {"done"})
    BY <1>5 DEF Complete, done, without
  <2>6. VComplete(View(p)) = VOn(vdone, {"done"})
    BY <1>3, <1>5 DEF VComplete, vdone
  <2>7. View(done) = vdone
    BY <2>3 DEF Shows
  <2>8. Shows(p, On(done, {"done"}), VOn(vdone, {"done"}))
    BY <2>3, <2>4, <2>7, ShowsThen
  <2> QED
    BY <2>5, <2>6, <2>8 DEF q
<1>6. CASE parent # 0
  <2> DEFINE more == IF held.type = "array" THEN {"seek_value"} ELSE {}
             w == VComplete(View(p))
             to == HeldNode(held.type, held.parent, held.length + 1, held.bytes)
  <2>1. PICK n : Entered(p, q, n)
    BY <1>6, CompleteEnters DEF Taking
  <2>2. Core(q)
    BY <1>6, CompleteCore DEF Taking
  <2>3. parent \in 1 .. Count(p) /\ held = Held(p.nodes[parent])
    BY <1>1, <1>2, <1>6
  <2>4. held.type = "array" <=> p.nodes[parent].type = "array"
    <3>1. held.type = Kind(p.nodes[parent].type)
      BY <2>3 DEF Held, HeldNode
    <3> HIDE DEF held
    <3> QED
      BY <3>1 DEF Kind
  <2> HIDE DEF q
  <2>5. /\ q.top = parent /\ q.pass = p.pass /\ q.alloc = p.alloc /\ q.pos = p.pos
        /\ q.status = p.status /\ q.length = p.length
        /\ q.flags = ((p.flags \ {"next"}) \cup {"need_comma"}) \cup more
    BY <2>1, <2>4 DEF Entered
  <2>6. Changed(p, q, parent, n)
    BY <2>1 DEF Entered, Changed
  <2>7. to = Held(n)
    <3>1. /\ n.type = p.nodes[parent].type /\ n.parent = p.nodes[parent].parent
          /\ n.length = p.nodes[parent].length + 1 /\ n.bytes = p.nodes[parent].bytes
      BY <2>1 DEF Entered
    <3> HIDE DEF held
    <3> QED
      BY <2>3, <3>1 DEF Held, HeldNode
  <2>8. w = V(p.status, p.pos, vdone.flags \cup more, parent, p.length, Count(p),
              Put(View(p).nodes, parent, to))
    <3>1. VComplete(View(p)) =
            V(View(p).status, View(p).pos, vdone.flags \cup more, parent, View(p).length,
              View(p).count, Put(View(p).nodes, parent, to))
      BY <1>3, <1>6 DEF VComplete
    <3> HIDE DEF more, to, parent, vdone
    <3> QED
      BY <3>1, ViewFields
  <2>9. vdone.flags \cup more = FlagsOf(q)
    <3>1. vdone.flags = (FlagsOf(p) \ {"next"}) \cup {"need_comma"}
      BY ViewFields DEF VOn, VOff, VFlags, V
    <3>2. more \cap NumberFlags = {}
      BY DEF NumberFlags
    <3> HIDE DEF more, vdone
    <3> QED
      BY <1>4, <2>5, <3>1, <3>2 DEF FlagsOf
  <2> HIDE DEF w, to, more, vdone, held, parent
  <2>10. /\ Count(q) = Count(p) /\ Len(q.nodes) = Len(p.nodes)
         /\ p.pass = 2 => Counted(q) = Counted(p)
         /\ View(q) = ViewWith(p, q, parent, n)
    BY <2>3, <2>6, NodeView
  <2>11. View(q) = w
    BY <2>5, <2>7, <2>8, <2>9, <2>10 DEF ViewWith
  <2>12. Linked(q)
    <3>1. CASE p.pass = 1
      BY <1>6, <2>1, <2>2, <3>1, FirstCompleteLinked DEF Taking, parent
    <3>2. CASE p.pass = 2
      BY <1>6, <2>1, <3>2, TakingFacts, CompleteLinked DEF Taking, parent
    <3> QED
      BY <3>1, <3>2 DEF Taking, Core
  <2>13. Taking(q)
    BY <1>1, <2>2, <2>3, <2>5, <2>10, <2>12 DEF Taking
  <2> QED
    BY <2>5, <2>10, <2>11, <2>13 DEF Shows, w, q
<1> QED
  BY <1>5, <1>6

\* The next token, or this one again.
Gone(p) ==
    LET q == IF "reproc" \in p.flags THEN Off(p, {"reproc"}) ELSE [p EXCEPT !.pos = @ + 1]
    IN  IF "next" \in q.flags THEN Complete(q) ELSE q

LEMMA GoView ==
    ASSUME NEW p, Taking(p), p.top # 0 \/ "next" \notin p.flags
    PROVE  Shows(p, Gone(p), VGo(View(p)))
<1> DEFINE q == IF "reproc" \in p.flags THEN Off(p, {"reproc"}) ELSE [p EXCEPT !.pos = @ + 1]
           w == IF "reproc" \in View(p).flags THEN VOff(View(p), {"reproc"})
                ELSE VAt(View(p), View(p).pos + 1)
<1>1. /\ "reproc" \in p.flags <=> "reproc" \in View(p).flags
      /\ {"reproc"} \ NumberFlags = {"reproc"}
  BY ViewFields DEF NumberFlags, FlagsOf
<1>2. Shows(p, q, w) /\ q.top = p.top /\ ("next" \in q.flags <=> "next" \in p.flags)
  <2>1. CASE "reproc" \in p.flags
    <3>1. Shows(p, Off(p, {"reproc"}), VOff(View(p), {"reproc"}))
      BY <1>1, FlagsView
    <3>2. Off(p, {"reproc"}).top = p.top /\ Off(p, {"reproc"}).flags = p.flags \ {"reproc"}
      BY FlagsCore DEF Taking
    <3> QED
      BY <2>1, <1>1, <3>1, <3>2
  <2>2. CASE "reproc" \notin p.flags
    <3> DEFINE r == [p EXCEPT !.pos = @ + 1]
    <3>1. /\ Alike(p, r) /\ r.flags = p.flags /\ r.pos = p.pos + 1 /\ r.status = p.status
          /\ r.length = p.length
      BY DEF Alike, Taking, Core, IsRecord, Fields
    <3> HIDE DEF r
    <3>2. /\ Taking(r) /\ Counted(r) = Counted(p)
          /\ View(r) = V(r.status, r.pos, FlagsOf(r), r.top, r.length, Count(p), View(p).nodes)
      BY <3>1, AlikeView
    <3>3. FlagsOf(r) = FlagsOf(p) /\ r.top = p.top /\ r.pass = p.pass
      BY <3>1 DEF FlagsOf, Alike
    <3>4. View(r) = VAt(View(p), r.pos)
      BY <3>1, <3>2, <3>3, OnViews
    <3>5. Shows(p, r, VAt(View(p), View(p).pos + 1))
      BY <3>1, <3>2, <3>3, <3>4, ViewFields DEF Shows
    <3> QED
      BY <2>2, <1>1, <3>1, <3>3, <3>5 DEF r
  <2> QED
    BY <2>1, <2>2
<1>3. Gone(p) = (IF "next" \in q.flags THEN Complete(q) ELSE q)
  BY DEF Gone
<1>4. VGo(View(p)) = (IF "next" \in w.flags THEN VComplete(w) ELSE w)
  BY DEF VGo
<1> HIDE DEF q, w
<1>5. Taking(q) /\ View(q) = w /\ ("next" \in q.flags <=> "next" \in w.flags)
  BY <1>2, ViewFields DEF Shows, NumberFlags, FlagsOf
<1>6. CASE "next" \in q.flags
  <2>1. Shows(q, Complete(q), VComplete(w))
    BY <1>2, <1>5, <1>6, CompleteView
  <2> QED
    BY <1>2, <1>3, <1>4, <1>5, <1>6, <2>1, ShowsThen
<1>7. CASE "next" \notin q.flags
  BY <1>2, <1>3, <1>4, <1>5, <1>7
<1> QED
  BY <1>6, <1>7

-----------------------------------------------------------------------------
(* What a step shows *)

\* The tree of the first pass has the nodes of the view w.
Matches(p, w) ==
    p.pass = 2 => \A i \in 1 .. w.count :
        /\ i \in DOMAIN Counted(p)
        /\ Counted(p)[i].type = w.nodes[i].type
        /\ Counted(p)[i].parent = w.nodes[i].parent

LEMMA FlagFacts ==
    ASSUME NEW p, NEW f, f \notin NumberFlags
    PROVE  f \in View(p).flags <=> f \in p.flags
BY ViewFields DEF FlagsOf

LEMMA OnShows ==
    ASSUME NEW p, NEW q, NEW w, Shows(p, q, w), NEW fs, fs \cap NumberFlags = {}
    PROVE  Shows(p, On(q, fs), VOn(w, fs)) /\ Shows(p, Off(q, fs), VOff(w, fs))
<1>1. Taking(q) /\ View(q) = w /\ fs \ NumberFlags = fs
  BY DEF Shows
<1>2. Shows(q, On(q, fs), VOn(w, fs)) /\ Shows(q, Off(q, fs), VOff(w, fs))
  BY <1>1, FlagsView
<1> QED
  BY <1>2, ShowsThen

LEMMA StringShows ==
    ASSUME NEW p, NEW q, NEW w, Shows(p, q, w)
    PROVE  /\ Shows(p, BeginString(q), VBeginString(w))
           /\ \A b : Shows(p, StringAdd(q, b), VStringAdd(w, b))
           /\ w.top # 0 => Shows(p, EndString(q), VEndString(w))
<1>1. Taking(q) /\ View(q) = w /\ w.top = q.top
  BY ViewFields DEF Shows
<1>2. Shows(p, BeginString(q), VBeginString(w))
  BY <1>1, BeginStringView, ShowsThen
<1>3. ASSUME NEW b PROVE Shows(p, StringAdd(q, b), VStringAdd(w, b))
  BY <1>1, StringAddView, ShowsThen
<1>4. w.top # 0 => Shows(p, EndString(q), VEndString(w))
  BY <1>1, EndStringView, ShowsThen
<1> QED
  BY <1>2, <1>3, <1>4

LEMMA NewShows ==
    ASSUME NEW p, NEW q, NEW w, Shows(p, q, w), NEW type, Matches(p, VNew(w, Kind(type))),
           w.top # 0 => w.nodes[w.top].type \in {"array", "object"}
    PROVE  Shows(p, New(q, type), VNew(w, Kind(type)))
<1> DEFINE x == VNew(w, Kind(type))
           c == w.count + 1
<1>1. Taking(q) /\ View(q) = w
  BY DEF Shows
<1>2. w.count = Count(q) /\ w.top = q.top /\ Count(q) \in Nat
  BY <1>1, ViewFields, TakingFacts
<1>3. x.count = c /\ x.nodes[c] = HeldNode(Kind(type), w.top, 0, 0)
  <2>1. x.nodes = [i \in 1 .. c |-> IF i = c THEN HeldNode(Kind(type), w.top, 0, 0)
                                    ELSE w.nodes[i]] /\ x.count = c
    BY DEF VNew, V
  <2>2. c \in 1 .. c
    BY <1>2
  <2> QED
    BY <2>1, <2>2
<1>4. q.pass = 2 => /\ q.alloc <= Len(q.nodes) /\ q.nodes[q.alloc].parent = q.top
                    /\ Kind(q.nodes[q.alloc].type) = Kind(type)
  <2> SUFFICES ASSUME q.pass = 2
               PROVE  /\ q.alloc <= Len(q.nodes) /\ q.nodes[q.alloc].parent = q.top
                      /\ Kind(q.nodes[q.alloc].type) = Kind(type)
    OBVIOUS
  <2>1. p.pass = 2 /\ Counted(q) = Counted(p)
    BY DEF Shows
  <2>2. c \in 1 .. c /\ c = q.alloc
    BY <1>1, <1>2, TakingFacts DEF Taking, Core
  <2> HIDE DEF x, c
  <2>3. /\ c \in DOMAIN Counted(q) /\ Counted(q)[c].type = Kind(type)
        /\ Counted(q)[c].parent = q.top
    BY <1>2, <1>3, <2>1, <2>2 DEF Matches, HeldNode, x
  <2>4. c \in DOMAIN q.nodes /\ Counted(q)[c].type = Kind(q.nodes[c].type)
        /\ Counted(q)[c].parent = q.nodes[c].parent
    BY <2>3 DEF Counted
  <2>5. DOMAIN q.nodes = 1 .. Len(q.nodes) /\ Len(q.nodes) \in Nat
    BY <1>1, TakingFacts
  <2> QED
    BY <2>2, <2>3, <2>4, <2>5
<1>5. q.top # 0 => q.nodes[q.top].type \in Containers
  <2> SUFFICES ASSUME q.top # 0 PROVE q.nodes[q.top].type \in Containers
    OBVIOUS
  <2>1. q.top \in 1 .. Count(q)
    BY <1>1, TakingFacts
  <2>2. w.nodes[q.top] = Held(q.nodes[q.top])
    BY <1>1, <2>1, ViewFields
  <2>3. Kind(q.nodes[q.top].type) \in {"array", "object"}
    BY <1>2, <2>2 DEF Held, HeldNode
  <2> QED
    BY <2>3 DEF Kind, Containers
<1> HIDE DEF x, c
<1>6. Shows(q, New(q, type), VNew(w, Kind(type)))
  BY <1>1, <1>4, <1>5, NewView
<1> QED
  BY <1>6, ShowsThen

LEMMA GoShows ==
    ASSUME NEW q, NEW w, Shows(parser, q, w), w.top # 0 \/ "next" \notin w.flags, Go(q)
    PROVE  Shows(parser, parser', VGo(w))
<1>1. Taking(q) /\ View(q) = w
  BY DEF Shows
<1>2. q.top # 0 \/ "next" \notin q.flags
  BY <1>1, ViewFields, FlagFacts DEF NumberFlags
<1>3. parser' = Gone(q)
  BY DEF Go, Gone
<1>4. Shows(q, Gone(q), VGo(w))
  BY <1>1, <1>2, GoView
<1> QED
  BY <1>3, <1>4, ShowsThen

LEMMA FailShows ==
    ASSUME Taking(parser), Fail
    PROVE  Shows(parser, parser', VFail(View(parser)))
<1> DEFINE p == parser
           q == [p EXCEPT !.status = "failed"]
<1>1. IsRecord(p, Fields)
  BY DEF Taking, Core
<1>2. /\ Alike(p, q) /\ q.pos = p.pos /\ q.flags = p.flags /\ q.length = p.length
      /\ q.status = "failed" /\ q.top = p.top /\ q.pass = p.pass
  BY <1>1 DEF Alike, IsRecord, Fields
<1>3. parser' = q
  BY DEF Fail
<1> HIDE DEF q
<1>4. /\ Taking(q) /\ Counted(q) = Counted(p)
      /\ View(q) = V(q.status, q.pos, FlagsOf(q), q.top, q.length, Count(p), View(p).nodes)
  BY <1>2, AlikeView
<1>5. View(q) = VFail(View(p))
  BY <1>2, <1>4, ViewFields DEF VFail, FlagsOf
<1> QED
  BY <1>2, <1>3, <1>4, <1>5 DEF Shows

LEMMA SelfShows == ASSUME NEW p, Taking(p) PROVE Shows(p, p, View(p))
BY DEF Shows

\* Going on does not change the tree.
LEMMA MatchesGo ==
    ASSUME NEW p, NEW w, DOMAIN w.nodes = 1 .. w.count, Matches(p, VGo(w))
    PROVE  Matches(p, w)
<1> DEFINE u == IF "reproc" \in w.flags THEN VOff(w, {"reproc"}) ELSE VAt(w, w.pos + 1)
           parent == u.nodes[u.top].parent
           x == VGo(w)
<1>1. u.count = w.count /\ u.nodes = w.nodes
  BY DEF VOff, VFlags, VAt, V
<1> HIDE DEF u
<1>2. x = (IF "next" \in u.flags THEN VComplete(u) ELSE u)
  BY DEF VGo, u
<1>3. /\ VComplete(u).count = u.count
      /\ \/ VComplete(u).nodes = u.nodes
         \/ VComplete(u).nodes =
              Put(u.nodes, parent,
                  HeldNode(u.nodes[parent].type, u.nodes[parent].parent,
                           u.nodes[parent].length + 1, u.nodes[parent].bytes))
  BY DEF VComplete, VOn, VOff, VFlags, V
<1>4. ASSUME NEW i \in 1 .. w.count
      PROVE  x.nodes[i].type = w.nodes[i].type /\ x.nodes[i].parent = w.nodes[i].parent
  <2> DEFINE n == HeldNode(u.nodes[parent].type, u.nodes[parent].parent,
                           u.nodes[parent].length + 1, u.nodes[parent].bytes)
  <2>1. n.type = u.nodes[parent].type /\ n.parent = u.nodes[parent].parent
    BY DEF HeldNode
  <2>2. x.nodes = u.nodes \/ x.nodes = Put(u.nodes, parent, n)
    BY <1>2, <1>3
  <2> HIDE DEF n, x, parent
  <2>3. i \in DOMAIN u.nodes
    BY <1>1, <1>4
  <2>4. x.nodes[i] = u.nodes[i] \/ (i = parent /\ x.nodes[i] = n)
    BY <2>2, <2>3 DEF Put
  <2> QED
    BY <1>1, <2>1, <2>4
<1>5. x.count = w.count
  BY <1>1, <1>2, <1>3
<1> HIDE DEF x
<1> QED
  BY <1>4, <1>5 DEF Matches, x

\* What the flags of a sound view allow.
LEMMA SoundFlags ==
    ASSUME NEW v, Sound(v)
    PROVE  /\ "next" \notin v.flags /\ "reproc" \notin v.flags
           /\ "string" \in v.flags \/ "done" \in v.flags => v.top # 0
           /\ "seek_value" \notin v.flags => v.top # 0
BY DEF Sound, Placed, Flagged

LEMMA NewTops ==
    ASSUME NEW v, v.count \in Nat, NEW type
    PROVE  /\ VNew(v, type).top # 0 /\ DOMAIN VNew(v, type).nodes = 1 .. VNew(v, type).count
           /\ VNew(v, type).flags = v.flags
           /\ \A fs : /\ VOn(v, fs).flags = v.flags \cup fs /\ VOff(v, fs).flags = v.flags \ fs
                      /\ VOn(v, fs).top = v.top /\ VOff(v, fs).top = v.top
                      /\ VOn(v, fs).nodes = v.nodes /\ VOff(v, fs).nodes = v.nodes
                      /\ VOn(v, fs).count = v.count /\ VOff(v, fs).count = v.count
           /\ VBeginString(v).top = v.top /\ VBeginString(v).flags = v.flags \cup {"string"}
           /\ VBeginString(v).nodes = v.nodes /\ VBeginString(v).count = v.count
           /\ \A b : VStringAdd(v, b).flags = v.flags /\ VStringAdd(v, b).top = v.top
           /\ VEndString(v).top = v.top
<1>1. /\ VNew(v, type).top = v.count + 1 /\ VNew(v, type).count = v.count + 1
      /\ DOMAIN VNew(v, type).nodes = 1 .. v.count + 1 /\ VNew(v, type).flags = v.flags
  BY DEF VNew, V
<1>2. \A fs : /\ VOn(v, fs).flags = v.flags \cup fs /\ VOff(v, fs).flags = v.flags \ fs
              /\ VOn(v, fs).top = v.top /\ VOff(v, fs).top = v.top
              /\ VOn(v, fs).nodes = v.nodes /\ VOff(v, fs).nodes = v.nodes
              /\ VOn(v, fs).count = v.count /\ VOff(v, fs).count = v.count
  BY DEF VOn, VOff, VFlags, V
<1>3. /\ VBeginString(v).top = v.top /\ VBeginString(v).flags = v.flags \cup {"string"}
      /\ VBeginString(v).nodes = v.nodes /\ VBeginString(v).count = v.count
  BY DEF VBeginString, VText, VOn, VFlags, V
<1>4. \A b : VStringAdd(v, b).flags = v.flags /\ VStringAdd(v, b).top = v.top
  BY DEF VStringAdd, VText, V
<1>5. VEndString(v).top = v.top
  BY DEF VEndString, V
<1> QED
  BY <1>1, <1>2, <1>3, <1>4, <1>5

LEMMA InStringShows ==
    ASSUME Taking(parser), Sound(View(parser)), NEW b, InString(b)
    PROVE  Shows(parser, parser', VStep(View(parser), b))
<1> DEFINE v == View(parser)
           w == VOff(v, {"escaped"})
<1>1. VStep(v, b) = VInString(v, b) /\ Is("string")
  <2>1. "string" \in v.flags /\ Is("string")
    BY FlagFacts DEF InString, Is, NumberFlags
  <2> QED
    BY <2>1 DEF VStep
<1>2. "escaped" \in v.flags <=> Is("escaped")
  BY FlagFacts DEF Is, NumberFlags
<1>3. v.top # 0 /\ "next" \notin v.flags /\ v.count \in Nat
  <2>1. "string" \in v.flags
    BY <1>1, FlagFacts DEF Is, NumberFlags
  <2>2. v.count \in Nat
    BY DEF Sound, Placed, Flagged
  <2> HIDE DEF v
  <2> QED
    BY <2>1, <2>2, SoundFlags DEF v
<1>4. Shows(parser, parser, v)
  BY SelfShows
<1> HIDE DEF v
<1>5. CASE b = End
  BY <1>1, <1>5, FailShows DEF InString, VInString, v
<1>6. CASE b # End /\ Is("escaped") /\ b = "uBad"
  BY <1>1, <1>2, <1>6, FailShows DEF InString, VInString, v
<1>7. CASE b # End /\ Is("escaped") /\ b # "uBad"
  <2> DEFINE q == StringAdd(Off(parser, {"escaped"}), Escaped(b))
             x == VStringAdd(w, Escaped(b))
  <2>1. Shows(parser, Off(parser, {"escaped"}), w)
    BY <1>4, OnShows DEF NumberFlags
  <2> HIDE DEF w
  <2>2. Shows(parser, q, x)
    BY <2>1, StringShows
  <2>3. Go(q)
    BY <1>7 DEF InString
  <2>4. VInString(v, b) = VGo(x)
    BY <1>2, <1>7 DEF VInString, w
  <2>5. x.top # 0
    <3>1. w.top = v.top /\ w.count = v.count
      BY <1>3, NewTops DEF w
    <3> QED
      BY <1>3, <3>1, NewTops
  <2> HIDE DEF q, x
  <2> QED
    BY <1>1, <2>2, <2>3, <2>4, <2>5, GoShows DEF v
<1>8. CASE b # End /\ ~Is("escaped") /\ b = Backslash
  <2>1. Shows(parser, On(parser, {"escaped"}), VOn(v, {"escaped"}))
    BY <1>4, OnShows DEF NumberFlags
  <2>2. Go(On(parser, {"escaped"})) /\ VInString(v, b) = VGo(VOn(v, {"escaped"}))
    BY <1>2, <1>8 DEF InString, VInString, Backslash, Quote
  <2>3. VOn(v, {"escaped"}).top # 0
    BY <1>3, NewTops
  <2> QED
    BY <1>1, <2>1, <2>2, <2>3, GoShows DEF v
<1>9. CASE b # End /\ ~Is("escaped") /\ b = Quote
  <2>1. Shows(parser, EndString(parser), VEndString(v))
    BY <1>3, <1>4, StringShows
  <2>2. Go(EndString(parser)) /\ VInString(v, b) = VGo(VEndString(v))
    BY <1>2, <1>9 DEF InString, VInString, Backslash, Quote
  <2>3. VEndString(v).top # 0
    BY <1>3, NewTops
  <2> QED
    BY <1>1, <2>1, <2>2, <2>3, GoShows DEF v
<1>10. CASE b # End /\ ~Is("escaped") /\ b # Backslash /\ b # Quote
  <2>1. Shows(parser, StringAdd(parser, b), VStringAdd(v, b))
    BY <1>4, StringShows
  <2>2. Go(StringAdd(parser, b)) /\ VInString(v, b) = VGo(VStringAdd(v, b))
    BY <1>2, <1>10 DEF InString, VInString, Backslash, Quote
  <2>3. VStringAdd(v, b).top # 0
    BY <1>3, NewTops
  <2> QED
    BY <1>1, <2>1, <2>2, <2>3, GoShows DEF v
<1> QED
  BY <1>5, <1>6, <1>7, <1>8, <1>9, <1>10

LEMMA AfterRootShows ==
    ASSUME Taking(parser), Sound(View(parser)), NEW b, AfterRoot(b), b # End
    PROVE  Shows(parser, parser', VStep(View(parser), b))
<1> DEFINE v == View(parser)
<1>1. VStep(v, b) = VAfterRoot(v, b)
  <2>1. "string" \notin v.flags /\ "done" \in v.flags
    BY FlagFacts DEF AfterRoot, Is, NumberFlags
  <2> QED
    BY <2>1 DEF VStep
<1>2. "next" \notin v.flags /\ Shows(parser, parser, v)
  BY SoundFlags, SelfShows
<1> HIDE DEF v
<1>3. CASE b = Space
  <2>1. Go(parser) /\ VAfterRoot(v, b) = VGo(v)
    BY <1>3 DEF AfterRoot, VAfterRoot, Space, End
  <2> QED
    BY <1>1, <1>2, <2>1, GoShows DEF v
<1>4. CASE b # Space
  <2>1. Fail /\ VAfterRoot(v, b) = VFail(v)
    BY <1>4 DEF AfterRoot, VAfterRoot
  <2> QED
    BY <1>1, <2>1, FailShows DEF v
<1> QED
  BY <1>3, <1>4

\* Whether a tree matches depends on the nodes of the view.
LEMMA MatchesBefore ==
    ASSUME NEW p, NEW x, DOMAIN x.nodes = 1 .. x.count, NEW y, y.nodes = x.nodes,
           y.count = x.count, Matches(p, VGo(y))
    PROVE  Matches(p, x)
<1>1. Matches(p, y)
  BY MatchesGo
<1> QED
  BY <1>1 DEF Matches

LEMMA AtShows ==
    ASSUME NEW p, NEW q, NEW w, Shows(p, q, w), NEW e
    PROVE  Shows(p, [q EXCEPT !.pos = e], VAt(w, e))
<1> DEFINE r == [q EXCEPT !.pos = e]
<1>1. Taking(q) /\ View(q) = w
  BY DEF Shows
<1>2. /\ Alike(q, r) /\ r.flags = q.flags /\ r.pos = e /\ r.status = q.status
      /\ r.length = q.length
  BY <1>1 DEF Alike, Taking, Core, IsRecord, Fields
<1> HIDE DEF r
<1>3. /\ Taking(r) /\ Counted(r) = Counted(q)
      /\ View(r) = V(r.status, r.pos, FlagsOf(r), r.top, r.length, Count(q), View(q).nodes)
  BY <1>1, <1>2, AlikeView
<1>4. FlagsOf(r) = FlagsOf(q) /\ r.top = q.top /\ r.pass = q.pass
  BY <1>2 DEF FlagsOf, Alike
<1>5. View(r) = VAt(View(q), r.pos)
  BY <1>2, <1>3, <1>4, OnViews
<1>6. Shows(q, r, VAt(w, e))
  BY <1>1, <1>2, <1>3, <1>4, <1>5 DEF Shows
<1> QED
  BY <1>6, ShowsThen DEF r

\* A value that begins here.
VBegun(v, type) == VNew(VOff(v, {"seek_value"}), type)

LEMMA BegunFacts ==
    ASSUME NEW v, v.count \in Nat, NEW type
    PROVE  LET x == VBegun(v, type)
           IN  /\ x.top # 0 /\ DOMAIN x.nodes = 1 .. x.count /\ x.pos = v.pos
               /\ x.flags = v.flags \ {"seek_value"} /\ x.count = v.count + 1
               /\ x.top = v.count + 1 /\ x.status = v.status
<1>1. LET w == VOff(v, {"seek_value"})
      IN  /\ w.count = v.count /\ w.flags = v.flags \ {"seek_value"} /\ w.pos = v.pos
          /\ w.status = v.status
  BY DEF VOff, VFlags, V
<1>2. LET w == VOff(v, {"seek_value"})
      IN  /\ VNew(w, type).pos = w.pos /\ VNew(w, type).count = w.count + 1
          /\ VNew(w, type).flags = w.flags /\ VNew(w, type).top = w.count + 1
          /\ VNew(w, type).status = w.status
          /\ DOMAIN VNew(w, type).nodes = 1 .. w.count + 1
  BY DEF VNew, V
<1> QED
  BY <1>1, <1>2 DEF VBegun

LEMMA BegunShows ==
    ASSUME Taking(parser), Sound(View(parser)), "seek_value" \in View(parser).flags,
           NEW type, type # "double", Matches(parser, VBegun(View(parser), type))
    PROVE  Shows(parser, New(Off(parser, {"seek_value"}), type), VBegun(View(parser), type))
<1> DEFINE q == Off(parser, {"seek_value"})
           w == VOff(View(parser), {"seek_value"})
<1>1. Shows(parser, q, w)
  <2>1. Shows(parser, parser, View(parser))
    BY SelfShows
  <2> QED
    BY <2>1, OnShows DEF NumberFlags
<1>2. VBegun(View(parser), type) = VNew(w, Kind(type))
  BY DEF VBegun, Kind
<1>3. w.top # 0 => w.nodes[w.top].type \in {"array", "object"}
  <2>1. w.top = View(parser).top /\ w.nodes = View(parser).nodes
    BY DEF VOff, VFlags, V
  <2> HIDE DEF w
  <2> QED
    BY <2>1 DEF Sound, Flagged
<1> HIDE DEF q, w
<1> QED
  BY <1>1, <1>2, <1>3, NewShows DEF q

LEMMA ValueBeginsShows ==
    ASSUME Taking(parser), Sound(View(parser)), "seek_value" \in View(parser).flags,
           NEW b, ValueBegins(b),
           b \notin Digits \cup {"-"}, Matches(parser, VValueBegins(View(parser), b))
    PROVE  Shows(parser, parser', VValueBegins(View(parser), b))
<1> DEFINE v == View(parser)
           p == Off(parser, {"seek_value"})
<1>1. v.count \in Nat /\ "next" \notin v.flags
  BY DEF Sound, Placed, Flagged
<1> HIDE DEF v
<1>2. CASE b = "{"
  <2> DEFINE x == VBegun(v, "object")
             q == New(p, "object")
  <2>1. Go(q) /\ VValueBegins(v, b) = VGo(x)
    BY <1>2 DEF ValueBegins, VValueBegins, VBegun, Quote, Literals, Digits, DigitOf
  <2>2. x.top # 0 /\ DOMAIN x.nodes = 1 .. x.count
    BY <1>1, BegunFacts
  <2> HIDE DEF x
  <2>3. Matches(parser, x)
    BY <2>1, <2>2, MatchesGo DEF v
  <2>4. Shows(parser, q, x)
    BY <2>3, BegunShows DEF v, x
  <2> HIDE DEF q
  <2> QED
    BY <2>1, <2>2, <2>4, GoShows DEF v
<1>3. CASE b = "["
  <2> DEFINE x == VBegun(v, "array")
             y == VOn(x, {"seek_value"})
             q == New(p, "array")
             r == On(q, {"seek_value"})
  <2>1. Go(r) /\ VValueBegins(v, b) = VGo(y)
    BY <1>3 DEF ValueBegins, VValueBegins, VBegun, Quote, Literals, Digits, DigitOf
  <2>2. x.top # 0 /\ DOMAIN x.nodes = 1 .. x.count
    BY <1>1, BegunFacts
  <2> HIDE DEF x
  <2>3. y.top = x.top /\ y.nodes = x.nodes /\ y.count = x.count
    BY DEF VOn, VFlags, V
  <2> HIDE DEF y
  <2>4. Matches(parser, x)
    BY <2>1, <2>2, <2>3, MatchesBefore DEF v
  <2>5. Shows(parser, q, x)
    BY <2>4, BegunShows DEF v, x
  <2> HIDE DEF q
  <2>6. Shows(parser, r, y)
    BY <2>5, OnShows DEF NumberFlags, y
  <2> HIDE DEF r
  <2> QED
    BY <2>1, <2>2, <2>3, <2>6, GoShows DEF v
<1>4. CASE b = Quote
  <2> DEFINE x == VBegun(v, "string")
             y == VBeginString(x)
             q == New(p, "string")
             r == BeginString(q)
  <2>1. Go(r) /\ VValueBegins(v, b) = VGo(y)
    BY <1>4 DEF ValueBegins, VValueBegins, VBegun, Quote, Literals, Digits, DigitOf
  <2>2. x.top # 0 /\ DOMAIN x.nodes = 1 .. x.count
    BY <1>1, BegunFacts
  <2> HIDE DEF x
  <2>3. y.top = x.top /\ y.nodes = x.nodes /\ y.count = x.count
    BY DEF VBeginString, VText, VOn, VFlags, V
  <2> HIDE DEF y
  <2>4. Matches(parser, x)
    BY <2>1, <2>2, <2>3, MatchesBefore DEF v
  <2>5. Shows(parser, q, x)
    BY <2>4, BegunShows DEF v, x
  <2> HIDE DEF q
  <2>6. Shows(parser, r, y)
    BY <2>5, StringShows DEF y
  <2> HIDE DEF r
  <2> QED
    BY <2>1, <2>2, <2>3, <2>6, GoShows DEF v
<1>5. CASE b \in Literals
  <2> DEFINE x == VBegun(v, b)
             y == VOn(x, {"next"})
             q == New(p, b)
             r == On(q, {"next"})
  <2>1. Go(r) /\ VValueBegins(v, b) = VGo(y)
    BY <1>5 DEF ValueBegins, VValueBegins, VBegun, Quote, Literals, Digits, DigitOf
  <2>2. x.top # 0 /\ DOMAIN x.nodes = 1 .. x.count
    BY <1>1, BegunFacts
  <2> HIDE DEF x
  <2>3. y.top = x.top /\ y.nodes = x.nodes /\ y.count = x.count
    BY DEF VOn, VFlags, V
  <2> HIDE DEF y
  <2>4. Matches(parser, x)
    BY <2>1, <2>2, <2>3, MatchesBefore DEF v
  <2>5. Shows(parser, q, x)
    BY <1>5, <2>4, BegunShows DEF v, x, Literals
  <2> HIDE DEF q
  <2>6. Shows(parser, r, y)
    BY <2>5, OnShows DEF NumberFlags, y
  <2> HIDE DEF r
  <2> QED
    BY <2>1, <2>2, <2>3, <2>6, GoShows DEF v
<1>6. CASE b \notin {"{", "[", Quote} \cup Literals
  <2>1. Fail /\ VValueBegins(v, b) = VFail(v)
    BY <1>6 DEF ValueBegins, VValueBegins
  <2> QED
    BY <2>1, FailShows DEF v
<1> QED
  BY <1>2, <1>3, <1>4, <1>5, <1>6

LEMMA SeekValueShows ==
    ASSUME Taking(parser), Sound(View(parser)), NEW b, SeekValue(b),
           ~NumberStarts(View(parser), b), Matches(parser, VStep(View(parser), b))
    PROVE  Shows(parser, parser', VStep(View(parser), b))
<1> DEFINE v == View(parser)
<1>1. /\ "string" \notin v.flags /\ "done" \notin v.flags /\ "seek_value" \in v.flags
      /\ Is("need_comma") <=> "need_comma" \in v.flags
      /\ Is("need_colon") <=> "need_colon" \in v.flags
  BY FlagFacts DEF SeekValue, Is, NumberFlags
<1>2. "next" \notin v.flags /\ Shows(parser, parser, v)
  BY SoundFlags, SelfShows
<1>3. /\ v.top = parser.top
      /\ v.top # 0 => (v.nodes[v.top].type = "array" <=> Top.type = "array")
  <2>1. v.top = parser.top /\ v.nodes = [i \in 1 .. Count(parser) |-> Held(parser.nodes[i])]
    BY ViewFields
  <2>2. v.top # 0 => v.top \in 1 .. Count(parser)
    BY <2>1, TakingFacts
  <2> HIDE DEF v
  <2>3. v.top # 0 => v.nodes[v.top].type = Kind(Top.type)
    BY <2>1, <2>2 DEF Held, HeldNode, Top
  <2> QED
    BY <2>1, <2>3 DEF Kind
<1>4. VStep(v, b) = VSeekValue(v, b)
  BY <1>1 DEF VStep
<1> HIDE DEF v
<1>5. CASE b = Space
  <2>1. Go(parser) /\ VSeekValue(v, b) = VGo(v)
    BY <1>5 DEF SeekValue, VSeekValue, Space
  <2> QED
    BY <1>2, <1>4, <2>1, GoShows DEF v
<1>6. CASE b = "]" /\ parser.top # 0 /\ Top.type = "array"
  <2> DEFINE q == Off(parser, {"need_comma", "seek_value"})
             r == On(q, {"next"})
             x == VOff(v, {"need_comma", "seek_value"})
             y == VOn(x, {"next"})
  <2>1. Go(r) /\ VSeekValue(v, b) = VGo(y)
    BY <1>3, <1>6 DEF SeekValue, VSeekValue, Space
  <2>2. Shows(parser, q, x)
    BY <1>2, OnShows DEF NumberFlags
  <2>3. y.top # 0
    BY <1>3, <1>6 DEF VOn, VOff, VFlags, V
  <2> HIDE DEF q, x
  <2>4. Shows(parser, r, y)
    BY <2>2, OnShows DEF NumberFlags
  <2> HIDE DEF r, y
  <2> QED
    BY <1>4, <2>1, <2>3, <2>4, GoShows DEF v
<1>7. CASE b = "]" /\ ~(parser.top # 0 /\ Top.type = "array")
  <2>1. Fail /\ VSeekValue(v, b) = VFail(v)
    BY <1>3, <1>7 DEF SeekValue, VSeekValue, Space
  <2> QED
    BY <1>4, <2>1, FailShows DEF v
<1>8. CASE b \notin {Space, "]"} /\ Is("need_comma")
  <2>1. CASE b = ","
    <3>1. Go(Off(parser, {"need_comma"})) /\ VSeekValue(v, b) = VGo(VOff(v, {"need_comma"}))
      BY <1>1, <1>8, <2>1 DEF SeekValue, VSeekValue
    <3>2. Shows(parser, Off(parser, {"need_comma"}), VOff(v, {"need_comma"}))
      BY <1>2, OnShows DEF NumberFlags
    <3>3. "next" \notin VOff(v, {"need_comma"}).flags
      BY <1>2 DEF VOff, VFlags, V
    <3> QED
      BY <1>4, <3>1, <3>2, <3>3, GoShows DEF v
  <2>2. CASE b # ","
    <3>1. Fail /\ VSeekValue(v, b) = VFail(v)
      BY <1>1, <1>8, <2>2 DEF SeekValue, VSeekValue
    <3> QED
      BY <1>4, <3>1, FailShows DEF v
  <2> QED
    BY <2>1, <2>2
<1>9. CASE b \notin {Space, "]"} /\ ~Is("need_comma") /\ Is("need_colon")
  <2>1. CASE b = ":"
    <3>1. Go(Off(parser, {"need_colon"})) /\ VSeekValue(v, b) = VGo(VOff(v, {"need_colon"}))
      BY <1>1, <1>9, <2>1 DEF SeekValue, VSeekValue
    <3>2. Shows(parser, Off(parser, {"need_colon"}), VOff(v, {"need_colon"}))
      BY <1>2, OnShows DEF NumberFlags
    <3>3. "next" \notin VOff(v, {"need_colon"}).flags
      BY <1>2 DEF VOff, VFlags, V
    <3> QED
      BY <1>4, <3>1, <3>2, <3>3, GoShows DEF v
  <2>2. CASE b # ":"
    <3>1. Fail /\ VSeekValue(v, b) = VFail(v)
      BY <1>1, <1>9, <2>2 DEF SeekValue, VSeekValue
    <3> QED
      BY <1>4, <3>1, FailShows DEF v
  <2> QED
    BY <2>1, <2>2
<1>10. CASE b \notin {Space, "]"} /\ ~Is("need_comma") /\ ~Is("need_colon")
  <2>1. ValueBegins(b) /\ VSeekValue(v, b) = VValueBegins(v, b)
    BY <1>1, <1>10 DEF SeekValue, VSeekValue
  <2>2. b \notin Digits \cup {"-"}
    BY <1>1, <1>10 DEF NumberStarts, v
  <2> QED
    BY <1>1, <1>4, <2>1, <2>2, ValueBeginsShows DEF v
<1> QED
  BY <1>5, <1>6, <1>7, <1>8, <1>9, <1>10

LEMMA InObjectShows ==
    ASSUME Taking(parser), Sound(View(parser)), NEW b, InObject(b)
    PROVE  Shows(parser, parser', VStep(View(parser), b))
<1> DEFINE v == View(parser)
<1>1. /\ "string" \notin v.flags /\ "done" \notin v.flags /\ "seek_value" \notin v.flags
      /\ Is("need_comma") <=> "need_comma" \in v.flags
  BY FlagFacts DEF InObject, In, Is, NumberFlags
<1>2. "next" \notin v.flags /\ v.top # 0 /\ Shows(parser, parser, v)
  BY <1>1, SoundFlags, SelfShows
<1>3. VStep(v, b) = VInObject(v, b)
  BY <1>1 DEF VStep
<1> HIDE DEF v
<1>4. CASE b = Space
  <2>1. Go(parser) /\ VInObject(v, b) = VGo(v)
    BY <1>4 DEF InObject, VInObject, Space, Quote
  <2> QED
    BY <1>2, <1>3, <2>1, GoShows DEF v
<1>5. CASE b = Quote /\ ~Is("need_comma")
  <2>1. Go(BeginString(parser)) /\ VInObject(v, b) = VGo(VBeginString(v))
    BY <1>1, <1>5 DEF InObject, VInObject, Space, Quote
  <2>2. Shows(parser, BeginString(parser), VBeginString(v))
    BY <1>2, StringShows
  <2>3. VBeginString(v).top # 0
    BY <1>2 DEF VBeginString, VText, VOn, VFlags, V
  <2> QED
    BY <1>3, <2>1, <2>2, <2>3, GoShows DEF v
<1>6. CASE b = "}"
  <2> DEFINE q == Off(parser, {"need_comma"})
             r == On(q, {"next"})
             x == VOff(v, {"need_comma"})
             y == VOn(x, {"next"})
  <2>1. Go(r) /\ VInObject(v, b) = VGo(y)
    BY <1>6 DEF InObject, VInObject, Space, Quote
  <2>2. Shows(parser, q, x)
    BY <1>2, OnShows DEF NumberFlags
  <2>3. y.top # 0
    BY <1>2 DEF VOn, VOff, VFlags, V
  <2> HIDE DEF q, x
  <2>4. Shows(parser, r, y)
    BY <2>2, OnShows DEF NumberFlags
  <2> HIDE DEF r, y
  <2> QED
    BY <1>3, <2>1, <2>3, <2>4, GoShows DEF v
<1>7. CASE b = "," /\ Is("need_comma")
  <2>1. /\ Go(Off(parser, {"need_comma"})) /\ VInObject(v, b) = VGo(VOff(v, {"need_comma"}))
    BY <1>1, <1>7 DEF InObject, VInObject, Space, Quote
  <2>2. Shows(parser, Off(parser, {"need_comma"}), VOff(v, {"need_comma"}))
    BY <1>2, OnShows DEF NumberFlags
  <2>3. "next" \notin VOff(v, {"need_comma"}).flags
    BY <1>2 DEF VOff, VFlags, V
  <2> QED
    BY <1>3, <2>1, <2>2, <2>3, GoShows DEF v
<1>8. CASE /\ b \notin {Space, "}"} /\ ~(b = Quote /\ ~Is("need_comma"))
           /\ ~(b = "," /\ Is("need_comma"))
  <2>1. Fail /\ VInObject(v, b) = VFail(v)
    BY <1>1, <1>8 DEF InObject, VInObject, Quote
  <2> QED
    BY <1>3, <2>1, FailShows DEF v
<1> QED
  BY <1>4, <1>5, <1>6, <1>7, <1>8

\* A step that does not begin a number.
LEMMA StepShows ==
    ASSUME Taking(parser), Sound(View(parser)), NEW b,
           InString(b) \/ AfterRoot(b) \/ SeekValue(b) \/ InObject(b),
           AfterRoot(b) => b # End,
           ~NumberStarts(View(parser), b), Matches(parser, VStep(View(parser), b))
    PROVE  Shows(parser, parser', VStep(View(parser), b))
BY InStringShows, AfterRootShows, SeekValueShows, InObjectShows

-----------------------------------------------------------------------------
(* Numbers *)

\* With a number parser.
LEMMA NumberActs ==
    ASSUME NEW b, SeekValue(b), NumberStarts(View(parser), b)
    PROVE  NumberBegins(Off(parser, {"seek_value"}), b) /\ b \in NumberTokens
<1>1. ~Is("need_comma") /\ ~Is("need_colon") /\ b \in Digits \cup {"-"}
  BY FlagFacts DEF NumberStarts, Is, NumberFlags
<1>2. b \notin {Space, "]", "{", "[", Quote} \cup Literals
  BY <1>1 DEF Space, Quote, Literals, Digits, DigitOf
<1>3. ValueBegins(b)
  BY <1>1, <1>2 DEF SeekValue
<1> QED
  BY <1>1, <1>2, <1>3 DEF ValueBegins, NumberTokens

\* The views of a number.
LEMMA NumberViews ==
    ASSUME NEW v, v.count \in Nat, NEW e, NEW i
    PROVE  /\ VInNumber(v, e) = VAt(VBegun(v, "integer"), e)
           /\ VAt(VInNumber(v, e), i) = VInNumber(v, i)
           /\ VNumber(v, e) = VGo(VAt(VOn(VBegun(v, "integer"), {"next", "reproc"}), e))
           /\ VInNumber(v, v.pos) = VBegun(v, "integer")
           /\ VInNumber(v, e).flags = v.flags \ {"seek_value"}
           /\ VInNumber(v, e).pos = e /\ VInNumber(v, e).top # 0
<1> DEFINE x == VBegun(v, "integer")
<1>1. VInNumber(v, e) = VAt(x, e) /\ VInNumber(v, i) = VAt(x, i)
      /\ VInNumber(v, v.pos) = VAt(x, v.pos)
  BY DEF VInNumber, VBegun
<1>2. x.pos = v.pos /\ x.flags = v.flags \ {"seek_value"} /\ x.top # 0
  BY BegunFacts
<1>3. x = V(x.status, x.pos, x.flags, x.top, x.length, x.count, x.nodes)
  BY DEF VBegun, VNew, V
<1>4. VNumber(v, e) = VGo(VOn(VAt(x, e), {"next", "reproc"}))
  BY <1>1 DEF VNumber
<1> HIDE DEF x
<1>5. VOn(VAt(x, e), {"next", "reproc"}) = VAt(VOn(x, {"next", "reproc"}), e)
  BY DEF VOn, VFlags, VAt, V
<1>6. VAt(VAt(x, e), i) = VAt(x, i)
  BY DEF VAt, V
<1>7. VAt(x, v.pos) = x
  BY <1>2, <1>3 DEF VAt
<1>8. VAt(x, e).flags = x.flags /\ VAt(x, e).pos = e /\ VAt(x, e).top = x.top
  BY DEF VAt, V
<1> QED
  BY <1>1, <1>2, <1>4, <1>5, <1>6, <1>7, <1>8 DEF x

\* The second pass skips a number.
LEMMA SkippedShows ==
    ASSUME Taking(parser), Sound(View(parser)), NEW b, SeekValue(b), parser.pass = 2,
           NumberStarts(View(parser), b),
           Matches(parser, VNumber(View(parser), NumberEnd(parser)))
    PROVE  Shows(parser, parser', VNumber(View(parser), NumberEnd(parser)))
<1> DEFINE v == View(parser)
           p == Off(parser, {"seek_value"})
           e == NumberEnd(parser)
           x == VBegun(v, "integer")
           y == VOn(x, {"next", "reproc"})
           z == VAt(y, e)
           q == New(p, "integer")
           r == On(q, {"next", "reproc"})
           s == [r EXCEPT !.pos = e]
<1>1. v.count \in Nat
  BY DEF Sound, Placed, Flagged
<1>2. NumberEnd(p) = e
  <2>1. p.pos = parser.pos
    BY DEF Off, Taking, Core, IsRecord, Fields
  <2> HIDE DEF p
  <2> QED
    BY <2>1 DEF NumberEnd
<1>3. Go(s)
  <2>1. NumberBegins(p, b)
    BY NumberActs
  <2>2. p.pass = 2
    BY DEF Off, Taking, Core, IsRecord, Fields
  <2> HIDE DEF p
  <2> QED
    BY <1>2, <2>1, <2>2 DEF NumberBegins
<1> HIDE DEF v, e
<1>4. VNumber(v, e) = VGo(z)
  BY <1>1, NumberViews
<1>5. x.top # 0 /\ DOMAIN x.nodes = 1 .. x.count
  BY <1>1, BegunFacts
<1> HIDE DEF x
<1>6. y.top = x.top /\ y.nodes = x.nodes /\ y.count = x.count
  BY DEF VOn, VFlags, V
<1> HIDE DEF y
<1>7. z.top = y.top /\ z.nodes = y.nodes /\ z.count = y.count
  BY DEF VAt, V
<1> HIDE DEF z
<1>8. Matches(parser, x)
  BY <1>4, <1>5, <1>6, <1>7, MatchesBefore DEF v, e
<1>9. Shows(parser, q, x)
  <2>1. "seek_value" \in View(parser).flags
    BY DEF NumberStarts
  <2> QED
    BY <1>8, <2>1, BegunShows DEF v, x
<1> HIDE DEF q
<1>10. Shows(parser, r, y)
  BY <1>9, OnShows DEF NumberFlags, y
<1> HIDE DEF r
<1>11. Shows(parser, s, z)
  BY <1>10, AtShows DEF z
<1> HIDE DEF s
<1>12. Shows(parser, parser', VGo(z))
  BY <1>3, <1>5, <1>6, <1>7, <1>11, GoShows
<1> QED
  BY <1>4, <1>12 DEF v, e

\* The first begins to read it.
LEMMA BegunNumberShows ==
    ASSUME Taking(parser), Sound(View(parser)), NEW b, SeekValue(b), parser.pass = 1,
           NumberStarts(View(parser), b)
    PROVE  \E e \in {View(parser).pos, View(parser).pos + 1} :
              Shows(parser, parser', VInNumber(View(parser), e))
<1> DEFINE v == View(parser)
           p == Off(parser, {"seek_value"})
           x == VBegun(v, "integer")
           q == New(p, "integer")
           f == Off(q, {"num_negative", "num_e", "num_e_got_sign", "num_e_negative", "num_zero"})
           r == BeginNumber(q)
<1>1. v.count \in Nat /\ "next" \notin v.flags /\ "reproc" \notin v.flags
  BY DEF Sound, Placed, Flagged
<1>2. Go(On(r, {IF b = "-" THEN "num_negative" ELSE "reproc"}))
  <2>1. NumberBegins(p, b)
    BY NumberActs
  <2>2. p.pass # 2
    BY DEF Off, Taking, Core, IsRecord, Fields
  <2> HIDE DEF p
  <2> QED
    BY <2>1, <2>2 DEF NumberBegins
<1>3. Matches(parser, x)
  BY DEF Matches
<1>4. Shows(parser, q, x)
  <2>1. "seek_value" \in View(parser).flags
    BY DEF NumberStarts
  <2> HIDE DEF q
  <2> QED
    BY <1>3, <2>1, BegunShows DEF q
<1> HIDE DEF v
<1>5. /\ x.flags = v.flags \ {"seek_value"} /\ x.pos = v.pos
      /\ x = VInNumber(v, v.pos) /\ VAt(x, v.pos + 1) = VInNumber(v, v.pos + 1)
  BY <1>1, BegunFacts, NumberViews
<1>6. x = V(x.status, x.pos, x.flags, x.top, x.length, x.count, x.nodes)
  BY DEF VBegun, VNew, V
<1> HIDE DEF q, x
<1>7. VOff(x, {}) = x /\ VOn(x, {}) = x
  <2>1. x.flags \ {} = x.flags /\ x.flags \cup {} = x.flags
    OBVIOUS
  <2> QED
    BY <1>6, <2>1 DEF VOff, VOn, VFlags
<1>8. Shows(parser, f, x)
  <2> DEFINE fs == {"num_negative", "num_e", "num_e_got_sign", "num_e_negative", "num_zero"}
  <2>1. fs \ NumberFlags = {}
    BY DEF NumberFlags
  <2>2. Taking(q) /\ View(q) = x
    BY <1>4 DEF Shows
  <2> HIDE DEF fs
  <2>3. Shows(q, Off(q, fs), VOff(x, fs \ NumberFlags))
    BY <2>2, FlagsView
  <2> QED
    BY <1>4, <1>7, <2>1, <2>3, ShowsThen DEF fs
<1>9. r = [f EXCEPT !.digits = 0, !.fraction = 0, !.e = 0]
  BY DEF BeginNumber
<1> HIDE DEF f, r
<1>10. /\ Alike(f, r) /\ r.status = f.status /\ r.pos = f.pos /\ r.flags = f.flags
       /\ r.length = f.length /\ r.top = f.top
  BY <1>8, <1>9 DEF Shows, Alike, Taking, Core, IsRecord, Fields
<1>11. Shows(parser, r, x)
  <2>1. /\ Taking(r) /\ Counted(r) = Counted(f)
        /\ View(r) = V(r.status, r.pos, FlagsOf(r), r.top, r.length, Count(f), View(f).nodes)
    BY <1>8, <1>10, AlikeView DEF Shows
  <2>2. View(f) = V(f.status, f.pos, FlagsOf(f), f.top, f.length, Count(f), View(f).nodes)
    BY DEF View, V
  <2>3. FlagsOf(r) = FlagsOf(f) /\ r.pass = f.pass
    BY <1>10 DEF FlagsOf, Alike
  <2>4. View(r) = x
    BY <1>8, <1>10, <2>1, <2>2, <2>3 DEF Shows
  <2> QED
    BY <1>8, <2>1, <2>3, <2>4 DEF Shows
<1>12. CASE b = "-"
  <2>1. Shows(r, On(r, {"num_negative"}), VOn(x, {"num_negative"} \ NumberFlags))
    BY <1>11, FlagsView DEF Shows
  <2>2. {"num_negative"} \ NumberFlags = {}
    BY DEF NumberFlags
  <2>3. Shows(parser, On(r, {"num_negative"}), x)
    BY <1>7, <1>11, <2>1, <2>2, ShowsThen
  <2>4. Shows(parser, parser', VGo(x))
    BY <1>1, <1>2, <1>5, <1>12, <2>3, GoShows
  <2>5. VGo(x) = VAt(x, v.pos + 1)
    <3>1. "next" \notin VAt(x, x.pos + 1).flags
      BY <1>1, <1>5 DEF VAt, V
    <3> QED
      BY <1>1, <1>5, <3>1 DEF VGo
  <2> QED
    BY <1>5, <2>4, <2>5 DEF v
<1>13. CASE b # "-"
  <2> DEFINE y == VOn(x, {"reproc"})
  <2>1. Shows(parser, On(r, {"reproc"}), y)
    BY <1>11, OnShows DEF NumberFlags
  <2>2. y.flags = x.flags \cup {"reproc"}
    BY DEF VOn, VFlags, V
  <2>3. VOff(y, {"reproc"}) = x
    <3>1. (x.flags \cup {"reproc"}) \ {"reproc"} = x.flags
      BY <1>1, <1>5
    <3>2. VOff(y, {"reproc"}) = V(x.status, x.pos, (x.flags \cup {"reproc"}) \ {"reproc"},
                                  x.top, x.length, x.count, x.nodes)
      BY DEF VOff, VOn, VFlags, V
    <3> QED
      BY <1>6, <3>1, <3>2
  <2> HIDE DEF y
  <2>4. Shows(parser, parser', VGo(y))
    BY <1>1, <1>2, <1>5, <1>13, <2>1, <2>2, GoShows
  <2>5. VGo(y) = x
    BY <1>1, <1>5, <2>2, <2>3 DEF VGo
  <2> QED
    BY <1>5, <2>4, <2>5 DEF v
<1> QED
  BY <1>12, <1>13

LEMMA RefiguredShows ==
    ASSUME NEW p, Taking(p), p.pass = 1, NEW q, Refigured(p, q), q.status = p.status
    PROVE  Shows(p, q, View(p))
<1>1. /\ Core(q) /\ q.pass = 1 /\ q.pos = p.pos /\ q.top = p.top /\ q.length = p.length
      /\ FlagsOf(q) = FlagsOf(p) /\ Len(q.nodes) = Len(p.nodes)
      /\ \A i \in DOMAIN p.nodes : Held(q.nodes[i]) = Held(p.nodes[i])
  BY DEF Refigured, Stays
<1>2. Count(q) = Count(p) /\ DOMAIN p.nodes = 1 .. Count(p)
  BY <1>1, TakingFacts DEF Count
<1>3. Taking(q)
  <2>1. /\ q.alloc = p.alloc /\ DOMAIN q.nodes = DOMAIN p.nodes
        /\ \A i \in DOMAIN p.nodes : SamePlace(p.nodes[i], q.nodes[i])
    BY <1>1, SeqFacts DEF Refigured, Core, Tree, Taking
  <2>2. Linked(q)
    BY <1>1, <2>1, TakingFacts, SameLinked DEF Taking
  <2> QED
    BY <1>1, <1>2, <2>2 DEF Taking
<1>4. View(q) = View(p)
  <2>1. [i \in 1 .. Count(q) |-> Held(q.nodes[i])] = [i \in 1 .. Count(p) |-> Held(p.nodes[i])]
    BY <1>1, <1>2
  <2> QED
    BY <1>1, <1>2, <2>1 DEF View
<1> QED
  BY <1>1, <1>3, <1>4 DEF Shows

\* The first pass reads a number.
LEMMA InNumberShows ==
    ASSUME Taking(parser), parser.pass = 1, NEW v, Sound(v), NEW e,
           View(parser) = VInNumber(v, e), NEW b, InNumber(b)
    PROVE  \/ Fail
           \/ b \in NumberTokens /\ Shows(parser, parser', VInNumber(v, e + 1))
           \/ Shows(parser, parser', VNumber(v, e))
<1> DEFINE x == VInNumber(v, e)
<1>1. v.count \in Nat /\ "next" \notin v.flags /\ "reproc" \notin v.flags
  BY DEF Sound, Placed, Flagged
<1>2. /\ x.flags = v.flags \ {"seek_value"} /\ x.pos = e /\ x.top # 0
      /\ VAt(x, e + 1) = VInNumber(v, e + 1)
  BY <1>1, NumberViews
<1> HIDE DEF x
<1>3. parser.top # 0 /\ Core(parser)
  BY <1>2, ViewFields DEF Taking, x
<1>4. ASSUME NEW q, Refigured(parser, q) PROVE Shows(parser, q, x)
  BY <1>4, RefiguredShows DEF Refigured, Stays, x
<1>5. ASSUME b \in NumberTokens, NEW q, Refigured(parser, q), Go(q)
      PROVE  Shows(parser, parser', VInNumber(v, e + 1))
  <2>1. Shows(parser, parser', VGo(x))
    BY <1>2, <1>4, <1>5, GoShows
  <2>2. VGo(x) = VAt(x, e + 1)
    <3>1. "next" \notin VAt(x, x.pos + 1).flags
      BY <1>1, <1>2 DEF VAt, V
    <3> QED
      BY <1>1, <1>2, <3>1 DEF VGo
  <2> QED
    BY <1>2, <2>1, <2>2
<1>6. ASSUME NEW q, Refigured(parser, q), Go(On(q, {"next", "reproc"}))
      PROVE  Shows(parser, parser', VNumber(v, e))
  <2> DEFINE y == VOn(x, {"next", "reproc"})
  <2>1. Shows(parser, On(q, {"next", "reproc"}), y)
    BY <1>4, <1>6, OnShows DEF NumberFlags
  <2>2. y.top # 0
    BY <1>2 DEF VOn, VFlags, V
  <2>3. VGo(y) = VNumber(v, e)
    BY DEF VNumber, x
  <2> HIDE DEF y
  <2> QED
    BY <1>6, <2>1, <2>2, <2>3, GoShows
<1> QED
  BY <1>3, <1>5, <1>6, InNumberRefigures
=============================================================================
