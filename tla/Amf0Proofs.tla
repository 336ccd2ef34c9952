------------------------------ MODULE Amf0Proofs ------------------------------
(***************************************************************************)
(* What the program of Amf0 keeps true for every set of keys and values    *)
(* and every bound: keys stay unique (KeysAreUnique), total_size() is      *)
(* what write() needs (SizeIsExact), read() gives back what write() has    *)
(* written (RoundTrips) or a part of it if not all bytes have arrived      *)
(* (PartsAreRead), and copy() gives the same value (CopiesAreSame).        *)
(*                                                                         *)
(* The invariant has two parts.  TypeInv says what every value in sight    *)
(* consists of, to whatever depth: a value is Sound if it is in some set   *)
(* of proper values that has all their parts as well, so that no depth is  *)
(* counted.  CodecInv says where the machines are.  total_size() leaves a  *)
(* Run behind, the places it went through, each with the size of what is   *)
(* before it; write() goes through the same places and puts the bytes of   *)
(* each there; read() finds those bytes and is at one of the same places,  *)
(* with objects and arrays in its frames that Match the path to it; so     *)
(* does copy().  If the bytes end before, all that was read is still what  *)
(* is read from all of them; then the loops end, one after the other, and  *)
(* each of them has what was begun of its entries.                         *)
(***************************************************************************)
EXTENDS Amf0, TLAPS, WellFoundedInduction

-----------------------------------------------------------------------------
(* Tables of properties *)

First(props, k) == CHOOSE i \in Hits(props, k) : \A j \in Hits(props, k) : i <= j

\* With unique keys, set() finds the only property with the key.
LEMMA FirstHit ==
    ASSUME NEW P, NEW props \in Seq(P), UniqueKeys(props), NEW k, Hits(props, k) # {}
    PROVE  First(props, k) \in DOMAIN props /\ props[First(props, k)].key = k
<1>1. PICK i \in Hits(props, k) : TRUE
  OBVIOUS
<1>2. \A j \in Hits(props, k) : j = i /\ i <= j
  BY DEF UniqueKeys, Hits
<1>3. First(props, k) \in Hits(props, k)
  BY <1>2 DEF First
<1> QED
  BY <1>3 DEF Hits

\* Erasing moves what comes behind the erased property one place up.
LEMMA Erased ==
    ASSUME NEW P, NEW props \in Seq(P), UniqueKeys(props), NEW k, Hits(props, k) # {}
    PROVE  /\ Erase(props, k) \in Seq(P)
           /\ Len(Erase(props, k)) = Len(props) - 1
           /\ \A i \in 1 .. Len(props) - 1 :
                Erase(props, k)[i] = IF i < First(props, k) THEN props[i] ELSE props[i + 1]
<1> DEFINE f == First(props, k)
           front == SubSeq(props, 1, f - 1)
           back == SubSeq(props, f + 1, Len(props))
<1>1. f \in 1 .. Len(props)
  BY FirstHit
<1>2. Erase(props, k) = front \o back
  BY DEF Erase, First, RemoveAt
<1>3. /\ front \in Seq(P) /\ Len(front) = f - 1
      /\ \A i \in 1 .. f - 1 : front[i] = props[i]
  BY <1>1
<1>4. /\ back \in Seq(P) /\ Len(back) = Len(props) - f
      /\ \A i \in 1 .. Len(props) - f : back[i] = props[f + i]
  BY <1>1
<1> DEFINE rest == front \o back
<1>5. rest \in Seq(P) /\ Len(rest) = Len(front) + Len(back)
  BY <1>3, <1>4
<1>6. \A i \in 1 .. Len(front) + Len(back) :
        rest[i] = IF i <= Len(front) THEN front[i] ELSE back[i - Len(front)]
  BY <1>3, <1>4
<1> HIDE DEF f, front, back, rest
<1>7. ASSUME NEW i \in 1 .. Len(props) - 1
      PROVE  rest[i] = IF i < f THEN props[i] ELSE props[i + 1]
  <2>1. /\ Len(props) \in Nat /\ f \in Int /\ i \in Int
        /\ i \in 1 .. Len(front) + Len(back)
    BY <1>1, <1>3, <1>4
  <2>2. CASE i < f
    BY <1>3, <1>6, <2>1, <2>2
  <2>3. CASE ~(i < f)
    <3>1. /\ i - (f - 1) \in 1 .. Len(props) - f /\ f + (i - (f - 1)) = i + 1
          /\ ~(i <= Len(front)) /\ i - Len(front) = i - (f - 1)
      BY <1>1, <1>3, <2>1, <2>3
    <3> QED
      BY <1>4, <1>6, <2>1, <2>3, <3>1
  <2> QED
    BY <2>2, <2>3
<1> QED
  <2>1. Len(front) + Len(back) = Len(props) - 1
    BY <1>1, <1>3, <1>4
  <2> QED
    BY <1>2, <1>5, <1>7, <2>1 DEF f, rest

\* Erasing a key from a table with unique keys: they stay unique, and this one is
\* not there any more, although only its first property was looked for.
LEMMA EraseUnique ==
    ASSUME NEW P, NEW props \in Seq(P), NEW k, UniqueKeys(props)
    PROVE  /\ Erase(props, k) \in Seq(P)
           /\ UniqueKeys(Erase(props, k))
           /\ Hits(Erase(props, k), k) = {}
<1>1. CASE Hits(props, k) = {}
  BY <1>1 DEF Erase
<1>2. CASE Hits(props, k) # {}
  <2> DEFINE f == First(props, k)
             e == Erase(props, k)
             from(i) == IF i < f THEN i ELSE i + 1
  <2>1. /\ f \in 1 .. Len(props) /\ props[f].key = k
    BY <1>2, FirstHit
  <2>2. /\ e \in Seq(P) /\ DOMAIN e = 1 .. Len(props) - 1
        /\ \A i \in DOMAIN e : from(i) \in DOMAIN props /\ from(i) # f /\ e[i] = props[from(i)]
    <3>1. e \in Seq(P) /\ Len(e) = Len(props) - 1
      BY <1>2, Erased
    <3>2. DOMAIN e = 1 .. Len(props) - 1
      BY <3>1
    <3>3. ASSUME NEW i \in DOMAIN e
          PROVE  from(i) \in DOMAIN props /\ from(i) # f
      BY <2>1, <3>2
    <3>4. ASSUME NEW i \in DOMAIN e
          PROVE  e[i] = props[from(i)]
      BY <1>2, <3>2, Erased
    <3> QED
      BY <3>1, <3>2, <3>3, <3>4
  <2> HIDE DEF e, f
  <2>3. \A i, j \in DOMAIN e : from(i) = from(j) => i = j
    BY <2>1, <2>2
  <2> HIDE DEF from
  <2>4. UniqueKeys(e)
    BY <2>2, <2>3 DEF UniqueKeys
  <2>5. Hits(e, k) = {}
    BY <2>1, <2>2 DEF UniqueKeys, Hits
  <2> QED
    BY <2>2, <2>4, <2>5 DEF e
<1> QED
  BY <1>1, <1>2

\* set() keeps the keys of a table unique, puts the property last and leaves no
\* other one with its key: what an object read from a peer that repeats keys, or
\* one that was set a hundred times, rests on.
THEOREM SetKeepsUnique ==
    ASSUME NEW P, NEW props \in Seq(P), UniqueKeys(props),
           NEW k, NEW v, Property(k, v) \in P
    PROVE  /\ SetProperty(props, k, v) \in Seq(P)
           /\ UniqueKeys(SetProperty(props, k, v))
           /\ Hits(SetProperty(props, k, v), k) = {Len(SetProperty(props, k, v))}
<1> DEFINE e == Erase(props, k)
           s == SetProperty(props, k, v)
<1>1. e \in Seq(P) /\ UniqueKeys(e) /\ Hits(e, k) = {}
  BY EraseUnique
<1>2. /\ s = Append(e, Property(k, v))
      /\ Property(k, v).key = k
  BY DEF SetProperty, Property
<1> HIDE DEF e, s
<1>3. /\ s \in Seq(P) /\ Len(s) = Len(e) + 1 /\ Len(e) \in Nat
      /\ DOMAIN e = 1 .. Len(e) /\ DOMAIN s = 1 .. Len(e) + 1
      /\ \A i \in 1 .. Len(e) : s[i] = e[i]
      /\ s[Len(e) + 1].key = k
  BY <1>1, <1>2
<1>4. \A i \in 1 .. Len(e) : s[i].key # k
  BY <1>1, <1>3 DEF Hits
<1>5. UniqueKeys(s)
  BY <1>1, <1>3, <1>4 DEF UniqueKeys
<1>6. Hits(s, k) = {Len(s)}
  BY <1>3, <1>4 DEF Hits
<1> QED
  BY <1>3, <1>5, <1>6 DEF s

LEMMA Smallest ==
    ASSUME NEW T, T \subseteq Nat, T # {}
    PROVE  \E x \in T : \A y \in T : ~(y < x)
<1>1. IsWellFoundedOn(OpToRel(<, Nat), Nat)
  BY NatLessThanWellFounded
<1>2. PICK x \in T : \A y \in T : ~(<<y, x>> \in OpToRel(<, Nat))
  BY <1>1, WFMin
<1>3. \A y \in T : <<y, x>> \in OpToRel(<, Nat) <=> y < x
  BY DEF OpToRel
<1> QED
  BY <1>2, <1>3

\* What remove() keeps of the first properties.
Kept(props, k, n, f) ==
    f = [i \in 0 .. n |->
            IF i = 0 THEN <<>>
            ELSE IF props[i].key = k THEN f[i - 1]
            ELSE Append(f[i - 1], props[i])]

LEMMA KeptExists ==
    ASSUME NEW props, NEW k, NEW n \in Nat
    PROVE  \E f : Kept(props, k, n, f)
<1> DEFINE T == {m \in Nat : ~ \E f : Kept(props, k, m, f)}
<1> SUFFICES ASSUME T # {} PROVE FALSE
  OBVIOUS
<1>1. PICK m \in T : \A y \in T : ~(y < m)
  <2> HIDE DEF T
  <2> QED
    BY Smallest DEF T
<1>2. CASE m = 0
  <2> DEFINE f == [i \in 0 .. m |-> <<>>]
  <2>1. Kept(props, k, m, f)
    BY <1>2 DEF Kept
  <2> QED
    BY <2>1
<1>3. CASE m # 0
  <2>1. m - 1 \in Nat /\ m - 1 < m
    BY <1>3
  <2>2. PICK g : Kept(props, k, m - 1, g)
    BY <1>1, <2>1
  <2> DEFINE next == IF props[m].key = k THEN g[m - 1] ELSE Append(g[m - 1], props[m])
             f == [i \in 0 .. m |-> IF i = m THEN next ELSE g[i]]
             step(i) == IF i = 0 THEN <<>>
                        ELSE IF props[i].key = k THEN f[i - 1]
                        ELSE Append(f[i - 1], props[i])
  <2>3. \A i \in 0 .. m - 1 : f[i] = g[i]
    OBVIOUS
  <2>4. ASSUME NEW i \in 0 .. m
        PROVE  f[i] = step(i)
    <3>1. CASE i = m
      <4>1. f[i] = next /\ f[i - 1] = g[m - 1]
        BY <2>1, <2>3, <3>1
      <4> QED
        BY <1>3, <3>1, <4>1
    <3>2. CASE i # m
      <4>1. i \in 0 .. m - 1 /\ f[i] = g[i]
        BY <2>3, <3>2
      <4>2. g[i] = IF i = 0 THEN <<>>
                   ELSE IF props[i].key = k THEN g[i - 1]
                   ELSE Append(g[i - 1], props[i])
        BY <2>2, <4>1 DEF Kept
      <4>3. i # 0 => f[i - 1] = g[i - 1]
        <5>1. i # 0 => i - 1 \in 0 .. m - 1
          BY <4>1
        <5> QED
          BY <2>3, <5>1
      <4> QED
        BY <4>1, <4>2, <4>3
    <3> QED
      BY <3>1, <3>2
  <2>5. f = [i \in 0 .. m |-> f[i]]
    OBVIOUS
  <2> HIDE DEF f
  <2>6. Kept(props, k, m, f)
    BY <2>4, <2>5 DEF Kept
  <2> QED
    BY <2>6
<1> QED
  BY <1>2, <1>3

LEMMA KeptGood ==
    ASSUME NEW P, NEW props \in Seq(P), UniqueKeys(props), NEW k,
           NEW f, Kept(props, k, Len(props), f), NEW n \in 0 .. Len(props)
    PROVE  /\ f[n] \in Seq(P) /\ UniqueKeys(f[n])
           /\ \A j \in DOMAIN f[n] : \E m \in 1 .. n : f[n][j] = props[m]
<1> DEFINE Good(i) ==
             /\ f[i] \in Seq(P) /\ UniqueKeys(f[i])
             /\ \A j \in DOMAIN f[i] : \E m \in 1 .. i : f[i][j] = props[m]
           T == {i \in Nat : i <= Len(props) /\ ~Good(i)}
<1> SUFFICES ASSUME T # {} PROVE FALSE
  OBVIOUS
<1>1. PICK i \in T : \A y \in T : ~(y < i)
  <2> HIDE DEF T
  <2> QED
    BY Smallest DEF T
<1>2. i \in 0 .. Len(props) /\ ~Good(i) /\ Len(props) \in Nat
  BY <1>1
<1>3. i # 0
  <2>1. ASSUME i = 0 PROVE Good(i)
    <3>1. f[i] = <<>>
      BY <1>2, <2>1 DEF Kept
    <3> QED
      BY <3>1 DEF UniqueKeys
  <2> QED
    BY <1>2, <2>1
<1>4. i - 1 \in Nat /\ i - 1 <= Len(props) /\ i - 1 < i /\ i \in 1 .. Len(props)
  BY <1>2, <1>3
<1>5. Good(i - 1)
  BY <1>1, <1>4
<1> DEFINE a == f[i - 1]
           p == props[i]
<1>6. f[i] = IF p.key = k THEN a ELSE Append(a, p)
  BY <1>2, <1>3 DEF Kept
<1>7. /\ a \in Seq(P) /\ UniqueKeys(a)
      /\ \A j \in DOMAIN a : \E m \in 1 .. i - 1 : a[j] = props[m]
  BY <1>5
<1>8. p \in P
  BY <1>4
<1> HIDE DEF a
<1>9. CASE p.key = k
  <2>1. f[i] = a
    BY <1>6, <1>9
  <2>2. \A m \in 1 .. i - 1 : m \in 1 .. i
    BY <1>4
  <2> QED
    BY <1>2, <1>7, <2>1, <2>2
<1>10. CASE p.key # k
  <2> DEFINE b == Append(a, p)
  <2>1. f[i] = b
    BY <1>6, <1>10
  <2>2. /\ b \in Seq(P) /\ Len(b) = Len(a) + 1 /\ Len(a) \in Nat
        /\ DOMAIN b = 1 .. Len(a) + 1 /\ DOMAIN a = 1 .. Len(a)
        /\ \A j \in 1 .. Len(a) : b[j] = a[j]
        /\ b[Len(a) + 1] = p
    BY <1>7, <1>8
  <2> HIDE DEF b
  <2>3. ASSUME NEW j \in DOMAIN a
        PROVE  a[j].key # p.key
    <3>1. PICK m \in 1 .. i - 1 : a[j] = props[m]
      BY <1>7
    <3>2. m \in DOMAIN props /\ i \in DOMAIN props /\ m # i
      BY <1>4
    <3> QED
      BY <3>1, <3>2 DEF UniqueKeys
  <2>4. \A j \in DOMAIN b : (j \in DOMAIN a /\ b[j] = a[j]) \/ (j = Len(a) + 1 /\ b[j] = p)
    BY <2>2
  <2>5. UniqueKeys(b)
    BY <1>7, <2>3, <2>4 DEF UniqueKeys
  <2>6. ASSUME NEW j \in DOMAIN b
        PROVE  \E m \in 1 .. i : b[j] = props[m]
    <3>1. CASE b[j] = p
      BY <1>4, <3>1
    <3>2. CASE j \in DOMAIN a /\ b[j] = a[j]
      <4>1. PICK m \in 1 .. i - 1 : a[j] = props[m]
        BY <1>7, <3>2
      <4>2. m \in 1 .. i
        BY <1>4
      <4> QED
        BY <3>2, <4>1, <4>2
    <3> QED
      BY <2>4, <3>1, <3>2
  <2> QED
    BY <1>2, <2>1, <2>2, <2>5, <2>6
<1> QED
  BY <1>9, <1>10

\* remove() keeps the keys of a table unique.
LEMMA RemoveUnique ==
    ASSUME NEW P, NEW props \in Seq(P), NEW k, UniqueKeys(props)
    PROVE  RemoveProperty(props, k) \in Seq(P) /\ UniqueKeys(RemoveProperty(props, k))
<1> DEFINE F == CHOOSE f : Kept(props, k, Len(props), f)
<1>1. Len(props) \in Nat /\ Len(props) \in 0 .. Len(props)
  OBVIOUS
<1>2. Kept(props, k, Len(props), F)
  BY <1>1, KeptExists
<1>3. F[Len(props)] \in Seq(P) /\ UniqueKeys(F[Len(props)])
  <2> HIDE DEF F
  <2> QED
    BY <1>1, <1>2, KeptGood
<1>4. RemoveProperty(props, k) = F[Len(props)]
  BY DEF RemoveProperty, Kept
<1> QED
  BY <1>3, <1>4

-----------------------------------------------------------------------------
(* Integers *)

LEMMA Cat ==
    ASSUME NEW S, NEW s \in Seq(S), NEW t \in Seq(S)
    PROVE  /\ s \o t \in Seq(S) /\ Len(s \o t) = Len(s) + Len(t)
           /\ \A i \in 1 .. Len(s) : (s \o t)[i] = s[i]
           /\ \A i \in 1 .. Len(t) : (s \o t)[Len(s) + i] = t[i]
OBVIOUS

LEMMA BaseFacts ==
    /\ Base \in Nat /\ Base >= 12
    /\ Base \div 2 \in Nat /\ Base = 2 * (Base \div 2)
    /\ Limit \in Nat /\ Limit4 \in Nat
    /\ Limit >= 12 /\ Base * Base = 2 * Limit
<1> DEFINE h == Base \div 2
<1>1. Base \in Nat /\ Base >= 12 /\ h \in Nat /\ Base = 2 * h
  BY BaseAssumption
<1> HIDE DEF h
<1>2. Limit = Base * h
  BY DEF Limit, h
<1>3. Base * h \in Nat /\ Base * h >= 12 * 6 /\ Base * (2 * h) = 2 * (Base * h)
  BY <1>1
<1>4. Limit * Base \in Nat
  BY <1>1, <1>2, <1>3
<1>5. Limit4 \in Nat
  BY <1>1, <1>4 DEF Limit4
<1> QED
  BY <1>1, <1>2, <1>3, <1>5 DEF h

LEMMA DivMod ==
    ASSUME NEW n \in Int
    PROVE  /\ n \div Base \in Int /\ n % Base \in Byte
           /\ n = (n \div Base) * Base + (n % Base)
<1>1. n \div Base \in Int /\ n % Base \in 0 .. Base - 1
  BY BaseAssumption
<1>2. n = (n \div Base) * Base + (n % Base)
  BY BaseAssumption
<1> QED
  BY <1>1, <1>2 DEF Byte

LEMMA MulMono ==
    ASSUME NEW a \in Int, NEW b \in Int, NEW c \in Nat, a <= b
    PROVE  a * c <= b * c
OBVIOUS

LEMMA Horner ==
    ASSUME NEW a \in Int, NEW b \in Int, NEW c \in Int, NEW m \in Int
    PROVE  (a * m + b) * m + c = a * (m * m) + (b * m + c)
OBVIOUS

\* Dividing keeps an integer between its bounds.
LEMMA DivBounds ==
    ASSUME NEW n \in Int, NEW l \in Int, NEW m \in Int, l * Base <= n, n < m * Base
    PROVE  l <= n \div Base /\ n \div Base < m
<1> DEFINE q == n \div Base
           r == n % Base
<1>1. /\ q \in Int /\ r \in Int /\ r >= 0 /\ r < Base
      /\ n = q * Base + r /\ Base \in Nat
  BY DivMod, BaseFacts DEF Byte
<1> HIDE DEF q, r
<1>2. q * Base \in Int /\ m * Base \in Int /\ l * Base \in Int /\ (l - 1) * Base = l * Base - Base
  BY <1>1
<1>3. q >= m => q * Base >= m * Base
  BY <1>1, MulMono
<1>4. q <= l - 1 => q * Base <= (l - 1) * Base
  BY <1>1, MulMono
<1>5. q < m
  BY <1>1, <1>2, <1>3
<1>6. ~(q <= l - 1)
  BY <1>1, <1>2, <1>4
<1> QED
  BY <1>1, <1>5, <1>6 DEF q

\* An integer is its quotient's quotient and two bytes.
LEMMA TwoBytes ==
    ASSUME NEW n \in Int
    PROVE  /\ IntToBytes2(n) \in Seq(Byte) /\ Len(IntToBytes2(n)) = 2
           /\ (n \div Base) \div Base \in Int
           /\ n = ((n \div Base) \div Base) * (Base * Base) + Unsigned2(IntToBytes2(n))
           /\ Unsigned2(IntToBytes2(n)) \in Nat
<1> DEFINE q == n \div Base
           t == q \div Base
           r == n % Base
           s == q % Base
<1>1. q \in Int /\ r \in Byte /\ n = q * Base + r
  BY DivMod
<1>2. t \in Int /\ s \in Byte /\ q = t * Base + s
  BY <1>1, DivMod
<1>3. IntToBytes2(n) = <<s, r>>
  BY DEF IntToBytes2
<1> HIDE DEF q, t, r, s
<1>4. s \in Nat /\ r \in Nat /\ Base \in Nat
  BY <1>1, <1>2, BaseFacts DEF Byte
<1>5. n = (t * Base + s) * Base + r
  BY <1>1, <1>2
<1>6. (t * Base + s) * Base + r = t * (Base * Base) + (s * Base + r)
  BY <1>2, <1>4
<1>7. Unsigned2(<<s, r>>) = s * Base + r
  BY DEF Unsigned2
<1>8. s * Base + r \in Nat
  BY <1>4
<1>9. <<s, r>> \in Seq(Byte) /\ Len(<<s, r>>) = 2
  BY <1>1, <1>2
<1> QED
  BY <1>2, <1>3, <1>5, <1>6, <1>7, <1>8, <1>9 DEF q, t

\* The length of a short string survives.
LEMMA Short ==
    ASSUME NEW n \in Nat, n < Limit
    PROVE  BytesToInt2(IntToBytes2(n)) = n
<1> DEFINE q == n \div Base
           t == q \div Base
<1>1. Base \in Nat /\ Base >= 12 /\ Base \div 2 \in Nat /\ Base = 2 * (Base \div 2)
  BY BaseFacts
<1>2. 0 * Base <= n /\ n < (Base \div 2) * Base
  BY <1>1 DEF Limit
<1>3. q \in Int /\ 0 <= q /\ q < Base \div 2
  BY <1>1, <1>2, DivBounds, DivMod
<1> HIDE DEF q
<1>4. 0 * Base <= q /\ q < 1 * Base
  BY <1>1, <1>3
<1>5. t \in Int /\ 0 <= t /\ t < 1
  BY <1>3, <1>4, DivBounds, DivMod
<1>6. t = 0
  BY <1>5
<1>7. n = t * (Base * Base) + Unsigned2(IntToBytes2(n)) /\ Unsigned2(IntToBytes2(n)) \in Nat
  BY TwoBytes DEF q
<1>8. Unsigned2(IntToBytes2(n)) = n
  BY <1>6, <1>7, <1>1
<1> QED
  BY <1>8 DEF BytesToInt2

\* So does any count of 32 bits, with its sign.
LEMMA Counted ==
    ASSUME NEW n \in Int32
    PROVE  /\ BytesToInt4(IntToBytes4(n)) = n
           /\ IntToBytes4(n) \in Seq(Byte) /\ Len(IntToBytes4(n)) = 4
<1> DEFINE B2 == Base * Base
           k == Base \div 2
           q == n \div Base
           h == q \div Base
           p == h \div Base
           t == p \div Base
           x == IntToBytes2(h)
           y == IntToBytes2(n)
           b == IntToBytes4(n)
           u == Unsigned2(y)
           w == Unsigned2(x)
<1>1. /\ Base \in Nat /\ Base >= 12 /\ Limit \in Nat /\ Limit4 \in Nat
      /\ B2 = 2 * Limit /\ Limit4 = (Limit * Base) * Base
      /\ Limit = Base * k /\ k \in Nat /\ Base = 2 * k
  BY BaseFacts DEF Limit4, Limit
<1>2. n \in Int /\ 0 - Limit4 <= n /\ n < Limit4
  BY <1>1 DEF Int32
<1>3. n = h * B2 + u /\ u \in Nat /\ y \in Seq(Byte) /\ Len(y) = 2
  BY <1>2, TwoBytes
<1>4. q \in Int
  BY <1>2, DivMod
<1>5. h \in Int
  <2> HIDE DEF q
  <2> QED
    BY <1>4, DivMod
<1>6. h = t * B2 + w /\ w \in Nat /\ x \in Seq(Byte) /\ Len(x) = 2
  <2> HIDE DEF h
  <2> QED
    BY <1>5, TwoBytes
<1>7. p \in Int
  <2> HIDE DEF h
  <2> QED
    BY <1>5, DivMod
<1>8. t \in Int
  <2> HIDE DEF p
  <2> QED
    BY <1>7, DivMod
<1>9. 0 - Limit * Base <= q /\ q < Limit * Base
  <2>1. (0 - Limit * Base) * Base = 0 - Limit4 /\ Limit * Base \in Int
    BY <1>1
  <2> QED
    BY <1>1, <1>2, <2>1, DivBounds
<1> HIDE DEF q
<1>10. 0 - Limit <= h /\ h < Limit
  <2>1. (0 - Limit) * Base = 0 - Limit * Base
    BY <1>1
  <2> QED
    BY <1>1, <1>4, <1>9, <2>1, DivBounds
<1> HIDE DEF h, k
<1>11. 0 - k <= p /\ p < k
  <2>1. (0 - k) * Base = 0 - Limit /\ k * Base = Limit
    BY <1>1
  <2> QED
    BY <1>1, <1>5, <1>10, <2>1, DivBounds
<1> HIDE DEF p
<1>12. -1 <= t /\ t < 1
  <2>1. (-1) * Base <= p /\ p < 1 * Base
    BY <1>1, <1>7, <1>11
  <2> QED
    BY <1>7, <2>1, DivBounds
<1>13. b = x \o y
  BY DEF IntToBytes4, h, q
<1> HIDE DEF b, x, y, t
<1>14. /\ b \in Seq(Byte) /\ Len(b) = 4 /\ y[1] \in Byte /\ y[2] \in Byte
       /\ b[1] = x[1] /\ b[2] = x[2] /\ b[3] = y[1] /\ b[4] = y[2]
  <2>0. x \in Seq(Byte) /\ y \in Seq(Byte)
    BY <1>3, <1>6
  <2>1. Len(x) = 2 /\ Len(y) = 2
    BY <1>3, <1>6
  <2>2. /\ b \in Seq(Byte) /\ Len(b) = Len(x) + Len(y)
        /\ \A i \in 1 .. Len(x) : b[i] = x[i]
        /\ \A i \in 1 .. Len(y) : b[Len(x) + i] = y[i]
    <3>1. /\ x \o y \in Seq(Byte) /\ Len(x \o y) = Len(x) + Len(y)
          /\ \A i \in 1 .. Len(x) : (x \o y)[i] = x[i]
          /\ \A i \in 1 .. Len(y) : (x \o y)[Len(x) + i] = y[i]
      BY <2>0, Cat
    <3> QED
      BY <1>13, <3>1
  <2>3. Len(b) = 4 /\ b[1] = x[1] /\ b[2] = x[2] /\ b[3] = y[1] /\ b[4] = y[2]
    BY <2>1, <2>2
  <2>4. y[1] \in Byte /\ y[2] \in Byte
    BY <2>0, <2>1
  <2> QED
    BY <2>2, <2>3, <2>4
<1>15. Unsigned4(b) = w * B2 + u
  <2>2. y[1] \in Int /\ y[2] \in Int /\ w \in Int /\ Base \in Int
    BY <1>1, <1>6, <1>14 DEF Byte
  <2>3. Unsigned4(b) = (w * Base + y[1]) * Base + y[2]
    BY <1>14 DEF Unsigned4, Unsigned2
  <2>4. u = y[1] * Base + y[2]
    BY DEF Unsigned2
  <2> HIDE DEF u, w
  <2>5. (w * Base + y[1]) * Base + y[2] = w * (Base * Base) + (y[1] * Base + y[2])
    BY <2>2, Horner
  <2> QED
    BY <2>3, <2>4, <2>5
<1>16. Limit * B2 = Limit4
  BY <1>1
<1> HIDE DEF u, w, B2
<1>17. CASE t = 0
  <2>1. Unsigned4(b) = n
    BY <1>1, <1>3, <1>6, <1>15, <1>17
  <2> QED
    BY <1>2, <1>14, <2>1 DEF BytesToInt4, b
<1>18. CASE t = -1
  <2>1. w = h + B2
    BY <1>1, <1>5, <1>6, <1>18
  <2>2. (h + B2) * B2 = h * B2 + B2 * B2 /\ h * B2 \in Int /\ B2 * B2 \in Int
    BY <1>1, <1>5
  <2>3. B2 * B2 = 2 * (Limit * B2)
    BY <1>1
  <2>4. Unsigned4(b) = n + 2 * Limit4
    <3>1. Unsigned4(b) = (h + B2) * B2 + u
      BY <1>15, <2>1
    <3> QED
      BY <1>1, <1>3, <1>16, <2>2, <2>3, <3>1
  <2>5. ~(Unsigned4(b) < Limit4)
    BY <1>1, <1>2, <2>4
  <2>6. BytesToInt4(b) = Unsigned4(b) - 2 * Limit4
    BY <2>5 DEF BytesToInt4
  <2> QED
    BY <1>1, <1>2, <1>14, <2>4, <2>6 DEF b
<1> QED
  BY <1>8, <1>12, <1>17, <1>18

-----------------------------------------------------------------------------
(* Bytes *)

LEMMA SameSeq ==
    ASSUME NEW S, NEW s \in Seq(S), NEW t \in Seq(S), Len(s) = Len(t),
           \A i \in 1 .. Len(s) : s[i] = t[i]
    PROVE  s = t
OBVIOUS

\* The bytes s are in b, from position p on.
Holds(b, p, s) ==
    p + Len(s) - 1 <= Len(b) /\ \A i \in 1 .. Len(s) : b[p + i - 1] = s[i]

LEMMA Piece ==
    ASSUME NEW S, NEW b \in Seq(S), NEW p \in Nat \ {0}, NEW s \in Seq(S), Holds(b, p, s)
    PROVE  Require(b, p, Len(s)) /\ Bytes(b, p, Len(s)) = s
<1> DEFINE n == Len(s)
           t == SubSeq(b, p, p + n - 1)
<1>1. n \in Nat /\ p + n - 1 <= Len(b) /\ \A i \in 1 .. n : b[p + i - 1] = s[i]
  BY DEF Holds
<1> HIDE DEF n
<1>2. t \in Seq(S) /\ Len(t) = n /\ \A i \in 1 .. n : t[i] = b[p + i - 1]
  BY <1>1
<1>3. t = s
  <2> HIDE DEF t
  <2>1. \A i \in 1 .. Len(t) : t[i] = s[i]
    BY <1>1, <1>2
  <2>2. Len(t) = Len(s)
    BY <1>2 DEF n
  <2> QED
    BY <1>2, <2>1, <2>2, SameSeq
<1>4. Require(b, p, n)
  BY <1>1 DEF Require
<1> QED
  BY <1>3, <1>4 DEF Bytes, n

LEMMA Split ==
    ASSUME NEW S, NEW b \in Seq(S), NEW p \in Nat \ {0}, NEW s \in Seq(S), NEW t \in Seq(S),
           Holds(b, p, s \o t)
    PROVE  Holds(b, p, s) /\ Holds(b, p + Len(s), t)
<1> DEFINE c == s \o t
<1>1. /\ Len(c) = Len(s) + Len(t) /\ Len(s) \in Nat /\ Len(t) \in Nat /\ Len(b) \in Nat
      /\ \A i \in 1 .. Len(s) : c[i] = s[i]
      /\ \A i \in 1 .. Len(t) : c[Len(s) + i] = t[i]
  BY Cat
<1>2. p + Len(c) - 1 <= Len(b) /\ \A i \in 1 .. Len(c) : b[p + i - 1] = c[i]
  BY DEF Holds
<1> HIDE DEF c
<1>3. Holds(b, p, s)
  BY <1>1, <1>2 DEF Holds
<1>4. ASSUME NEW i \in 1 .. Len(t)
      PROVE  b[(p + Len(s)) + i - 1] = t[i]
  <2>1. Len(s) + i \in 1 .. Len(c) /\ (p + Len(s)) + i - 1 = p + (Len(s) + i) - 1
    BY <1>1
  <2> QED
    BY <1>1, <1>2, <2>1
<1>5. (p + Len(s)) + Len(t) - 1 <= Len(b)
  BY <1>1, <1>2
<1> QED
  BY <1>3, <1>4, <1>5 DEF Holds

LEMMA Field ==
    ASSUME NEW S, NEW b \in Seq(S), NEW p \in Nat \ {0}, NEW s \in Seq(S), Holds(b, p, s)
    PROVE  ReadField(b, p, Len(s)) = Got(s, p + Len(s))
BY Piece DEF ReadField

\* Where the end marker is.
LEMMA EofAt ==
    ASSUME NEW b \in Seq(Byte), NEW p \in Nat \ {0}
    PROVE  IsObjectEof(b, p) <=> p + 2 <= Len(b) /\ b[p] = 0 /\ b[p + 1] = 0 /\ b[p + 2] = 9
<1> DEFINE t == SubSeq(b, p, p + 3 - 1)
<1>1. Require(b, p, 3) <=> p + 2 <= Len(b)
  BY DEF Require
<1>2. EofBytes = <<0, 0, 9>>
  BY DEF EofBytes, Marker
<1>3. ASSUME p + 2 <= Len(b)
      PROVE  t = <<0, 0, 9>> <=> b[p] = 0 /\ b[p + 1] = 0 /\ b[p + 2] = 9
  <2>1. /\ t \in Seq(Byte) /\ Len(t) = 3
        /\ t[1] = b[p] /\ t[2] = b[p + 1] /\ t[3] = b[p + 2]
    BY <1>3
  <2> HIDE DEF t
  <2> QED
    BY <2>1
<1>4. Bytes(b, p, 3) = t
  BY DEF Bytes
<1> HIDE DEF t
<1> QED
  BY <1>1, <1>2, <1>3, <1>4 DEF IsObjectEof

LEMMA Markers ==
    /\ Marker.Number = 0 /\ Marker.Boolean = 1 /\ Marker.String = 2 /\ Marker.Object = 3
    /\ Marker.Null = 5 /\ Marker.Undefined = 6 /\ Marker.EcmaArray = 8
    /\ Marker.ObjectEnd = 9 /\ Marker.StrictArray = 10 /\ Marker.Date = 11
BY DEF Marker

LEMMA SmallBytes ==
    ASSUME NEW n \in 0 .. 11
    PROVE  n \in Byte /\ <<n>> \in Seq(Byte) /\ Len(<<n>>) = 1
<1>1. n \in Byte
  BY BaseFacts DEF Byte
<1> QED
  BY <1>1

\* What begins with a marker is not taken for the end, and is discovered.
LEMMA FirstByte ==
    ASSUME NEW b \in Seq(Byte), NEW p \in Nat \ {0}, NEW m \in 1 .. 11, NEW t \in Seq(Byte),
           Holds(b, p, <<m>> \o t)
    PROVE  /\ b[p] = m /\ p <= Len(b) /\ ~IsObjectEof(b, p)
           /\ \A M : Discovers(b, p, M) <=> m \in M
           /\ Holds(b, p + 1, t)
<1> DEFINE s == <<m>>
<1>1. s \in Seq(Byte) /\ Len(s) = 1 /\ s[1] = m
  BY SmallBytes
<1> HIDE DEF s
<1>2. Holds(b, p, s) /\ Holds(b, p + Len(s), t)
  BY <1>1, Split DEF s
<1>3. b[p] = m /\ p <= Len(b)
  BY <1>1, <1>2 DEF Holds
<1>4. ~IsObjectEof(b, p)
  BY <1>3, EofAt
<1>5. Require(b, p, 1)
  BY <1>3 DEF Require
<1> QED
  BY <1>1, <1>2, <1>3, <1>4, <1>5 DEF Discovers

-----------------------------------------------------------------------------
(* Strings *)

LEMMA Utf8Length ==
    ASSUME NEW s \in Seq(Byte)
    PROVE  Utf8Bytes(s) \in Seq(Byte) /\ Len(Utf8Bytes(s)) = Utf8Size(s)
<1> DEFINE l == IntToBytes2(Len(s))
<1>1. Len(s) \in Int
  OBVIOUS
<1>2. l \in Seq(Byte) /\ Len(l) = 2
  BY <1>1, TwoBytes
<1> HIDE DEF l
<1>3. l \o s \in Seq(Byte) /\ Len(l \o s) = Len(l) + Len(s)
  BY <1>2, Cat
<1> QED
  BY <1>2, <1>3 DEF Utf8Bytes, Utf8Size, l

LEMMA Utf8Read ==
    ASSUME NEW b \in Seq(Byte), NEW p \in Nat \ {0}, NEW s \in Seq(Byte),
           Len(s) < Limit, Holds(b, p, Utf8Bytes(s))
    PROVE  ReadUtf8(b, p) = Got(s, p + Utf8Size(s))
<1> DEFINE l == IntToBytes2(Len(s))
<1>1. l \in Seq(Byte) /\ Len(l) = 2 /\ BytesToInt2(l) = Len(s)
  <2>1. Len(s) \in Nat
    OBVIOUS
  <2> QED
    BY <2>1, TwoBytes, Short
<1> HIDE DEF l
<1>2. Holds(b, p, l) /\ Holds(b, p + 2, s)
  <2>1. Holds(b, p, l) /\ Holds(b, p + Len(l), s)
    BY <1>1, Split DEF Utf8Bytes, l
  <2> QED
    BY <1>1, <2>1
<1>3. Require(b, p, 2) /\ Bytes(b, p, 2) = l
  <2>1. Require(b, p, Len(l)) /\ Bytes(b, p, Len(l)) = l
    BY <1>1, <1>2, Piece
  <2> QED
    BY <1>1, <2>1
<1>4. CASE Len(s) = 0
  <2>1. s = <<>> /\ Utf8Size(s) = 2
    BY <1>4 DEF Utf8Size
  <2>2. ReadUtf8(b, p) = Got(<<>>, p + 2)
    BY <1>1, <1>3, <1>4 DEF ReadUtf8
  <2> QED
    BY <2>1, <2>2
<1>5. CASE Len(s) # 0
  <2>1. ~(Len(s) <= 0) /\ p + 2 \in Nat \ {0} /\ (p + 2) + Len(s) = p + Utf8Size(s)
    BY <1>5 DEF Utf8Size
  <2>2. ReadUtf8(b, p) = ReadField(b, p + 2, Len(s))
    BY <1>1, <1>3, <2>1 DEF ReadUtf8
  <2>3. ReadField(b, p + 2, Len(s)) = Got(s, (p + 2) + Len(s))
    BY <1>2, <2>1, Field
  <2> QED
    BY <2>1, <2>2, <2>3
<1> QED
  BY <1>4, <1>5

-----------------------------------------------------------------------------
(* Values without entries *)

\* The length of what follows a marker.
LEMMA MarkedLength ==
    ASSUME NEW m \in 0 .. 11, NEW t \in Seq(Byte)
    PROVE  <<m>> \o t \in Seq(Byte) /\ Len(<<m>> \o t) = 1 + Len(t)
<1> DEFINE s == <<m>>
<1>1. s \in Seq(Byte)
  BY SmallBytes
<1>2. Len(s) = 1
  OBVIOUS
<1> HIDE DEF s
<1>3. s \o t \in Seq(Byte) /\ Len(s \o t) = Len(s) + Len(t)
  BY <1>1, Cat
<1> QED
  BY <1>2, <1>3 DEF s

\* A date and its zone.
LEMMA DateParts ==
    ASSUME NEW x \in Seq(Byte), NEW y \in Seq(Byte), Len(x) = 8, Len(y) = 2
    PROVE  /\ x \o y \in Seq(Byte) /\ Len(x \o y) = 10
           /\ SubSeq(x \o y, 1, 8) = x /\ SubSeq(x \o y, 9, 10) = y
<1> DEFINE s == x \o y
<1>1. x \in Seq(Byte) /\ y \in Seq(Byte)
  OBVIOUS
<1>2. s \in Seq(Byte) /\ Len(s) = Len(x) + Len(y)
  BY <1>1, Cat
<1>3. Len(s) = 10
  BY <1>2
<1>4. Holds(s, 1, s)
  BY <1>2 DEF Holds
<1>5. Holds(s, 1, x) /\ Holds(s, 1 + Len(x), y)
  <2>1. 1 \in Nat \ {0} /\ Holds(s, 1, x \o y)
    BY <1>4
  <2> HIDE DEF s
  <2> QED
    BY <1>1, <1>2, <2>1, Split
<1> HIDE DEF s
<1>6. Holds(s, 9, y)
  BY <1>5
<1>7. Bytes(s, 1, Len(x)) = x /\ Bytes(s, 9, Len(y)) = y
  <2>1. 1 \in Nat \ {0} /\ 9 \in Nat \ {0}
    OBVIOUS
  <2>2. Bytes(s, 1, Len(x)) = x
    BY <1>1, <1>2, <1>5, <2>1, Piece
  <2>3. Bytes(s, 9, Len(y)) = y
    BY <1>1, <1>2, <1>6, <2>1, Piece
  <2> QED
    BY <2>2, <2>3
<1>8. SubSeq(s, 1, 8) = x /\ SubSeq(s, 9, 10) = y
  BY <1>7 DEF Bytes
<1> QED
  BY <1>2, <1>3, <1>8 DEF s

\* total_size() of them is what write() writes.
LEMMA ScalarLength ==
    ASSUME NEW v, Proper(v), ~IsContainer(v)
    PROVE  ScalarBytes(v) \in Seq(Byte) /\ Len(ScalarBytes(v)) = ScalarSize(v)
<1>1. CASE v \in {Null, Undefined, ObjectEOF}
  <2>1. /\ v = Null => ScalarBytes(v) = <<5>> /\ ScalarSize(v) = 1
        /\ v = Undefined => ScalarBytes(v) = <<6>> /\ ScalarSize(v) = 1
        /\ v = ObjectEOF => ScalarBytes(v) = <<0, 0, 9>> /\ ScalarSize(v) = 3
    BY Markers DEF ScalarBytes, ScalarSize, Null, Undefined, ObjectEOF, NullBytes, NullSize,
                   UndefinedBytes, UndefinedSize, EofBytes, EofSize
  <2>2. 0 \in Byte /\ 5 \in Byte /\ 6 \in Byte /\ 9 \in Byte
    BY SmallBytes
  <2>3. /\ <<5>> \in Seq(Byte) /\ Len(<<5>>) = 1 /\ <<6>> \in Seq(Byte) /\ Len(<<6>>) = 1
        /\ <<0, 0, 9>> \in Seq(Byte) /\ Len(<<0, 0, 9>>) = 3
    BY <2>2
  <2> QED
    BY <1>1, <2>1, <2>3
<1>2. CASE v.marker = Marker.Number /\ v.number \in Seq(Byte) /\ Len(v.number) = 8
  <2>1. ScalarBytes(v) = <<0>> \o v.number /\ ScalarSize(v) = 1 + 8
    BY <1>2, Markers DEF ScalarBytes, ScalarSize, NumberBytes, NumberSize
  <2>2. <<0>> \o v.number \in Seq(Byte) /\ Len(<<0>> \o v.number) = 1 + Len(v.number)
    <3>1. 0 \in 0 .. 11 /\ v.number \in Seq(Byte)
      BY <1>2
    <3> QED
      BY <3>1, MarkedLength, Zenon
  <2> QED
    BY <1>2, <2>1, <2>2
<1>3. CASE v.marker = Marker.Boolean /\ v.boolean \in BOOLEAN
  <2> DEFINE x == IF v.boolean THEN 1 ELSE 0
  <2>1. ScalarBytes(v) = <<1>> \o <<x>> /\ ScalarSize(v) = 1 + 1 /\ x \in 0 .. 11
    BY <1>3, Markers DEF ScalarBytes, ScalarSize, BooleanBytes, BooleanSize
  <2> HIDE DEF x
  <2>2. <<x>> \in Seq(Byte) /\ Len(<<x>>) = 1
    BY <2>1, SmallBytes
  <2>3. <<1>> \o <<x>> \in Seq(Byte) /\ Len(<<1>> \o <<x>>) = 1 + Len(<<x>>)
    <3>1. 1 \in 0 .. 11
      OBVIOUS
    <3> QED
      BY <2>2, <3>1, MarkedLength, Zenon
  <2> QED
    BY <2>1, <2>2, <2>3
<1>4. CASE v.marker = Marker.String /\ v.string \in Seq(Byte)
  <2>1. ScalarBytes(v) = <<2>> \o Utf8Bytes(v.string) /\ ScalarSize(v) = 1 + Utf8Size(v.string)
    BY <1>4, Markers DEF ScalarBytes, ScalarSize, StringBytes, StringSize
  <2> DEFINE s == Utf8Bytes(v.string)
  <2>2. s \in Seq(Byte) /\ Len(s) = Utf8Size(v.string)
    BY <1>4, Utf8Length
  <2>3. <<2>> \o s \in Seq(Byte) /\ Len(<<2>> \o s) = 1 + Len(s)
    <3>1. 2 \in 0 .. 11
      OBVIOUS
    <3> QED
      BY <2>2, <3>1, MarkedLength, Zenon
  <2> QED
    BY <2>1, <2>2, <2>3
<1>5. CASE /\ v.marker = Marker.Date /\ v.date \in Seq(Byte) /\ Len(v.date) = 8
           /\ v.zone \in Seq(Byte) /\ Len(v.zone) = 2
  <2> DEFINE s == v.date \o v.zone
  <2>1. ScalarBytes(v) = <<11>> \o s
    <3>1. v.marker = 11
      BY <1>5, Markers
    <3>2. ScalarBytes(v) = DateBytes(v)
      BY <3>1, Markers DEF ScalarBytes
    <3> QED
      BY <3>1, <3>2, Markers DEF DateBytes
  <2>2. ScalarSize(v) = 11
    BY <1>5, Markers DEF ScalarSize, DateSize
  <2>3. s \in Seq(Byte) /\ Len(s) = 10
    BY <1>5, DateParts
  <2> HIDE DEF s
  <2>4. <<11>> \o s \in Seq(Byte) /\ Len(<<11>> \o s) = 1 + Len(s)
    <3>1. 11 \in 0 .. 11
      OBVIOUS
    <3> QED
      BY <2>3, <3>1, MarkedLength, Zenon
  <2> QED
    BY <2>1, <2>2, <2>3, <2>4
<1> QED
  BY <1>1, <1>2, <1>3, <1>4, <1>5 DEF Proper, IsContainer, HasProps, HasElems

\* A field behind a marker.
LEMMA MarkedField ==
    ASSUME NEW b \in Seq(Byte), NEW p \in Nat \ {0}, NEW m \in 1 .. 11, NEW s \in Seq(Byte),
           Holds(b, p, <<m>> \o s)
    PROVE  ReadField(b, p + 1, Len(s)) = Got(s, p + 1 + Len(s))
<1>1. Holds(b, p + 1, s)
  BY FirstByte
<1>2. p + 1 \in Nat \ {0}
  OBVIOUS
<1> QED
  BY <1>1, <1>2, Field

\* A number begins with a zero byte, like the end marker, but does not go on like it.
LEMMA NumberRead ==
    ASSUME NEW b \in Seq(Byte), NEW p \in Nat \ {0}, NEW s \in Seq(Byte), Len(s) = 8,
           SubSeq(s, 1, 2) # <<0, 9>>, Holds(b, p, << 0 >> \o s)
    PROVE  /\ AnyScalar(b, p) = Got(Number(s), p + (1 + 8))
           /\ ~Discovers(b, p, Containers)
<1> DEFINE z == <<0>>
<1>1. z \in Seq(Byte) /\ Len(z) = 1 /\ z[1] = 0
  BY SmallBytes
<1> HIDE DEF z
<1>2. Holds(b, p, z) /\ Holds(b, p + 1, s)
  <2>1. Holds(b, p, z) /\ Holds(b, p + Len(z), s)
    BY <1>1, Split DEF z
  <2> QED
    BY <1>1, <2>1
<1>3. b[p] = 0 /\ p <= Len(b)
  BY <1>1, <1>2 DEF Holds
<1>4. b[p + 1] = s[1] /\ b[p + 2] = s[2]
  <2>1. \A i \in 1 .. Len(s) : b[(p + 1) + i - 1] = s[i]
    BY <1>2 DEF Holds
  <2>2. 1 \in 1 .. Len(s) /\ 2 \in 1 .. Len(s) /\ (p + 1) + 1 - 1 = p + 1 /\ (p + 1) + 2 - 1 = p + 2
    OBVIOUS
  <2> QED
    BY <2>1, <2>2
<1>5. ~IsObjectEof(b, p)
  <2>1. ASSUME s[1] = 0, s[2] = 9
        PROVE  FALSE
    <3> DEFINE t == <<0, 9>>
    <3>1. t \in Seq(Byte) /\ Len(t) = 2 /\ t[1] = 0 /\ t[2] = 9
      <4>1. 0 \in Byte /\ 9 \in Byte
        BY SmallBytes
      <4> QED
        BY <4>1
    <3> HIDE DEF t
    <3>2. Holds(s, 1, t)
      <4>1. \A i \in 1 .. 2 : s[1 + i - 1] = t[i]
        BY <2>1, <3>1
      <4> QED
        BY <3>1, <4>1 DEF Holds
    <3>3. Bytes(s, 1, Len(t)) = t
      <4>1. 1 \in Nat \ {0} /\ s \in Seq(Byte) /\ t \in Seq(Byte)
        BY <3>1
      <4> QED
        BY <3>2, <4>1, Piece
    <3>4. SubSeq(s, 1, 2) = t
      BY <3>1, <3>3 DEF Bytes
    <3> QED
      BY <3>4 DEF t
  <2> QED
    BY <1>4, <2>1, EofAt
<1>6. \A M : Discovers(b, p, M) <=> 0 \in M
  BY <1>3, <1>5 DEF Discovers, Require
<1>7. ReadField(b, p + 1, 8) = Got(s, (p + 1) + 8)
  <2>1. p + 1 \in Nat \ {0}
    OBVIOUS
  <2>2. ReadField(b, p + 1, Len(s)) = Got(s, (p + 1) + Len(s))
    BY <1>2, <2>1, Field
  <2> QED
    BY <2>2
<1>8. ReadNumber(b, p) = Got(Number(s), (p + 1) + 8)
  <2>1. LET r == ReadField(b, p + 1, 8) IN r.ok = TRUE /\ r.value = s /\ r.next = (p + 1) + 8
    BY <1>7 DEF Got
  <2> QED
    BY <2>1 DEF ReadNumber, Convert
<1>9. AnyScalar(b, p) = ReadNumber(b, p)
  BY <1>5, <1>6, Markers DEF AnyScalar
<1>10. ~Discovers(b, p, Containers)
  BY <1>6, Markers DEF Containers
<1>11. (p + 1) + 8 = p + (1 + 8)
  OBVIOUS
<1> QED
  BY <1>8, <1>9, <1>10, <1>11

\* discovery() and read() give back what was written.
LEMMA ScalarRead ==
    ASSUME NEW b \in Seq(Byte), NEW p \in Nat \ {0}, NEW v,
           Proper(v), Readable(v), ~IsContainer(v), Holds(b, p, ScalarBytes(v))
    PROVE  AnyScalar(b, p) = Got(v, p + ScalarSize(v)) /\ ~Discovers(b, p, Containers)
<1>1. CASE v.marker = Marker.Number /\ v = Number(v.number) /\ v.number \in Seq(Byte) /\ Len(v.number) = 8
  <2>1. ScalarBytes(v) = <<0>> \o v.number /\ ScalarSize(v) = 1 + 8
    BY <1>1, Markers DEF ScalarBytes, ScalarSize, NumberBytes, NumberSize
  <2>2. SubSeq(v.number, 1, 2) # <<0, 9>>
    BY <1>1, Markers DEF Readable
  <2>3. AnyScalar(b, p) = Got(Number(v.number), p + (1 + 8)) /\ ~Discovers(b, p, Containers)
    BY <1>1, <2>1, <2>2, NumberRead
  <2> QED
    BY <1>1, <2>1, <2>3
<1>2. CASE v = ObjectEOF
  <2>1. ScalarBytes(v) = <<0, 0, 9>> /\ ScalarSize(v) = 3
    BY <1>2, Markers DEF ObjectEOF, ScalarBytes, ScalarSize, EofBytes, EofSize
  <2>2. IsObjectEof(b, p)
    <3> DEFINE s == <<0, 0, 9>>
    <3>1. Len(s) = 3 /\ s[1] = 0 /\ s[2] = 0 /\ s[3] = 9
      OBVIOUS
    <3>2. Holds(b, p, s)
      BY <2>1
    <3> HIDE DEF s
    <3>3. p + 2 <= Len(b) /\ \A i \in 1 .. 3 : b[p + i - 1] = s[i]
      BY <3>1, <3>2 DEF Holds
    <3>4. b[p + 1 - 1] = 0 /\ b[p + 2 - 1] = 0 /\ b[p + 3 - 1] = 9
      BY <3>1, <3>3
    <3> QED
      BY <3>3, <3>4, EofAt
  <2> QED
    BY <1>2, <2>1, <2>2 DEF AnyScalar, ReadEof, Discovers, EofSize
<1>3. CASE v = Null
  <2> DEFINE s == <<>>
  <2>1. ScalarBytes(v) = <<5>> \o s /\ ScalarSize(v) = 1
    BY <1>3, Markers DEF Null, ScalarBytes, ScalarSize, NullBytes, NullSize
  <2>2. ~IsObjectEof(b, p) /\ \A M : Discovers(b, p, M) <=> 5 \in M
    <3>1. s \in Seq(Byte)
      OBVIOUS
    <3> HIDE DEF s
    <3> QED
      BY <2>1, <3>1, FirstByte
  <2> QED
    BY <1>3, <2>1, <2>2, Markers DEF AnyScalar, ReadNull, Containers
<1>4. CASE v = Undefined
  <2> DEFINE s == <<>>
  <2>1. ScalarBytes(v) = <<6>> \o s /\ ScalarSize(v) = 1
    BY <1>4, Markers DEF Undefined, ScalarBytes, ScalarSize, UndefinedBytes, UndefinedSize
  <2>2. ~IsObjectEof(b, p) /\ \A M : Discovers(b, p, M) <=> 6 \in M
    <3>1. s \in Seq(Byte)
      OBVIOUS
    <3> HIDE DEF s
    <3> QED
      BY <2>1, <3>1, FirstByte
  <2> QED
    BY <1>4, <2>1, <2>2, Markers DEF AnyScalar, ReadUndefined, Containers
<1>5. CASE v.marker = Marker.Boolean /\ v = Boolean(v.boolean) /\ v.boolean \in BOOLEAN
  <2> DEFINE x == IF v.boolean THEN 1 ELSE 0
             s == <<x>>
  <2>1. ScalarBytes(v) = <<1>> \o s /\ ScalarSize(v) = 1 + 1 /\ x \in 0 .. 11
    BY <1>5, Markers DEF ScalarBytes, ScalarSize, BooleanBytes, BooleanSize
  <2>2. s \in Seq(Byte) /\ Len(s) = 1
    BY <2>1, SmallBytes
  <2>3. (s # <<0>>) = v.boolean
    BY <1>5
  <2> HIDE DEF s
  <2>4. ~IsObjectEof(b, p) /\ \A M : Discovers(b, p, M) <=> 1 \in M
    BY <2>1, <2>2, FirstByte
  <2>5. ReadField(b, p + 1, 1) = Got(s, p + 1 + 1)
    <3>1. ReadField(b, p + 1, Len(s)) = Got(s, p + 1 + Len(s))
      <4>1. 1 \in 1 .. 11 /\ Holds(b, p, <<1>> \o s)
        BY <2>1
      <4> QED
        BY <2>2, <4>1, MarkedField, Zenon
    <3> QED
      BY <2>2, <3>1
  <2>6. ReadBoolean(b, p) = Got(v, p + 1 + 1)
    <3>1. ReadBoolean(b, p) = Got(Boolean(s # <<0>>), p + 1 + 1)
      <4>1. LET r == ReadField(b, p + 1, 1) IN r.ok = TRUE /\ r.value = s /\ r.next = p + 1 + 1
        BY <2>5 DEF Got
      <4> QED
        BY <4>1 DEF ReadBoolean, Convert
    <3> QED
      BY <1>5, <2>3, <3>1
  <2>7. AnyScalar(b, p) = ReadBoolean(b, p)
    BY <2>4, Markers DEF AnyScalar
  <2>8. ~Discovers(b, p, Containers)
    BY <2>4, Markers DEF Containers
  <2> QED
    BY <2>1, <2>6, <2>7, <2>8
<1>6. CASE v.marker = Marker.String /\ v = String(v.string) /\ v.string \in Seq(Byte)
  <2> DEFINE s == Utf8Bytes(v.string)
  <2>1. ScalarBytes(v) = <<2>> \o s /\ ScalarSize(v) = 1 + Utf8Size(v.string)
    BY <1>6, Markers DEF ScalarBytes, ScalarSize, StringBytes, StringSize
  <2>2. Len(v.string) < Limit /\ s \in Seq(Byte)
    BY <1>6, Utf8Length DEF Readable
  <2> HIDE DEF s
  <2>3. ~IsObjectEof(b, p) /\ (\A M : Discovers(b, p, M) <=> 2 \in M) /\ Holds(b, p + 1, s)
    BY <2>1, <2>2, FirstByte
  <2>4. ReadUtf8(b, p + 1) = Got(v.string, (p + 1) + Utf8Size(v.string))
    <3>1. p + 1 \in Nat \ {0}
      OBVIOUS
    <3> QED
      BY <1>6, <2>2, <2>3, <3>1, Utf8Read DEF s
  <2>5. ReadString(b, p) = Got(v, (p + 1) + Utf8Size(v.string))
    <3>1. LET r == ReadUtf8(b, p + 1)
          IN  r.ok = TRUE /\ r.value = v.string /\ r.next = (p + 1) + Utf8Size(v.string)
      BY <2>4 DEF Got
    <3>2. ReadString(b, p) = Got(String(v.string), (p + 1) + Utf8Size(v.string))
      BY <3>1 DEF ReadString, Convert
    <3> QED
      BY <1>6, <3>2
  <2>6. AnyScalar(b, p) = ReadString(b, p)
    BY <2>3, Markers DEF AnyScalar
  <2>7. ~Discovers(b, p, Containers)
    BY <2>3, Markers DEF Containers
  <2>8. (p + 1) + Utf8Size(v.string) = p + (1 + Utf8Size(v.string))
    <3>1. Utf8Size(v.string) \in Int
      BY <1>6 DEF Utf8Size
    <3> QED
      BY <3>1
  <2> QED
    BY <2>1, <2>5, <2>6, <2>7, <2>8
<1>7. CASE /\ v.marker = Marker.Date /\ v = Date(v.date, v.zone)
           /\ v.date \in Seq(Byte) /\ Len(v.date) = 8
           /\ v.zone \in Seq(Byte) /\ Len(v.zone) = 2
  <2> DEFINE s == v.date \o v.zone
  <2>1. ScalarBytes(v) = <<11>> \o s /\ ScalarSize(v) = 11
    <3>1. ScalarSize(v) = 11
      BY <1>7, Markers DEF ScalarSize, DateSize
    <3>2. v.marker = 11
      BY <1>7, Markers
    <3>3. ScalarBytes(v) = DateBytes(v)
      BY <3>2, Markers DEF ScalarBytes
    <3> QED
      BY <3>1, <3>3, Markers DEF DateBytes
  <2>2. s \in Seq(Byte) /\ Len(s) = 10
    BY <1>7, DateParts
  <2>3. SubSeq(s, 1, 8) = v.date /\ SubSeq(s, 9, 10) = v.zone
    BY <1>7, DateParts
  <2> HIDE DEF s
  <2>4. ~IsObjectEof(b, p) /\ \A M : Discovers(b, p, M) <=> 11 \in M
    BY <2>1, <2>2, FirstByte
  <2>5. ReadField(b, p + 1, 8 + 2) = Got(s, p + 1 + 10)
    <3>1. ReadField(b, p + 1, Len(s)) = Got(s, p + 1 + Len(s))
      <4>1. 11 \in 1 .. 11 /\ Holds(b, p, <<11>> \o s)
        BY <2>1
      <4> QED
        BY <2>2, <4>1, MarkedField, Zenon
    <3> QED
      BY <2>2, <3>1
  <2>6. ReadDate(b, p) = Got(v, p + 1 + 10)
    <3>1. ReadDate(b, p) = Got(Date(SubSeq(s, 1, 8), SubSeq(s, 9, 10)), p + 1 + 10)
      <4>1. LET r == ReadField(b, p + 1, 8 + 2)
            IN  r.ok = TRUE /\ r.value = s /\ r.next = p + 1 + 10
        BY <2>5 DEF Got
      <4> QED
        BY <4>1 DEF ReadDate, Convert
    <3> QED
      BY <1>7, <2>3, <3>1
  <2>7. AnyScalar(b, p) = ReadDate(b, p)
    BY <2>4, Markers DEF AnyScalar
  <2>8. ~Discovers(b, p, Containers)
    BY <2>4, Markers DEF Containers
  <2>9. p + 1 + 10 = p + 11
    OBVIOUS
  <2> QED
    BY <2>1, <2>6, <2>7, <2>8, <2>9
<1> QED
  BY <1>1, <1>2, <1>3, <1>4, <1>5, <1>6, <1>7 DEF Proper, IsContainer, HasProps, HasElems

-----------------------------------------------------------------------------
(* Sequences of anything *)

LEMMA InRange ==
    ASSUME NEW s, NEW i \in DOMAIN s
    PROVE  s[i] \in Range(s)
BY DEF Range

LEMMA SeqIn ==
    ASSUME NEW S, NEW T, NEW s \in Seq(S), \A i \in 1 .. Len(s) : s[i] \in T
    PROVE  s \in Seq(T)
OBVIOUS

LEMMA ATable ==
    ASSUME NEW S, NEW s \in Seq(S)
    PROVE  Table(s)
<1>1. DOMAIN s = 1 .. Len(s)
  OBVIOUS
<1>2. \A i \in 1 .. Len(s) : s[i] \in Range(s)
  BY <1>1, InRange
<1> QED
  BY <1>2, SeqIn DEF Table

LEMMA TableIs ==
    ASSUME NEW s, Table(s)
    PROVE  /\ Len(s) \in Nat /\ DOMAIN s = 1 .. Len(s) /\ s \in Seq(Range(s))
           /\ s = <<>> <=> Len(s) = 0
BY DEF Table

LEMMA TableAppend ==
    ASSUME NEW s, Table(s), NEW x
    PROVE  /\ Table(Append(s, x)) /\ Len(Append(s, x)) = Len(s) + 1
           /\ \A i \in 1 .. Len(s) : Append(s, x)[i] = s[i]
           /\ Append(s, x)[Len(s) + 1] = x
<1> DEFINE S == Range(s) \cup {x}
<1>1. Len(s) \in Nat /\ DOMAIN s = 1 .. Len(s) /\ s \in Seq(Range(s))
  BY TableIs
<1>2. \A i \in 1 .. Len(s) : s[i] \in S
  BY <1>1, InRange
<1>3. s \in Seq(S) /\ x \in S
  BY <1>1, <1>2, SeqIn
<1> HIDE DEF S
<1> DEFINE t == Append(s, x)
<1>4. /\ t \in Seq(S) /\ Len(t) = Len(s) + 1 /\ t[Len(s) + 1] = x
      /\ \A i \in 1 .. Len(s) : t[i] = s[i]
  BY <1>3
<1> HIDE DEF t
<1>5. Table(t)
  BY <1>4, ATable
<1> QED
  BY <1>4, <1>5 DEF t

LEMMA SubSeqIs ==
    ASSUME NEW S, NEW s \in Seq(S), NEW n \in 0 .. Len(s)
    PROVE  /\ SubSeq(s, 1, n) \in Seq(S) /\ Len(SubSeq(s, 1, n)) = n
           /\ \A i \in 1 .. n : SubSeq(s, 1, n)[i] = s[i]
OBVIOUS

LEMMA TableSub ==
    ASSUME NEW s, Table(s), NEW n \in 0 .. Len(s)
    PROVE  /\ Table(SubSeq(s, 1, n)) /\ Len(SubSeq(s, 1, n)) = n
           /\ \A i \in 1 .. n : SubSeq(s, 1, n)[i] = s[i]
<1> DEFINE t == SubSeq(s, 1, n)
<1>1. s \in Seq(Range(s))
  BY TableIs
<1>2. t \in Seq(Range(s)) /\ Len(t) = n /\ \A i \in 1 .. n : t[i] = s[i]
  BY <1>1, SubSeqIs
<1> HIDE DEF t
<1>3. Table(t)
  BY <1>2, ATable
<1> QED
  BY <1>2, <1>3 DEF t

LEMMA TableFront ==
    ASSUME NEW s, Table(s), s # <<>>
    PROVE  /\ Table(Front(s)) /\ Len(Front(s)) = Len(s) - 1 /\ Len(s) \in Nat /\ Len(s) >= 1
           /\ \A i \in 1 .. Len(s) - 1 : Front(s)[i] = s[i]
           /\ Last(s) = s[Len(s)]
<1>1. Len(s) \in Nat /\ Len(s) # 0
  BY TableIs
<1>2. Len(s) - 1 \in 0 .. Len(s)
  BY <1>1
<1> DEFINE n == Len(s) - 1
<1>3. /\ Table(SubSeq(s, 1, n)) /\ Len(SubSeq(s, 1, n)) = n
      /\ \A i \in 1 .. n : SubSeq(s, 1, n)[i] = s[i]
  <2> HIDE DEF n
  <2> QED
    BY <1>2, TableSub DEF n
<1>4. Front(s) = SubSeq(s, 1, n) /\ Last(s) = s[Len(s)]
  BY DEF Front, Last
<1> QED
  BY <1>1, <1>3, <1>4

LEMMA TableExcept ==
    ASSUME NEW s, Table(s), NEW n \in DOMAIN s, NEW x
    PROVE  /\ Table([s EXCEPT ![n] = x]) /\ Len([s EXCEPT ![n] = x]) = Len(s)
           /\ \A i \in 1 .. Len(s) : [s EXCEPT ![n] = x][i] = IF i = n THEN x ELSE s[i]
<1> DEFINE S == Range(s) \cup {x}
           t == [s EXCEPT ![n] = x]
<1>1. Len(s) \in Nat /\ DOMAIN s = 1 .. Len(s) /\ s \in Seq(Range(s))
  BY TableIs
<1>2. \A i \in 1 .. Len(s) : s[i] \in S
  BY <1>1, InRange
<1>3. s \in Seq(S) /\ x \in S
  BY <1>1, <1>2, SeqIn
<1> HIDE DEF S
<1>4. t \in Seq(S) /\ Len(t) = Len(s) /\ \A i \in 1 .. Len(s) : t[i] = IF i = n THEN x ELSE s[i]
  BY <1>1, <1>3
<1> HIDE DEF t
<1>5. Table(t)
  BY <1>4, ATable
<1> QED
  BY <1>4, <1>5 DEF t

LEMMA SameTable ==
    ASSUME NEW s, NEW t, Table(s), Table(t), Len(s) = Len(t),
           \A i \in 1 .. Len(s) : s[i] = t[i]
    PROVE  s = t
<1> DEFINE S == Range(s) \cup Range(t)
<1>1. s \in Seq(Range(s)) /\ DOMAIN s = 1 .. Len(s) /\ t \in Seq(Range(t)) /\ DOMAIN t = 1 .. Len(t)
  BY TableIs
<1>2. (\A i \in 1 .. Len(s) : s[i] \in S) /\ (\A i \in 1 .. Len(t) : t[i] \in S)
  BY <1>1, InRange
<1>3. s \in Seq(S) /\ t \in Seq(S)
  BY <1>1, <1>2, SeqIn
<1> HIDE DEF S
<1> QED
  BY <1>3, SameSeq

-----------------------------------------------------------------------------
(* Where a walk can be: V has the values that it has come by *)

Walking(w, V) ==
    /\ w = [root |-> w.root, path |-> w.path, due |-> w.due]
    /\ w.due \in BOOLEAN
    /\ w.path \in Seq([of : V, done : Nat])
    /\ \A j \in 1 .. Len(w.path) :
          /\ IsContainer(w.path[j].of)
          /\ w.path[j].done <= Len(Entries(w.path[j].of))
          /\ j < Len(w.path) \/ w.due => w.path[j].done >= 1
    /\ \A j \in 1 .. Len(w.path) - 1 :
          w.path[j + 1].of = EntryValue(w.path[j].of, w.path[j].done)
    /\ w.path # <<>> => w.path[1].of = w.root

AllOf(V) == \A v \in V : Proper(v)

LEMMA EntriesTable ==
    ASSUME NEW v, Proper(v), IsContainer(v)
    PROVE  /\ Table(Entries(v)) /\ Len(Entries(v)) \in Nat
           /\ HasProps(v) => Entries(v) = v.props /\ ProperProps(v.props) /\ ~HasElems(v)
           /\ HasElems(v) => Entries(v) = v.elems /\ Table(v.elems) /\ ~HasProps(v)
<1>1. HasProps(v) => ~HasElems(v)
  BY Markers DEF HasProps, HasElems
<1>2. HasProps(v) => ProperProps(v.props)
  BY Markers DEF HasProps, Proper, Null, Undefined, ObjectEOF
<1>3. HasElems(v) => Table(v.elems)
  BY Markers DEF HasElems, Proper, Null, Undefined, ObjectEOF
<1>4. Table(Entries(v))
  BY <1>1, <1>2, <1>3 DEF IsContainer, Entries, ProperProps
<1>5. Len(Entries(v)) \in Nat
  BY <1>4, TableIs
<1> QED
  BY <1>1, <1>2, <1>3, <1>4, <1>5 DEF Entries

LEMMA NonEmpty ==
    ASSUME NEW S, NEW s \in Seq(S), s # <<>>
    PROVE  Len(s) \in Nat \ {0} /\ Len(s) \in DOMAIN s /\ s[Len(s)] \in S
OBVIOUS

LEMMA TopIs ==
    ASSUME NEW V, AllOf(V), NEW w, Walking(w, V), w.path # <<>>
    PROVE  /\ Len(w.path) \in Nat \ {0} /\ Top(w) = w.path[Len(w.path)]
           /\ Top(w) \in [of : V, done : Nat]
           /\ Top(w).of \in V /\ Proper(Top(w).of) /\ IsContainer(Top(w).of)
           /\ Top(w).done \in Nat /\ Len(Entries(Top(w).of)) \in Nat
           /\ Top(w).done <= Len(Entries(Top(w).of))
           /\ w.due => Top(w).done >= 1
<1> DEFINE p == w.path
           n == Len(p)
<1>1. p \in Seq([of : V, done : Nat]) /\ p # <<>>
  BY DEF Walking
<1>2. n \in Nat \ {0} /\ p[n] \in [of : V, done : Nat]
  <2> HIDE DEF p
  <2> QED
    BY <1>1, NonEmpty
<1>3. Top(w) = p[n]
  BY DEF Top, Last
<1>4. n \in 1 .. Len(p)
  BY <1>2
<1>5. IsContainer(p[n].of) /\ p[n].done <= Len(Entries(p[n].of)) /\ (w.due => p[n].done >= 1)
  BY <1>4 DEF Walking
<1>6. Proper(p[n].of) /\ p[n].of \in V /\ p[n].done \in Nat
  BY <1>2 DEF AllOf
<1> QED
  BY <1>2, <1>3, <1>5, <1>6, EntriesTable

\* A walk is at one kind of place.
LEMMA Kinds ==
    ASSUME NEW V, AllOf(V), NEW w, Walking(w, V)
    PROVE  /\ AtContainer(w) \/ AtScalar(w) \/ AtEntry(w) \/ AtEnd(w) \/ Ended(w)
           /\ AtContainer(w) => ~AtScalar(w) /\ ~AtEntry(w) /\ ~AtEnd(w) /\ ~Ended(w)
           /\ AtScalar(w) => ~AtEntry(w) /\ ~AtEnd(w) /\ ~Ended(w)
           /\ AtEntry(w) => ~AtEnd(w) /\ ~Ended(w)
           /\ AtEnd(w) => ~Ended(w)
<1>1. w.due \in BOOLEAN
  BY DEF Walking
<1>2. w.path # <<>> => Top(w).done \in Nat /\ Len(Entries(Top(w).of)) \in Nat
  BY TopIs
<1> QED
  BY <1>1, <1>2 DEF AtContainer, AtScalar, AtEntry, AtEnd, Ended

LEMMA AfterIs ==
    ASSUME NEW V, AllOf(V), NEW w, Walking(w, V)
    PROVE  /\ AtContainer(w) => After(w) =
                [root |-> w.root, path |-> Append(w.path, [of |-> Item(w), done |-> 0]), due |-> FALSE]
           /\ AtScalar(w) => After(w) = [root |-> w.root, path |-> w.path, due |-> FALSE]
           /\ AtEntry(w) => After(w) =
                [root |-> w.root,
                 path |-> [w.path EXCEPT ![Len(w.path)] = [of |-> Top(w).of, done |-> Top(w).done + 1]],
                 due |-> TRUE]
           /\ AtEnd(w) => After(w) = [root |-> w.root, path |-> Front(w.path), due |-> FALSE]
<1>1. w = [root |-> w.root, path |-> w.path, due |-> w.due]
  BY DEF Walking
<1>2. ASSUME AtContainer(w)
      PROVE  After(w) = [root |-> w.root, path |-> Append(w.path, [of |-> Item(w), done |-> 0]), due |-> FALSE]
  <2>1. After(w) = [w EXCEPT !.path = Append(@, [of |-> Item(w), done |-> 0]), !.due = FALSE]
    BY <1>2, Kinds DEF After
  <2> QED
    BY <1>1, <2>1
<1>3. ASSUME AtScalar(w)
      PROVE  After(w) = [root |-> w.root, path |-> w.path, due |-> FALSE]
  <2>1. After(w) = [w EXCEPT !.due = FALSE]
    BY <1>3, Kinds DEF After
  <2> QED
    BY <1>1, <2>1
<1>4. ASSUME AtEntry(w)
      PROVE  After(w) =
                [root |-> w.root,
                 path |-> [w.path EXCEPT ![Len(w.path)] = [of |-> Top(w).of, done |-> Top(w).done + 1]],
                 due |-> TRUE]
  <2>1. After(w) = [w EXCEPT !.path[Len(w.path)].done = @ + 1, !.due = TRUE]
    BY <1>4, Kinds DEF After
  <2>2. w.path # <<>> /\ w.path \in Seq([of : V, done : Nat])
    BY <1>4 DEF AtEntry, Walking
  <2>3. Len(w.path) \in DOMAIN w.path
    BY <2>2
  <2>4. Top(w) = w.path[Len(w.path)] /\ Top(w) \in [of : V, done : Nat]
    BY <2>2, TopIs
  <2>5. [Top(w) EXCEPT !.done = @ + 1] = [of |-> Top(w).of, done |-> Top(w).done + 1]
    BY <2>4
  <2>6. [w.path EXCEPT ![Len(w.path)].done = @ + 1] =
            [w.path EXCEPT ![Len(w.path)] = [of |-> Top(w).of, done |-> Top(w).done + 1]]
    BY <2>3, <2>4, <2>5
  <2>7. [w EXCEPT !.path[Len(w.path)].done = @ + 1, !.due = TRUE] =
            [w EXCEPT !.path = [w.path EXCEPT ![Len(w.path)].done = @ + 1], !.due = TRUE]
    BY <1>1
  <2> QED
    BY <1>1, <2>1, <2>6, <2>7
<1>5. ASSUME AtEnd(w)
      PROVE  After(w) = [root |-> w.root, path |-> Front(w.path), due |-> FALSE]
  <2>1. After(w) = [w EXCEPT !.path = Front(@)] /\ w.due = FALSE
    BY <1>5, Kinds DEF After, AtEnd, Walking
  <2> QED
    BY <1>1, <2>1
<1> QED
  BY <1>2, <1>3, <1>4, <1>5

\* A step leads from a place to the next one.
LEMMA AfterWalking ==
    ASSUME NEW V, AllOf(V), NEW w, Walking(w, V), ~Ended(w), w.due => Item(w) \in V
    PROVE  Walking(After(w), V) /\ After(w).root = w.root
<1> DEFINE p == w.path
           S == [of : V, done : Nat]
<1>1. /\ p \in Seq(S) /\ Len(p) \in Nat /\ DOMAIN p = 1 .. Len(p)
      /\ \A j \in 1 .. Len(p) :
            IsContainer(p[j].of) /\ p[j].done <= Len(Entries(p[j].of))
            /\ (j < Len(p) \/ w.due => p[j].done >= 1)
      /\ \A j \in 1 .. Len(p) - 1 : p[j + 1].of = EntryValue(p[j].of, p[j].done)
      /\ p # <<>> => p[1].of = w.root
  BY DEF Walking
<1>2. p = <<>> <=> Len(p) = 0
  BY <1>1
<1>3. CASE AtContainer(w)
  <2> DEFINE x == [of |-> Item(w), done |-> 0]
             q == Append(p, x)
  <2>1. After(w) = [root |-> w.root, path |-> q, due |-> FALSE]
    BY <1>3, AfterIs
  <2>2. x \in S /\ IsContainer(x.of) /\ x.done = 0 /\ w.due = TRUE /\ x.of = Item(w)
    BY <1>3 DEF AtContainer, Walking
  <2>3. 0 <= Len(Entries(x.of))
    BY <2>2, EntriesTable DEF AllOf
  <2>4. p # <<>> => x.of = EntryValue(p[Len(p)].of, p[Len(p)].done)
    BY <2>2 DEF Item, Top, Last
  <2>5. p = <<>> => x.of = w.root
    BY <2>2 DEF Item
  <2> HIDE DEF p, S, x
  <2>6. /\ q \in Seq(S) /\ Len(q) = Len(p) + 1 /\ q[Len(p) + 1] = x
        /\ \A i \in 1 .. Len(p) : q[i] = p[i]
    BY <1>1, <2>2
  <2> HIDE DEF q
  <2>7. ASSUME NEW j \in 1 .. Len(q)
        PROVE  /\ IsContainer(q[j].of) /\ q[j].done <= Len(Entries(q[j].of))
               /\ j < Len(q) => q[j].done >= 1
    <3>1. CASE j = Len(p) + 1
      BY <1>1, <2>2, <2>3, <2>6, <3>1
    <3>2. CASE j # Len(p) + 1
      <4>1. j \in 1 .. Len(p) /\ q[j] = p[j]
        BY <1>1, <2>6, <3>2
      <4> QED
        BY <1>1, <2>2, <4>1
    <3> QED
      BY <3>1, <3>2
  <2>8. ASSUME NEW j \in 1 .. Len(q) - 1
        PROVE  q[j + 1].of = EntryValue(q[j].of, q[j].done)
    <3>1. CASE j = Len(p)
      <4>1. q[j + 1] = x /\ q[j] = p[Len(p)] /\ p # <<>>
        BY <1>1, <1>2, <2>6, <3>1
      <4> QED
        BY <2>4, <4>1
    <3>2. CASE j # Len(p)
      <4>1. j \in 1 .. Len(p) - 1 /\ j \in 1 .. Len(p) /\ j + 1 \in 1 .. Len(p)
        <5>1. Len(q) = Len(p) + 1 /\ Len(p) \in Nat
          BY <1>1, <2>6
        <5> QED
          BY <3>2, <5>1
      <4>2. q[j] = p[j] /\ q[j + 1] = p[j + 1]
        BY <2>6, <4>1
      <4> QED
        BY <1>1, <4>1, <4>2
    <3> QED
      BY <3>1, <3>2
  <2>9. q[1].of = w.root
    <3>1. CASE p = <<>>
      BY <1>2, <2>5, <2>6, <3>1
    <3>2. CASE p # <<>>
      BY <1>1, <1>2, <2>6, <3>2
    <3> QED
      BY <3>1, <3>2
  <2>10. q \in Seq([of : V, done : Nat])
    BY <2>6 DEF S
  <2> HIDE DEF Walking
  <2> DEFINE r == [root |-> w.root, path |-> q, due |-> FALSE]
  <2>11. r.path = q /\ r.due = FALSE /\ r.root = w.root
    OBVIOUS
  <2>12. Walking(r, V)
    BY <2>7, <2>8, <2>9, <2>10, <2>11 DEF Walking
  <2> QED
    BY <2>1, <2>11, <2>12
<1>4. CASE AtScalar(w)
  <2>1. After(w) = [root |-> w.root, path |-> p, due |-> FALSE] /\ w.due = TRUE
    BY <1>4, AfterIs DEF AtScalar, Walking
  <2> QED
    BY <1>1, <2>1 DEF Walking
<1>5. CASE AtEntry(w)
  <2> DEFINE n == Len(p)
             t == Top(w)
             x == [of |-> t.of, done |-> t.done + 1]
             q == [p EXCEPT ![n] = x]
  <2>1. After(w) = [root |-> w.root, path |-> q, due |-> TRUE]
    BY <1>5, AfterIs
  <2>2. /\ w.due = FALSE /\ p # <<>> /\ t.done < Len(Entries(t.of))
        /\ n \in Nat \ {0} /\ t = p[n] /\ t \in S
        /\ t.done \in Nat /\ Len(Entries(t.of)) \in Nat /\ IsContainer(t.of)
    BY <1>5, TopIs DEF AtEntry, Walking
  <2>3. /\ x \in S /\ x.of = p[n].of /\ x.done = p[n].done + 1 /\ IsContainer(x.of)
        /\ x.done <= Len(Entries(x.of)) /\ x.done >= 1
    BY <2>2
  <2> HIDE DEF p, S, x, t
  <2>4. q \in Seq(S) /\ Len(q) = n /\ \A i \in 1 .. n : q[i] = IF i = n THEN x ELSE p[i]
    BY <1>1, <2>2, <2>3
  <2> HIDE DEF q
  <2>5. ASSUME NEW j \in 1 .. Len(q)
        PROVE  IsContainer(q[j].of) /\ q[j].done <= Len(Entries(q[j].of)) /\ q[j].done >= 1
    <3>1. CASE j = n
      BY <2>3, <2>4, <3>1
    <3>2. CASE j # n
      <4>1. j \in 1 .. Len(p) /\ j < Len(p) /\ n = Len(p)
        <5>1. Len(q) = n /\ Len(p) \in Nat /\ n = Len(p)
          BY <1>1, <2>4 DEF n
        <5> QED
          BY <3>2, <5>1
      <4>2. q[j] = p[j]
        BY <2>4, <3>2, <4>1
      <4> QED
        BY <1>1, <4>1, <4>2
    <3> QED
      BY <3>1, <3>2
  <2>6. ASSUME NEW j \in 1 .. Len(q) - 1
        PROVE  q[j + 1].of = EntryValue(q[j].of, q[j].done)
    <3>1. j \in 1 .. Len(p) - 1 /\ j # n /\ q[j] = p[j] /\ q[j + 1].of = p[j + 1].of
      <4>1. j \in 1 .. Len(p) - 1 /\ j # n /\ j \in 1 .. n /\ j + 1 \in 1 .. n
        <5>1. Len(q) = n /\ n = Len(p) /\ n \in Nat
          BY <1>1, <2>4 DEF n
        <5> QED
          BY <5>1
      <4> QED
        BY <2>3, <2>4, <4>1
    <3> QED
      BY <1>1, <3>1
  <2>7. q[1].of = w.root
    <3>1. 1 \in 1 .. n /\ q[1].of = p[1].of
      BY <2>2, <2>3, <2>4
    <3> QED
      BY <1>1, <2>2, <3>1
  <2> QED
    BY <2>1, <2>4, <2>5, <2>6, <2>7 DEF Walking, S
<1>6. CASE AtEnd(w)
  <2> DEFINE q == Front(p)
  <2>1. After(w) = [root |-> w.root, path |-> q, due |-> FALSE]
    BY <1>6, AfterIs
  <2>2. p # <<>>
    BY <1>6 DEF AtEnd
  <2>3. q \in Seq(S) /\ Len(q) = Len(p) - 1 /\ \A i \in 1 .. Len(p) - 1 : q[i] = p[i]
    <3> HIDE DEF p, S
    <3>1. Len(p) - 1 \in 0 .. Len(p) /\ p \in Seq(S)
      BY <1>1, <1>2, <2>2
    <3> QED
      BY <3>1, SubSeqIs DEF Front
  <2> HIDE DEF p, S, q
  <2>4. ASSUME NEW j \in 1 .. Len(q)
        PROVE  IsContainer(q[j].of) /\ q[j].done <= Len(Entries(q[j].of)) /\ q[j].done >= 1
    <3>1. j \in 1 .. Len(p) /\ j < Len(p) /\ q[j] = p[j]
      BY <1>1, <2>3
    <3> QED
      BY <1>1, <3>1
  <2>5. ASSUME NEW j \in 1 .. Len(q) - 1
        PROVE  q[j + 1].of = EntryValue(q[j].of, q[j].done)
    <3>1. j \in 1 .. Len(p) - 1 /\ q[j] = p[j] /\ q[j + 1] = p[j + 1]
      BY <1>1, <2>3
    <3> QED
      BY <1>1, <3>1
  <2>6. q # <<>> => q[1].of = w.root
    <3>1. ASSUME q # <<>>
          PROVE  q[1] = p[1]
      <4>1. Len(q) \in Nat /\ Len(q) # 0
        BY <2>3, <3>1
      <4> QED
        BY <1>1, <2>3, <4>1
    <3> QED
      BY <1>1, <2>2, <3>1
  <2> QED
    BY <2>1, <2>3, <2>4, <2>5, <2>6 DEF Walking, S
<1> QED
  BY <1>3, <1>4, <1>5, <1>6, Kinds

LEMMA WalkingOn ==
    ASSUME NEW V, NEW W, V \subseteq W, NEW w, Walking(w, V)
    PROVE  Walking(w, W)
<1> DEFINE p == w.path
<1>1. p \in Seq([of : V, done : Nat])
  BY DEF Walking
<1>2. p \in Seq([of : W, done : Nat])
  <2> HIDE DEF p
  <2> DEFINE S == [of : V, done : Nat]
  <2>2. S \subseteq [of : W, done : Nat]
    OBVIOUS
  <2> HIDE DEF S
  <2>3. p \in Seq(S)
    BY <1>1 DEF S
  <2>1. \A i \in 1 .. Len(p) : p[i] \in S
    BY <2>3
  <2> QED
    BY <2>1, <2>2, <2>3, SeqIn
<1> QED
  BY <1>2 DEF Walking

LEMMA BeginWalking ==
    ASSUME NEW v, NEW V
    PROVE  /\ Walking(Begin(v), V) /\ ~Ended(Begin(v)) /\ Begin(v).due = TRUE
           /\ Begin(v).root = v /\ Begin(v).path = <<>>
<1> DEFINE w == Begin(v)
<1>1. w = [root |-> v, path |-> <<>>, due |-> TRUE]
  BY DEF Begin
<1>2. w.root = v /\ w.path = <<>> /\ w.due = TRUE
  BY <1>1
<1>3. w = [root |-> w.root, path |-> w.path, due |-> w.due]
  BY <1>1
<1> HIDE DEF w
<1> DEFINE p == w.path
<1>4. /\ p \in Seq([of : V, done : Nat])
      /\ \A j \in 1 .. Len(p) : FALSE
      /\ \A j \in 1 .. Len(p) - 1 : FALSE
  <2>1. p = <<>>
    BY <1>2
  <2> QED
    BY <2>1
<1>5. Walking(w, V)
  BY <1>2, <1>3, <1>4 DEF Walking
<1>6. ~Ended(w)
  BY <1>2 DEF Ended
<1> QED
  BY <1>2, <1>5, <1>6 DEF w

\* The key of an entry is a string of bytes.
LEMMA KeyBytes ==
    ASSUME NEW v, Proper(v), HasProps(v), NEW i \in 1 .. Len(Entries(v))
    PROVE  /\ EntryKey(v, i) = v.props[i].key /\ EntryKey(v, i) \in Seq(Byte)
           /\ EntryValue(v, i) = v.props[i].value /\ i \in DOMAIN v.props
           /\ v.props[i] = Property(EntryKey(v, i), EntryValue(v, i))
<1>1. Entries(v) = v.props /\ ProperProps(v.props)
  BY EntriesTable DEF IsContainer
<1>2. i \in DOMAIN v.props
  BY <1>1, TableIs DEF ProperProps
<1>3. v.props[i] = Property(v.props[i].key, v.props[i].value) /\ v.props[i].key \in Seq(Byte)
  BY <1>1, <1>2 DEF ProperProps
<1> QED
  BY <1>2, <1>3 DEF EntryKey, EntryValue

\* total_size() adds what write() writes, at each of its steps.
LEMMA BytesLength ==
    ASSUME NEW V, AllOf(V), NEW w, Walking(w, V), ~Ended(w), w.due => Item(w) \in V
    PROVE  BytesOf(w) \in Seq(Byte) /\ SizeOf(w) \in Nat /\ Len(BytesOf(w)) = SizeOf(w)
<1>1. CASE AtContainer(w)
  <2> DEFINE v == Item(w)
  <2>1. BytesOf(w) = ContainerBytes(v) /\ SizeOf(w) = ContainerSize(v)
    BY <1>1, Kinds DEF BytesOf, SizeOf
  <2>2. IsContainer(v) /\ Proper(v)
    BY <1>1 DEF AtContainer, AllOf
  <2> HIDE DEF v
  <2>3. v.marker \in {3, 8, 10}
    BY <2>2, Markers DEF IsContainer, HasProps, HasElems
  <2>4. CASE v.marker = Marker.Object
    <3>1. ContainerBytes(v) = <<3>> \o <<>> /\ ContainerSize(v) = 1
      BY <2>4, Markers DEF ContainerBytes, ContainerSize
    <3> DEFINE s == <<3>>
    <3>2. s \in Seq(Byte) /\ Len(s) = 1 /\ s \o <<>> = s
      BY SmallBytes
    <3> QED
      BY <2>1, <3>1, <3>2
  <2>5. CASE v.marker # Marker.Object
    <3> DEFINE t == IntToBytes4(v.count)
               m == v.marker
    <3>1. ContainerBytes(v) = <<m>> \o t /\ ContainerSize(v) = 1 + 4
      BY <2>5 DEF ContainerBytes, ContainerSize
    <3>2. v.count \in Int32
      BY <2>2, <2>3, <2>5, Markers DEF Proper, Null, Undefined, ObjectEOF
    <3>3. t \in Seq(Byte) /\ Len(t) = 4
      BY <3>2, Counted
    <3>4. m \in 0 .. 11
      BY <2>3
    <3> HIDE DEF t, m
    <3>5. <<m>> \o t \in Seq(Byte) /\ Len(<<m>> \o t) = 1 + Len(t)
      BY <3>3, <3>4, MarkedLength, Zenon
    <3> QED
      BY <2>1, <3>1, <3>3, <3>5
  <2> QED
    BY <2>4, <2>5
<1>2. CASE AtScalar(w)
  <2> DEFINE v == Item(w)
  <2>1. BytesOf(w) = ScalarBytes(v) /\ SizeOf(w) = ScalarSize(v)
    BY <1>2, Kinds DEF BytesOf, SizeOf
  <2>2. ~IsContainer(v) /\ Proper(v)
    BY <1>2 DEF AtScalar, AllOf
  <2>3. ScalarBytes(v) \in Seq(Byte) /\ Len(ScalarBytes(v)) = ScalarSize(v)
    BY <2>2, ScalarLength
  <2>4. Len(ScalarBytes(v)) \in Nat
    BY <2>3
  <2> QED
    BY <2>1, <2>3, <2>4
<1>3. CASE AtEntry(w)
  <2> DEFINE v == Top(w).of
             key == NextKey(w)
  <2>1. BytesOf(w) = EntryBytes(v, key) /\ SizeOf(w) = EntrySize(v, key)
    BY <1>3, Kinds DEF BytesOf, SizeOf
  <2>2. CASE HasProps(v)
    <3>1. Proper(v) /\ Top(w).done + 1 \in 1 .. Len(Entries(v))
      BY <1>3, TopIs DEF AtEntry
    <3>2. key \in Seq(Byte)
      BY <2>2, <3>1, KeyBytes DEF NextKey
    <3>3. Utf8Bytes(key) \in Seq(Byte) /\ Len(Utf8Bytes(key)) = Utf8Size(key)
      BY <3>2, Utf8Length
    <3>4. Len(Utf8Bytes(key)) \in Nat
      BY <3>3
    <3> QED
      BY <2>1, <2>2, <3>3, <3>4 DEF EntryBytes, EntrySize
  <2>3. CASE ~HasProps(v)
    BY <2>1, <2>3 DEF EntryBytes, EntrySize
  <2> QED
    BY <2>2, <2>3
<1>4. CASE AtEnd(w)
  <2> DEFINE v == Top(w).of
  <2>1. BytesOf(w) = EndBytes(v) /\ SizeOf(w) = EndSize(v)
    BY <1>4, Kinds DEF BytesOf, SizeOf
  <2>2. EofBytes \in Seq(Byte) /\ Len(EofBytes) = 3
    <3>1. 0 \in Byte /\ 9 \in Byte
      BY SmallBytes
    <3> QED
      BY <3>1, Markers DEF EofBytes
  <2>3. CASE HasProps(v)
    <3>1. BytesOf(w) = EofBytes /\ SizeOf(w) = 3
      BY <2>1, <2>3 DEF EndBytes, EndSize, EofSize
    <3> QED
      BY <2>2, <3>1
  <2>4. CASE ~HasProps(v)
    <3>1. BytesOf(w) = <<>> /\ SizeOf(w) = 0
      BY <2>1, <2>4 DEF EndBytes, EndSize
    <3> QED
      BY <3>1
  <2> QED
    BY <2>3, <2>4
<1> QED
  BY <1>1, <1>2, <1>3, <1>4, Kinds

-----------------------------------------------------------------------------
(* What read() and copy() have filled at a place of a walk *)

\* The object or array that was begun at s, when it waits for the value of an entry,
\* and when it does not.
FrameOf(s, pending) ==
    [marker |-> s.of.marker, count |-> CountOf(s.of),
     items |-> SubSeq(Entries(s.of), 1, IF pending THEN s.done - 1 ELSE s.done),
     entry |-> IF pending THEN <<EntryKey(s.of, s.done)>> ELSE <<>>]

\* All of them wait, or all but the innermost one.
Waiting(fs, p) ==
    /\ Table(fs) /\ Len(fs) = Len(p)
    /\ \A j \in 1 .. Len(p) : fs[j] = FrameOf(p[j], TRUE)

Going(fs, p) ==
    /\ Table(fs) /\ Len(fs) = Len(p)
    /\ \A j \in 1 .. Len(p) : fs[j] = FrameOf(p[j], j < Len(p))

Match(fs, w) == IF w.due THEN Waiting(fs, w.path) ELSE Going(fs, w.path)

LEMMA NewFrame ==
    ASSUME NEW v, Proper(v), IsContainer(v)
    PROVE  Frame(v.marker, CountOf(v)) = FrameOf([of |-> v, done |-> 0], FALSE)
<1> DEFINE e == Entries(v)
<1>1. e \in Seq(Range(e))
  BY EntriesTable, TableIs
<1>2. SubSeq(e, 1, 0) = <<>>
  <2> HIDE DEF e
  <2> QED
    BY <1>1
<1> QED
  BY <1>2 DEF Frame, FrameOf

LEMMA LastOfSub ==
    ASSUME NEW s, Table(s), NEW n \in 1 .. Len(s)
    PROVE  Append(SubSeq(s, 1, n - 1), s[n]) = SubSeq(s, 1, n)
<1> DEFINE S == Range(s)
<1>1. s \in Seq(S) /\ Len(s) \in Nat
  BY TableIs
<1> HIDE DEF S
<1>2. s[n] \in S
  BY <1>1
<1>3. n - 1 \in 0 .. Len(s) /\ n \in 0 .. Len(s) /\ n \in Nat
  BY <1>1
<1> DEFINE a == SubSeq(s, 1, n - 1)
           b == SubSeq(s, 1, n)
           c == Append(a, s[n])
<1>4. a \in Seq(S) /\ Len(a) = n - 1 /\ \A i \in 1 .. n - 1 : a[i] = s[i]
  BY <1>1, <1>3, SubSeqIs
<1>5. b \in Seq(S) /\ Len(b) = n /\ \A i \in 1 .. n : b[i] = s[i]
  BY <1>1, <1>3, SubSeqIs
<1> HIDE DEF a, b
<1>6. c \in Seq(S) /\ Len(c) = n /\ \A i \in 1 .. n : c[i] = IF i = n THEN s[n] ELSE a[i]
  BY <1>2, <1>3, <1>4
<1> HIDE DEF c
<1>7. \A i \in 1 .. n : c[i] = b[i]
  BY <1>3, <1>4, <1>5, <1>6
<1>8. c = b
  BY <1>5, <1>6, <1>7, SameSeq
<1> QED
  BY <1>8 DEF c, a, b

\* With distinct keys, set() puts each property behind those before it.
LEMMA SetsAny ==
    ASSUME NEW ps, ProperProps(ps), UniqueKeys(ps), NEW n \in 1 .. Len(ps), NEW x
    PROVE  SetProperty(SubSeq(ps, 1, n - 1), ps[n].key, x) =
               Append(SubSeq(ps, 1, n - 1), Property(ps[n].key, x))
<1> DEFINE a == SubSeq(ps, 1, n - 1)
<1>1. Table(ps) /\ DOMAIN ps = 1 .. Len(ps) /\ Len(ps) \in Nat
  BY TableIs DEF ProperProps
<1>2. n - 1 \in 0 .. Len(ps)
  BY <1>1
<1>3. Table(a) /\ Len(a) = n - 1 /\ \A i \in 1 .. n - 1 : a[i] = ps[i]
  <2> DEFINE m == n - 1
  <2>1. m \in 0 .. Len(ps)
    BY <1>2
  <2> HIDE DEF m
  <2> QED
    BY <1>1, <2>1, TableSub DEF m
<1> HIDE DEF a
<1>4. DOMAIN a = 1 .. n - 1
  BY <1>3, TableIs
<1>5. \A i \in 1 .. n - 1 : i \in DOMAIN ps /\ n \in DOMAIN ps /\ i # n
  BY <1>1
<1>6. \A i \in 1 .. n - 1 : a[i].key # ps[n].key
  BY <1>3, <1>5 DEF UniqueKeys
<1>7. Hits(a, ps[n].key) = {}
  BY <1>4, <1>6 DEF Hits
<1>8. SetProperty(a, ps[n].key, x) = Append(a, Property(ps[n].key, x))
  BY <1>7 DEF SetProperty, Erase
<1> QED
  BY <1>8 DEF a

LEMMA SetsNext ==
    ASSUME NEW ps, ProperProps(ps), UniqueKeys(ps), NEW n \in 1 .. Len(ps)
    PROVE  SetProperty(SubSeq(ps, 1, n - 1), ps[n].key, ps[n].value) = SubSeq(ps, 1, n)
<1>1. Table(ps) /\ n \in DOMAIN ps
  BY TableIs DEF ProperProps
<1>2. ps[n] = Property(ps[n].key, ps[n].value)
  BY <1>1 DEF ProperProps
<1>3. Append(SubSeq(ps, 1, n - 1), ps[n]) = SubSeq(ps, 1, n)
  BY <1>1, LastOfSub
<1> QED
  BY <1>2, <1>3, SetsAny

LEMMA FillIs ==
    ASSUME NEW s, Proper(s.of), IsContainer(s.of), KeysDistinct(s.of),
           s.done \in 1 .. Len(Entries(s.of))
    PROVE  Fill(FrameOf(s, TRUE), EntryValue(s.of, s.done)) = FrameOf(s, FALSE)
<1> DEFINE v == s.of
           n == s.done
           x == EntryValue(v, n)
           e == Entries(v)
           f == FrameOf(s, TRUE)
           items == IF HasElems(f) THEN Append(f.items, x) ELSE SetProperty(f.items, f.entry[1], x)
<1>1. /\ f = [marker |-> v.marker, count |-> CountOf(v), items |-> SubSeq(e, 1, n - 1),
              entry |-> <<EntryKey(v, n)>>]
      /\ f.items = SubSeq(e, 1, n - 1) /\ f.entry[1] = EntryKey(v, n) /\ f.marker = v.marker
  BY DEF FrameOf
<1>2. Fill(f, x) = [f EXCEPT !.items = items, !.entry = <<>>]
  BY DEF Fill
<1>3. Fill(f, x) = [marker |-> v.marker, count |-> CountOf(v), items |-> items, entry |-> <<>>]
  <2> HIDE DEF f, items
  <2> QED
    BY <1>1, <1>2
<1>4. HasElems(f) <=> HasElems(v)
  BY <1>1 DEF HasElems
<1>5. items = SubSeq(e, 1, n)
  <2>1. CASE HasElems(v)
    <3>1. e = v.elems /\ Table(e) /\ ~HasProps(v)
      BY <2>1, EntriesTable
    <3>2. x = e[n]
      BY <3>1 DEF EntryValue
    <3>3. items = Append(SubSeq(e, 1, n - 1), e[n])
      BY <1>1, <1>4, <2>1, <3>2
    <3> HIDE DEF e, items, x, f
    <3> QED
      BY <3>1, <3>3, LastOfSub DEF e
  <2>2. CASE HasProps(v)
    <3>1. e = v.props /\ ProperProps(e) /\ ~HasElems(v) /\ UniqueKeys(e)
      BY <2>2, EntriesTable DEF KeysDistinct
    <3>2. x = e[n].value /\ EntryKey(v, n) = e[n].key
      BY <2>2, <3>1 DEF EntryValue, EntryKey
    <3>3. items = SetProperty(SubSeq(e, 1, n - 1), e[n].key, e[n].value)
      BY <1>1, <1>4, <3>1, <3>2
    <3> HIDE DEF e, items, x, f
    <3> QED
      BY <3>1, <3>3, SetsNext DEF e
  <2> QED
    BY <2>1, <2>2 DEF IsContainer
<1>6. FrameOf(s, FALSE) = [marker |-> v.marker, count |-> CountOf(v), items |-> SubSeq(e, 1, n), entry |-> <<>>]
  BY DEF FrameOf
<1> HIDE DEF items
<1> QED
  BY <1>3, <1>5, <1>6

LEMMA FullIs ==
    ASSUME NEW s, Proper(s.of), IsContainer(s.of), s.done = Len(Entries(s.of))
    PROVE  Filled(FrameOf(s, FALSE)) = s.of
<1> DEFINE v == s.of
           e == Entries(v)
           f == FrameOf(s, FALSE)
<1>1. Table(e) /\ e \in Seq(Range(e))
  BY EntriesTable, TableIs
<1>2. SubSeq(e, 1, Len(e)) = e
  <2> HIDE DEF e
  <2> QED
    BY <1>1
<1>3. f.marker = v.marker /\ f.count = CountOf(v) /\ f.items = e
  BY <1>2 DEF FrameOf
<1> HIDE DEF f
<1>4. CASE v.marker = Marker.Object
  <2>1. v = Object(v.props) /\ e = v.props
    BY <1>4, Markers DEF Proper, Null, Undefined, ObjectEOF, Entries, HasProps
  <2> HIDE DEF e
  <2>2. Filled(f) = Object(f.items)
    BY <1>3, <1>4, Markers DEF Filled
  <2> HIDE DEF v
  <2> QED
    <3>1. Filled(f) = v
      BY <1>3, <2>1, <2>2
    <3> QED
      BY <3>1 DEF f, v
<1>5. CASE v.marker = Marker.EcmaArray
  <2>1. v = EcmaArray(v.props, v.count) /\ e = v.props
    BY <1>5, Markers DEF Proper, Null, Undefined, ObjectEOF, Entries, HasProps
  <2>2. CountOf(v) = v.count
    BY <1>5, Markers DEF CountOf
  <2> HIDE DEF e
  <2>3. Filled(f) = EcmaArray(f.items, f.count)
    BY <1>3, <1>5, Markers DEF Filled
  <2> HIDE DEF v
  <2>4. Filled(f) = v
    BY <1>3, <2>1, <2>2, <2>3
  <2> QED
    BY <2>4 DEF f, v
<1>6. CASE v.marker = Marker.StrictArray
  <2>1. v = StrictArray(v.elems, v.count) /\ e = v.elems
    BY <1>6, Markers DEF Proper, Null, Undefined, ObjectEOF, Entries, HasProps
  <2>2. CountOf(v) = v.count
    BY <1>6, Markers DEF CountOf
  <2> HIDE DEF e
  <2>3. Filled(f) = StrictArray(f.items, f.count)
    BY <1>3, <1>6, Markers DEF Filled
  <2> HIDE DEF v
  <2>4. Filled(f) = v
    BY <1>3, <2>1, <2>2, <2>3
  <2> QED
    BY <2>4 DEF f, v
<1> QED
  BY <1>4, <1>5, <1>6 DEF IsContainer, HasProps, HasElems

-----------------------------------------------------------------------------
(* What an action of read() or copy() does to a Match *)

\* The value that was made is put into the innermost object or array.
LEMMA Delivered ==
    ASSUME NEW fs, NEW p, Waiting(fs, p), Len(p) \in Nat \ {0},
           Proper(p[Len(p)].of), IsContainer(p[Len(p)].of), KeysDistinct(p[Len(p)].of),
           p[Len(p)].done \in 1 .. Len(Entries(p[Len(p)].of)),
           NEW x, x = EntryValue(p[Len(p)].of, p[Len(p)].done)
    PROVE  Going(Append(Front(fs), Fill(Last(fs), x)), p)
<1> DEFINE n == Len(p)
           s == p[n]
           a == Front(fs)
           y == Fill(Last(fs), x)
           gs == Append(a, y)
<1>0. /\ Table(fs) /\ Len(fs) = Len(p)
      /\ \A j \in 1 .. Len(p) : fs[j] = FrameOf(p[j], TRUE)
  BY DEF Waiting
<1>1. fs # <<>>
  BY <1>0, TableIs
<1>2. /\ Table(a) /\ Len(a) = n - 1 /\ \A i \in 1 .. n - 1 : a[i] = fs[i]
      /\ Last(fs) = fs[n]
  BY <1>0, <1>1, TableFront
<1>3. fs[n] = FrameOf(s, TRUE)
  <2>1. n \in 1 .. Len(p)
    OBVIOUS
  <2> QED
    BY <1>0, <2>1
<1>4. y = FrameOf(s, FALSE)
  BY <1>2, <1>3, FillIs
<1> HIDE DEF a, y, s
<1>5. /\ Table(gs) /\ Len(gs) = Len(a) + 1 /\ gs[Len(a) + 1] = y
      /\ \A i \in 1 .. Len(a) : gs[i] = a[i]
  BY <1>2, TableAppend
<1> HIDE DEF gs
<1>6. n \in Nat \ {0} /\ Len(gs) = n /\ gs[n] = y /\ \A i \in 1 .. n - 1 : gs[i] = a[i]
  BY <1>2, <1>5
<1>7. ASSUME NEW j \in 1 .. n
      PROVE  gs[j] = FrameOf(p[j], j < n)
  <2>1. CASE j = n
    <3>1. (j < n) = FALSE /\ gs[j] = y /\ p[j] = s
      BY <1>6, <2>1 DEF s
    <3> QED
      BY <1>4, <3>1
  <2>2. CASE j # n
    <3>1. j \in 1 .. n - 1 /\ (j < n) = TRUE
      BY <1>6, <2>2
    <3>2. gs[j] = fs[j] /\ fs[j] = FrameOf(p[j], TRUE)
      BY <1>0, <1>2, <1>6, <3>1
    <3> QED
      BY <3>1, <3>2
  <2> QED
    BY <2>1, <2>2
<1>8. Going(gs, p)
  BY <1>5, <1>6, <1>7 DEF Going
<1> QED
  BY <1>8 DEF gs, a, y

LEMMA MatchLength ==
    ASSUME NEW V, NEW w, Walking(w, V), NEW fs, Match(fs, w)
    PROVE  /\ Table(fs) /\ Len(fs) = Len(w.path) /\ Len(fs) \in Nat
           /\ fs = <<>> <=> w.path = <<>>
           /\ w.path # <<>> =>
                /\ Last(fs) = fs[Len(w.path)] /\ Len(w.path) \in Nat \ {0}
                /\ Last(fs) = FrameOf(Top(w), w.due)
<1>1. w.path \in Seq([of : V, done : Nat]) /\ w.due \in BOOLEAN
  BY DEF Walking
<1>2. Table(fs) /\ Len(fs) = Len(w.path)
  BY DEF Match, Waiting, Going
<1>3. w.path = <<>> <=> Len(w.path) = 0
  BY <1>1
<1>4. Len(fs) \in Nat /\ (fs = <<>> <=> Len(fs) = 0)
  BY <1>2, TableIs
<1>5. ASSUME w.path # <<>>
      PROVE  /\ Last(fs) = fs[Len(w.path)] /\ Len(w.path) \in Nat \ {0}
             /\ Last(fs) = FrameOf(Top(w), w.due)
  <2>1. Len(w.path) \in 1 .. Len(w.path) /\ ~(Len(w.path) < Len(w.path)) /\ Len(w.path) \in Nat \ {0}
    BY <1>2, <1>3, <1>4, <1>5
  <2>2. fs[Len(w.path)] = FrameOf(w.path[Len(w.path)], w.due)
    <3>1. CASE w.due = TRUE
      BY <2>1, <3>1 DEF Match, Waiting
    <3>2. CASE w.due = FALSE
      <4>1. (Len(w.path) < Len(w.path)) = FALSE
        BY <2>1
      <4> QED
        BY <2>1, <3>2, <4>1 DEF Match, Going
    <3> QED
      BY <1>1, <3>1, <3>2
  <2> QED
    BY <1>1, <1>2, <2>1, <2>2 DEF Top, Last
<1> QED
  BY <1>2, <1>3, <1>4, <1>5

\* One that is begun.
LEMMA MatchOpen ==
    ASSUME NEW V, AllOf(V), NEW w, Walking(w, V), NEW fs, Match(fs, w),
           AtContainer(w), Item(w) \in V
    PROVE  Match(Append(fs, Frame(Item(w).marker, CountOf(Item(w)))), After(w))
<1> DEFINE v == Item(w)
           s == [of |-> v, done |-> 0]
           p == w.path
           q == Append(p, s)
           y == Frame(v.marker, CountOf(v))
           gs == Append(fs, y)
<1>1. After(w) = [root |-> w.root, path |-> q, due |-> FALSE]
  BY AfterIs
<1>2. After(w).path = q /\ After(w).due = FALSE
  BY <1>1
<1>3. y = FrameOf(s, FALSE)
  BY NewFrame DEF AllOf, AtContainer
<1>4. p \in Seq([of : V, done : Nat]) /\ w.due = TRUE /\ s \in [of : V, done : Nat]
  BY DEF Walking, AtContainer
<1>5. Table(fs) /\ Len(fs) = Len(p) /\ \A j \in 1 .. Len(p) : fs[j] = FrameOf(p[j], TRUE)
  BY <1>4 DEF Match, Waiting
<1> HIDE DEF p, s, y
<1>6. /\ Len(p) \in Nat /\ Len(q) = Len(p) + 1 /\ q[Len(p) + 1] = s
      /\ \A i \in 1 .. Len(p) : q[i] = p[i]
  BY <1>4
<1>7. /\ Table(gs) /\ Len(gs) = Len(fs) + 1 /\ gs[Len(fs) + 1] = y
      /\ \A i \in 1 .. Len(fs) : gs[i] = fs[i]
  BY <1>5, TableAppend
<1> HIDE DEF q, gs
<1>8. ASSUME NEW j \in 1 .. Len(q)
      PROVE  gs[j] = FrameOf(q[j], j < Len(q))
  <2>1. CASE j = Len(p) + 1
    <3>1. (j < Len(q)) = FALSE
      BY <1>6, <2>1
    <3>2. gs[j] = y /\ q[j] = s
      BY <1>5, <1>6, <1>7, <2>1
    <3> QED
      BY <1>3, <3>1, <3>2
  <2>2. CASE j # Len(p) + 1
    <3>1. j \in 1 .. Len(p) /\ (j < Len(q)) = TRUE
      BY <1>6, <2>2
    <3>2. gs[j] = fs[j] /\ q[j] = p[j]
      BY <1>5, <1>6, <1>7, <3>1
    <3> QED
      BY <1>5, <3>1, <3>2
  <2> QED
    BY <2>1, <2>2
<1>9. Len(gs) = Len(q)
  BY <1>5, <1>6, <1>7
<1>10. Going(gs, q)
  BY <1>7, <1>8, <1>9 DEF Going
<1>11. Match(gs, After(w))
  BY <1>2, <1>10 DEF Match
<1> QED
  BY <1>11 DEF gs, y

\* A value inside of one.
LEMMA MatchValue ==
    ASSUME NEW V, AllOf(V), \A v \in V : KeysDistinct(v),
           NEW w, Walking(w, V), NEW fs, Match(fs, w), AtScalar(w), w.path # <<>>
    PROVE  Match(Append(Front(fs), Fill(Last(fs), Item(w))), After(w))
<1> DEFINE p == w.path
           n == Len(p)
           gs == Append(Front(fs), Fill(Last(fs), Item(w)))
<1>1. After(w).path = p /\ After(w).due = FALSE
  <2>1. After(w) = [root |-> w.root, path |-> p, due |-> FALSE]
    BY AfterIs
  <2> HIDE DEF p
  <2> QED
    BY <2>1
<1>2. w.due = TRUE /\ n \in Nat \ {0}
  BY TopIs DEF AtScalar, Walking
<1>3. Waiting(fs, p)
  BY <1>2 DEF Match
<1>4. /\ Proper(p[n].of) /\ IsContainer(p[n].of) /\ KeysDistinct(p[n].of)
      /\ p[n].done \in 1 .. Len(Entries(p[n].of))
  BY <1>2, TopIs
<1>5. Item(w) = EntryValue(p[n].of, p[n].done)
  BY <1>2, TopIs DEF Item
<1>6. Going(gs, p)
  <2> HIDE DEF p
  <2> QED
    BY <1>2, <1>3, <1>4, <1>5, Delivered
<1> HIDE DEF gs
<1>7. Match(gs, After(w))
  BY <1>1, <1>6 DEF Match
<1> QED
  BY <1>7 DEF gs

\* An entry whose value comes next.
LEMMA MatchEntry ==
    ASSUME NEW V, AllOf(V), NEW w, Walking(w, V), NEW fs, Match(fs, w), AtEntry(w)
    PROVE  Match([fs EXCEPT ![Len(fs)].entry = <<NextKey(w)>>], After(w))
<1> DEFINE p == w.path
           n == Len(p)
           s == Top(w)
           t == [of |-> s.of, done |-> s.done + 1]
           q == [p EXCEPT ![n] = t]
           y == [fs[n] EXCEPT !.entry = <<NextKey(w)>>]
           gs == [fs EXCEPT ![n] = y]
<1>1. After(w).path = q /\ After(w).due = TRUE
  <2>1. After(w) = [root |-> w.root, path |-> q, due |-> TRUE]
    BY AfterIs
  <2> HIDE DEF q
  <2> QED
    BY <2>1
<1>2. w.due = FALSE /\ p # <<>> /\ n \in Nat \ {0} /\ s = p[n] /\ s.done \in Nat /\ p \in Seq([of : V, done : Nat])
  BY TopIs DEF AtEntry, Walking
<1>3. /\ Table(fs) /\ Len(fs) = n
      /\ \A j \in 1 .. n : fs[j] = FrameOf(p[j], j < n)
  BY <1>2 DEF Match, Going
<1>4. fs[n] = FrameOf(s, FALSE)
  <2>1. n \in 1 .. n /\ (n < n) = FALSE
    BY <1>2
  <2> QED
    BY <1>2, <1>3, <2>1
<1>5. y = FrameOf(t, TRUE)
  <2>1. fs[n] = [marker |-> s.of.marker, count |-> CountOf(s.of),
                 items |-> SubSeq(Entries(s.of), 1, s.done), entry |-> <<>>]
    BY <1>4 DEF FrameOf
  <2>2. y = [marker |-> s.of.marker, count |-> CountOf(s.of),
             items |-> SubSeq(Entries(s.of), 1, s.done), entry |-> <<EntryKey(s.of, s.done + 1)>>]
    <3> HIDE DEF s
    <3>1. NextKey(w) = EntryKey(s.of, s.done + 1)
      BY DEF NextKey, s
    <3> DEFINE m == s.of.marker
               c == CountOf(s.of)
               i == SubSeq(Entries(s.of), 1, s.done)
    <3> HIDE DEF m, c, i
    <3>2. fs[n] = [marker |-> m, count |-> c, items |-> i, entry |-> <<>>]
      BY <2>1 DEF m, c, i
    <3>3. y = [marker |-> m, count |-> c, items |-> i, entry |-> <<NextKey(w)>>]
      BY <3>2
    <3> QED
      BY <3>1, <3>3 DEF m, c, i
  <2>3. t.of = s.of /\ t.done = s.done + 1 /\ t.done - 1 = s.done
    BY <1>2
  <2> HIDE DEF y, t
  <2> QED
    BY <2>2, <2>3 DEF FrameOf
<1>6. gs = [fs EXCEPT ![Len(fs)].entry = <<NextKey(w)>>]
  BY <1>3
<1> HIDE DEF y, t, s, p
<1>7. n \in DOMAIN fs
  BY <1>2, <1>3, TableIs
<1>8. Table(gs) /\ Len(gs) = n /\ \A i \in 1 .. n : gs[i] = IF i = n THEN y ELSE fs[i]
  BY <1>3, <1>7, TableExcept
<1>9. DOMAIN q = 1 .. n /\ Len(q) = n /\ \A i \in 1 .. n : q[i] = IF i = n THEN t ELSE p[i]
  BY <1>2
<1> HIDE DEF q, gs
<1>10. ASSUME NEW j \in 1 .. n
       PROVE  gs[j] = FrameOf(q[j], TRUE)
  <2>1. CASE j = n
    BY <1>5, <1>8, <1>9, <2>1
  <2>2. CASE j # n
    <3>1. (j < n) = TRUE
      BY <1>2, <2>2
    <3>2. gs[j] = fs[j] /\ q[j] = p[j] /\ fs[j] = FrameOf(p[j], j < n)
      BY <1>3, <1>8, <1>9, <2>2
    <3> QED
      BY <3>1, <3>2
  <2> QED
    BY <2>1, <2>2
<1>11. Waiting(gs, q)
  BY <1>8, <1>9, <1>10 DEF Waiting
<1>12. Match(gs, After(w))
  BY <1>1, <1>11 DEF Match
<1> QED
  BY <1>6, <1>12

\* One that is full is the one that was read or copied, and is put into the one around it.
LEMMA MatchClose ==
    ASSUME NEW V, AllOf(V), \A v \in V : KeysDistinct(v),
           NEW w, Walking(w, V), NEW fs, Match(fs, w), AtEnd(w)
    PROVE  LET gs == Front(fs)
           IN  /\ Filled(Last(fs)) = Top(w).of
               /\ gs = <<>> => Ended(After(w)) /\ Top(w).of = w.root
               /\ gs # <<>> =>
                    /\ ~Ended(After(w))
                    /\ Match(Append(Front(gs), Fill(Last(gs), Top(w).of)), After(w))
<1> DEFINE p == w.path
           n == Len(p)
           gs == Front(fs)
           q == Front(p)
           hs == Append(Front(gs), Fill(Last(gs), Top(w).of))
<1>1. After(w).path = q /\ After(w).due = FALSE
  <2>1. After(w) = [root |-> w.root, path |-> q, due |-> FALSE]
    BY AfterIs
  <2> HIDE DEF q
  <2> QED
    BY <2>1
<1>2. /\ w.due = FALSE /\ p # <<>> /\ n \in Nat \ {0} /\ Top(w) = p[n]
      /\ p \in Seq([of : V, done : Nat]) /\ Top(w).done = Len(Entries(Top(w).of))
      /\ Proper(Top(w).of) /\ IsContainer(Top(w).of)
  <2>1. w.due = FALSE /\ p # <<>> /\ Top(w).done >= Len(Entries(Top(w).of)) /\ p \in Seq([of : V, done : Nat])
    BY DEF AtEnd, Walking
  <2>2. /\ n \in Nat \ {0} /\ Top(w) = p[n] /\ Proper(Top(w).of) /\ IsContainer(Top(w).of)
        /\ Top(w).done <= Len(Entries(Top(w).of)) /\ Top(w).done \in Nat
        /\ Len(Entries(Top(w).of)) \in Nat
    BY <2>1, TopIs
  <2> QED
    BY <2>1, <2>2
<1>3. /\ Table(fs) /\ Len(fs) = n /\ fs # <<>> /\ Last(fs) = FrameOf(Top(w), FALSE)
      /\ \A j \in 1 .. n : fs[j] = FrameOf(p[j], j < n)
  <2>1. Last(fs) = FrameOf(Top(w), FALSE) /\ Table(fs) /\ Len(fs) = n /\ fs # <<>>
    BY <1>2, MatchLength
  <2>2. \A j \in 1 .. n : fs[j] = FrameOf(p[j], j < n)
    BY <1>2 DEF Match, Going
  <2> QED
    BY <2>1, <2>2
<1>4. Filled(Last(fs)) = Top(w).of
  BY <1>2, <1>3, FullIs
<1>5. /\ Table(gs) /\ Len(gs) = n - 1 /\ \A i \in 1 .. n - 1 : gs[i] = fs[i]
  BY <1>3, TableFront
<1>6. /\ q \in Seq([of : V, done : Nat]) /\ Len(q) = n - 1 /\ \A i \in 1 .. n - 1 : q[i] = p[i]
  <2> HIDE DEF p
  <2>1. n - 1 \in 0 .. Len(p)
    BY <1>2
  <2> DEFINE S == [of : V, done : Nat]
  <2>2. p \in Seq(S)
    BY <1>2
  <2> HIDE DEF S
  <2>3. Front(p) = SubSeq(p, 1, n - 1)
    BY DEF Front
  <2> DEFINE m == n - 1
  <2>4. m \in 0 .. Len(p)
    BY <2>1
  <2> HIDE DEF m, n
  <2>5. /\ SubSeq(p, 1, m) \in Seq(S) /\ Len(SubSeq(p, 1, m)) = m
        /\ \A i \in 1 .. m : SubSeq(p, 1, m)[i] = p[i]
    BY <2>2, <2>4, SubSeqIs
  <2> QED
    BY <2>3, <2>5 DEF S, m
<1>7. ASSUME gs = <<>>
      PROVE  Ended(After(w)) /\ Top(w).of = w.root
  <2>1. n - 1 = 0 /\ n = 1
    BY <1>2, <1>5, <1>7, TableIs
  <2>2. q = <<>>
    <3> HIDE DEF q
    <3> QED
      BY <1>6, <2>1
  <2>3. p[1].of = w.root
    BY <1>2 DEF Walking
  <2> QED
    BY <1>1, <1>2, <2>1, <2>2, <2>3 DEF Ended
<1>8. ASSUME gs # <<>>
      PROVE  ~Ended(After(w)) /\ Match(hs, After(w))
  <2>1. n - 1 \in Nat \ {0}
    BY <1>2, <1>5, <1>8, TableIs
  <2>2. q # <<>>
    <3> HIDE DEF q
    <3> QED
      BY <1>6, <2>1
  <2> DEFINE m == n - 1
  <2>3. /\ m \in 1 .. n /\ m < n /\ n = m + 1 /\ m \in 1 .. n - 1
    <3> HIDE DEF p, n
    <3> QED
      BY <1>2, <2>1
  <2>4. /\ IsContainer(p[m].of) /\ p[m].done <= Len(Entries(p[m].of)) /\ p[m].done >= 1
        /\ p[n].of = EntryValue(p[m].of, p[m].done)
    BY <2>3 DEF Walking
  <2>5. p[m].of \in V /\ p[m].done \in Nat
    <3> DEFINE S == [of : V, done : Nat]
    <3>1. p[m] \in S
      <4>1. p \in Seq(S)
        BY <1>2
      <4> HIDE DEF S, p
      <4> QED
        BY <2>3, <4>1
    <3> QED
      BY <3>1
  <2>6. Proper(p[m].of) /\ KeysDistinct(p[m].of) /\ Len(Entries(p[m].of)) \in Nat
    BY <2>4, <2>5, EntriesTable DEF AllOf
  <2>7. \A j \in 1 .. m : j \in 1 .. n /\ (j < n) = TRUE
    BY <2>3, <1>2
  <2>8. \A j \in 1 .. m : gs[j] = FrameOf(q[j], TRUE)
    BY <1>3, <1>5, <1>6, <2>7
  <2>9. q[m] = p[m] /\ Len(q) = m /\ Len(gs) = m
    BY <1>5, <1>6, <2>3
  <2>10. q[m].done \in 1 .. Len(Entries(q[m].of))
    BY <2>4, <2>5, <2>6, <2>9
  <2>11. Top(w).of = EntryValue(q[m].of, q[m].done)
    BY <1>2, <2>4, <2>9
  <2>12. Going(hs, q)
    <3> HIDE DEF q, gs, m, p, n
    <3>1. m \in Nat \ {0}
      BY <2>1 DEF m
    <3>2. Proper(q[m].of) /\ IsContainer(q[m].of) /\ KeysDistinct(q[m].of)
      BY <2>4, <2>6, <2>9
    <3>3. Waiting(gs, q)
      BY <1>5, <2>8, <2>9 DEF Waiting
    <3> QED
      BY <2>9, <2>10, <2>11, <3>1, <3>2, <3>3, Delivered
  <2> HIDE DEF hs, q, m
  <2>13. Match(hs, After(w))
    BY <1>1, <2>12 DEF Match
  <2> QED
    BY <1>1, <2>2, <2>13 DEF Ended, q
<1> QED
  BY <1>4, <1>7, <1>8

-----------------------------------------------------------------------------
(* What read() finds at the places of a walk *)

LEMMA ContainerRead ==
    ASSUME NEW b \in Seq(Byte), NEW p \in Nat \ {0}, NEW v, Proper(v), IsContainer(v),
           Holds(b, p, ContainerBytes(v))
    PROVE  /\ Discovers(b, p, Containers) /\ b[p] = v.marker
           /\ AnyCount(b, p) = Got(CountOf(v), p + ContainerSize(v))
<1> DEFINE m == v.marker
           t == IF v.marker = Marker.Object THEN <<>> ELSE IntToBytes4(v.count)
<1>1. m \in {3, 8, 10} /\ m \in Containers /\ m \in 1 .. 11
  BY Markers DEF IsContainer, HasProps, HasElems, Containers
<1>2. m # 3 => v.count \in Int32
  BY <1>1, Markers DEF Proper, Null, Undefined, ObjectEOF
<1>3. t \in Seq(Byte)
  BY <1>1, <1>2, Counted, Markers
<1>4. ContainerBytes(v) = <<m>> \o t
  BY DEF ContainerBytes
<1>5. t = IF m = 3 THEN <<>> ELSE IntToBytes4(v.count)
  BY Markers
<1> HIDE DEF t, m
<1>6. b[p] = m /\ Discovers(b, p, Containers) /\ Holds(b, p + 1, t)
  <2>1. Holds(b, p, <<m>> \o t)
    BY <1>4
  <2>2. m \in 1 .. 11
    BY <1>1
  <2>3. b[p] = m /\ (\A M : Discovers(b, p, M) <=> m \in M) /\ Holds(b, p + 1, t)
    BY <1>3, <2>1, <2>2, FirstByte, Zenon
  <2> QED
    BY <1>1, <2>3
<1>7. CASE m = 3
  <2>1. AnyCount(b, p) = Got(0, p + 1)
    BY <1>6, <1>7, Markers DEF AnyCount
  <2>2. CountOf(v) = 0 /\ ContainerSize(v) = 1
    BY <1>7, Markers DEF CountOf, ContainerSize, m
  <2> QED
    BY <1>6, <2>1, <2>2 DEF m
<1>8. CASE m # 3
  <2>1. CountOf(v) = v.count /\ ContainerSize(v) = 1 + 4
    BY <1>8, Markers DEF CountOf, ContainerSize, m
  <2>2. BytesToInt4(t) = v.count /\ Len(t) = 4
    BY <1>2, <1>5, <1>8, Counted
  <2>3. ReadField(b, p + 1, 4) = Got(t, (p + 1) + 4)
    <3>1. p + 1 \in Nat \ {0}
      OBVIOUS
    <3>2. ReadField(b, p + 1, Len(t)) = Got(t, (p + 1) + Len(t))
      BY <1>3, <1>6, <3>1, Field
    <3> QED
      BY <2>2, <3>2
  <2>4. LET r == ReadField(b, p + 1, 4) IN r.ok = TRUE /\ r.value = t /\ r.next = (p + 1) + 4
    BY <2>3 DEF Got
  <2>5. ReadCount(b, p + 1) = Got(v.count, (p + 1) + 4)
    BY <2>2, <2>4 DEF ReadCount, Convert
  <2>6. AnyCount(b, p) = ReadCount(b, p + 1)
    BY <1>6, <1>8, Markers DEF AnyCount
  <2>7. (p + 1) + 4 = p + (1 + 4)
    OBVIOUS
  <2> QED
    BY <1>6, <2>1, <2>5, <2>6, <2>7 DEF m
<1> QED
  BY <1>7, <1>8

LEMMA FirstMarker ==
    ASSUME NEW m \in 0 .. 11, NEW t \in Seq(Byte)
    PROVE  Len(<<m>> \o t) >= 1 /\ (<<m>> \o t)[1] = m
<1> DEFINE x == <<m>>
<1>1. x \in Seq(Byte)
  BY SmallBytes
<1>2. Len(x) = 1 /\ x[1] = m
  OBVIOUS
<1> HIDE DEF x
<1>3. Len(x \o t) = Len(x) + Len(t) /\ \A i \in 1 .. Len(x) : (x \o t)[i] = x[i]
  BY <1>1, Cat
<1>4. Len(t) \in Nat
  OBVIOUS
<1> QED
  BY <1>2, <1>3, <1>4 DEF x

\* The first byte of what a value is written as.
LEMMA FirstOfValue ==
    ASSUME NEW v, Proper(v)
    PROVE  LET s == IF IsContainer(v) THEN ContainerBytes(v) ELSE ScalarBytes(v)
           IN  Len(s) >= 1 /\ s[1] # 9
<1> DEFINE s == IF IsContainer(v) THEN ContainerBytes(v) ELSE ScalarBytes(v)
<1> SUFFICES Len(s) >= 1 /\ s[1] # 9
  OBVIOUS
<1>1. CASE IsContainer(v)
  <2> DEFINE m == v.marker
             t == IF v.marker = Marker.Object THEN <<>> ELSE IntToBytes4(v.count)
  <2>1. m \in {3, 8, 10}
    BY <1>1, Markers DEF IsContainer, HasProps, HasElems
  <2>2. m # 3 => v.count \in Int32
    BY <2>1, Markers DEF Proper, Null, Undefined, ObjectEOF
  <2>3. t \in Seq(Byte)
    BY <2>1, <2>2, Counted, Markers
  <2>4. s = <<m>> \o t
    BY <1>1 DEF ContainerBytes
  <2> HIDE DEF t, m, s
  <2>5. m \in 0 .. 11 /\ m # 9
    BY <2>1
  <2>6. Len(<<m>> \o t) >= 1 /\ (<<m>> \o t)[1] = m
    BY <2>3, <2>5, FirstMarker, Zenon
  <2> QED
    BY <2>4, <2>5, <2>6
<1>2. CASE ~IsContainer(v)
  <2>1. s = ScalarBytes(v)
    BY <1>2
  <2> HIDE DEF s
  <2>2. v = Null => s = <<5>>
    BY <2>1, Markers DEF ScalarBytes, Null, NullBytes
  <2>3. v = Undefined => s = <<6>>
    BY <2>1, Markers DEF ScalarBytes, Undefined, UndefinedBytes
  <2>4. v = ObjectEOF => s = <<0, 0, 9>>
    BY <2>1, Markers DEF ScalarBytes, ObjectEOF, EofBytes
  <2>5. CASE s = <<5>> \/ s = <<6>> \/ s = <<0, 0, 9>>
    <3>1. /\ Len(<<5>>) >= 1 /\ <<5>>[1] # 9 /\ Len(<<6>>) >= 1 /\ <<6>>[1] # 9
          /\ Len(<<0, 0, 9>>) >= 1 /\ <<0, 0, 9>>[1] # 9
      OBVIOUS
    <3> QED
      BY <2>5, <3>1
  <2>6. CASE v.marker = Marker.Number /\ v.number \in Seq(Byte)
    <3>1. s = <<0>> \o v.number
      BY <2>1, <2>6, Markers DEF ScalarBytes, NumberBytes
    <3>2. 0 \in 0 .. 11 /\ v.number \in Seq(Byte)
      BY <2>6
    <3>3. Len(<<0>> \o v.number) >= 1 /\ (<<0>> \o v.number)[1] = 0
      BY <3>2, FirstMarker, Zenon
    <3> QED
      BY <3>1, <3>3
  <2>7. CASE v.marker = Marker.Boolean /\ v.boolean \in BOOLEAN
    <3> DEFINE x == IF v.boolean THEN 1 ELSE 0
    <3>1. s = <<1>> \o <<x>> /\ x \in 0 .. 11
      BY <2>1, <2>7, Markers DEF ScalarBytes, BooleanBytes
    <3> HIDE DEF x
    <3>2. 1 \in 0 .. 11 /\ <<x>> \in Seq(Byte)
      BY <3>1, SmallBytes
    <3>3. Len(<<1>> \o <<x>>) >= 1 /\ (<<1>> \o <<x>>)[1] = 1
      BY <3>2, FirstMarker, Zenon
    <3> QED
      BY <3>1, <3>3
  <2>8. CASE v.marker = Marker.String /\ v.string \in Seq(Byte)
    <3> DEFINE t == Utf8Bytes(v.string)
    <3>1. s = <<2>> \o t
      BY <2>1, <2>8, Markers DEF ScalarBytes, StringBytes
    <3>2. 2 \in 0 .. 11 /\ t \in Seq(Byte)
      BY <2>8, Utf8Length
    <3> HIDE DEF t
    <3>3. Len(<<2>> \o t) >= 1 /\ (<<2>> \o t)[1] = 2
      BY <3>2, FirstMarker, Zenon
    <3> QED
      BY <3>1, <3>3
  <2>9. CASE /\ v.marker = Marker.Date /\ v.date \in Seq(Byte) /\ Len(v.date) = 8
             /\ v.zone \in Seq(Byte) /\ Len(v.zone) = 2
    <3> DEFINE t == v.date \o v.zone
    <3>1. v.marker = 11
      BY <2>9, Markers
    <3>2. ScalarBytes(v) = DateBytes(v)
      BY <3>1, Markers DEF ScalarBytes
    <3>3. s = <<11>> \o t
      BY <2>1, <3>1, <3>2, Markers DEF DateBytes
    <3>4. 11 \in 0 .. 11 /\ t \in Seq(Byte)
      BY <2>9, DateParts
    <3> HIDE DEF t
    <3>5. Len(<<11>> \o t) >= 1 /\ (<<11>> \o t)[1] = 11
      BY <3>4, FirstMarker, Zenon
    <3> QED
      BY <3>3, <3>5
  <2> QED
    BY <1>2, <2>2, <2>3, <2>4, <2>5, <2>6, <2>7, <2>8, <2>9 DEF Proper, IsContainer, HasProps, HasElems
<1> QED
  BY <1>1, <1>2

\* A key is not taken for the end marker, even if it is empty.
LEMMA KeyNotEof ==
    ASSUME NEW b \in Seq(Byte), NEW p \in Nat \ {0}, NEW s \in Seq(Byte), Len(s) < Limit,
           Holds(b, p, Utf8Bytes(s)),
           p + Utf8Size(s) <= Len(b), b[p + Utf8Size(s)] # 9
    PROVE  p <= Len(b) /\ ~IsObjectEof(b, p)
<1> DEFINE l == IntToBytes2(Len(s))
<1>1. l \in Seq(Byte) /\ Len(l) = 2 /\ BytesToInt2(l) = Len(s) /\ Len(s) \in Nat
  <2>1. Len(s) \in Nat
    OBVIOUS
  <2> QED
    BY <2>1, TwoBytes, Short
<1> HIDE DEF l
<1>2. Holds(b, p, l)
  BY <1>1, Split DEF Utf8Bytes, l
<1>3. p + 1 <= Len(b) /\ b[p] = l[1] /\ b[p + 1] = l[2]
  <2>1. p + 2 - 1 <= Len(b) /\ \A i \in 1 .. 2 : b[p + i - 1] = l[i]
    BY <1>1, <1>2 DEF Holds
  <2>2. b[p + 1 - 1] = l[1] /\ b[p + 2 - 1] = l[2]
    BY <2>1
  <2> QED
    BY <2>1, <2>2
<1>4. ASSUME l[1] = 0, l[2] = 0
      PROVE  b[p + 2] # 9
  <2>1. Unsigned2(l) = 0
    <3>1. Unsigned2(l) = 0 * Base + 0
      BY <1>4 DEF Unsigned2
    <3> QED
      BY <3>1, BaseFacts
  <2>2. Len(s) = 0
    BY <1>1, <2>1, BaseFacts DEF BytesToInt2
  <2>3. Utf8Size(s) = 2
    BY <2>2 DEF Utf8Size
  <2> QED
    BY <2>3
<1> QED
  BY <1>3, <1>4, EofAt

\* The end marker of an object.
LEMMA EofRead ==
    ASSUME NEW b \in Seq(Byte), NEW p \in Nat \ {0}, Holds(b, p, EofBytes)
    PROVE  IsObjectEof(b, p) /\ p <= Len(b)
<1> DEFINE s == <<0, 0, 9>>
<1>1. Len(s) = 3 /\ s[1] = 0 /\ s[2] = 0 /\ s[3] = 9
  OBVIOUS
<1>2. Holds(b, p, s)
  BY Markers DEF EofBytes
<1> HIDE DEF s
<1>3. p + 3 - 1 <= Len(b) /\ \A i \in 1 .. 3 : b[p + i - 1] = s[i]
  BY <1>1, <1>2 DEF Holds
<1>4. b[p + 1 - 1] = 0 /\ b[p + 2 - 1] = 0 /\ b[p + 3 - 1] = 9
  BY <1>1, <1>3
<1> QED
  BY <1>3, <1>4, EofAt

-----------------------------------------------------------------------------
(* Values whose parts are what an object of these classes can hold *)

Closed(S) ==
    \A v \in S :
        Proper(v) /\ (IsContainer(v) => \A i \in 1 .. Len(Entries(v)) : EntryValue(v, i) \in S)

Sound(v) == \E S : v \in S /\ Closed(S)

LEMMA SoundIs ==
    ASSUME NEW v, Sound(v)
    PROVE  /\ Proper(v)
           /\ IsContainer(v) => \A i \in 1 .. Len(Entries(v)) : Sound(EntryValue(v, i))
<1>1. PICK S : v \in S /\ Closed(S)
  BY DEF Sound
<1>2. Proper(v)
  BY <1>1 DEF Closed
<1>3. ASSUME IsContainer(v), NEW i \in 1 .. Len(Entries(v))
      PROVE  Sound(EntryValue(v, i))
  <2>1. EntryValue(v, i) \in S
    BY <1>1, <1>3 DEF Closed
  <2> QED
    BY <1>1, <2>1 DEF Sound
<1> QED
  BY <1>2, <1>3

LEMMA SoundLeaf ==
    ASSUME NEW v, Proper(v), ~IsContainer(v)
    PROVE  Sound(v)
<1> DEFINE S == {v}
<1>1. v \in S /\ Closed(S)
  BY DEF Closed
<1> HIDE DEF S
<1> QED
  BY <1>1 DEF Sound

LEMMA SoundMade ==
    ASSUME NEW v, Proper(v), IsContainer(v),
           \A i \in 1 .. Len(Entries(v)) : Sound(EntryValue(v, i))
    PROVE  Sound(v)
<1> DEFINE T(i) == CHOOSE S : EntryValue(v, i) \in S /\ Closed(S)
           U == {v} \cup UNION {T(i) : i \in 1 .. Len(Entries(v))}
<1>1. \A i \in 1 .. Len(Entries(v)) : EntryValue(v, i) \in T(i) /\ Closed(T(i))
  BY DEF Sound
<1> HIDE DEF T
<1>2. \A i \in 1 .. Len(Entries(v)) : EntryValue(v, i) \in U
  BY <1>1
<1>3. ASSUME NEW x \in U
      PROVE  /\ Proper(x)
             /\ IsContainer(x) => \A i \in 1 .. Len(Entries(x)) : EntryValue(x, i) \in U
  <2>1. CASE x = v
    BY <1>2, <2>1
  <2>2. CASE x # v
    <3>1. PICK j \in 1 .. Len(Entries(v)) : x \in T(j)
      BY <2>2
    <3>2. /\ Proper(x)
          /\ IsContainer(x) => \A i \in 1 .. Len(Entries(x)) : EntryValue(x, i) \in T(j)
      BY <1>1, <3>1 DEF Closed
    <3>3. T(j) \subseteq U
      OBVIOUS
    <3> QED
      BY <3>2, <3>3
  <2> QED
    BY <2>1, <2>2
<1>4. v \in U
  OBVIOUS
<1> HIDE DEF U
<1>5. Closed(U)
  BY <1>3 DEF Closed
<1> QED
  BY <1>4, <1>5 DEF Sound

LEMMA PartsSound ==
    ASSUME NEW v \in Values \cup Peer
    PROVE  Sound(v)
<1>1. v \in Parts
  BY PartsAssumption
<1>2. ASSUME NEW x \in Parts, IsContainer(x), NEW i \in 1 .. Len(Entries(x))
      PROVE  EntryValue(x, i) \in Parts
  <2>1. Proper(x)
    BY PartsAssumption
  <2>2. i \in DOMAIN Entries(x)
    BY <1>2, <2>1, EntriesTable, TableIs
  <2> QED
    BY <1>2, <2>2, PartsAssumption
<1>3. Closed(Parts)
  BY <1>2, PartsAssumption DEF Closed
<1> QED
  BY <1>1, <1>3 DEF Sound

-----------------------------------------------------------------------------
(* Tables of sound values *)

GoodProps(ps) ==
    /\ ProperProps(ps) /\ UniqueKeys(ps)
    /\ \A i \in DOMAIN ps : Sound(ps[i].value)

GoodElems(es) == Table(es) /\ \A i \in DOMAIN es : Sound(es[i])

GoodProperty(p) == p = Property(p.key, p.value) /\ p.key \in Seq(Byte) /\ Sound(p.value)

LEMMA GoodIs ==
    ASSUME NEW ps
    PROVE  GoodProps(ps) <=> Table(ps) /\ UniqueKeys(ps) /\ \A i \in DOMAIN ps : GoodProperty(ps[i])
BY DEF GoodProps, ProperProps, GoodProperty

\* What consists of properties of a good table is good.
LEMMA GoodFrom ==
    ASSUME NEW P, \A p \in P : GoodProperty(p), NEW ps \in Seq(P), UniqueKeys(ps)
    PROVE  GoodProps(ps)
<1>1. Table(ps)
  BY ATable
<1>2. \A i \in DOMAIN ps : ps[i] \in P
  OBVIOUS
<1> QED
  BY <1>1, <1>2, GoodIs

LEMMA GoodRange ==
    ASSUME NEW ps, GoodProps(ps)
    PROVE  /\ ps \in Seq(Range(ps)) /\ UniqueKeys(ps)
           /\ \A p \in Range(ps) : GoodProperty(p)
<1>1. Table(ps) /\ UniqueKeys(ps) /\ \A i \in DOMAIN ps : GoodProperty(ps[i])
  BY GoodIs
<1>2. \A p \in Range(ps) : \E i \in DOMAIN ps : p = ps[i]
  BY DEF Range
<1> QED
  BY <1>1, <1>2, TableIs

LEMMA SetGood ==
    ASSUME NEW ps, GoodProps(ps), NEW k \in Seq(Byte), NEW v, Sound(v)
    PROVE  GoodProps(SetProperty(ps, k, v))
<1> DEFINE P == Range(ps) \cup {Property(k, v)}
<1>1. /\ ps \in Seq(Range(ps)) /\ UniqueKeys(ps)
      /\ \A p \in Range(ps) : GoodProperty(p)
  BY GoodRange
<1>2. GoodProperty(Property(k, v))
  BY DEF GoodProperty, Property
<1>3. \A p \in P : GoodProperty(p)
  BY <1>1, <1>2
<1>4. ps \in Seq(P) /\ Property(k, v) \in P
  <2>1. \A i \in 1 .. Len(ps) : ps[i] \in Range(ps)
    BY <1>1
  <2> QED
    BY <1>1, <2>1, SeqIn
<1> HIDE DEF P
<1>5. SetProperty(ps, k, v) \in Seq(P) /\ UniqueKeys(SetProperty(ps, k, v))
  BY <1>1, <1>4, SetKeepsUnique
<1> QED
  BY <1>3, <1>5, GoodFrom

LEMMA EraseGood ==
    ASSUME NEW ps, GoodProps(ps), NEW k
    PROVE  GoodProps(Erase(ps, k)) /\ GoodProps(RemoveProperty(ps, k))
<1> DEFINE P == Range(ps)
<1>1. ps \in Seq(P) /\ UniqueKeys(ps) /\ \A p \in P : GoodProperty(p)
  BY GoodRange
<1> HIDE DEF P
<1>2. Erase(ps, k) \in Seq(P) /\ UniqueKeys(Erase(ps, k))
  BY <1>1, EraseUnique
<1>3. RemoveProperty(ps, k) \in Seq(P) /\ UniqueKeys(RemoveProperty(ps, k))
  BY <1>1, RemoveUnique
<1> QED
  BY <1>1, <1>2, <1>3, GoodFrom

LEMMA EmptyGood == GoodProps(<<>>) /\ GoodElems(<<>>) /\ Table(<<>>)
<1> DEFINE e == <<>>
<1>0. e \in Seq({})
  OBVIOUS
<1>1. Table(e)
  <2> HIDE DEF e
  <2> QED
    BY <1>0, ATable
<1>2. DOMAIN <<>> = {}
  OBVIOUS
<1> QED
  BY <1>1, <1>2, GoodIs DEF UniqueKeys, GoodElems

LEMMA AppendGood ==
    ASSUME NEW es, GoodElems(es), NEW v, Sound(v)
    PROVE  GoodElems(Append(es, v))
<1> DEFINE a == Append(es, v)
<1>1. /\ Table(es) /\ Len(es) \in Nat /\ DOMAIN es = 1 .. Len(es)
      /\ \A i \in 1 .. Len(es) : Sound(es[i])
  BY TableIs DEF GoodElems
<1>2. /\ Table(a) /\ Len(a) = Len(es) + 1 /\ \A i \in 1 .. Len(es) : a[i] = es[i]
      /\ a[Len(es) + 1] = v
  BY <1>1, TableAppend
<1> HIDE DEF a
<1>3. DOMAIN a = 1 .. Len(es) + 1
  BY <1>2, TableIs
<1>4. \A i \in DOMAIN a : i \in 1 .. Len(es) \/ i = Len(es) + 1
  BY <1>1, <1>3
<1>5. GoodElems(a)
  BY <1>1, <1>2, <1>4 DEF GoodElems
<1> QED
  BY <1>5 DEF a

\* The values that are made of them.
LEMMA SoundObject ==
    ASSUME NEW ps, GoodProps(ps), NEW n \in Int32
    PROVE  /\ Sound(Object(ps)) /\ Sound(EcmaArray(ps, n))
           /\ KeysDistinct(Object(ps)) /\ KeysDistinct(EcmaArray(ps, n))
<1>1. ASSUME NEW v, v = Object(ps) \/ v = EcmaArray(ps, n)
      PROVE  Sound(v) /\ KeysDistinct(v)
  <2>1. /\ v.props = ps /\ HasProps(v) /\ ProperProps(ps) /\ Proper(v)
    <3>1. CASE v = Object(ps)
      <4>1. v.marker = Marker.Object /\ v.props = ps
        BY <3>1 DEF Object
      <4> QED
        BY <3>1, <4>1 DEF HasProps, Proper, GoodProps
    <3>2. CASE v = EcmaArray(ps, n)
      <4>1. v.marker = Marker.EcmaArray /\ v.props = ps /\ v.count = n
        BY <3>2 DEF EcmaArray
      <4> QED
        BY <3>2, <4>1 DEF HasProps, Proper, GoodProps
    <3> QED
      BY <1>1, <3>1, <3>2
  <2>2. IsContainer(v) /\ Entries(v) = ps
    BY <2>1, EntriesTable DEF IsContainer
  <2>3. \A i \in 1 .. Len(Entries(v)) : Sound(EntryValue(v, i))
    <3>1. DOMAIN ps = 1 .. Len(ps)
      BY TableIs DEF GoodProps, ProperProps
    <3> QED
      BY <2>1, <2>2, <3>1 DEF GoodProps, EntryValue
  <2>4. KeysDistinct(v)
    BY <2>1 DEF KeysDistinct, GoodProps
  <2> QED
    BY <2>1, <2>2, <2>3, <2>4, SoundMade
<1> QED
  BY <1>1

LEMMA SoundArray ==
    ASSUME NEW es, GoodElems(es), NEW n \in Int32
    PROVE  Sound(StrictArray(es, n)) /\ KeysDistinct(StrictArray(es, n))
<1> DEFINE v == StrictArray(es, n)
<1>1. v.marker = Marker.StrictArray /\ v.elems = es /\ v.count = n
  BY DEF StrictArray
<1> HIDE DEF v
<1>2. HasElems(v) /\ ~HasProps(v) /\ IsContainer(v) /\ KeysDistinct(v)
  BY <1>1, Markers DEF HasElems, HasProps, IsContainer, KeysDistinct
<1>3. Proper(v)
  BY <1>1 DEF Proper, GoodElems, v
<1>4. Entries(v) = es
  BY <1>1, <1>2 DEF Entries
<1>5. DOMAIN es = 1 .. Len(es)
  BY TableIs DEF GoodElems
<1>6. \A i \in 1 .. Len(Entries(v)) : Sound(EntryValue(v, i))
  BY <1>1, <1>2, <1>4, <1>5 DEF EntryValue, GoodElems
<1> QED
  BY <1>2, <1>3, <1>6, SoundMade DEF v

\* And back.
LEMMA SoundProps ==
    ASSUME NEW v, Sound(v), HasProps(v), KeysDistinct(v)
    PROVE  /\ GoodProps(v.props)
           /\ v.marker = Marker.Object => v = Object(v.props)
           /\ v.marker # Marker.Object =>
                v.marker = Marker.EcmaArray /\ v = EcmaArray(v.props, v.count) /\ v.count \in Int32
<1>1. Proper(v) /\ IsContainer(v)
  BY SoundIs DEF IsContainer
<1>2. Entries(v) = v.props /\ ProperProps(v.props) /\ UniqueKeys(v.props)
  BY <1>1, EntriesTable DEF KeysDistinct
<1>3. DOMAIN v.props = 1 .. Len(v.props)
  BY <1>2, TableIs DEF ProperProps
<1>4. \A i \in DOMAIN v.props : Sound(v.props[i].value)
  BY <1>1, <1>2, <1>3, SoundIs DEF EntryValue
<1>5. v.marker = Marker.Object => v = Object(v.props)
  BY <1>1, Markers DEF Proper, Null, Undefined, ObjectEOF
<1>6. v.marker = Marker.EcmaArray => v = EcmaArray(v.props, v.count) /\ v.count \in Int32
  BY <1>1, Markers DEF Proper, Null, Undefined, ObjectEOF
<1> QED
  BY <1>2, <1>4, <1>5, <1>6 DEF GoodProps, HasProps

LEMMA SoundElems ==
    ASSUME NEW v, Sound(v), HasElems(v)
    PROVE  GoodElems(v.elems) /\ v = StrictArray(v.elems, v.count) /\ v.count \in Int32
<1>1. Proper(v) /\ IsContainer(v)
  BY SoundIs DEF IsContainer
<1>2. Entries(v) = v.elems /\ Table(v.elems) /\ ~HasProps(v)
  BY <1>1, EntriesTable
<1>3. DOMAIN v.elems = 1 .. Len(v.elems)
  BY <1>2, TableIs
<1>4. \A i \in DOMAIN v.elems : Sound(v.elems[i])
  BY <1>1, <1>2, <1>3, SoundIs DEF EntryValue
<1>5. v = StrictArray(v.elems, v.count) /\ v.count \in Int32
  BY <1>1, Markers DEF Proper, Null, Undefined, ObjectEOF, HasElems
<1> QED
  BY <1>2, <1>4, <1>5 DEF GoodElems

-----------------------------------------------------------------------------
(* What is being filled *)

FrameSound(f) ==
    /\ f = [marker |-> f.marker, count |-> f.count, items |-> f.items, entry |-> f.entry]
    /\ f.marker \in Containers /\ f.count \in Int32
    /\ IF HasElems(f) THEN GoodElems(f.items) ELSE GoodProps(f.items)
    /\ f.entry # <<>> => f.entry[1] \in Seq(Byte)

FramesSound(fs) ==
    /\ Table(fs)
    /\ \A i \in 1 .. Len(fs) : FrameSound(fs[i])
    /\ \A i \in 1 .. Len(fs) - 1 : fs[i].entry # <<>>

LEMMA ZeroCount == 0 \in Int32 /\ Limit4 \in Nat \ {0}
<1>1. Base \in Nat /\ Base >= 12 /\ Limit \in Nat /\ Limit >= 12 /\ Limit4 \in Nat
  BY BaseFacts
<1> DEFINE x == Limit * Base
<1>2. x \in Int /\ 1 <= x
  <2>1. 12 * Base <= Limit * Base
    BY <1>1, MulMono
  <2> QED
    BY <1>1, <2>1
<1>3. Limit4 = x * Base
  BY DEF Limit4
<1> HIDE DEF x
<1>4. 1 * Base <= x * Base
  BY <1>1, <1>2, MulMono
<1>5. Limit4 >= 12
  BY <1>1, <1>2, <1>3, <1>4
<1> QED
  BY <1>1, <1>5 DEF Int32

LEMMA FrameNew ==
    ASSUME NEW m \in Containers, NEW n \in Int32
    PROVE  FrameSound(Frame(m, n)) /\ Frame(m, n).entry = <<>>
<1> DEFINE f == Frame(m, n)
<1>1. f.marker = m /\ f.count = n /\ f.items = <<>> /\ f.entry = <<>>
  BY DEF Frame
<1>2. f = [marker |-> f.marker, count |-> f.count, items |-> f.items, entry |-> f.entry]
  BY DEF Frame
<1> HIDE DEF f
<1>3. IF HasElems(f) THEN GoodElems(f.items) ELSE GoodProps(f.items)
  BY <1>1, EmptyGood
<1>4. FrameSound(f) /\ f.entry = <<>>
  BY <1>1, <1>2, <1>3 DEF FrameSound
<1> QED
  BY <1>4 DEF f

LEMMA FillSound ==
    ASSUME NEW f, FrameSound(f), f.entry # <<>>, NEW v, Sound(v)
    PROVE  FrameSound(Fill(f, v)) /\ Fill(f, v).entry = <<>>
<1> DEFINE items == IF HasElems(f) THEN Append(f.items, v) ELSE SetProperty(f.items, f.entry[1], v)
           g == Fill(f, v)
<1>1. g = [f EXCEPT !.items = items, !.entry = <<>>]
  BY DEF Fill
<1>2. f = [marker |-> f.marker, count |-> f.count, items |-> f.items, entry |-> f.entry]
  BY DEF FrameSound
<1>3. IF HasElems(f) THEN GoodElems(items) ELSE GoodProps(items)
  BY AppendGood, SetGood DEF FrameSound
<1> HIDE DEF items, g
<1>4. g = [marker |-> f.marker, count |-> f.count, items |-> items, entry |-> <<>>]
  BY <1>1, <1>2
<1>5. g.marker = f.marker /\ g.count = f.count /\ g.items = items /\ g.entry = <<>>
  BY <1>4
<1>6. HasElems(g) <=> HasElems(f)
  BY <1>5 DEF HasElems
<1>7. FrameSound(g) /\ g.entry = <<>>
  BY <1>3, <1>4, <1>5, <1>6 DEF FrameSound
<1> QED
  BY <1>7 DEF g

LEMMA FilledSound ==
    ASSUME NEW f, FrameSound(f)
    PROVE  Sound(Filled(f)) /\ KeysDistinct(Filled(f))
<1>1. CASE f.marker = Marker.Object
  <2>1. Filled(f) = Object(f.items)
    BY <1>1, Markers DEF Filled
  <2>2. GoodProps(f.items)
    BY <1>1, Markers DEF FrameSound, HasElems
  <2> QED
    BY <2>1, <2>2, SoundObject DEF FrameSound
<1>2. CASE f.marker = Marker.EcmaArray
  <2>1. Filled(f) = EcmaArray(f.items, f.count)
    BY <1>2, Markers DEF Filled
  <2>2. GoodProps(f.items) /\ f.count \in Int32
    BY <1>2, Markers DEF FrameSound, HasElems
  <2> QED
    BY <2>1, <2>2, SoundObject
<1>3. CASE f.marker = Marker.StrictArray
  <2>1. Filled(f) = StrictArray(f.items, f.count)
    BY <1>3, Markers DEF Filled
  <2>2. GoodElems(f.items) /\ f.count \in Int32
    BY <1>3, Markers DEF FrameSound, HasElems
  <2> QED
    BY <2>1, <2>2, SoundArray
<1> QED
  BY <1>1, <1>2, <1>3 DEF FrameSound, Containers

LEMMA LastSound ==
    ASSUME NEW fs, FramesSound(fs), fs # <<>>
    PROVE  /\ Len(fs) \in Nat \ {0} /\ Last(fs) = fs[Len(fs)] /\ FrameSound(Last(fs))
           /\ FramesSound(Front(fs)) /\ Len(Front(fs)) = Len(fs) - 1
           /\ Front(fs) # <<>> => Last(Front(fs)).entry # <<>>
<1> DEFINE n == Len(fs)
           gs == Front(fs)
<1>1. Table(fs)
  BY DEF FramesSound
<1>2. /\ Table(gs) /\ Len(gs) = n - 1 /\ n \in Nat /\ n >= 1
      /\ \A i \in 1 .. n - 1 : gs[i] = fs[i]
      /\ Last(fs) = fs[n]
  BY <1>1, TableFront
<1> HIDE DEF gs
<1>3. /\ \A i \in 1 .. n : FrameSound(fs[i])
      /\ \A i \in 1 .. n - 1 : fs[i].entry # <<>>
  BY DEF FramesSound
<1>4. FrameSound(Last(fs))
  BY <1>2, <1>3
<1>5. \A i \in 1 .. n - 1 : FrameSound(gs[i]) /\ gs[i].entry # <<>>
  BY <1>2, <1>3
<1>6. FramesSound(gs)
  <2>1. \A i \in 1 .. Len(gs) - 1 : i \in 1 .. n - 1
    BY <1>2
  <2> QED
    BY <1>2, <1>5, <2>1 DEF FramesSound
<1>7. ASSUME gs # <<>>
      PROVE  Last(gs).entry # <<>>
  <2>1. Last(gs) = gs[n - 1] /\ n - 1 \in 1 .. n - 1
    BY <1>2, <1>7, TableFront, TableIs
  <2> QED
    BY <1>5, <2>1
<1> QED
  BY <1>2, <1>4, <1>6, <1>7 DEF gs

\* One more that is being filled.
LEMMA PushSound ==
    ASSUME NEW fs, FramesSound(fs), fs # <<>> => Last(fs).entry # <<>>,
           NEW f, FrameSound(f)
    PROVE  /\ FramesSound(Append(fs, f)) /\ Len(Append(fs, f)) = Len(fs) + 1
           /\ Append(fs, f) # <<>> /\ Last(Append(fs, f)) = f
<1> DEFINE gs == Append(fs, f)
<1>1. /\ Table(fs) /\ Len(fs) \in Nat
      /\ \A i \in 1 .. Len(fs) : FrameSound(fs[i])
      /\ \A i \in 1 .. Len(fs) - 1 : fs[i].entry # <<>>
  BY TableIs DEF FramesSound
<1>2. /\ Table(gs) /\ Len(gs) = Len(fs) + 1 /\ gs[Len(fs) + 1] = f
      /\ \A i \in 1 .. Len(fs) : gs[i] = fs[i]
  BY <1>1, TableAppend
<1> HIDE DEF gs
<1>3. \A i \in 1 .. Len(fs) : fs[i].entry # <<>>
  <2>1. Len(fs) # 0 => fs # <<>> /\ Last(fs) = fs[Len(fs)]
    BY <1>1, TableIs, TableFront
  <2>2. \A i \in 1 .. Len(fs) : i \in 1 .. Len(fs) - 1 \/ (i = Len(fs) /\ Len(fs) # 0)
    BY <1>1
  <2> QED
    BY <1>1, <2>1, <2>2
<1>4. \A i \in 1 .. Len(gs) : i \in 1 .. Len(fs) \/ i = Len(fs) + 1
  BY <1>1, <1>2
<1>5. \A i \in 1 .. Len(gs) - 1 : i \in 1 .. Len(fs)
  BY <1>1, <1>2
<1>6. FramesSound(gs)
  BY <1>1, <1>2, <1>3, <1>4, <1>5 DEF FramesSound
<1>7. gs # <<>> /\ Last(gs) = f
  <2>1. Len(gs) # 0
    BY <1>1, <1>2
  <2> QED
    BY <1>2, <2>1, TableIs, TableFront
<1> QED
  BY <1>2, <1>6, <1>7 DEF gs

\* The innermost one gets its value.
LEMMA DeliverSound ==
    ASSUME NEW fs, FramesSound(fs), fs # <<>>, Last(fs).entry # <<>>, NEW v, Sound(v)
    PROVE  LET gs == Append(Front(fs), Fill(Last(fs), v))
           IN  /\ FramesSound(gs) /\ Len(gs) = Len(fs)
               /\ gs # <<>> /\ Last(gs).entry = <<>>
<1>1. /\ FrameSound(Last(fs)) /\ FramesSound(Front(fs))
      /\ Front(fs) # <<>> => Last(Front(fs)).entry # <<>>
      /\ Len(fs) \in Nat \ {0} /\ Len(Front(fs)) = Len(fs) - 1
  BY LastSound
<1>2. FrameSound(Fill(Last(fs), v)) /\ Fill(Last(fs), v).entry = <<>>
  BY <1>1, FillSound
<1> DEFINE f == Fill(Last(fs), v)
           hs == Front(fs)
<1> HIDE DEF f, hs
<1>3. /\ FramesSound(Append(hs, f)) /\ Len(Append(hs, f)) = Len(hs) + 1
      /\ Append(hs, f) # <<>> /\ Last(Append(hs, f)) = f
  BY <1>1, <1>2, PushSound DEF f, hs
<1> QED
  BY <1>1, <1>2, <1>3 DEF f, hs

\* It comes to an entry.
LEMMA EntrySound ==
    ASSUME NEW fs, FramesSound(fs), fs # <<>>, NEW key \in Seq(Byte)
    PROVE  LET gs == [fs EXCEPT ![Len(fs)].entry = <<key>>]
           IN  /\ FramesSound(gs) /\ Len(gs) = Len(fs)
               /\ gs # <<>> /\ Last(gs).entry # <<>>
<1> DEFINE n == Len(fs)
           f == fs[n]
           g == [f EXCEPT !.entry = <<key>>]
           gs == [fs EXCEPT ![n] = g]
<1>1. Table(fs) /\ n \in Nat \ {0} /\ n \in DOMAIN fs /\ FrameSound(f)
  BY LastSound, TableIs DEF FramesSound
<1>2. f = [marker |-> f.marker, count |-> f.count, items |-> f.items, entry |-> f.entry]
  BY <1>1 DEF FrameSound
<1>3. gs = [fs EXCEPT ![Len(fs)].entry = <<key>>]
  OBVIOUS
<1> HIDE DEF f
<1>4. g = [marker |-> f.marker, count |-> f.count, items |-> f.items, entry |-> <<key>>]
  BY <1>2
<1> HIDE DEF g
<1>5. /\ g.marker = f.marker /\ g.count = f.count /\ g.items = f.items /\ g.entry = <<key>>
      /\ g.entry # <<>> /\ g.entry[1] = key
  BY <1>4
<1>6. HasElems(g) <=> HasElems(f)
  BY <1>5 DEF HasElems
<1>7. FrameSound(g)
  BY <1>1, <1>4, <1>5, <1>6 DEF FrameSound
<1>8. /\ Table(gs) /\ Len(gs) = n /\ \A i \in 1 .. n : gs[i] = IF i = n THEN g ELSE fs[i]
  BY <1>1, TableExcept
<1> HIDE DEF gs
<1>9. FramesSound(gs)
  <2>1. \A i \in 1 .. n : FrameSound(gs[i])
    BY <1>7, <1>8 DEF FramesSound
  <2>2. \A i \in 1 .. n - 1 : i \in 1 .. n /\ i # n
    BY <1>1
  <2>3. \A i \in 1 .. n - 1 : gs[i].entry # <<>>
    BY <1>8, <2>2 DEF FramesSound
  <2> QED
    BY <1>8, <2>1, <2>3 DEF FramesSound
<1>10. gs # <<>> /\ Last(gs) = g
  <2>1. Len(gs) # 0 /\ n \in 1 .. n
    BY <1>1, <1>8
  <2>2. gs # <<>>
    BY <1>8, <2>1, TableIs
  <2>3. Last(gs) = gs[n]
    BY <1>8, <2>2, TableFront
  <2> QED
    BY <1>8, <2>1, <2>2, <2>3
<1> QED
  BY <1>3, <1>5, <1>8, <1>9, <1>10

-----------------------------------------------------------------------------
(* What can be read from any bytes *)

LEMMA GotIs ==
    /\ Failure.ok = FALSE
    /\ \A v, p : Got(v, p).ok = TRUE /\ Got(v, p).value = v /\ Got(v, p).next = p
BY DEF Failure, Got

LEMMA FieldOk ==
    ASSUME NEW b \in Seq(Byte), NEW p \in Nat \ {0}, NEW n \in Nat
    PROVE  LET r == ReadField(b, p, n)
           IN  /\ r.ok \in BOOLEAN
               /\ r.ok => r.value \in Seq(Byte) /\ Len(r.value) = n /\ r.next = p + n
<1> DEFINE r == ReadField(b, p, n)
           t == Bytes(b, p, n)
<1>1. CASE Require(b, p, n)
  <2>1. p + n - 1 <= Len(b)
    BY <1>1 DEF Require
  <2>2. t \in Seq(Byte) /\ Len(t) = n
    BY <2>1 DEF Bytes
  <2>3. r = Got(t, p + n)
    BY <1>1 DEF ReadField
  <2> HIDE DEF r, t
  <2>4. r.ok = TRUE /\ r.value = t /\ r.next = p + n
    BY <2>3 DEF Got
  <2> QED
    BY <2>2, <2>4 DEF r
<1>2. CASE ~Require(b, p, n)
  <2>1. r = Failure
    BY <1>2 DEF ReadField
  <2> QED
    BY <2>1, GotIs
<1> QED
  BY <1>1, <1>2

LEMMA Utf8Ok ==
    ASSUME NEW b \in Seq(Byte), NEW p \in Nat \ {0}
    PROVE  LET r == ReadUtf8(b, p)
           IN  r.ok \in BOOLEAN /\ (r.ok => r.value \in Seq(Byte) /\ r.next \in Nat \ {0})
<1> DEFINE r == ReadUtf8(b, p)
           t == Bytes(b, p, 2)
           n == BytesToInt2(t)
<1>1. CASE Require(b, p, 2)
  <2>1. t \in Seq(Byte) /\ Len(t) = 2
    <3>1. p + 2 - 1 <= Len(b)
      BY <1>1 DEF Require
    <3> QED
      BY <3>1 DEF Bytes
  <2> HIDE DEF t
  <2>2. n \in Int
    <3>0. 1 \in 1 .. Len(t) /\ 2 \in 1 .. Len(t)
      BY <2>1
    <3>1. t[1] \in Byte /\ t[2] \in Byte
      <4>1. \A i \in 1 .. Len(t) : t[i] \in Byte
        <5>1. t \in Seq(Byte)
          BY <2>1
        <5> QED
          BY <5>1
      <4> QED
        BY <3>0, <4>1
    <3>2. t[1] \in Int /\ t[2] \in Int /\ Base \in Int /\ Limit \in Int
      BY <3>1, BaseFacts DEF Byte
    <3>3. Unsigned2(t) \in Int
      BY <3>2 DEF Unsigned2
    <3> QED
      BY <3>2, <3>3 DEF BytesToInt2
  <2> HIDE DEF n
  <2>3. r = IF n <= 0 THEN Got(<<>>, p + 2) ELSE ReadField(b, p + 2, n)
    BY <1>1 DEF ReadUtf8, t, n
  <2> HIDE DEF r
  <2>4. CASE n <= 0
    <3> DEFINE e == <<>>
    <3>1. e \in Seq(Byte) /\ p + 2 \in Nat \ {0} /\ r = Got(e, p + 2)
      BY <2>3, <2>4
    <3> HIDE DEF e
    <3>2. r.ok = TRUE /\ r.value = e /\ r.next = p + 2
      BY <3>1 DEF Got
    <3> QED
      BY <3>1, <3>2 DEF r
  <2>5. CASE ~(n <= 0)
    <3>1. n \in Nat /\ p + 2 \in Nat \ {0} /\ r = ReadField(b, p + 2, n) /\ (p + 2) + n \in Nat \ {0}
      BY <2>2, <2>3, <2>5
    <3>2. r.ok \in BOOLEAN /\ (r.ok => r.value \in Seq(Byte) /\ r.next = (p + 2) + n)
      BY <3>1, FieldOk
    <3> QED
      BY <3>1, <3>2 DEF r
  <2> QED
    BY <2>4, <2>5
<1>2. CASE ~Require(b, p, 2)
  <2>1. r = Failure
    BY <1>2 DEF ReadUtf8
  <2> QED
    BY <2>1, GotIs
<1> QED
  BY <1>1, <1>2

LEMMA LeafProper ==
    /\ \A s \in Seq(Byte) : Sound(String(s)) /\ ~IsContainer(String(s))
    /\ \A x \in BOOLEAN : Sound(Boolean(x)) /\ ~IsContainer(Boolean(x))
    /\ \A s \in Seq(Byte) : Len(s) = 8 => Sound(Number(s)) /\ ~IsContainer(Number(s))
    /\ \A s \in Seq(Byte), z \in Seq(Byte) :
          Len(s) = 8 /\ Len(z) = 2 => Sound(Date(s, z)) /\ ~IsContainer(Date(s, z))
    /\ \A v \in {Null, Undefined, ObjectEOF} : Sound(v) /\ ~IsContainer(v)
<1>1. ASSUME NEW v, v.marker \in {0, 1, 2, 5, 6, 9, 11}, Proper(v)
      PROVE  Sound(v) /\ ~IsContainer(v)
  <2>1. ~IsContainer(v)
    BY <1>1, Markers DEF IsContainer, HasProps, HasElems
  <2> QED
    BY <1>1, <2>1, SoundLeaf
<1>2. ASSUME NEW s \in Seq(Byte)
      PROVE  Sound(String(s)) /\ ~IsContainer(String(s))
  <2> DEFINE v == String(s)
  <2>1. v.marker = Marker.String /\ v.string = s
    BY DEF String
  <2>2. Proper(v)
    BY <2>1 DEF Proper
  <2> HIDE DEF v
  <2>3. Sound(v) /\ ~IsContainer(v)
    BY <1>1, <2>1, <2>2, Markers
  <2> QED
    BY <2>3 DEF v
<1>3. ASSUME NEW x \in BOOLEAN
      PROVE  Sound(Boolean(x)) /\ ~IsContainer(Boolean(x))
  <2> DEFINE v == Boolean(x)
  <2>1. v.marker = Marker.Boolean /\ v.boolean = x
    BY DEF Boolean
  <2>2. Proper(v)
    BY <2>1 DEF Proper
  <2> HIDE DEF v
  <2>3. Sound(v) /\ ~IsContainer(v)
    BY <1>1, <2>1, <2>2, Markers
  <2> QED
    BY <2>3 DEF v
<1>4. ASSUME NEW s \in Seq(Byte), Len(s) = 8
      PROVE  Sound(Number(s)) /\ ~IsContainer(Number(s))
  <2> DEFINE v == Number(s)
  <2>1. v.marker = Marker.Number /\ v.number = s
    BY DEF Number
  <2>2. Proper(v)
    BY <1>4, <2>1 DEF Proper
  <2> HIDE DEF v
  <2>3. Sound(v) /\ ~IsContainer(v)
    BY <1>1, <2>1, <2>2, Markers
  <2> QED
    BY <2>3 DEF v
<1>5. ASSUME NEW s \in Seq(Byte), NEW z \in Seq(Byte), Len(s) = 8, Len(z) = 2
      PROVE  Sound(Date(s, z)) /\ ~IsContainer(Date(s, z))
  <2> DEFINE v == Date(s, z)
  <2>1. v.marker = Marker.Date /\ v.date = s /\ v.zone = z
    BY DEF Date
  <2>2. Proper(v)
    BY <1>5, <2>1 DEF Proper
  <2> HIDE DEF v
  <2>3. Sound(v) /\ ~IsContainer(v)
    BY <1>1, <2>1, <2>2, Markers
  <2> QED
    BY <2>3 DEF v
<1>6. ASSUME NEW v \in {Null, Undefined, ObjectEOF}
      PROVE  Sound(v) /\ ~IsContainer(v)
  <2>1. v.marker \in {5, 6, 9}
    BY Markers DEF Null, Undefined, ObjectEOF
  <2>2. Proper(v)
    BY DEF Proper
  <2> QED
    BY <1>1, <2>1, <2>2
<1> QED
  BY <1>2, <1>3, <1>4, <1>5, <1>6

LEMMA ScalarOk ==
    ASSUME NEW b \in Seq(Byte), NEW p \in Nat \ {0}
    PROVE  LET r == AnyScalar(b, p)
           IN  /\ r.ok \in BOOLEAN
               /\ r.ok => Sound(r.value) /\ ~IsContainer(r.value) /\ r.next \in Nat \ {0}
<1> DEFINE Good(r) ==
             /\ r.ok \in BOOLEAN
             /\ r.ok => Sound(r.value) /\ ~IsContainer(r.value) /\ r.next \in Nat \ {0}
<1>1. p + 1 \in Nat \ {0} /\ p + 3 \in Nat \ {0}
  OBVIOUS
<1>2. Good(Failure)
  BY GotIs
<1>3. ASSUME NEW v, NEW n \in Nat \ {0}, Sound(v), ~IsContainer(v)
      PROVE  Good(Got(v, n))
  BY <1>3, GotIs
<1>4. Good(ReadNull(b, p)) /\ Good(ReadUndefined(b, p)) /\ Good(ReadEof(b, p))
  BY <1>1, <1>3, LeafProper DEF ReadNull, ReadUndefined, ReadEof, EofSize
<1>5. Good(ReadString(b, p))
  <2> DEFINE r == ReadUtf8(b, p + 1)
  <2>1. r.ok \in BOOLEAN /\ (r.ok => r.value \in Seq(Byte) /\ r.next \in Nat \ {0})
    BY <1>1, Utf8Ok
  <2>2. ReadString(b, p) = IF r.ok THEN Got(String(r.value), r.next) ELSE Failure
    BY DEF ReadString, Convert
  <2> HIDE DEF r, Good
  <2> QED
    BY <1>2, <1>3, <2>1, <2>2, LeafProper
<1>6. Good(ReadBoolean(b, p))
  <2> DEFINE r == ReadField(b, p + 1, 1)
  <2>1. r.ok \in BOOLEAN /\ (r.ok => r.next = (p + 1) + 1)
    BY <1>1, FieldOk
  <2>2. ReadBoolean(b, p) = IF r.ok THEN Got(Boolean(r.value # <<0>>), r.next) ELSE Failure
    BY DEF ReadBoolean, Convert
  <2>3. (p + 1) + 1 \in Nat \ {0}
    OBVIOUS
  <2>4. (r.value # <<0>>) \in BOOLEAN
    OBVIOUS
  <2> DEFINE x == r.value # <<0>>
  <2>5. x \in BOOLEAN /\ ReadBoolean(b, p) = IF r.ok THEN Got(Boolean(x), r.next) ELSE Failure
    BY <2>2, <2>4
  <2> HIDE DEF r, x, Good
  <2> QED
    BY <1>2, <1>3, <2>1, <2>3, <2>5, LeafProper
<1>7. Good(ReadNumber(b, p))
  <2> DEFINE r == ReadField(b, p + 1, 8)
  <2>1. r.ok \in BOOLEAN /\ (r.ok => r.value \in Seq(Byte) /\ Len(r.value) = 8 /\ r.next = (p + 1) + 8)
    BY <1>1, FieldOk
  <2>2. ReadNumber(b, p) = IF r.ok THEN Got(Number(r.value), r.next) ELSE Failure
    BY DEF ReadNumber, Convert
  <2>3. (p + 1) + 8 \in Nat \ {0}
    OBVIOUS
  <2> HIDE DEF r, Good
  <2> QED
    BY <1>2, <1>3, <2>1, <2>2, <2>3, LeafProper
<1>8. Good(ReadDate(b, p))
  <2> DEFINE r == ReadField(b, p + 1, 8 + 2)
             x == SubSeq(r.value, 1, 8)
             z == SubSeq(r.value, 9, 10)
  <2>1. r.ok \in BOOLEAN /\ (r.ok => r.value \in Seq(Byte) /\ Len(r.value) = 10 /\ r.next = (p + 1) + 10)
    <3>1. 8 + 2 \in Nat /\ 8 + 2 = 10
      OBVIOUS
    <3> QED
      BY <1>1, <3>1, FieldOk
  <2>2. ReadDate(b, p) = IF r.ok THEN Got(Date(x, z), r.next) ELSE Failure
    BY DEF ReadDate, Convert
  <2>3. (p + 1) + 10 \in Nat \ {0}
    OBVIOUS
  <2> HIDE DEF r
  <2>4. r.ok => x \in Seq(Byte) /\ Len(x) = 8 /\ z \in Seq(Byte) /\ Len(z) = 2
    BY <2>1
  <2> HIDE DEF x, z, Good
  <2> QED
    BY <1>2, <1>3, <2>1, <2>2, <2>3, <2>4, LeafProper
<1> HIDE DEF Good
<1>9. Good(AnyScalar(b, p))
  BY <1>2, <1>4, <1>5, <1>6, <1>7, <1>8 DEF AnyScalar
<1> QED
  BY <1>9 DEF Good

LEMMA CountOk ==
    ASSUME NEW b \in Seq(Byte), NEW p \in Nat \ {0}
    PROVE  LET n == AnyCount(b, p)
           IN  n.ok \in BOOLEAN /\ (n.ok => n.value \in Int32 /\ n.next \in Nat \ {0})
<1>1. p + 1 \in Nat \ {0} /\ (p + 1) + 4 \in Nat \ {0}
  OBVIOUS
<1>2. CASE b[p] = Marker.Object
  <2> DEFINE n == AnyCount(b, p)
  <2>1. n.ok = TRUE /\ n.value = 0 /\ n.next = p + 1
    BY <1>2 DEF AnyCount, Got
  <2> HIDE DEF n
  <2> QED
    BY <1>1, <2>1, ZeroCount DEF n
<1>3. CASE b[p] # Marker.Object
  <2> DEFINE r == ReadField(b, p + 1, 4)
             t == r.value
  <2>1. r.ok \in BOOLEAN /\ (r.ok => t \in Seq(Byte) /\ Len(t) = 4 /\ r.next = (p + 1) + 4)
    BY <1>1, FieldOk
  <2>2. AnyCount(b, p) = IF r.ok THEN Got(BytesToInt4(t), r.next) ELSE Failure
    BY <1>3 DEF AnyCount, ReadCount, Convert
  <2> HIDE DEF r, t
  <2>3. ASSUME r.ok
        PROVE  BytesToInt4(t) \in Int32
    <3> DEFINE x == t[1]
               y == t[2]
               u == Unsigned2(t)
               w == u * Base + t[3]
               n == Unsigned4(t)
    <3>1. /\ x \in Byte /\ y \in Byte /\ t[3] \in Byte /\ t[4] \in Byte
      <4>1. t \in Seq(Byte) /\ Len(t) = 4
        BY <2>1, <2>3
      <4> QED
        BY <4>1
    <3>2. /\ x \in Nat /\ y \in Nat /\ t[3] \in Nat /\ t[4] \in Nat
          /\ x <= Base - 1 /\ y < Base /\ t[3] < Base /\ t[4] < Base
          /\ Base \in Nat /\ Limit \in Nat /\ Limit4 \in Nat /\ Base * Base = 2 * Limit
      BY <3>1, BaseFacts DEF Byte
    <3>3. u = x * Base + y /\ n = w * Base + t[4]
      BY DEF Unsigned2, Unsigned4
    <3> HIDE DEF x, y, u, w, n
    <3>4. u \in Nat /\ u <= 2 * Limit - 1
      <4>1. x * Base \in Nat /\ x * Base <= (Base - 1) * Base
        BY <3>2, MulMono
      <4>2. (Base - 1) * Base = 2 * Limit - Base
        BY <3>2
      <4> QED
        BY <3>2, <3>3, <4>1, <4>2
    <3> DEFINE k == Limit * Base
    <3>5. k \in Nat /\ Limit4 = k * Base
      BY <3>2 DEF Limit4
    <3>6. w \in Nat /\ w <= 2 * k - 1
      <4>1. u * Base \in Nat /\ u * Base <= (2 * Limit - 1) * Base
        BY <3>2, <3>4, MulMono
      <4>2. (2 * Limit - 1) * Base = 2 * k - Base
        BY <3>2
      <4>3. w = u * Base + t[3]
        BY DEF w
      <4> HIDE DEF k
      <4> QED
        BY <3>2, <3>5, <4>1, <4>2, <4>3
    <3> HIDE DEF k
    <3>7. n \in Nat /\ n <= 2 * Limit4 - 1
      <4>1. w * Base \in Nat /\ w * Base <= (2 * k - 1) * Base
        BY <3>2, <3>5, <3>6, MulMono
      <4>2. (2 * k - 1) * Base = 2 * (k * Base) - Base
        BY <3>2, <3>5
      <4> QED
        BY <3>2, <3>3, <3>5, <4>1, <4>2
    <3>8. BytesToInt4(t) = IF n < Limit4 THEN n ELSE n - 2 * Limit4
      BY DEF BytesToInt4, n
    <3> QED
      BY <3>2, <3>7, <3>8 DEF Int32
  <2> DEFINE n == AnyCount(b, p)
  <2>4. CASE r.ok
    <3>1. n.ok = TRUE /\ n.value = BytesToInt4(t) /\ n.next = r.next
      BY <2>2, <2>4 DEF Got
    <3> HIDE DEF n
    <3> QED
      BY <1>1, <2>1, <2>3, <2>4, <3>1 DEF n
  <2>5. CASE ~r.ok
    <3>1. n.ok = FALSE
      BY <2>2, <2>5, GotIs
    <3> QED
      BY <3>1
  <2> QED
    BY <2>4, <2>5
<1> QED
  BY <1>2, <1>3

LEMMA CopyOk ==
    ASSUME NEW v, Sound(v), ~IsContainer(v)
    PROVE  Sound(CopyOf(v)) /\ ~IsContainer(CopyOf(v))
<1>1. CASE v.marker = Marker.String
  <2>1. v.string \in Seq(Byte)
    BY <1>1, SoundIs, Markers DEF Proper, Null, Undefined, ObjectEOF
  <2>2. CString(v.string) \in Seq(Byte)
    <3> DEFINE s == v.string
               i == SelectInSeq(Append(s, 0), LAMBDA x : x = 0)
    <3>1. i \in 0 .. Len(s) + 1
      <4> DEFINE a == Append(s, 0)
                 I == {j \in 1 .. Len(a) : a[j] = 0}
      <4>1. Len(a) = Len(s) + 1 /\ Len(s) \in Nat /\ a[Len(s) + 1] = 0
        BY <2>1
      <4>2. i = IF I # {} THEN CHOOSE j \in I : \A k \in I : j <= k ELSE 0
        BY DEF SelectInSeq, Min
      <4> HIDE DEF a
      <4>3. I \subseteq Nat /\ I # {}
        BY <4>1
      <4>4. PICK j \in I : \A k \in I : ~(k < j)
        <5> HIDE DEF I
        <5> QED
          BY <4>3, Smallest
      <4>5. \A k \in I : j <= k
        BY <4>3, <4>4
      <4> HIDE DEF i
      <4>6. i \in I
        <5> HIDE DEF I
        <5> QED
          BY <4>2, <4>4, <4>5
      <4> QED
        BY <4>1, <4>6
    <3> HIDE DEF i
    <3>2. SubSeq(s, 1, i - 1) \in Seq(Byte)
      BY <2>1, <3>1
    <3> QED
      BY <3>2 DEF CString, i
  <2> QED
    BY <1>1, <2>2, LeafProper DEF CopyOf
<1>2. CASE v.marker # Marker.String
  BY <1>2 DEF CopyOf
<1> QED
  BY <1>1, <1>2

-----------------------------------------------------------------------------
(* A walk through a sound value *)

WalkSound(w) == \E V : (\A v \in V : Sound(v)) /\ Walking(w, V) /\ Sound(w.root)

LEMMA SoundAll ==
    ASSUME NEW V, \A v \in V : Sound(v)
    PROVE  AllOf(V)
BY SoundIs DEF AllOf

LEMMA WalkBegin ==
    ASSUME NEW v, Sound(v)
    PROVE  WalkSound(Begin(v))
<1> DEFINE V == {}
<1>1. \A x \in V : Sound(x)
  OBVIOUS
<1> HIDE DEF V
<1>2. Walking(Begin(v), V) /\ Begin(v).root = v
  BY BeginWalking
<1> QED
  BY <1>1, <1>2 DEF WalkSound

\* Where it is.
LEMMA WalkIs ==
    ASSUME NEW w, WalkSound(w)
    PROVE  /\ w.due \in BOOLEAN /\ Len(w.path) \in Nat
           /\ w.path = <<>> <=> Len(w.path) = 0
           /\ w.due => Sound(Item(w))
           /\ AtEntry(w) => NextKey(w) \in Seq(Byte)
           /\ AtContainer(w) \/ AtScalar(w) \/ AtEntry(w) \/ AtEnd(w) \/ Ended(w)
           /\ w.path # <<>> => Sound(Top(w).of) /\ IsContainer(Top(w).of)
<1>1. PICK V : (\A v \in V : Sound(v)) /\ Walking(w, V) /\ Sound(w.root)
  BY DEF WalkSound
<1>2. AllOf(V)
  BY <1>1, SoundAll
<1>3. w.due \in BOOLEAN /\ w.path \in Seq([of : V, done : Nat])
  BY <1>1 DEF Walking
<1>4. Len(w.path) \in Nat /\ (w.path = <<>> <=> Len(w.path) = 0)
  BY <1>3
<1>5. w.path # <<>> =>
        /\ Sound(Top(w).of) /\ IsContainer(Top(w).of) /\ Proper(Top(w).of) /\ Top(w).done \in Nat
        /\ Len(Entries(Top(w).of)) \in Nat /\ Top(w).done <= Len(Entries(Top(w).of))
        /\ w.due => Top(w).done >= 1
  BY <1>1, <1>2, TopIs
<1>6. ASSUME w.due
      PROVE  Sound(Item(w))
  <2>1. CASE w.path = <<>>
    BY <1>1, <2>1 DEF Item
  <2>2. CASE w.path # <<>>
    <3>1. Top(w).done \in 1 .. Len(Entries(Top(w).of))
      BY <1>5, <1>6, <2>2
    <3> QED
      BY <1>5, <2>2, <3>1, SoundIs DEF Item
  <2> QED
    BY <2>1, <2>2
<1>7. ASSUME AtEntry(w)
      PROVE  NextKey(w) \in Seq(Byte)
  <2> DEFINE v == Top(w).of
             i == Top(w).done + 1
  <2>1. Proper(v) /\ i \in 1 .. Len(Entries(v))
    BY <1>5, <1>7 DEF AtEntry
  <2>2. NextKey(w) = EntryKey(v, i)
    BY DEF NextKey
  <2> HIDE DEF v, i
  <2>3. HasProps(v) => EntryKey(v, i) \in Seq(Byte)
    BY <2>1, KeyBytes
  <2>4. ~HasProps(v) => EntryKey(v, i) = <<>>
    BY DEF EntryKey
  <2> DEFINE e == <<>>
  <2>5. e \in Seq(Byte)
    OBVIOUS
  <2> QED
    BY <2>2, <2>3, <2>4, <2>5
<1> QED
  BY <1>1, <1>2, <1>3, <1>4, <1>5, <1>6, <1>7, Kinds

LEMMA WalkAfter ==
    ASSUME NEW w, WalkSound(w), ~Ended(w)
    PROVE  /\ WalkSound(After(w)) /\ After(w).root = w.root
           /\ BytesOf(w) \in Seq(Byte) /\ SizeOf(w) \in Nat /\ Len(BytesOf(w)) = SizeOf(w)
           /\ After(w).due = AtEntry(w)
           /\ Len(After(w).path) = CASE AtContainer(w) -> Len(w.path) + 1
                                     [] AtEnd(w) -> Len(w.path) - 1
                                     [] OTHER -> Len(w.path)
<1>1. PICK V : (\A v \in V : Sound(v)) /\ Walking(w, V) /\ Sound(w.root)
  BY DEF WalkSound
<1> DEFINE W == IF w.due THEN V \cup {Item(w)} ELSE V
<1>2. (\A v \in W : Sound(v)) /\ V \subseteq W /\ (w.due => Item(w) \in W)
  BY <1>1, WalkIs
<1> HIDE DEF W
<1>3. AllOf(W) /\ Walking(w, W)
  BY <1>1, <1>2, SoundAll, WalkingOn
<1>4. Walking(After(w), W) /\ After(w).root = w.root
  BY <1>2, <1>3, AfterWalking
<1>5. BytesOf(w) \in Seq(Byte) /\ SizeOf(w) \in Nat /\ Len(BytesOf(w)) = SizeOf(w)
  BY <1>2, <1>3, BytesLength
<1>6. WalkSound(After(w))
  BY <1>1, <1>2, <1>4 DEF WalkSound
<1> DEFINE p == w.path
<1>7. p \in Seq([of : W, done : Nat]) /\ Len(p) \in Nat
  BY <1>3 DEF Walking
<1>8. CASE AtContainer(w)
  <2> DEFINE x == [of |-> Item(w), done |-> 0]
             q == Append(p, x)
  <2>1. After(w) = [root |-> w.root, path |-> q, due |-> FALSE]
    BY <1>3, <1>8, AfterIs
  <2>2. Len(q) = Len(p) + 1
    <3> DEFINE S == [of : W, done : Nat]
    <3>1. p \in Seq(S) /\ x \in S
      BY <1>2, <1>7, <1>8 DEF AtContainer
    <3> HIDE DEF p, x, S
    <3> QED
      BY <3>1
  <2>3. ~AtEntry(w) /\ ~AtEnd(w)
    BY <1>3, <1>8, Kinds
  <2> HIDE DEF q
  <2>4. After(w).path = q /\ After(w).due = FALSE
    BY <2>1
  <2> QED
    BY <1>4, <1>5, <1>6, <1>8, <2>2, <2>3, <2>4 DEF AtEntry
<1>9. CASE AtScalar(w)
  <2>1. After(w) = [root |-> w.root, path |-> p, due |-> FALSE]
    BY <1>3, <1>9, AfterIs
  <2>2. ~AtEntry(w) /\ ~AtEnd(w) /\ ~AtContainer(w)
    BY <1>3, <1>9, Kinds
  <2>3. After(w).path = p /\ After(w).due = FALSE
    <3> HIDE DEF p
    <3> QED
      BY <2>1
  <2> QED
    BY <1>4, <1>5, <1>6, <2>2, <2>3 DEF AtEntry
<1>10. CASE AtEntry(w)
  <2> DEFINE x == [of |-> Top(w).of, done |-> Top(w).done + 1]
             q == [p EXCEPT ![Len(p)] = x]
  <2>1. After(w) = [root |-> w.root, path |-> q, due |-> TRUE]
    BY <1>3, <1>10, AfterIs
  <2>2. Len(q) = Len(p)
    BY <1>7
  <2>3. ~AtEnd(w) /\ ~AtContainer(w)
    BY <1>3, <1>10, Kinds
  <2> HIDE DEF q
  <2>4. After(w).path = q /\ After(w).due = TRUE
    BY <2>1
  <2> QED
    BY <1>4, <1>5, <1>6, <1>10, <2>2, <2>3, <2>4
<1>11. CASE AtEnd(w)
  <2> DEFINE q == Front(p)
  <2>1. After(w) = [root |-> w.root, path |-> q, due |-> FALSE]
    BY <1>3, <1>11, AfterIs
  <2>2. Len(q) = Len(p) - 1
    <3>1. p # <<>> /\ Table(p)
      BY <1>7, <1>11, ATable DEF AtEnd
    <3> HIDE DEF p
    <3> QED
      BY <3>1, TableFront
  <2>3. ~AtEntry(w) /\ ~AtContainer(w)
    BY <1>3, <1>11, Kinds
  <2> HIDE DEF q
  <2>4. After(w).path = q /\ After(w).due = FALSE
    BY <2>1
  <2> QED
    BY <1>4, <1>5, <1>6, <1>11, <2>2, <2>3, <2>4 DEF AtEntry
<1> QED
  BY <1>3, <1>8, <1>9, <1>10, <1>11, Kinds

-----------------------------------------------------------------------------
(* What holds of every state *)

ResultSound ==
    result.ok \in BOOLEAN /\ (result.ok => Sound(result.value) /\ KeysDistinct(result.value))

Fresh ==
    /\ stage \in {"idle", "sizing", "writing"} => frames = <<>> /\ pos = 1
    /\ stage \in {"idle", "sizing"} => out = <<>>
    /\ stage = "idle" => size = 0 /\ visited = {}

\* copy() is as deep in what it fills as in what it copies.
Copying ==
    stage = "copying" =>
        /\ Len(frames) = Len(walk.path)
        /\ frames # <<>> => (Last(frames).entry # <<>> <=> walk.due)

TypeInv ==
    /\ Sound(value) /\ KeysDistinct(value)
    /\ \A v \in visited : Sound(v)
    /\ WalkSound(walk)
    /\ out \in Seq(Byte) /\ input \in Seq(Byte) /\ pos \in Nat \ {0}
    /\ FramesSound(frames)
    /\ \A v \in made : KeysDistinct(v)
    /\ ResultSound
    /\ Fresh
    /\ Copying

LEMMA NullSound == Sound(Null)
BY LeafProper

LEMMA NoFrames == FramesSound(<<>>) /\ Len(<<>>) = 0
<1>1. \A i \in 1 .. Len(<<>>) : FALSE
  OBVIOUS
<1>2. \A i \in 1 .. Len(<<>>) - 1 : FALSE
  OBVIOUS
<1>3. Table(<<>>)
  BY EmptyGood
<1> QED
  BY <1>1, <1>2, <1>3 DEF FramesSound

LEMMA NoBytes == <<>> \in Seq(Byte)
OBVIOUS

LEMMA TypeInit == Init => TypeInv
<1> SUFFICES ASSUME Init PROVE TypeInv
  OBVIOUS
<1>1. /\ stage = "idle" /\ walk = Begin(Null) /\ size = 0 /\ visited = {}
      /\ out = <<>> /\ input = <<>> /\ pos = 1
      /\ frames = <<>> /\ result = Failure /\ made = {}
  BY DEF Init, CodecInit
<1>2. Sound(value) /\ KeysDistinct(value)
  BY EmptyGood, ZeroCount, SoundObject, SoundArray DEF Init
<1>3. WalkSound(walk)
  BY <1>1, NullSound, WalkBegin
<1>4. FramesSound(frames)
  BY <1>1, NoFrames
<1>5. ResultSound
  BY <1>1, GotIs DEF ResultSound
<1>6. out \in Seq(Byte) /\ input \in Seq(Byte)
  BY <1>1, NoBytes
<1>7. Fresh /\ Copying
  BY <1>1 DEF Fresh, Copying
<1> QED
  BY <1>1, <1>2, <1>3, <1>4, <1>5, <1>6, <1>7 DEF TypeInv

-----------------------------------------------------------------------------
(* The program's own actions *)

LEMMA ChangesKeep ==
    ASSUME TypeInv, UNCHANGED codecVars, Sound(value'), KeysDistinct(value')
    PROVE  TypeInv'
BY DEF TypeInv, ResultSound, Fresh, Copying, codecVars

LEMMA ChangeProps ==
    ASSUME Sound(value), KeysDistinct(value), HasProps(value), NEW ps, GoodProps(ps)
    PROVE  LET v == [value EXCEPT !.props = ps] IN Sound(v) /\ KeysDistinct(v)
<1> DEFINE v == [value EXCEPT !.props = ps]
<1>1. CASE value.marker = Marker.Object
  <2>1. value = Object(value.props)
    BY <1>1, SoundProps
  <2>2. v = Object(ps)
    BY <2>1 DEF Object
  <2> HIDE DEF v
  <2> QED
    BY <2>2, ZeroCount, SoundObject DEF v
<1>2. CASE value.marker # Marker.Object
  <2>1. value = EcmaArray(value.props, value.count) /\ value.count \in Int32
    BY <1>2, SoundProps
  <2>2. v = EcmaArray(ps, value.count)
    BY <2>1 DEF EcmaArray
  <2> HIDE DEF v
  <2> QED
    BY <2>1, <2>2, SoundObject DEF v
<1> QED
  BY <1>1, <1>2

LEMMA PropsKeep ==
    ASSUME TypeInv, Changes, HasProps(value),
           NEW ps, GoodProps(ps), value' = [value EXCEPT !.props = ps]
    PROVE  TypeInv'
BY ChangesKeep, ChangeProps DEF TypeInv, Changes

LEMMA ProgramKeeps ==
    ASSUME TypeInv,
           \/ \E k \in Keys, v \in Values : SetProp(k, v)
           \/ \E k \in Keys : UnsetProp(k) \/ RemoveProp(k)
           \/ \E v \in Values : AppendElem(v)
           \/ Clear
    PROVE  TypeInv'
<1>0. Sound(value) /\ KeysDistinct(value)
  BY DEF TypeInv
<1>00. HasProps(value) => GoodProps(value.props)
  BY <1>0, SoundProps
<1>1. ASSUME NEW k \in Keys, NEW v \in Values, SetProp(k, v)
      PROVE  TypeInv'
  <2>1. k \in Seq(Byte) /\ Sound(v)
    BY BytesAssumption, PartsSound
  <2>2. GoodProps(SetProperty(value.props, k, v))
    BY <1>00, <1>1, <2>1, SetGood DEF SetProp
  <2> QED
    BY <1>1, <2>2, PropsKeep DEF SetProp
<1>2. ASSUME NEW k \in Keys, UnsetProp(k)
      PROVE  TypeInv'
  <2>1. GoodProps(Erase(value.props, k))
    BY <1>00, <1>2, EraseGood DEF UnsetProp
  <2> QED
    BY <1>2, <2>1, PropsKeep DEF UnsetProp
<1>3. ASSUME NEW k \in Keys, RemoveProp(k)
      PROVE  TypeInv'
  <2>1. HasProps(value)
    BY <1>3 DEF RemoveProp, HasProps
  <2>2. GoodProps(RemoveProperty(value.props, k))
    BY <1>00, <2>1, EraseGood
  <2> QED
    BY <1>3, <2>1, <2>2, PropsKeep DEF RemoveProp
<1>4. ASSUME NEW v \in Values, AppendElem(v)
      PROVE  TypeInv'
  <2> DEFINE es == value.elems
             n == Len(es) + 1
  <2>1. GoodElems(es)
    BY <1>0, <1>4, SoundElems DEF AppendElem
  <2>2. n \in Int32
    <3>1. Len(es) \in Nat
      BY <2>1, TableIs DEF GoodElems
    <3>2. Len(es) < MaxLength
      BY <1>4 DEF AppendElem
    <3> HIDE DEF es
    <3> QED
      BY <3>1, <3>2, MaxLengthAssumption, ZeroCount DEF Int32
  <2>3. GoodElems(Append(es, v))
    BY <2>1, PartsSound, AppendGood
  <2>4. value' = StrictArray(Append(es, v), n)
    BY <1>4 DEF AppendElem
  <2>5. Sound(value') /\ KeysDistinct(value')
    BY <2>2, <2>3, <2>4, SoundArray
  <2> QED
    BY <1>4, <2>5, ChangesKeep DEF AppendElem, Changes
<1>5. ASSUME Clear
      PROVE  TypeInv'
  <2>1. CASE HasProps(value) /\ value' = [value EXCEPT !.props = <<>>]
    BY <1>5, <2>1, EmptyGood, PropsKeep DEF Clear
  <2>2. CASE HasElems(value) /\ value' = [value EXCEPT !.elems = <<>>]
    <3>1. value = StrictArray(value.elems, value.count) /\ value.count \in Int32
      BY <1>0, <2>2, SoundElems
    <3>2. value' = StrictArray(<<>>, value.count)
      BY <2>2, <3>1 DEF StrictArray
    <3>3. Sound(value') /\ KeysDistinct(value')
      BY <3>1, <3>2, EmptyGood, SoundArray
    <3> QED
      BY <1>5, <3>3, ChangesKeep DEF Clear, Changes
  <2> QED
    BY <1>5, <2>1, <2>2 DEF Clear
<1> QED
  BY <1>1, <1>2, <1>3, <1>4, <1>5

-----------------------------------------------------------------------------
(* Calls of the codec *)

LEMMA CallKeeps ==
    ASSUME TypeInv, Call, UNCHANGED value
    PROVE  TypeInv'
<1>0. /\ Sound(value) /\ KeysDistinct(value)
      /\ WalkSound(walk) /\ Sound(walk.root)
      /\ out \in Seq(Byte) /\ input \in Seq(Byte) /\ Fresh
  BY DEF TypeInv, WalkSound
<1>1. ASSUME NEW v, Sound(v), Send(v)
      PROVE  TypeInv'
  <2>1. WalkSound(walk')
    BY <1>1, WalkBegin DEF Send
  <2> QED
    BY <1>1, <2>1 DEF TypeInv, Send, ResultSound, Fresh, Copying
<1>2. ASSUME StartCopy(value)
      PROVE  TypeInv'
  <2>1. WalkSound(walk') /\ walk'.path = <<>>
    BY <1>0, <1>2, WalkBegin, BeginWalking DEF StartCopy
  <2>2. frames' = <<>>
    BY <1>0, <1>2 DEF StartCopy, Fresh
  <2>3. Copying'
    BY <2>1, <2>2 DEF Copying
  <2> QED
    BY <1>2, <2>1, <2>3 DEF TypeInv, StartCopy, ResultSound, Fresh
<1>3. ASSUME NEW n, Allocate(n)
      PROVE  TypeInv'
  <2>1. WalkSound(walk')
    BY <1>0, <1>3, WalkBegin DEF Allocate
  <2> QED
    BY <1>3, <2>1 DEF TypeInv, Allocate, ResultSound, Fresh, Copying
<1>4. ASSUME NEW b \in Seq(Byte), Arrive(b)
      PROVE  TypeInv'
  BY <1>4 DEF TypeInv, Arrive, ResultSound, Fresh, Copying
<1>5. \A n \in 0 .. Len(out) : SubSeq(out, 1, n) \in Seq(Byte)
  BY <1>0
<1>6. \A rest \in Rests : out \o rest \in Seq(Byte)
  BY <1>0, BytesAssumption
<1>7. \A v \in Peer : Sound(v)
  BY PartsSound
<1> QED
  BY <1>0, <1>1, <1>2, <1>3, <1>4, <1>5, <1>6, <1>7 DEF Call

LEMMA ResetKeeps ==
    ASSUME TypeInv, Finish, Sound(value'), KeysDistinct(value')
    PROVE  TypeInv'
<1>1. /\ stage' = "idle" /\ walk' = Begin(Null) /\ size' = 0 /\ visited' = {}
      /\ out' = <<>> /\ input' = <<>> /\ pos' = 1
      /\ frames' = <<>> /\ result' = Failure /\ made' = {}
  BY DEF Finish
<1>2. WalkSound(walk')
  BY <1>1, NullSound, WalkBegin
<1>3. FramesSound(frames')
  BY <1>1, NoFrames
<1>4. ResultSound'
  BY <1>1, GotIs DEF ResultSound
<1>5. out' \in Seq(Byte) /\ input' \in Seq(Byte)
  BY <1>1, NoBytes
<1>6. Fresh' /\ Copying'
  BY <1>1 DEF Fresh, Copying
<1> QED
  BY <1>1, <1>2, <1>3, <1>4, <1>5, <1>6 DEF TypeInv

LEMMA FinishKeeps ==
    ASSUME TypeInv, (Finish /\ UNCHANGED value) \/ Receive
    PROVE  TypeInv'
<1>1. CASE Finish /\ UNCHANGED value
  BY <1>1, ResetKeeps DEF TypeInv
<1>2. CASE Receive
  BY <1>2, ResetKeeps DEF TypeInv, Receive, ResultSound
<1> QED
  BY <1>1, <1>2

-----------------------------------------------------------------------------
(* total_size() and write() *)

LEMMA VisitSound ==
    ASSUME \A v \in visited : Sound(v), WalkSound(walk), Visit
    PROVE  \A v \in visited' : Sound(v)
BY WalkIs DEF Visit

LEMMA MeasureKeeps ==
    ASSUME TypeInv, Measure \/ Write \/ Overflow, UNCHANGED value
    PROVE  TypeInv'
<1>0. WalkSound(walk) /\ out \in Seq(Byte) /\ \A v \in visited : Sound(v)
  BY DEF TypeInv
<1>1. CASE Measure
  <2>1. WalkSound(walk')
    BY <1>0, <1>1, WalkAfter DEF Measure
  <2>2. \A v \in visited' : Sound(v)
    BY <1>0, <1>1, VisitSound DEF Measure
  <2> QED
    BY <1>1, <2>1, <2>2 DEF TypeInv, Measure, ResultSound, Fresh, Copying
<1>2. CASE Write
  <2>1. WalkSound(walk') /\ BytesOf(walk) \in Seq(Byte)
    BY <1>0, <1>2, WalkAfter DEF Write
  <2>2. out' \in Seq(Byte)
    BY <1>0, <1>2, <2>1 DEF Write
  <2> QED
    BY <1>2, <2>1, <2>2 DEF TypeInv, Write, ResultSound, Fresh, Copying
<1>3. CASE Overflow
  BY <1>3 DEF TypeInv, Overflow, ResultSound, Fresh, Copying
<1> QED
  BY <1>1, <1>2, <1>3

-----------------------------------------------------------------------------
(* What read() and copy() do with what they fill *)

LEMMA DeliverKeeps ==
    ASSUME NEW fs, FramesSound(fs), fs # <<>> => Last(fs).entry # <<>>,
           NEW v, Sound(v), KeysDistinct(v), NEW p, ResultSound, Deliver(v, fs, p)
    PROVE  /\ FramesSound(frames') /\ ResultSound'
           /\ Len(frames') = Len(fs) /\ (fs = <<>> => frames' = <<>>)
           /\ fs # <<>> => frames' # <<>> /\ Last(frames').entry = <<>> /\ stage' = stage
           /\ fs = <<>> => stage' = IF stage = "copying" THEN "copied" ELSE "read"
<1>1. CASE fs # <<>>
  <2>1. frames' = Append(Front(fs), Fill(Last(fs), v)) /\ UNCHANGED <<stage, result>>
    BY <1>1 DEF Deliver
  <2>2. FramesSound(frames') /\ Len(frames') = Len(fs) /\ frames' # <<>> /\ Last(frames').entry = <<>>
    BY <1>1, <2>1, DeliverSound
  <2> QED
    BY <1>1, <2>1, <2>2 DEF ResultSound
<1>2. CASE fs = <<>>
  <2>1. /\ frames' = <<>> /\ result' = Got(v, p)
        /\ stage' = IF stage = "copying" THEN "copied" ELSE "read"
    BY <1>2 DEF Deliver
  <2>2. ResultSound'
    <3>1. result'.ok = TRUE /\ result'.value = v
      BY <2>1 DEF Got
    <3> QED
      BY <3>1 DEF ResultSound
  <2> QED
    BY <1>2, <2>1, <2>2, NoFrames
<1> QED
  BY <1>1, <1>2

LEMMA CloseKeeps ==
    ASSUME FramesSound(frames), frames # <<>>, \A v \in made : KeysDistinct(v), ResultSound,
           NEW p, Close(p)
    PROVE  /\ FramesSound(frames') /\ ResultSound' /\ \A v \in made' : KeysDistinct(v)
           /\ Len(frames') = Len(frames) - 1
           /\ frames' # <<>> => Last(frames').entry = <<>>
           /\ stage' = stage \/ stage' = IF stage = "copying" THEN "copied" ELSE "read"
<1> DEFINE v == Filled(Last(frames))
           fs == Front(frames)
<1>1. /\ FrameSound(Last(frames)) /\ FramesSound(fs) /\ Len(fs) = Len(frames) - 1
      /\ fs # <<>> => Last(fs).entry # <<>>
  BY LastSound
<1>2. Sound(v) /\ KeysDistinct(v)
  BY <1>1, FilledSound
<1>3. Deliver(v, fs, p) /\ made' = made \cup {v}
  BY DEF Close
<1> HIDE DEF v, fs
<1>4. /\ FramesSound(frames') /\ ResultSound'
      /\ Len(frames') = Len(fs) /\ (fs = <<>> => frames' = <<>>)
      /\ fs # <<>> => frames' # <<>> /\ Last(frames').entry = <<>> /\ stage' = stage
      /\ fs = <<>> => stage' = IF stage = "copying" THEN "copied" ELSE "read"
  BY <1>1, <1>2, <1>3, DeliverKeeps
<1> QED
  BY <1>1, <1>2, <1>3, <1>4

LEMMA OpenKeeps ==
    ASSUME FramesSound(frames), frames # <<>> => Last(frames).entry # <<>>,
           NEW m \in Containers, NEW n \in Int32, Open(m, n)
    PROVE  /\ FramesSound(frames') /\ Len(frames') = Len(frames) + 1
           /\ frames' # <<>> /\ Last(frames').entry = <<>>
           /\ UNCHANGED <<stage, result, made>>
<1>1. FrameSound(Frame(m, n)) /\ Frame(m, n).entry = <<>>
  BY FrameNew
<1>2. frames' = Append(frames, Frame(m, n)) /\ UNCHANGED <<stage, result, made>>
  BY DEF Open
<1> DEFINE f == Frame(m, n)
<1> HIDE DEF f
<1>3. /\ FramesSound(Append(frames, f)) /\ Len(Append(frames, f)) = Len(frames) + 1
      /\ Append(frames, f) # <<>> /\ Last(Append(frames, f)) = f
  BY <1>1, PushSound DEF f
<1> QED
  BY <1>1, <1>2, <1>3 DEF f

LEMMA BeginEntryKeeps ==
    ASSUME FramesSound(frames), frames # <<>>, NEW key \in Seq(Byte), BeginEntry(key)
    PROVE  /\ FramesSound(frames') /\ Len(frames') = Len(frames)
           /\ frames' # <<>> /\ Last(frames').entry # <<>>
           /\ UNCHANGED <<stage, result, made>>
<1>1. frames' = [frames EXCEPT ![Len(frames)].entry = <<key>>] /\ UNCHANGED <<stage, result, made>>
  BY DEF BeginEntry
<1> QED
  BY <1>1, EntrySound

LEMMA FailKeeps ==
    ASSUME Fail
    PROVE  FramesSound(frames') /\ ResultSound' /\ stage' = "read" /\ UNCHANGED <<pos, made>>
BY GotIs, NoFrames DEF Fail, ResultSound

-----------------------------------------------------------------------------
(* read() and copy() *)

LEMMA ReadKeeps ==
    ASSUME TypeInv, UNCHANGED value, UNCHANGED <<walk, size, visited, room, out, input>>,
           stage' \in {"reading", "read"}, FramesSound(frames'), ResultSound',
           pos' \in Nat \ {0}, \A v \in made' : KeysDistinct(v)
    PROVE  TypeInv'
BY DEF TypeInv, Fresh, Copying

LEMMA LeafKeys ==
    ASSUME NEW v, ~IsContainer(v)
    PROVE  KeysDistinct(v)
BY DEF KeysDistinct, IsContainer

LEMMA WholeKeeps ==
    ASSUME TypeInv, ReadScalar \/ ReadContainer, UNCHANGED value
    PROVE  TypeInv'
<1>0. /\ FramesSound(frames) /\ input \in Seq(Byte) /\ pos \in Nat \ {0} /\ ResultSound
      /\ \A v \in made : KeysDistinct(v)
      /\ UNCHANGED <<walk, size, visited, room, out, input>> /\ stage = "reading"
      /\ frames # <<>> => Last(frames).entry # <<>>
  BY DEF TypeInv, ReadScalar, ReadContainer, InLoop
<1>1. ASSUME Fail
      PROVE  TypeInv'
  BY <1>0, <1>1, FailKeeps, ReadKeeps
<1>2. CASE ReadScalar
  <2> DEFINE r == AnyScalar(input, pos)
  <2>1. r.ok \in BOOLEAN /\ (r.ok => Sound(r.value) /\ ~IsContainer(r.value) /\ r.next \in Nat \ {0})
    BY <1>0, ScalarOk
  <2>2. \/ r.ok /\ Deliver(r.value, frames, r.next) /\ pos' = r.next /\ UNCHANGED made
        \/ ~r.ok /\ Fail
    BY <1>2 DEF ReadScalar
  <2> HIDE DEF r
  <2>3. ASSUME r.ok, Deliver(r.value, frames, r.next), pos' = r.next, UNCHANGED made
        PROVE  TypeInv'
    <3>1. /\ FramesSound(frames') /\ ResultSound'
          /\ stage' = stage \/ stage' = IF stage = "copying" THEN "copied" ELSE "read"
      BY <1>0, <2>1, <2>3, LeafKeys, DeliverKeeps
    <3> QED
      BY <1>0, <2>1, <2>3, <3>1, ReadKeeps
  <2> QED
    BY <1>1, <2>2, <2>3
<1>3. CASE ReadContainer
  <2> DEFINE n == AnyCount(input, pos)
  <2>1. n.ok \in BOOLEAN /\ (n.ok => n.value \in Int32 /\ n.next \in Nat \ {0})
    BY <1>0, CountOk
  <2>2. \/ n.ok /\ Open(input[pos], n.value) /\ pos' = n.next
        \/ ~n.ok /\ Fail
    BY <1>3 DEF ReadContainer
  <2>3. input[pos] \in Containers
    BY <1>3 DEF ReadContainer, Discovers
  <2> HIDE DEF n
  <2>4. ASSUME n.ok, Open(input[pos], n.value), pos' = n.next
        PROVE  TypeInv'
    <3>1. FramesSound(frames') /\ UNCHANGED <<stage, result, made>>
      BY <1>0, <2>1, <2>3, <2>4, OpenKeeps
    <3>2. ResultSound'
      BY <1>0, <3>1 DEF ResultSound
    <3> QED
      BY <1>0, <2>1, <2>4, <3>1, <3>2, ReadKeeps
  <2> QED
    BY <1>1, <2>2, <2>4
<1> QED
  BY <1>2, <1>3

LEMMA LoopKeeps ==
    ASSUME TypeInv, ReadProperty \/ ReadElement, UNCHANGED value
    PROVE  TypeInv'
<1>0. /\ FramesSound(frames) /\ input \in Seq(Byte) /\ pos \in Nat \ {0} /\ ResultSound
      /\ \A v \in made : KeysDistinct(v)
      /\ UNCHANGED <<walk, size, visited, room, out, input>> /\ stage = "reading"
      /\ frames # <<>>
  BY DEF TypeInv, ReadProperty, ReadElement, InLoop
<1>1. ASSUME Fail
      PROVE  TypeInv'
  BY <1>0, <1>1, FailKeeps, ReadKeeps
<1>2. ASSUME NEW p, Close(p), pos' \in Nat \ {0}
      PROVE  TypeInv'
  <2>1. /\ FramesSound(frames') /\ ResultSound' /\ \A v \in made' : KeysDistinct(v)
        /\ stage' = stage \/ stage' = IF stage = "copying" THEN "copied" ELSE "read"
    BY <1>0, <1>2, CloseKeeps
  <2> QED
    BY <1>0, <1>2, <2>1, ReadKeeps
<1>3. ASSUME NEW key \in Seq(Byte), BeginEntry(key), pos' \in Nat \ {0}
      PROVE  TypeInv'
  <2>1. FramesSound(frames') /\ UNCHANGED <<stage, result, made>>
    BY <1>0, <1>3, BeginEntryKeeps
  <2>2. ResultSound'
    BY <1>0, <2>1 DEF ResultSound
  <2> QED
    BY <1>0, <1>3, <2>1, <2>2, ReadKeeps
<1>4. CASE ReadProperty
  <2> DEFINE key == ReadUtf8(input, pos)
  <2>1. key.ok \in BOOLEAN /\ (key.ok => key.value \in Seq(Byte) /\ key.next \in Nat \ {0})
    BY <1>0, Utf8Ok
  <2>2. \/ Close(pos) /\ UNCHANGED pos
        \/ Close(pos + EofSize) /\ pos' = pos + EofSize
        \/ key.ok /\ BeginEntry(key.value) /\ pos' = key.next
        \/ ~key.ok /\ Fail
    BY <1>4 DEF ReadProperty
  <2>3. EofSize = 3
    BY DEF EofSize
  <2> HIDE DEF key
  <2>4. CASE Close(pos) /\ UNCHANGED pos
    BY <1>0, <1>2, <2>4
  <2>5. CASE Close(pos + EofSize) /\ pos' = pos + EofSize
    <3>1. pos' \in Nat \ {0}
      BY <1>0, <2>3, <2>5
    <3> QED
      BY <1>2, <2>5, <3>1
  <2>6. CASE key.ok /\ BeginEntry(key.value) /\ pos' = key.next
    BY <1>3, <2>1, <2>6
  <2> QED
    BY <1>1, <2>2, <2>4, <2>5, <2>6
<1>5. CASE ReadElement
  <2>1. pos' \in Nat \ {0} /\ (Close(pos) \/ BeginEntry(<<>>))
    BY <1>0, <1>5 DEF ReadElement
  <2> QED
    BY <1>2, <1>3, <2>1, NoBytes
<1> QED
  BY <1>4, <1>5

LEMMA WalkKinds ==
    ASSUME NEW w, WalkSound(w)
    PROVE  ~(AtEntry(w) /\ AtEnd(w))
<1>1. PICK V : (\A v \in V : Sound(v)) /\ Walking(w, V)
  BY DEF WalkSound
<1>2. AllOf(V)
  BY <1>1, SoundAll
<1> QED
  BY <1>1, <1>2, Kinds

LEMMA CopyKeeps ==
    ASSUME TypeInv, Copy, UNCHANGED value
    PROVE  TypeInv'
<1>0. /\ FramesSound(frames) /\ ResultSound /\ Copying /\ stage = "copying"
      /\ \A v \in made : KeysDistinct(v)
      /\ WalkSound(walk) /\ \A v \in visited : Sound(v)
      /\ UNCHANGED <<size, room, out, input, pos>> /\ walk' = After(walk) /\ Visit
      /\ out \in Seq(Byte) /\ input \in Seq(Byte) /\ pos \in Nat \ {0}
      /\ Sound(value) /\ KeysDistinct(value)
  BY DEF TypeInv, Copy
<1>1. /\ Len(frames) \in Nat /\ (frames = <<>> <=> Len(frames) = 0)
      /\ Len(frames) = Len(walk.path)
      /\ frames # <<>> => (Last(frames).entry # <<>> <=> walk.due)
      /\ walk.due \in BOOLEAN
      /\ AtContainer(walk) => walk.due
      /\ AtScalar(walk) => walk.due
      /\ AtEntry(walk) => ~walk.due /\ walk.path # <<>>
      /\ AtEnd(walk) => ~walk.due /\ walk.path # <<>>
      /\ walk.path = <<>> <=> Len(walk.path) = 0
      /\ walk.due => Sound(Item(walk))
  <2>1. Len(frames) \in Nat /\ (frames = <<>> <=> Len(frames) = 0)
    BY <1>0, TableIs DEF FramesSound
  <2>2. /\ walk.due \in BOOLEAN /\ (walk.path = <<>> <=> Len(walk.path) = 0)
        /\ walk.due => Sound(Item(walk))
    BY <1>0, WalkIs
  <2> QED
    BY <1>0, <2>1, <2>2 DEF Copying, AtContainer, AtScalar, AtEntry, AtEnd
<1>2. ~Ended(walk) /\ (CopyOpen \/ CopyScalar \/ CopyEntry \/ CopyClose)
  BY DEF Copy, CopyOpen, CopyScalar, CopyEntry, CopyClose, AtContainer, AtScalar, AtEntry, AtEnd, Ended
<1>3. /\ WalkSound(walk') /\ walk'.due = AtEntry(walk)
      /\ Len(walk'.path) = CASE AtContainer(walk) -> Len(walk.path) + 1
                             [] AtEnd(walk) -> Len(walk.path) - 1
                             [] OTHER -> Len(walk.path)
  BY <1>0, <1>2, WalkAfter
<1>4. \A v \in visited' : Sound(v)
  BY <1>0, VisitSound
<1>5. /\ FramesSound(frames') /\ ResultSound' /\ \A v \in made' : KeysDistinct(v)
      /\ stage' = "copying" \/ stage' = "copied"
      /\ Copying'
  <2>1. CASE CopyOpen
    <3>1. AtContainer(walk) /\ Open(Item(walk).marker, CountOf(Item(walk)))
      BY <2>1 DEF CopyOpen
    <3>2. Proper(Item(walk)) /\ IsContainer(Item(walk))
      BY <1>1, <3>1, SoundIs DEF AtContainer
    <3>3. Item(walk).marker \in Containers
      BY <3>2 DEF IsContainer, HasProps, HasElems, Containers
    <3>4. CountOf(Item(walk)) \in Int32
      BY <3>2, ZeroCount, Markers DEF IsContainer, HasProps, HasElems, CountOf, Proper,
            Null, Undefined, ObjectEOF
    <3>5. /\ FramesSound(frames') /\ Len(frames') = Len(frames) + 1
          /\ frames' # <<>> /\ Last(frames').entry = <<>>
          /\ UNCHANGED <<stage, result, made>>
      BY <1>0, <1>1, <3>1, <3>3, <3>4, OpenKeeps
    <3>6. ~AtEntry(walk) /\ ~AtEnd(walk)
      BY <3>1, <1>1
    <3> QED
      BY <1>0, <1>1, <1>3, <3>1, <3>5, <3>6 DEF ResultSound, Copying
  <2>2. CASE CopyScalar
    <3>1. AtScalar(walk) /\ Deliver(CopyOf(Item(walk)), frames, pos) /\ UNCHANGED made
      BY <2>2 DEF CopyScalar
    <3>2. Sound(CopyOf(Item(walk))) /\ ~IsContainer(CopyOf(Item(walk)))
      BY <1>1, <3>1, CopyOk DEF AtScalar
    <3>3. /\ FramesSound(frames') /\ ResultSound'
          /\ Len(frames') = Len(frames) /\ (frames = <<>> => frames' = <<>>)
          /\ frames # <<>> => frames' # <<>> /\ Last(frames').entry = <<>> /\ stage' = stage
          /\ frames = <<>> => stage' = IF stage = "copying" THEN "copied" ELSE "read"
      BY <1>0, <1>1, <3>1, <3>2, LeafKeys, DeliverKeeps
    <3>4. ~AtEntry(walk) /\ ~AtEnd(walk) /\ ~AtContainer(walk)
      BY <3>1, <1>1 DEF AtScalar, AtContainer
    <3> QED
      BY <1>0, <1>1, <1>3, <3>1, <3>3, <3>4 DEF Copying
  <2>3. CASE CopyEntry
    <3>1. AtEntry(walk) /\ BeginEntry(NextKey(walk))
      BY <2>3 DEF CopyEntry
    <3>2. NextKey(walk) \in Seq(Byte)
      BY <1>0, <3>1, WalkIs
    <3>3. /\ FramesSound(frames') /\ Len(frames') = Len(frames)
          /\ frames' # <<>> /\ Last(frames').entry # <<>>
          /\ UNCHANGED <<stage, result, made>>
      BY <1>0, <1>1, <3>1, <3>2, BeginEntryKeeps
    <3>4. ~AtEnd(walk) /\ ~AtContainer(walk)
      BY <1>0, <1>1, <3>1, WalkKinds
    <3> QED
      BY <1>0, <1>1, <1>3, <3>1, <3>3, <3>4 DEF ResultSound, Copying
  <2>4. CASE CopyClose
    <3>1. AtEnd(walk) /\ Close(pos)
      BY <2>4 DEF CopyClose
    <3>2. /\ FramesSound(frames') /\ ResultSound' /\ \A v \in made' : KeysDistinct(v)
          /\ Len(frames') = Len(frames) - 1
          /\ frames' # <<>> => Last(frames').entry = <<>>
          /\ stage' = stage \/ stage' = IF stage = "copying" THEN "copied" ELSE "read"
      BY <1>0, <1>1, <3>1, CloseKeeps
    <3>3. ~AtEntry(walk) /\ ~AtContainer(walk)
      BY <1>0, <1>1, <3>1, WalkKinds
    <3> QED
      BY <1>0, <1>1, <1>3, <3>1, <3>2, <3>3 DEF Copying
  <2> QED
    BY <1>2, <2>1, <2>2, <2>3, <2>4
<1> QED
  BY <1>0, <1>3, <1>4, <1>5 DEF TypeInv, Fresh

LEMMA TypeNext ==
    ASSUME TypeInv, [Next]_vars
    PROVE  TypeInv'
<1>1. CASE UNCHANGED vars
  BY <1>1 DEF vars, TypeInv, codecVars, ResultSound, Fresh, Copying
<1>2. ASSUME CodecStep, UNCHANGED value
      PROVE  TypeInv'
  BY <1>2, MeasureKeeps, WholeKeeps, LoopKeeps, CopyKeeps DEF CodecStep
<1>3. CASE Next
  BY <1>2, <1>3, ProgramKeeps, CallKeeps, FinishKeeps DEF Next
<1> QED
  BY <1>1, <1>3

\* Whatever the program and its peer do, every value in sight is one that the classes
\* of the code can hold.
THEOREM TypeCorrect == Spec => []TypeInv
BY TypeInit, TypeNext, PTL DEF Spec

\* No object or array ever has two properties with one key: set() replaces the one it
\* finds, and read() and copy() put their properties in with set().
THEOREM KeysAreUnique == Spec => []KeysUnique
<1>1. TypeInv => KeysUnique
  BY DEF TypeInv, KeysUnique
<1> QED
  BY <1>1, TypeCorrect, PTL

-----------------------------------------------------------------------------
(* What is read from the first bytes is read from all of them *)

LEMMA PrefixIs ==
    ASSUME NEW b \in Seq(Byte), NEW c \in Seq(Byte), IsPrefix(b, c)
    PROVE  /\ Len(b) <= Len(c) /\ Len(b) \in Nat /\ Len(c) \in Nat
           /\ \A i \in 1 .. Len(b) : c[i] = b[i]
<1>1. Len(b) <= Len(c) /\ SubSeq(b, 1, Len(b)) = SubSeq(c, 1, Len(b))
  BY DEF IsPrefix
<1>2. Len(b) \in Nat /\ Len(c) \in Nat
  OBVIOUS
<1>3. Len(b) \in 0 .. Len(b) /\ Len(b) \in 0 .. Len(c)
  BY <1>1, <1>2
<1>4. \A i \in 1 .. Len(b) : SubSeq(b, 1, Len(b))[i] = b[i]
  BY <1>3, SubSeqIs
<1>5. \A i \in 1 .. Len(b) : SubSeq(c, 1, Len(b))[i] = c[i]
  BY <1>3, SubSeqIs
<1> QED
  BY <1>1, <1>2, <1>4, <1>5

LEMMA PrefixSelf ==
    ASSUME NEW b \in Seq(Byte)
    PROVE  IsPrefix(b, b)
BY DEF IsPrefix

LEMMA BytesPrefix ==
    ASSUME NEW b \in Seq(Byte), NEW c \in Seq(Byte), IsPrefix(b, c),
           NEW p \in Nat \ {0}, NEW n \in Nat, Require(b, p, n)
    PROVE  Require(c, p, n) /\ Bytes(c, p, n) = Bytes(b, p, n) /\ p + n <= Len(b) + 1
<1> DEFINE s == SubSeq(b, p, p + n - 1)
           t == SubSeq(c, p, p + n - 1)
<1>1. p + n - 1 <= Len(b)
  BY DEF Require
<1>2. /\ Len(b) <= Len(c) /\ Len(b) \in Nat /\ Len(c) \in Nat
      /\ \A i \in 1 .. Len(b) : c[i] = b[i]
  BY PrefixIs
<1>3. p + n - 1 <= Len(c)
  BY <1>1, <1>2
<1>4. s \in Seq(Byte) /\ Len(s) = n /\ \A i \in 1 .. n : s[i] = b[p + i - 1]
  BY <1>1
<1>5. t \in Seq(Byte) /\ Len(t) = n /\ \A i \in 1 .. n : t[i] = c[p + i - 1]
  BY <1>3
<1>6. \A i \in 1 .. n : p + i - 1 \in 1 .. Len(b)
  BY <1>1, <1>2
<1> HIDE DEF s, t
<1>7. \A i \in 1 .. n : s[i] = t[i]
  BY <1>2, <1>4, <1>5, <1>6
<1>8. s = t
  BY <1>4, <1>5, <1>7, SameSeq
<1>9. Require(c, p, n) /\ p + n <= Len(b) + 1
  BY <1>1, <1>2, <1>3 DEF Require
<1> QED
  BY <1>8, <1>9 DEF Bytes, s, t

LEMMA FieldPrefix ==
    ASSUME NEW b \in Seq(Byte), NEW c \in Seq(Byte), IsPrefix(b, c),
           NEW p \in Nat \ {0}, NEW n \in Nat, ReadField(b, p, n).ok
    PROVE  /\ ReadField(c, p, n) = ReadField(b, p, n)
           /\ ReadField(b, p, n).next = p + n /\ p + n <= Len(b) + 1
<1>1. Require(b, p, n)
  BY GotIs DEF ReadField
<1> QED
  BY <1>1, BytesPrefix, GotIs DEF ReadField

LEMMA Utf8Prefix ==
    ASSUME NEW b \in Seq(Byte), NEW c \in Seq(Byte), IsPrefix(b, c),
           NEW p \in Nat \ {0}, ReadUtf8(b, p).ok
    PROVE  /\ ReadUtf8(c, p) = ReadUtf8(b, p)
           /\ ReadUtf8(b, p).next \in Nat /\ ReadUtf8(b, p).next <= Len(b) + 1
           /\ ReadUtf8(b, p).next >= p + 2
<1> DEFINE n == BytesToInt2(Bytes(b, p, 2))
<1>1. Require(b, p, 2)
  BY GotIs DEF ReadUtf8
<1>2. Require(c, p, 2) /\ Bytes(c, p, 2) = Bytes(b, p, 2) /\ p + 2 <= Len(b) + 1
  BY <1>1, BytesPrefix
<1>3. /\ ReadUtf8(b, p) = IF n <= 0 THEN Got(<<>>, p + 2) ELSE ReadField(b, p + 2, n)
      /\ ReadUtf8(c, p) = IF n <= 0 THEN Got(<<>>, p + 2) ELSE ReadField(c, p + 2, n)
  BY <1>1, <1>2 DEF ReadUtf8
<1>4. n \in Int
  <2> DEFINE t == Bytes(b, p, 2)
  <2>1. t \in Seq(Byte) /\ Len(t) = 2
    <3>1. p + 2 - 1 <= Len(b)
      BY <1>1 DEF Require
    <3> QED
      BY <3>1 DEF Bytes
  <2> HIDE DEF t
  <2>2. 1 \in 1 .. Len(t) /\ 2 \in 1 .. Len(t)
    BY <2>1
  <2>3. \A i \in 1 .. Len(t) : t[i] \in Byte
    <3>1. t \in Seq(Byte)
      BY <2>1
    <3> QED
      BY <3>1
  <2>4. t[1] \in Byte /\ t[2] \in Byte
    BY <2>2, <2>3
  <2>5. t[1] \in Int /\ t[2] \in Int /\ Base \in Int /\ Limit \in Int
    BY <2>4, BaseFacts DEF Byte
  <2>6. Unsigned2(t) \in Int
    BY <2>5 DEF Unsigned2
  <2> QED
    BY <2>5, <2>6 DEF BytesToInt2, t
<1> HIDE DEF n
<1>5. CASE n <= 0
  <2> DEFINE e == <<>>
  <2>1. ReadUtf8(b, p) = Got(e, p + 2) /\ ReadUtf8(c, p) = Got(e, p + 2)
    BY <1>3, <1>5
  <2> HIDE DEF e
  <2> QED
    BY <1>2, <2>1, GotIs
<1>6. CASE ~(n <= 0)
  <2>1. /\ ReadUtf8(b, p) = ReadField(b, p + 2, n) /\ ReadUtf8(c, p) = ReadField(c, p + 2, n)
        /\ p + 2 \in Nat \ {0} /\ n \in Nat
    BY <1>3, <1>4, <1>6
  <2> QED
    BY <2>1, FieldPrefix
<1> QED
  BY <1>4, <1>5, <1>6

LEMMA EofPrefix ==
    ASSUME NEW b \in Seq(Byte), NEW c \in Seq(Byte), IsPrefix(b, c),
           NEW p \in Nat \ {0}, IsObjectEof(b, p)
    PROVE  IsObjectEof(c, p) /\ p + EofSize <= Len(b) + 1
<1>1. /\ Len(b) <= Len(c) /\ Len(b) \in Nat /\ Len(c) \in Nat
      /\ \A i \in 1 .. Len(b) : c[i] = b[i]
  BY PrefixIs
<1>2. p + 2 <= Len(b) /\ b[p] = 0 /\ b[p + 1] = 0 /\ b[p + 2] = 9
  BY EofAt
<1>3. p \in 1 .. Len(b) /\ p + 1 \in 1 .. Len(b) /\ p + 2 \in 1 .. Len(b)
  BY <1>1, <1>2
<1>4. p + 2 <= Len(c) /\ c[p] = 0 /\ c[p + 1] = 0 /\ c[p + 2] = 9
  BY <1>1, <1>2, <1>3
<1>5. p + EofSize <= Len(b) + 1
  BY <1>1, <1>2 DEF EofSize
<1> QED
  BY <1>4, <1>5, EofAt

\* The type of a value is seen at its first byte, unless it is a number: that may be
\* an end marker.
LEMMA TypePrefix ==
    ASSUME NEW b \in Seq(Byte), NEW c \in Seq(Byte), IsPrefix(b, c), NEW p \in Nat \ {0},
           p <= Len(b), b[p] # 0 \/ p + 2 <= Len(b)
    PROVE  /\ IsObjectEof(c, p) <=> IsObjectEof(b, p)
           /\ c[p] = b[p]
           /\ \A M : Discovers(c, p, M) <=> Discovers(b, p, M)
<1>1. /\ Len(b) <= Len(c) /\ Len(b) \in Nat /\ Len(c) \in Nat
      /\ \A i \in 1 .. Len(b) : c[i] = b[i]
  BY PrefixIs
<1>2. p \in 1 .. Len(b) /\ c[p] = b[p]
  BY <1>1
<1>3. IsObjectEof(c, p) <=> IsObjectEof(b, p)
  <2>1. CASE b[p] # 0
    BY <1>2, <2>1, EofAt
  <2>2. CASE p + 2 <= Len(b)
    <3>1. p + 1 \in 1 .. Len(b) /\ p + 2 \in 1 .. Len(b) /\ p + 2 <= Len(c)
      BY <1>1, <2>2
    <3>2. c[p + 1] = b[p + 1] /\ c[p + 2] = b[p + 2]
      BY <1>1, <3>1
    <3> QED
      BY <1>2, <2>2, <3>1, <3>2, EofAt
  <2> QED
    BY <2>1, <2>2
<1>4. Require(b, p, 1) /\ Require(c, p, 1)
  BY <1>1, <1>2 DEF Require
<1> QED
  BY <1>2, <1>3, <1>4 DEF Discovers

LEMMA NothingThere ==
    ASSUME NEW b \in Seq(Byte), NEW p \in Nat \ {0}, p > Len(b)
    PROVE  /\ AnyScalar(b, p) = Failure /\ ~IsObjectEof(b, p)
           /\ \A M : ~Discovers(b, p, M)
<1>1. ~Require(b, p, 1) /\ ~Require(b, p, 3)
  BY DEF Require
<1> QED
  BY <1>1 DEF AnyScalar, Discovers, IsObjectEof

LEMMA ScalarPrefix ==
    ASSUME NEW b \in Seq(Byte), NEW c \in Seq(Byte), IsPrefix(b, c),
           NEW p \in Nat \ {0}, AnyScalar(b, p).ok
    PROVE  /\ AnyScalar(c, p) = AnyScalar(b, p)
           /\ AnyScalar(b, p).next \in Nat /\ AnyScalar(b, p).next <= Len(b) + 1
<1>1. CASE IsObjectEof(b, p)
  <2>1. IsObjectEof(c, p) /\ p + EofSize <= Len(b) + 1
    BY <1>1, EofPrefix
  <2>2. /\ AnyScalar(b, p) = Got(ObjectEOF, p + EofSize)
        /\ AnyScalar(c, p) = Got(ObjectEOF, p + EofSize)
    BY <1>1, <2>1 DEF AnyScalar, Discovers, ReadEof
  <2>3. p + EofSize \in Nat
    BY DEF EofSize
  <2> QED
    BY <2>1, <2>2, <2>3, GotIs
<1>2. CASE ~IsObjectEof(b, p)
  <2> DEFINE m == b[p]
  <2>1. p <= Len(b)
    BY GotIs, NothingThere
  <2>2. Require(b, p, 1)
    BY <2>1 DEF Require
  <2>3. \A M : Discovers(b, p, M) <=> m \in M
    BY <1>2, <2>2 DEF Discovers
  <2>4. p + 1 \in Nat \ {0} /\ 8 \in Nat /\ 8 + 2 \in Nat /\ 1 \in Nat /\ Len(b) \in Nat
    OBVIOUS
  <2>5. m # 0 \/ p + 2 <= Len(b)
    <3>1. CASE m = 0
      <4>1. AnyScalar(b, p) = ReadNumber(b, p)
        BY <1>2, <2>3, <3>1, Markers DEF AnyScalar
      <4>2. ReadField(b, p + 1, 8).ok
        BY <4>1, GotIs DEF ReadNumber, Convert
      <4>3. (p + 1) + 8 <= Len(b) + 1
        BY <2>4, <4>2, PrefixSelf, FieldPrefix
      <4> QED
        BY <2>4, <4>3
    <3> QED
      BY <3>1
  <2>6. ~IsObjectEof(c, p) /\ \A M : Discovers(c, p, M) <=> m \in M
    BY <1>2, <2>1, <2>3, <2>5, TypePrefix
  <2> HIDE DEF m
  <2>7. m \in {0, 1, 2, 5, 6, 11}
    BY <1>2, <2>3, GotIs, Markers DEF AnyScalar
  <2>8. CASE m = 0
    <3>1. AnyScalar(b, p) = ReadNumber(b, p) /\ AnyScalar(c, p) = ReadNumber(c, p)
      BY <1>2, <2>3, <2>6, <2>8, Markers DEF AnyScalar
    <3> DEFINE r == ReadField(b, p + 1, 8)
    <3>2. r.ok
      BY <3>1, GotIs DEF ReadNumber, Convert
    <3>3. ReadField(c, p + 1, 8) = r /\ r.next = (p + 1) + 8 /\ (p + 1) + 8 <= Len(b) + 1
      BY <2>4, <3>2, FieldPrefix
    <3>4. ReadNumber(b, p) = Got(Number(r.value), r.next) /\ ReadNumber(c, p) = Got(Number(r.value), r.next)
      BY <3>2, <3>3 DEF ReadNumber, Convert
    <3> HIDE DEF r
    <3> QED
      BY <2>4, <3>1, <3>3, <3>4, GotIs
  <2>9. CASE m = 1
    <3>1. AnyScalar(b, p) = ReadBoolean(b, p) /\ AnyScalar(c, p) = ReadBoolean(c, p)
      BY <1>2, <2>3, <2>6, <2>9, Markers DEF AnyScalar
    <3> DEFINE r == ReadField(b, p + 1, 1)
               v == Boolean(r.value # <<0>>)
    <3>2. r.ok
      BY <3>1, GotIs DEF ReadBoolean, Convert
    <3>3. ReadField(c, p + 1, 1) = r /\ r.next = (p + 1) + 1 /\ (p + 1) + 1 <= Len(b) + 1
      BY <2>4, <3>2, FieldPrefix
    <3>4. ReadBoolean(b, p) = Got(v, r.next) /\ ReadBoolean(c, p) = Got(v, r.next)
      BY <3>2, <3>3 DEF ReadBoolean, Convert
    <3> HIDE DEF r, v
    <3> QED
      BY <2>4, <3>1, <3>3, <3>4, GotIs
  <2>10. CASE m = 2
    <3>1. AnyScalar(b, p) = ReadString(b, p) /\ AnyScalar(c, p) = ReadString(c, p)
      BY <1>2, <2>3, <2>6, <2>10, Markers DEF AnyScalar
    <3> DEFINE r == ReadUtf8(b, p + 1)
    <3>2. r.ok
      BY <3>1, GotIs DEF ReadString, Convert
    <3>3. ReadUtf8(c, p + 1) = r /\ r.next \in Nat /\ r.next <= Len(b) + 1
      BY <2>4, <3>2, Utf8Prefix
    <3>4. ReadString(b, p) = Got(String(r.value), r.next) /\ ReadString(c, p) = Got(String(r.value), r.next)
      BY <3>2, <3>3 DEF ReadString, Convert
    <3> HIDE DEF r
    <3> QED
      BY <3>1, <3>3, <3>4, GotIs
  <2>11. CASE m = 5
    <3>1. AnyScalar(b, p) = Got(Null, p + 1) /\ AnyScalar(c, p) = Got(Null, p + 1)
      BY <1>2, <2>3, <2>6, <2>11, Markers DEF AnyScalar, ReadNull
    <3> QED
      BY <2>1, <2>4, <3>1, GotIs
  <2>12. CASE m = 6
    <3>1. AnyScalar(b, p) = Got(Undefined, p + 1) /\ AnyScalar(c, p) = Got(Undefined, p + 1)
      BY <1>2, <2>3, <2>6, <2>12, Markers DEF AnyScalar, ReadUndefined
    <3> QED
      BY <2>1, <2>4, <3>1, GotIs
  <2>13. CASE m = 11
    <3>1. AnyScalar(b, p) = ReadDate(b, p) /\ AnyScalar(c, p) = ReadDate(c, p)
      BY <1>2, <2>3, <2>6, <2>13, Markers DEF AnyScalar
    <3> DEFINE r == ReadField(b, p + 1, 8 + 2)
               v == Date(SubSeq(r.value, 1, 8), SubSeq(r.value, 9, 10))
    <3>2. r.ok
      BY <3>1, GotIs DEF ReadDate, Convert
    <3>3. /\ ReadField(c, p + 1, 8 + 2) = r
          /\ r.next = (p + 1) + (8 + 2) /\ (p + 1) + (8 + 2) <= Len(b) + 1
      BY <2>4, <3>2, FieldPrefix
    <3>4. ReadDate(b, p) = Got(v, r.next) /\ ReadDate(c, p) = Got(v, r.next)
      BY <3>2, <3>3 DEF ReadDate, Convert
    <3> HIDE DEF r, v
    <3> QED
      BY <2>4, <3>1, <3>3, <3>4, GotIs
  <2> QED
    BY <2>7, <2>8, <2>9, <2>10, <2>11, <2>12, <2>13
<1> QED
  BY <1>1, <1>2

LEMMA CountPrefix ==
    ASSUME NEW b \in Seq(Byte), NEW c \in Seq(Byte), IsPrefix(b, c),
           NEW p \in Nat \ {0}, Discovers(b, p, Containers)
    PROVE  /\ Discovers(c, p, Containers) /\ c[p] = b[p]
           /\ AnyCount(b, p).ok =>
                /\ AnyCount(c, p) = AnyCount(b, p)
                /\ AnyCount(b, p).next \in Nat /\ AnyCount(b, p).next <= Len(b) + 1
<1>1. p <= Len(b) /\ b[p] # 0 /\ Len(b) \in Nat /\ p + 1 \in Nat \ {0} /\ 4 \in Nat
  BY Markers DEF Discovers, Require, Containers
<1>2. c[p] = b[p] /\ \A M : Discovers(c, p, M) <=> Discovers(b, p, M)
  BY <1>1, TypePrefix
<1>3. CASE b[p] = Marker.Object
  <2>1. AnyCount(b, p) = Got(0, p + 1) /\ AnyCount(c, p) = Got(0, p + 1)
    BY <1>2, <1>3 DEF AnyCount
  <2> QED
    BY <1>1, <1>2, <2>1, GotIs
<1>4. CASE b[p] # Marker.Object
  <2> DEFINE r == ReadField(b, p + 1, 4)
  <2>1. AnyCount(b, p) = ReadCount(b, p + 1) /\ AnyCount(c, p) = ReadCount(c, p + 1)
    BY <1>2, <1>4 DEF AnyCount
  <2>2. ASSUME AnyCount(b, p).ok
        PROVE  /\ AnyCount(c, p) = AnyCount(b, p)
               /\ AnyCount(b, p).next \in Nat /\ AnyCount(b, p).next <= Len(b) + 1
    <3>1. r.ok
      BY <2>1, <2>2, GotIs DEF ReadCount, Convert
    <3>2. ReadField(c, p + 1, 4) = r /\ r.next = (p + 1) + 4 /\ (p + 1) + 4 <= Len(b) + 1
      BY <1>1, <3>1, FieldPrefix
    <3> DEFINE n == BytesToInt4(r.value)
    <3>3. AnyCount(b, p) = Got(n, r.next) /\ AnyCount(c, p) = Got(n, r.next)
      BY <2>1, <3>1, <3>2 DEF ReadCount, Convert
    <3> HIDE DEF r, n
    <3> QED
      BY <1>1, <3>2, <3>3, GotIs
  <2> QED
    BY <1>2, <2>2
<1> QED
  BY <1>3, <1>4

-----------------------------------------------------------------------------
(* What read() makes of an object or array that is cut off *)

\* What is filled for v is v with other entries.
LEMMA FilledWith ==
    ASSUME NEW v, Proper(v), IsContainer(v),
           NEW f, f.marker = v.marker, f.count = CountOf(v)
    PROVE  /\ Filled(f) = With(v, f.items)
           /\ IsContainer(Filled(f)) /\ Entries(Filled(f)) = f.items
           /\ HasProps(Filled(f)) <=> HasProps(v)
<1>1. CASE v.marker = Marker.Object
  <2>1. v = Object(v.props) /\ HasProps(v)
    BY <1>1, Markers DEF Proper, Null, Undefined, ObjectEOF, HasProps
  <2>2. Filled(f) = Object(f.items)
    BY <1>1, Markers DEF Filled
  <2>3. With(v, f.items) = Object(f.items)
    BY <2>1 DEF With, Object
  <2>4. Object(f.items).marker = Marker.Object /\ Object(f.items).props = f.items
    BY DEF Object
  <2> QED
    BY <2>1, <2>2, <2>3, <2>4 DEF IsContainer, HasProps, Entries
<1>2. CASE v.marker = Marker.EcmaArray
  <2>1. v = EcmaArray(v.props, v.count) /\ HasProps(v) /\ f.count = v.count
    BY <1>2, Markers DEF Proper, Null, Undefined, ObjectEOF, HasProps, CountOf
  <2>2. Filled(f) = EcmaArray(f.items, v.count)
    BY <1>2, <2>1, Markers DEF Filled
  <2>3. With(v, f.items) = EcmaArray(f.items, v.count)
    <3> DEFINE n == v.count
               ps == v.props
    <3> HIDE DEF n, ps
    <3>1. v = EcmaArray(ps, n)
      BY <2>1 DEF n, ps
    <3>2. [v EXCEPT !.props = f.items] = EcmaArray(f.items, n)
      BY <3>1 DEF EcmaArray
    <3> QED
      BY <2>1, <3>2 DEF With, n
  <2>4. /\ EcmaArray(f.items, v.count).marker = Marker.EcmaArray
        /\ EcmaArray(f.items, v.count).props = f.items
    BY DEF EcmaArray
  <2> QED
    BY <2>1, <2>2, <2>3, <2>4 DEF IsContainer, HasProps, Entries
<1>3. CASE v.marker = Marker.StrictArray
  <2>1. v = StrictArray(v.elems, v.count) /\ ~HasProps(v) /\ f.count = v.count
    BY <1>3, Markers DEF Proper, Null, Undefined, ObjectEOF, HasProps, CountOf
  <2>2. Filled(f) = StrictArray(f.items, v.count)
    BY <1>3, <2>1, Markers DEF Filled
  <2>3. With(v, f.items) = StrictArray(f.items, v.count)
    <3> DEFINE n == v.count
               es == v.elems
    <3> HIDE DEF n, es
    <3>1. v = StrictArray(es, n)
      BY <2>1 DEF n, es
    <3>2. [v EXCEPT !.elems = f.items] = StrictArray(f.items, n)
      BY <3>1 DEF StrictArray
    <3> QED
      BY <2>1, <3>2 DEF With, n
  <2>4. /\ StrictArray(f.items, v.count).marker = Marker.StrictArray
        /\ StrictArray(f.items, v.count).elems = f.items
    BY DEF StrictArray
  <2> QED
    BY <2>1, <2>2, <2>3, <2>4, Markers DEF IsContainer, HasProps, HasElems, Entries
<1> QED
  BY <1>1, <1>2, <1>3 DEF IsContainer, HasProps, HasElems

\* Where no value is being made, there are the first entries.
LEMMA FirstAt ==
    ASSUME NEW s, Proper(s.of), IsContainer(s.of), s.done \in 0 .. Len(Entries(s.of))
    PROVE  FirstEntries(Filled(FrameOf(s, FALSE)), s.of)
<1> DEFINE v == s.of
           f == FrameOf(s, FALSE)
           r == Filled(f)
<1>1. f.marker = v.marker /\ f.count = CountOf(v) /\ f.items = SubSeq(Entries(v), 1, s.done)
  BY DEF FrameOf
<1> HIDE DEF f
<1>2. r = With(v, f.items) /\ IsContainer(r) /\ Entries(r) = f.items
  BY <1>1, FilledWith
<1>3. Table(Entries(v)) /\ Len(Entries(v)) \in Nat
  BY EntriesTable
<1>4. Len(SubSeq(Entries(v), 1, s.done)) = s.done
  BY <1>3, TableSub
<1>5. Len(Entries(r)) = s.done /\ s.done <= Len(Entries(v))
  BY <1>1, <1>2, <1>3, <1>4
<1> HIDE DEF r
<1>6. FirstEntries(r, v)
  BY <1>1, <1>2, <1>5 DEF FirstEntries
<1> QED
  BY <1>6 DEF r, f

\* Where one was being made, it is the last one.
LEMMA CutAt ==
    ASSUME NEW s, Proper(s.of), IsContainer(s.of), KeysDistinct(s.of),
           s.done \in 1 .. Len(Entries(s.of)), NEW x
    PROVE  LET f == Fill(FrameOf(s, TRUE), x)
           IN  /\ f.entry = <<>> /\ CutInside(Filled(f), s.of)
               /\ Len(Entries(Filled(f))) = s.done /\ EntryValue(Filled(f), s.done) = x
<1> DEFINE v == s.of
           n == s.done
           e == Entries(v)
           g == FrameOf(s, TRUE)
           key == EntryKey(v, n)
           y == IF HasElems(v) THEN x ELSE Property(key, x)
           items == IF HasElems(g) THEN Append(g.items, x) ELSE SetProperty(g.items, g.entry[1], x)
           f == Fill(g, x)
           r == Filled(f)
<1>1. /\ g = [marker |-> v.marker, count |-> CountOf(v), items |-> SubSeq(e, 1, n - 1),
              entry |-> <<key>>]
      /\ g.items = SubSeq(e, 1, n - 1) /\ g.entry[1] = key /\ g.marker = v.marker
  BY DEF FrameOf
<1>2. /\ Table(e) /\ Len(e) \in Nat
      /\ HasProps(v) => e = v.props /\ ProperProps(e) /\ ~HasElems(v)
      /\ HasElems(v) => ~HasProps(v)
  BY EntriesTable
<1>3. f = [g EXCEPT !.items = items, !.entry = <<>>]
  BY DEF Fill
<1>4. items = Append(SubSeq(e, 1, n - 1), y)
  <2>1. CASE HasElems(v)
    BY <1>1, <2>1 DEF HasElems
  <2>2. CASE HasProps(v)
    <3>1. ~HasElems(v) /\ ~HasElems(g) /\ e = v.props /\ ProperProps(e) /\ UniqueKeys(e)
      BY <1>1, <1>2, <2>2 DEF HasElems, KeysDistinct
    <3>2. key = e[n].key
      BY <2>2, <3>1 DEF EntryKey
    <3>3. items = SetProperty(SubSeq(e, 1, n - 1), e[n].key, x) /\ y = Property(e[n].key, x)
      BY <1>1, <3>1, <3>2
    <3> HIDE DEF items, e, y, g
    <3> QED
      BY <3>1, <3>3, SetsAny DEF e
  <2> QED
    BY <2>1, <2>2 DEF IsContainer
<1> HIDE DEF items
<1>5. /\ f.marker = v.marker /\ f.count = CountOf(v) /\ f.items = items /\ f.entry = <<>>
  <2> DEFINE m == v.marker
             c == CountOf(v)
             i == SubSeq(e, 1, n - 1)
  <2> HIDE DEF m, c, i, g, f, key
  <2>1. g = [marker |-> m, count |-> c, items |-> i, entry |-> <<key>>]
    BY <1>1 DEF m, c, i
  <2>2. f = [marker |-> m, count |-> c, items |-> items, entry |-> <<>>]
    BY <1>3, <2>1
  <2>3. f.marker = m /\ f.count = c /\ f.items = items /\ f.entry = <<>>
    BY <2>2
  <2> QED
    BY <2>3 DEF m, c
<1> HIDE DEF f, g
<1>6. r = With(v, items) /\ IsContainer(r) /\ Entries(r) = items /\ (HasProps(r) <=> HasProps(v))
  BY <1>5, FilledWith
<1>7. n - 1 \in 0 .. Len(e) /\ n \in Nat
  BY <1>2
<1>8. /\ Table(SubSeq(e, 1, n - 1)) /\ Len(SubSeq(e, 1, n - 1)) = n - 1
  BY <1>2, <1>7, TableSub
<1> HIDE DEF e, r, y
<1>9. Len(items) = n /\ items[n] = y
  <2> DEFINE t == SubSeq(e, 1, n - 1)
  <2>1. Len(Append(t, y)) = Len(t) + 1 /\ Append(t, y)[Len(t) + 1] = y
    <3> HIDE DEF t
    <3> QED
      BY <1>8, TableAppend DEF t
  <2>2. Len(t) + 1 = n
    BY <1>7, <1>8
  <2> QED
    BY <1>4, <2>1, <2>2
<1>10. EntryKey(r, n) = key /\ EntryValue(r, n) = x
  <2>1. CASE HasProps(v)
    <3>1. HasProps(r) /\ r.props = items /\ y = Property(key, x)
      BY <1>2, <1>6, <2>1 DEF Entries, y
    <3> QED
      BY <1>9, <3>1 DEF EntryKey, EntryValue, Property
  <2>2. CASE ~HasProps(v)
    <3>1. ~HasProps(r) /\ r.elems = items /\ HasElems(v) /\ y = x
      BY <1>6, <2>2 DEF Entries, IsContainer, y
    <3>2. key = <<>>
      BY <2>2 DEF EntryKey
    <3> QED
      BY <1>9, <3>1, <3>2 DEF EntryKey, EntryValue
  <2> QED
    BY <2>1, <2>2
<1>11. Len(Entries(r)) = n /\ Entries(r)[n] = y /\ n \in 1 .. Len(Entries(v))
  BY <1>6, <1>9
<1>12. CutInside(r, v)
  BY <1>4, <1>6, <1>10, <1>11 DEF CutInside, e
<1> QED
  BY <1>5, <1>10, <1>11, <1>12 DEF r, f, g

\* From r and v to the last entry of r and to what v has there, and so on: n times.
Inside(x) ==
    LET last == Len(Entries(x.part))
    IN  [part |-> EntryValue(x.part, last), of |-> EntryValue(x.of, last)]

Chain(e, r, v, n) ==
    /\ e[0] = [part |-> r, of |-> v]
    /\ \A m \in 1 .. n : CutInside(e[m - 1].part, e[m - 1].of) /\ e[m] = Inside(e[m - 1])
    /\ FirstEntries(e[n].part, e[n].of)

Cut(r, v, n) == \E e : Chain(e, r, v, n)

LEMMA CutFirst ==
    ASSUME NEW r, NEW v, FirstEntries(r, v)
    PROVE  Cut(r, v, 0)
<1> DEFINE s == [part |-> r, of |-> v]
           e == [m \in 0 .. 0 |-> s]
<1>1. e[0] = s /\ s.part = r /\ s.of = v
  OBVIOUS
<1> HIDE DEF e, s
<1>2. e[0].part = r /\ e[0].of = v /\ 1 .. 0 = {}
  BY <1>1
<1>3. Chain(e, r, v, 0)
  BY <1>1, <1>2 DEF Chain, s
<1> QED
  BY <1>3 DEF Cut

LEMMA CutMore ==
    ASSUME NEW r, NEW v, CutInside(r, v), NEW n \in Nat,
           Cut(EntryValue(r, Len(Entries(r))), EntryValue(v, Len(Entries(r))), n)
    PROVE  Cut(r, v, n + 1)
<1> DEFINE s == [part |-> r, of |-> v]
           t == Inside(s)
<1>1. s.part = r /\ s.of = v
  OBVIOUS
<1>2. t = [part |-> EntryValue(r, Len(Entries(r))), of |-> EntryValue(v, Len(Entries(r)))]
  BY <1>1 DEF Inside
<1>3. PICK e : Chain(e, EntryValue(r, Len(Entries(r))), EntryValue(v, Len(Entries(r))), n)
  BY DEF Cut
<1>4. /\ e[0] = t
      /\ \A m \in 1 .. n : CutInside(e[m - 1].part, e[m - 1].of) /\ e[m] = Inside(e[m - 1])
      /\ FirstEntries(e[n].part, e[n].of)
  BY <1>2, <1>3 DEF Chain
<1> HIDE DEF s
<1> DEFINE d == [m \in 0 .. n + 1 |-> IF m = 0 THEN s ELSE e[m - 1]]
<1>5. d[0] = s /\ \A m \in 1 .. n + 1 : d[m] = e[m - 1]
  OBVIOUS
<1> HIDE DEF d
<1>6. ASSUME NEW m \in 1 .. n + 1
      PROVE  CutInside(d[m - 1].part, d[m - 1].of) /\ d[m] = Inside(d[m - 1])
  <2>1. CASE m = 1
    <3>1. d[m - 1] = s /\ d[m] = e[0]
      BY <1>5, <2>1
    <3> QED
      BY <1>1, <1>4, <3>1
  <2>2. CASE m # 1
    <3>1. m - 1 \in 1 .. n /\ m - 1 \in 1 .. n + 1
      BY <2>2
    <3>2. d[m] = e[m - 1] /\ d[m - 1] = e[(m - 1) - 1]
      BY <1>5, <3>1
    <3> QED
      BY <1>4, <3>1, <3>2
  <2> QED
    BY <2>1, <2>2
<1>7. d[n + 1] = e[n]
  <2>1. n + 1 \in 1 .. n + 1 /\ (n + 1) - 1 = n
    OBVIOUS
  <2> QED
    BY <1>5, <2>1
<1>8. FirstEntries(d[n + 1].part, d[n + 1].of)
  BY <1>4, <1>7
<1>9. Chain(d, r, v, n + 1)
  BY <1>5, <1>6, <1>8 DEF Chain, s
<1> QED
  BY <1>9 DEF Cut

\* The recursive function of PartOf.
Ending(f, r, v, depth) ==
    f = [n \in 0 .. depth |->
            IF n = 0 THEN [part |-> r, of |-> v]
            ELSE LET e == f[n - 1]
                     last == Len(Entries(e.part))
                 IN  [part |-> EntryValue(e.part, last), of |-> EntryValue(e.of, last)]]

LEMMA EndingExists ==
    ASSUME NEW r, NEW v, NEW depth \in Nat
    PROVE  \E f : Ending(f, r, v, depth)
<1> DEFINE T == {m \in Nat : ~ \E f : Ending(f, r, v, m)}
           first == [part |-> r, of |-> v]
<1> SUFFICES ASSUME T # {} PROVE FALSE
  OBVIOUS
<1>1. PICK m \in T : \A y \in T : ~(y < m)
  <2> HIDE DEF T
  <2> QED
    BY Smallest DEF T
<1>2. CASE m = 0
  <2> HIDE DEF first
  <2> DEFINE f == [i \in 0 .. m |-> first]
  <2>1. Ending(f, r, v, m)
    BY <1>2 DEF Ending, first
  <2> QED
    BY <2>1
<1>3. CASE m # 0
  <2>1. m - 1 \in Nat /\ m - 1 < m
    BY <1>3
  <2>2. PICK g : Ending(g, r, v, m - 1)
    BY <1>1, <2>1
  <2> DEFINE next == Inside(g[m - 1])
             f == [i \in 0 .. m |-> IF i = m THEN next ELSE g[i]]
             step(i) == IF i = 0 THEN first ELSE Inside(f[i - 1])
  <2>3. \A i \in 0 .. m - 1 : f[i] = g[i]
    OBVIOUS
  <2>4. ASSUME NEW i \in 0 .. m
        PROVE  f[i] = step(i)
    <3>1. CASE i = m
      <4>1. f[i] = next /\ f[i - 1] = g[m - 1]
        BY <2>1, <2>3, <3>1
      <4> QED
        BY <1>3, <3>1, <4>1
    <3>2. CASE i # m
      <4>1. i \in 0 .. m - 1 /\ f[i] = g[i]
        BY <2>3, <3>2
      <4>2. g[i] = IF i = 0 THEN first ELSE Inside(g[i - 1])
        BY <2>2, <4>1 DEF Ending, Inside
      <4>3. i # 0 => f[i - 1] = g[i - 1]
        <5>1. i # 0 => i - 1 \in 0 .. m - 1
          BY <4>1
        <5> QED
          BY <2>3, <5>1
      <4> QED
        BY <4>1, <4>2, <4>3
    <3> QED
      BY <3>1, <3>2
  <2>5. f = [i \in 0 .. m |-> f[i]]
    OBVIOUS
  <2> HIDE DEF f
  <2>6. Ending(f, r, v, m)
    BY <2>4, <2>5 DEF Ending, Inside
  <2> QED
    BY <2>6
<1> QED
  BY <1>2, <1>3

LEMMA EndsAre ==
    ASSUME NEW r, NEW v, NEW depth \in Nat
    PROVE  /\ Ends(r, v, depth)[0] = [part |-> r, of |-> v]
           /\ \A n \in 1 .. depth : Ends(r, v, depth)[n] = Inside(Ends(r, v, depth)[n - 1])
<1> DEFINE F == CHOOSE f : Ending(f, r, v, depth)
<1>1. Ending(F, r, v, depth)
  BY EndingExists
<1>2. Ends(r, v, depth) = F
  BY DEF Ends, Ending
<1> HIDE DEF F
<1>3. F[0] = [part |-> r, of |-> v]
  BY <1>1 DEF Ending
<1>4. ASSUME NEW n \in 1 .. depth
      PROVE  F[n] = Inside(F[n - 1])
  <2>1. n \in 0 .. depth /\ n # 0
    OBVIOUS
  <2> QED
    BY <1>1, <2>1 DEF Ending, Inside
<1> QED
  BY <1>2, <1>3, <1>4

LEMMA CutPart ==
    ASSUME NEW r, NEW v, NEW depth \in Nat, NEW n \in 0 .. depth, Cut(r, v, n)
    PROVE  PartOf(r, v, depth)
<1> DEFINE f == Ends(r, v, depth)
<1>1. f[0] = [part |-> r, of |-> v] /\ \A m \in 1 .. depth : f[m] = Inside(f[m - 1])
  BY EndsAre
<1>2. PICK e : Chain(e, r, v, n)
  BY DEF Cut
<1>3. /\ e[0] = [part |-> r, of |-> v]
      /\ \A m \in 1 .. n : CutInside(e[m - 1].part, e[m - 1].of) /\ e[m] = Inside(e[m - 1])
      /\ FirstEntries(e[n].part, e[n].of)
  BY <1>2 DEF Chain
<1> HIDE DEF f
<1>4. \A m \in 0 .. n : f[m] = e[m]
  <2> DEFINE T == {m \in Nat : m <= n /\ f[m] # e[m]}
  <2> SUFFICES ASSUME T # {} PROVE FALSE
    OBVIOUS
  <2>1. PICK m \in T : \A y \in T : ~(y < m)
    <3> HIDE DEF T
    <3> QED
      BY Smallest DEF T
  <2>2. m # 0
    BY <1>1, <1>3
  <2>3. m \in 1 .. n /\ m \in 1 .. depth /\ m - 1 \in Nat /\ m - 1 < m /\ m - 1 <= n
    BY <2>2
  <2>4. f[m - 1] = e[m - 1]
    BY <2>1, <2>3
  <2> QED
    BY <1>1, <1>3, <2>3, <2>4
<1>5. n \in 0 .. n
  OBVIOUS
<1>6. FirstEntries(f[n].part, f[n].of)
  BY <1>3, <1>4, <1>5
<1>7. ASSUME NEW m \in 0 .. n - 1
      PROVE  CutInside(f[m].part, f[m].of)
  <2>1. m + 1 \in 1 .. n /\ (m + 1) - 1 = m /\ m \in 0 .. n
    OBVIOUS
  <2>2. CutInside(e[(m + 1) - 1].part, e[(m + 1) - 1].of)
    BY <1>3, <2>1
  <2> QED
    BY <1>4, <2>1, <2>2
<1> QED
  BY <1>6, <1>7 DEF PartOf, f

\* A value is not cut off.
LEMMA PartSame ==
    ASSUME NEW v, NEW depth
    PROVE  PartOf(v, v, depth)
BY DEF PartOf

-----------------------------------------------------------------------------
(* The places that total_size() has come to, each with the size of what is *)
(* before it.                                                              *)

Run(tr, r, V) ==
    /\ Table(tr) /\ Len(tr) \in Nat \ {0}
    /\ tr[1] = [walk |-> Begin(r), at |-> 0]
    /\ \A k \in 1 .. Len(tr) :
          /\ Walking(tr[k].walk, V) /\ tr[k].walk.root = r
          /\ tr[k].at \in Nat /\ tr[k].at <= tr[Len(tr)].at
    /\ \A k \in 1 .. Len(tr) - 1 :
          /\ ~Ended(tr[k].walk)
          /\ tr[k].walk.due => Item(tr[k].walk) \in V
          /\ tr[k + 1] = [walk |-> After(tr[k].walk), at |-> tr[k].at + SizeOf(tr[k].walk)]

Whole(tr, r, V) == Run(tr, r, V) /\ Ended(tr[Len(tr)].walk)

\* The bytes of the places before the k-th are in b.
Written(tr, k, b) == \A m \in 1 .. k - 1 : Holds(b, tr[m].at + 1, BytesOf(tr[m].walk))

LEMMA RunBegin ==
    ASSUME NEW r, NEW V
    PROVE  \E tr : Run(tr, r, V) /\ tr[Len(tr)] = [walk |-> Begin(r), at |-> 0]
<1> DEFINE s == [walk |-> Begin(r), at |-> 0]
           tr == <<s>>
<1>1. Table(tr) /\ Len(tr) = 1 /\ tr[1] = s
  <2> HIDE DEF s
  <2>1. tr \in Seq({s}) /\ Len(tr) = 1 /\ tr[1] = s
    OBVIOUS
  <2> HIDE DEF tr
  <2> QED
    BY <2>1, ATable
<1>2. s.walk = Begin(r) /\ s.at = 0
  OBVIOUS
<1>3. Walking(Begin(r), V) /\ Begin(r).root = r
  BY BeginWalking
<1> HIDE DEF tr
<1>4. Len(tr) \in Nat \ {0} /\ 1 .. Len(tr) = {1} /\ 1 .. Len(tr) - 1 = {}
  BY <1>1
<1>5. tr[1].walk = Begin(r) /\ tr[1].at = 0
  BY <1>1, <1>2
<1> HIDE DEF s
<1>6. \A k \in 1 .. Len(tr) :
          /\ Walking(tr[k].walk, V) /\ tr[k].walk.root = r
          /\ tr[k].at \in Nat /\ tr[k].at <= tr[Len(tr)].at
  BY <1>1, <1>3, <1>4, <1>5
<1>7. Run(tr, r, V)
  BY <1>1, <1>4, <1>6 DEF Run, s
<1> QED
  BY <1>1, <1>7 DEF s

LEMMA RunMore ==
    ASSUME NEW V, NEW W, V \subseteq W, AllOf(V), AllOf(W), NEW r, NEW tr, Run(tr, r, V),
           NEW w, NEW n, tr[Len(tr)] = [walk |-> w, at |-> n], ~Ended(w), w.due => Item(w) \in W
    PROVE  \E t : Run(t, r, W) /\ t[Len(t)] = [walk |-> After(w), at |-> n + SizeOf(w)]
<1> DEFINE N == Len(tr)
           s == [walk |-> After(w), at |-> n + SizeOf(w)]
           t == Append(tr, s)
<1>1. N \in Nat \ {0} /\ N \in 1 .. N /\ Table(tr)
  BY DEF Run
<1>2. tr[N].walk = w /\ tr[N].at = n
  OBVIOUS
<1>3. Walking(w, W) /\ w.root = r /\ n \in Nat
  <2>1. Walking(tr[N].walk, V) /\ tr[N].walk.root = r /\ tr[N].at \in Nat
    BY <1>1 DEF Run
  <2> QED
    BY <1>2, <2>1, WalkingOn
<1>4. Walking(After(w), W) /\ After(w).root = r
  BY <1>3, AfterWalking
<1>5. SizeOf(w) \in Nat
  BY <1>3, BytesLength
<1>6. s.walk = After(w) /\ s.at = n + SizeOf(w)
  OBVIOUS
<1> HIDE DEF s
<1>7. /\ Table(t) /\ Len(t) = N + 1 /\ t[N + 1] = s
      /\ \A i \in 1 .. N : t[i] = tr[i]
  BY <1>1, TableAppend
<1> HIDE DEF t, N
<1>8. Len(t) \in Nat \ {0} /\ t[1] = tr[1] /\ t[Len(t)] = s
  BY <1>1, <1>7
<1>9. ASSUME NEW k \in 1 .. Len(t)
      PROVE  /\ Walking(t[k].walk, W) /\ t[k].walk.root = r
             /\ t[k].at \in Nat /\ t[k].at <= t[Len(t)].at
  <2>1. CASE k = N + 1
    <3>1. t[k].walk = After(w) /\ t[k].at = n + SizeOf(w) /\ t[Len(t)].at = n + SizeOf(w)
      BY <1>6, <1>7, <1>8, <2>1
    <3> QED
      BY <1>3, <1>4, <1>5, <3>1
  <2>2. CASE k \in 1 .. N
    <3>1. /\ Walking(tr[k].walk, V) /\ tr[k].walk.root = r
          /\ tr[k].at \in Nat /\ tr[k].at <= tr[N].at
      BY <2>2 DEF Run, N
    <3>2. t[k] = tr[k] /\ t[Len(t)].at = n + SizeOf(w)
      BY <1>6, <1>7, <1>8, <2>2
    <3>3. tr[k].at <= n + SizeOf(w)
      BY <1>2, <1>3, <1>5, <3>1 DEF N
    <3> QED
      BY <3>1, <3>2, <3>3, WalkingOn
  <2> QED
    BY <1>1, <1>7, <2>1, <2>2
<1>10. ASSUME NEW k \in 1 .. Len(t) - 1
       PROVE  /\ ~Ended(t[k].walk)
              /\ t[k].walk.due => Item(t[k].walk) \in W
              /\ t[k + 1] = [walk |-> After(t[k].walk), at |-> t[k].at + SizeOf(t[k].walk)]
  <2>1. k \in 1 .. N /\ t[k] = tr[k]
    BY <1>1, <1>7
  <2>2. CASE k = N
    <3>1. t[k].walk = w /\ t[k].at = n /\ t[k + 1] = s
      BY <1>2, <1>7, <2>1, <2>2 DEF N
    <3> QED
      BY <3>1 DEF s
  <2>3. CASE k # N
    <3>1. k \in 1 .. N - 1 /\ k + 1 \in 1 .. N
      BY <1>1, <2>1, <2>3
    <3>2. t[k + 1] = tr[k + 1]
      BY <1>7, <3>1
    <3>3. /\ ~Ended(tr[k].walk)
          /\ tr[k].walk.due => Item(tr[k].walk) \in V
          /\ tr[k + 1] = [walk |-> After(tr[k].walk), at |-> tr[k].at + SizeOf(tr[k].walk)]
      BY <3>1 DEF Run, N
    <3> QED
      BY <2>1, <3>2, <3>3
  <2> QED
    BY <2>2, <2>3
<1>11. Run(t, r, W)
  BY <1>7, <1>8, <1>9, <1>10 DEF Run
<1> QED
  BY <1>8, <1>11 DEF s

\* What is known of the k-th place, and where it goes on.
LEMMA RunAt ==
    ASSUME NEW V, AllOf(V), NEW r, NEW tr, Whole(tr, r, V), NEW k \in 1 .. Len(tr)
    PROVE  LET w == tr[k].walk
           IN  /\ Walking(w, V) /\ w.root = r /\ tr[k].at \in Nat
               /\ Ended(w) => k = Len(tr)
               /\ k = Len(tr) => Ended(w)
               /\ ~Ended(w) =>
                    /\ k + 1 \in 1 .. Len(tr) /\ (w.due => Item(w) \in V)
                    /\ tr[k + 1].walk = After(w) /\ tr[k + 1].at = tr[k].at + SizeOf(w)
                    /\ tr[k + 1].at <= tr[Len(tr)].at
<1> DEFINE w == tr[k].walk
<1>1. /\ Len(tr) \in Nat \ {0}
      /\ Walking(w, V) /\ w.root = r /\ tr[k].at \in Nat
      /\ Ended(tr[Len(tr)].walk)
  BY DEF Whole, Run
<1>2. k = Len(tr) => Ended(w)
  BY <1>1
<1>3. ASSUME k # Len(tr)
      PROVE  /\ k + 1 \in 1 .. Len(tr) /\ ~Ended(w) /\ (w.due => Item(w) \in V)
             /\ tr[k + 1] = [walk |-> After(w), at |-> tr[k].at + SizeOf(w)]
             /\ tr[k + 1].at <= tr[Len(tr)].at
  <2>1. k \in 1 .. Len(tr) - 1 /\ k + 1 \in 1 .. Len(tr)
    BY <1>1, <1>3
  <2> QED
    BY <2>1 DEF Whole, Run
<1>4. ASSUME k # Len(tr)
      PROVE  tr[k + 1].walk = After(w) /\ tr[k + 1].at = tr[k].at + SizeOf(w)
  BY <1>3, <1>4
<1> HIDE DEF w
<1>5. /\ Walking(w, V) /\ w.root = r /\ tr[k].at \in Nat
      /\ Ended(w) => k = Len(tr)
      /\ k = Len(tr) => Ended(w)
      /\ ~Ended(w) =>
           /\ k + 1 \in 1 .. Len(tr) /\ (w.due => Item(w) \in V)
           /\ tr[k + 1].walk = After(w) /\ tr[k + 1].at = tr[k].at + SizeOf(w)
           /\ tr[k + 1].at <= tr[Len(tr)].at
  BY <1>1, <1>2, <1>3, <1>4
<1> QED
  BY <1>5 DEF w

LEMMA HoldsPrefix ==
    ASSUME NEW b \in Seq(Byte), NEW c \in Seq(Byte), IsPrefix(b, c),
           NEW p \in Nat \ {0}, NEW s \in Seq(Byte), Holds(b, p, s)
    PROVE  Holds(c, p, s)
<1>1. Len(b) <= Len(c) /\ Len(b) \in Nat /\ \A i \in 1 .. Len(b) : c[i] = b[i]
  BY PrefixIs
<1>2. Len(c) \in Nat /\ Len(s) \in Nat
  OBVIOUS
<1>3. p + Len(s) - 1 <= Len(c)
  BY <1>1, <1>2 DEF Holds
<1>4. ASSUME NEW i \in 1 .. Len(s)
      PROVE  c[p + i - 1] = s[i]
  <2>1. p + i - 1 \in 1 .. Len(b)
    BY <1>1, <1>2 DEF Holds
  <2>2. b[p + i - 1] = s[i]
    BY DEF Holds
  <2> QED
    BY <1>1, <2>1, <2>2
<1> QED
  BY <1>3, <1>4 DEF Holds

LEMMA HoldsMore ==
    ASSUME NEW b \in Seq(Byte), NEW t \in Seq(Byte)
    PROVE  /\ b \o t \in Seq(Byte) /\ IsPrefix(b, b \o t)
           /\ Holds(b \o t, Len(b) + 1, t)
<1> DEFINE c == b \o t
<1>1. /\ c \in Seq(Byte) /\ Len(c) = Len(b) + Len(t)
      /\ \A i \in 1 .. Len(b) : c[i] = b[i]
      /\ \A i \in 1 .. Len(t) : c[Len(b) + i] = t[i]
  BY Cat
<1> HIDE DEF c
<1>2. Len(b) \in Nat /\ Len(t) \in Nat
  OBVIOUS
<1>3. Len(b) \in 0 .. Len(b) /\ Len(b) \in 0 .. Len(c)
  BY <1>1, <1>2
<1>4. SubSeq(b, 1, Len(b)) = SubSeq(c, 1, Len(b))
  <2>1. /\ SubSeq(b, 1, Len(b)) \in Seq(Byte) /\ Len(SubSeq(b, 1, Len(b))) = Len(b)
        /\ \A i \in 1 .. Len(b) : SubSeq(b, 1, Len(b))[i] = b[i]
    BY <1>3, SubSeqIs
  <2>2. /\ SubSeq(c, 1, Len(b)) \in Seq(Byte) /\ Len(SubSeq(c, 1, Len(b))) = Len(b)
        /\ \A i \in 1 .. Len(b) : SubSeq(c, 1, Len(b))[i] = c[i]
    BY <1>1, <1>3, SubSeqIs
  <2> DEFINE x == SubSeq(b, 1, Len(b))
             y == SubSeq(c, 1, Len(b))
  <2> HIDE DEF x, y
  <2>3. \A i \in 1 .. Len(x) : x[i] = y[i]
    BY <1>1, <2>1, <2>2 DEF x, y
  <2>4. x \in Seq(Byte) /\ y \in Seq(Byte) /\ Len(x) = Len(y)
    BY <2>1, <2>2 DEF x, y
  <2>5. x = y
    BY <2>3, <2>4, SameSeq
  <2> QED
    BY <2>5 DEF x, y
<1>5. IsPrefix(b, c)
  BY <1>1, <1>2, <1>4 DEF IsPrefix
<1>6. Holds(c, Len(b) + 1, t)
  <2>1. Len(b) + 1 + Len(t) - 1 <= Len(c)
    BY <1>1, <1>2
  <2>2. \A i \in 1 .. Len(t) : Len(b) + 1 + i - 1 = Len(b) + i
    BY <1>2
  <2> QED
    BY <1>1, <2>1, <2>2 DEF Holds
<1> QED
  BY <1>1, <1>5, <1>6 DEF c

LEMMA WrittenPrefix ==
    ASSUME NEW V, AllOf(V), NEW r, NEW tr, Whole(tr, r, V), NEW k \in 1 .. Len(tr),
           NEW b \in Seq(Byte), NEW c \in Seq(Byte), IsPrefix(b, c), Written(tr, k, b)
    PROVE  Written(tr, k, c)
<1>1. ASSUME NEW m \in 1 .. k - 1
      PROVE  Holds(c, tr[m].at + 1, BytesOf(tr[m].walk))
  <2>1. m \in 1 .. Len(tr) /\ m # Len(tr) /\ Len(tr) \in Nat
    BY DEF Whole, Run
  <2>2. /\ Walking(tr[m].walk, V) /\ tr[m].at \in Nat /\ ~Ended(tr[m].walk)
        /\ tr[m].walk.due => Item(tr[m].walk) \in V
    BY <2>1, RunAt
  <2>3. BytesOf(tr[m].walk) \in Seq(Byte)
    BY <2>2, BytesLength
  <2>4. Holds(b, tr[m].at + 1, BytesOf(tr[m].walk))
    BY DEF Written
  <2>5. tr[m].at + 1 \in Nat \ {0}
    BY <2>2
  <2> QED
    BY <2>3, <2>4, <2>5, HoldsPrefix
<1> QED
  BY <1>1 DEF Written

\* Each object or array on the way to a place has at least one byte before it.
LEMMA AfterDepth ==
    ASSUME NEW V, AllOf(V), NEW w, Walking(w, V), ~Ended(w), w.due => Item(w) \in V
    PROVE  /\ Len(w.path) \in Nat /\ Len(After(w).path) \in Nat
           /\ Len(After(w).path) <= Len(w.path) + SizeOf(w)
<1> DEFINE p == w.path
<1>1. SizeOf(w) \in Nat
  BY BytesLength
<1>2. p \in Seq([of : V, done : Nat]) /\ Table(p)
  BY ATable DEF Walking
<1>3. Len(p) \in Nat
  BY <1>2
<1>4. CASE AtContainer(w)
  <2> DEFINE s == [of |-> Item(w), done |-> 0]
  <2>1. After(w) = [root |-> w.root, path |-> Append(p, s), due |-> FALSE]
    BY <1>4, AfterIs
  <2> HIDE DEF s, p
  <2>2. After(w).path = Append(p, s)
    BY <2>1
  <2>3. Len(Append(p, s)) = Len(p) + 1
    BY <1>2, TableAppend
  <2>4. SizeOf(w) = ContainerSize(Item(w))
    BY <1>4, Kinds DEF SizeOf
  <2>5. SizeOf(w) >= 1
    BY <2>4 DEF ContainerSize
  <2> QED
    BY <1>1, <1>3, <2>2, <2>3, <2>5 DEF p
<1>5. CASE AtScalar(w)
  <2>1. After(w) = [root |-> w.root, path |-> p, due |-> FALSE]
    BY <1>5, AfterIs
  <2> HIDE DEF p
  <2>2. After(w).path = p
    BY <2>1
  <2> QED
    BY <1>1, <1>3, <2>2 DEF p
<1>6. CASE AtEntry(w)
  <2> DEFINE s == [of |-> Top(w).of, done |-> Top(w).done + 1]
             q == [p EXCEPT ![Len(p)] = s]
  <2>1. After(w) = [root |-> w.root, path |-> q, due |-> TRUE]
    BY <1>6, AfterIs
  <2>2. Len(p) \in DOMAIN p
    <3>1. p # <<>>
      BY <1>6 DEF AtEntry
    <3> HIDE DEF p
    <3> QED
      BY <1>2, <3>1
  <2> HIDE DEF s, p
  <2>3. Len(q) = Len(p)
    BY <1>2, <2>2, TableExcept
  <2> HIDE DEF q
  <2>4. After(w).path = q
    BY <2>1
  <2> QED
    BY <1>1, <1>3, <2>3, <2>4 DEF p
<1>7. CASE AtEnd(w)
  <2>1. After(w) = [root |-> w.root, path |-> Front(p), due |-> FALSE]
    BY <1>7, AfterIs
  <2>2. p # <<>>
    BY <1>7 DEF AtEnd
  <2> HIDE DEF p
  <2>3. After(w).path = Front(p)
    BY <2>1
  <2>4. Len(Front(p)) = Len(p) - 1 /\ Len(p) >= 1
    BY <1>2, <2>2, TableFront
  <2> QED
    BY <1>1, <1>3, <2>3, <2>4 DEF p
<1> QED
  BY <1>4, <1>5, <1>6, <1>7, Kinds

LEMMA DepthBelow ==
    ASSUME NEW V, AllOf(V), NEW r, NEW tr, Whole(tr, r, V), NEW k \in 1 .. Len(tr)
    PROVE  /\ Len(tr[k].walk.path) \in Nat /\ Len(tr[k].walk.path) <= tr[k].at
           /\ tr[k].at <= tr[Len(tr)].at
<1> DEFINE Low(i) == Len(tr[i].walk.path) \in Nat /\ Len(tr[i].walk.path) <= tr[i].at
           T == {i \in Nat : i \in 1 .. Len(tr) /\ ~Low(i)}
<1>1. Len(tr) \in Nat \ {0} /\ tr[1] = [walk |-> Begin(r), at |-> 0] /\ tr[k].at <= tr[Len(tr)].at
  BY DEF Whole, Run
<1>2. Low(1)
  <2>1. tr[1].walk = Begin(r) /\ tr[1].at = 0
    BY <1>1
  <2>2. Begin(r).path = <<>>
    BY DEF Begin
  <2>3. Len(<<>>) = 0
    OBVIOUS
  <2> QED
    BY <2>1, <2>2, <2>3
<1>3. ASSUME T # {} PROVE FALSE
  <2>1. PICK i \in T : \A y \in T : ~(y < i)
    <3> HIDE DEF T
    <3> QED
      BY <1>3, Smallest DEF T
  <2>2. i \in 1 .. Len(tr) /\ ~Low(i) /\ i # 1
    BY <1>2
  <2> DEFINE j == i - 1
  <2>3. j \in 1 .. Len(tr) /\ j \in Nat /\ j < i /\ j # Len(tr) /\ j + 1 = i
    BY <1>1, <2>2
  <2> HIDE DEF j
  <2>4. Low(j)
    BY <2>1, <2>3
  <2>5. /\ Walking(tr[j].walk, V) /\ tr[j].at \in Nat
        /\ ~Ended(tr[j].walk)
    BY <2>3, RunAt
  <2>6. /\ tr[j].walk.due => Item(tr[j].walk) \in V
        /\ tr[j + 1].walk = After(tr[j].walk) /\ tr[j + 1].at = tr[j].at + SizeOf(tr[j].walk)
    BY <2>3, <2>5, RunAt
  <2> DEFINE u == tr[j].walk
             x == tr[i].walk
  <2>7. x = After(u) /\ tr[i].at = tr[j].at + SizeOf(u)
    BY <2>3, <2>6
  <2> HIDE DEF u, x
  <2>8. /\ Len(u.path) \in Nat /\ Len(After(u).path) \in Nat
        /\ Len(After(u).path) <= Len(u.path) + SizeOf(u) /\ SizeOf(u) \in Nat
    BY <2>5, <2>6, AfterDepth, BytesLength DEF u
  <2>9. Len(u.path) <= tr[j].at
    BY <2>4 DEF u
  <2>10. Len(x.path) \in Nat /\ Len(x.path) <= tr[i].at
    BY <2>5, <2>7, <2>8, <2>9
  <2> QED
    BY <2>2, <2>10 DEF x
<1>4. k \in Nat
  BY <1>1
<1> QED
  BY <1>1, <1>3, <1>4

-----------------------------------------------------------------------------
(* total_size() and write() *)

Sizing ==
    stage = "sizing" =>
        \E tr : Run(tr, walk.root, visited) /\ tr[Len(tr)] = [walk |-> walk, at |-> size]

\* write() has come to place k of those that total_size() went through.
WritingAt(tr, k) ==
    /\ Whole(tr, walk.root, visited) /\ tr[Len(tr)].at = size
    /\ k \in 1 .. Len(tr) /\ tr[k].walk = walk /\ tr[k].at = Len(out)
    /\ k = 1 \/ Len(out) <= room
    /\ Written(tr, k, out)

Writing == stage = "writing" => room \in Int /\ \E tr, k : WritingAt(tr, k)

Refused == stage = "overflow" => room < size

LEMMA VisitedProper == TypeInv => AllOf(visited)
BY SoundAll DEF TypeInv

LEMMA SizingKeeps ==
    ASSUME TypeInv, TypeInv', Sizing, Measure
    PROVE  Sizing'
<1>0. AllOf(visited) /\ AllOf(visited')
  BY SoundAll DEF TypeInv
<1>1. /\ stage = "sizing" /\ ~Ended(walk) /\ WalkSound(walk)
      /\ size' = size + SizeOf(walk) /\ walk' = After(walk) /\ Visit
  BY DEF Measure, TypeInv
<1>2. PICK tr : Run(tr, walk.root, visited) /\ tr[Len(tr)] = [walk |-> walk, at |-> size]
  BY <1>1 DEF Sizing
<1>3. visited \subseteq visited' /\ (walk.due => Item(walk) \in visited')
  BY <1>1 DEF Visit
<1>4. walk'.root = walk.root
  BY <1>1, WalkAfter
<1> DEFINE r == walk.root
           V == visited
           W == visited'
<1>5. V \subseteq W /\ AllOf(V) /\ AllOf(W) /\ Run(tr, r, V) /\ (walk.due => Item(walk) \in W)
  BY <1>0, <1>2, <1>3 DEF AllOf
<1> HIDE DEF r, V, W
<1>6. \E t : Run(t, r, W) /\ t[Len(t)] = [walk |-> After(walk), at |-> size + SizeOf(walk)]
  BY <1>1, <1>2, <1>5, RunMore
<1> QED
  BY <1>1, <1>4, <1>6 DEF Sizing, r, W

LEMMA WriteNext ==
    ASSUME TypeInv, stage = "writing", NEW tr, NEW k, WritingAt(tr, k), ~Ended(walk)
    PROVE  /\ k + 1 \in 1 .. Len(tr) /\ tr[k + 1].walk = After(walk)
           /\ tr[k + 1].at = Len(out) + Len(BytesOf(walk))
           /\ tr[k + 1].at <= size
           /\ BytesOf(walk) \in Seq(Byte) /\ out \in Seq(Byte)
           /\ walk.due => Item(walk) \in visited
<1>0. AllOf(visited) /\ WalkSound(walk) /\ out \in Seq(Byte)
  BY VisitedProper DEF TypeInv
<1>1. /\ Whole(tr, walk.root, visited) /\ tr[Len(tr)].at = size
      /\ k \in 1 .. Len(tr) /\ tr[k].walk = walk /\ tr[k].at = Len(out)
  BY DEF WritingAt
<1>2. /\ k + 1 \in 1 .. Len(tr) /\ (walk.due => Item(walk) \in visited)
      /\ tr[k + 1].walk = After(walk) /\ tr[k + 1].at = tr[k].at + SizeOf(walk)
      /\ tr[k + 1].at <= tr[Len(tr)].at
  BY <1>0, <1>1, RunAt
<1>3. BytesOf(walk) \in Seq(Byte) /\ Len(BytesOf(walk)) = SizeOf(walk)
  BY <1>0, WalkAfter
<1> QED
  BY <1>0, <1>1, <1>2, <1>3

LEMMA WrittenMore ==
    ASSUME TypeInv, stage = "writing", NEW tr, NEW k, WritingAt(tr, k), ~Ended(walk)
    PROVE  Written(tr, k + 1, out \o BytesOf(walk))
<1>0. AllOf(visited)
  BY VisitedProper
<1>1. /\ Whole(tr, walk.root, visited) /\ k \in 1 .. Len(tr) /\ Len(tr) \in Nat
      /\ tr[k].walk = walk /\ tr[k].at = Len(out) /\ Written(tr, k, out)
  BY DEF WritingAt, Whole, Run
<1>2. BytesOf(walk) \in Seq(Byte) /\ out \in Seq(Byte)
  BY WriteNext
<1> DEFINE c == out \o BytesOf(walk)
<1>3. c \in Seq(Byte) /\ IsPrefix(out, c) /\ Holds(c, Len(out) + 1, BytesOf(walk))
  BY <1>2, HoldsMore
<1> HIDE DEF c
<1>4. Written(tr, k, c)
  BY <1>0, <1>1, <1>2, <1>3, WrittenPrefix
<1>5. ASSUME NEW m \in 1 .. (k + 1) - 1
      PROVE  Holds(c, tr[m].at + 1, BytesOf(tr[m].walk))
  <2>1. CASE m = k
    BY <1>1, <1>3, <2>1
  <2>2. CASE m # k
    <3>1. m \in 1 .. k - 1
      BY <1>1, <2>2
    <3> QED
      BY <1>4, <3>1 DEF Written
  <2> QED
    BY <2>1, <2>2
<1>6. Written(tr, k + 1, c)
  BY <1>5 DEF Written
<1> QED
  BY <1>6 DEF c

LEMMA WritingKeeps ==
    ASSUME TypeInv, Writing, Write
    PROVE  Writing'
<1>1. /\ stage = "writing" /\ ~Ended(walk) /\ Len(out) + Len(BytesOf(walk)) <= room
      /\ out' = out \o BytesOf(walk) /\ walk' = After(walk)
      /\ UNCHANGED <<stage, size, visited, room>> /\ WalkSound(walk)
  BY DEF Write, Fits, TypeInv
<1>2. PICK tr, k : WritingAt(tr, k)
  BY <1>1 DEF Writing
<1>3. /\ k + 1 \in 1 .. Len(tr) /\ tr[k + 1].walk = After(walk)
      /\ tr[k + 1].at = Len(out) + Len(BytesOf(walk))
      /\ BytesOf(walk) \in Seq(Byte) /\ out \in Seq(Byte)
  BY <1>1, <1>2, WriteNext
<1>4. Len(out') = Len(out) + Len(BytesOf(walk))
  BY <1>1, <1>3
<1>5. Written(tr, k + 1, out')
  BY <1>1, <1>2, WrittenMore
<1>6. walk'.root = walk.root
  BY <1>1, WalkAfter
<1>7. Whole(tr, walk.root, visited) /\ tr[Len(tr)].at = size
  BY <1>2 DEF WritingAt
<1>8. WritingAt(tr, k + 1)'
  BY <1>1, <1>3, <1>4, <1>5, <1>6, <1>7 DEF WritingAt
<1> QED
  BY <1>1, <1>8 DEF Writing

LEMMA AllocateStarts ==
    ASSUME TypeInv, Sizing, NEW n, n \in {size, size - 1}, Allocate(n)
    PROVE  Writing'
<1>1. /\ stage = "sizing" /\ Ended(walk) /\ room' = n /\ walk' = Begin(walk.root)
      /\ UNCHANGED <<size, visited, out>> /\ out = <<>>
  BY DEF Allocate, TypeInv, Fresh
<1>2. PICK tr : Run(tr, walk.root, visited) /\ tr[Len(tr)] = [walk |-> walk, at |-> size]
  BY <1>1 DEF Sizing
<1>3. tr[Len(tr)].walk = walk /\ tr[Len(tr)].at = size
  BY <1>2
<1>4. Whole(tr, walk.root, visited)
  BY <1>1, <1>2, <1>3 DEF Whole
<1>5. /\ Len(tr) \in Nat \ {0} /\ tr[1] = [walk |-> Begin(walk.root), at |-> 0]
      /\ tr[Len(tr)].at \in Nat
  BY <1>2 DEF Run
<1>6. tr[1].walk = Begin(walk.root) /\ tr[1].at = 0 /\ 1 \in 1 .. Len(tr)
  BY <1>5
<1>7. Begin(walk.root).root = walk.root
  BY BeginWalking
<1>8. Written(tr, 1, out')
  BY DEF Written
<1>9. Len(out') = 0
  BY <1>1
<1>10. WritingAt(tr, 1)'
  BY <1>1, <1>3, <1>4, <1>6, <1>7, <1>8, <1>9 DEF WritingAt
<1>11. room' \in Int
  BY <1>1, <1>3, <1>5
<1> QED
  BY <1>10, <1>11 DEF Writing

LEMMA OverflowKeeps ==
    ASSUME TypeInv, Writing, Overflow
    PROVE  Refused'
<1>1. /\ stage = "writing" /\ ~Ended(walk) /\ ~(Len(out) + Len(BytesOf(walk)) <= room)
      /\ UNCHANGED <<size, room>> /\ room \in Int
  BY DEF Overflow, Fits, Writing
<1>2. PICK tr, k : WritingAt(tr, k)
  BY <1>1 DEF Writing
<1>3. /\ k + 1 \in 1 .. Len(tr)
      /\ tr[k + 1].at = Len(out) + Len(BytesOf(walk))
      /\ tr[k + 1].at <= size
      /\ BytesOf(walk) \in Seq(Byte) /\ out \in Seq(Byte)
  BY <1>1, <1>2, WriteNext
<1>4. size \in Nat
  BY <1>2 DEF WritingAt, Whole, Run
<1>5. room < size
  BY <1>1, <1>3, <1>4
<1> QED
  BY <1>1, <1>5 DEF Refused

\* What write() has put into the buffer when it is done.
LEMMA AllWritten ==
    ASSUME TypeInv, Writing, stage = "writing", Ended(walk)
    PROVE  /\ \E tr : /\ Whole(tr, walk.root, visited) /\ tr[Len(tr)].at = Len(out)
                      /\ Written(tr, Len(tr), out)
           /\ Len(out) = size /\ size <= room
<1>0. AllOf(visited)
  BY VisitedProper
<1>1. PICK tr, k : WritingAt(tr, k)
  BY DEF Writing
<1>2. /\ Whole(tr, walk.root, visited) /\ tr[Len(tr)].at = size
      /\ k \in 1 .. Len(tr) /\ tr[k].walk = walk /\ tr[k].at = Len(out)
      /\ k = 1 \/ Len(out) <= room
      /\ Written(tr, k, out)
  BY <1>1 DEF WritingAt
<1>3. k = Len(tr)
  BY <1>0, <1>2, RunAt
<1>4. k # 1
  <2>1. tr[1] = [walk |-> Begin(walk.root), at |-> 0]
    BY <1>2 DEF Whole, Run
  <2>2. tr[1].walk = Begin(walk.root)
    BY <2>1
  <2> QED
    BY <1>2, <2>2, BeginWalking
<1> QED
  BY <1>2, <1>3, <1>4

-----------------------------------------------------------------------------
(* read() of what write() has written, all or only the beginning of it *)

\* What read() gets begins like what was written, or is the beginning of it.
Sent == IsPrefix(out, input) \/ IsPrefix(input, out)

\* The longer one of the two.
Longer == IF IsPrefix(out, input) THEN input ELSE out

\* read() has come to place k of those that write() went through.
ReadingAt(tr, k) ==
    /\ Whole(tr, walk.root, visited)
    /\ tr[Len(tr)].at = Len(out) /\ Written(tr, Len(tr), out)
    /\ k \in 1 .. Len(tr) /\ ~Ended(tr[k].walk)
    /\ pos = tr[k].at + 1
    /\ Match(frames, tr[k].walk)

\* The bytes end in an end marker, which was taken for an empty key: no value is there.
Doomed == frames # <<>> /\ Last(frames).entry # <<>>

\* The bytes end at w, or inside of it.  All loops end with them: the innermost one of those
\* that still go on has a value that is cut off n entries further in.
ClosingAt(w, n) ==
    /\ Walking(w, visited) /\ w.root = walk.root
    /\ Table(frames) /\ Len(frames) \in 1 .. Len(w.path)
    /\ \A j \in 1 .. Len(frames) - 1 : frames[j] = FrameOf(w.path[j], TRUE)
    /\ Last(frames).entry = <<>>
    /\ n \in Nat /\ n + Len(frames) <= Len(out)
    /\ Cut(Filled(Last(frames)), w.path[Len(frames)].of, n)

Reading ==
    /\ stage = "reading" /\ Sent /\ AllReadable =>
          \/ \E tr, k : ReadingAt(tr, k)
          \/ /\ pos > Len(input) /\ ~IsPrefix(out, input)
             /\ Doomed \/ \E w, n : ClosingAt(w, n)
    /\ RoundTrip /\ PartialRead

LEMMA NoneOpen ==
    ASSUME NEW v
    PROVE  Match(<<>>, Begin(v))
<1>1. Table(<<>>) /\ Len(<<>>) = 0
  BY EmptyGood
<1>2. Begin(v).due = TRUE /\ Begin(v).path = <<>>
  BY BeginWalking
<1>3. Waiting(<<>>, <<>>)
  BY <1>1 DEF Waiting
<1> QED
  BY <1>2, <1>3 DEF Match

LEMMA ArriveKeeps ==
    ASSUME TypeInv, Writing, NEW b \in Seq(Byte), Arrive(b)
    PROVE  Reading'
<1>0. /\ stage = "writing" /\ Ended(walk) /\ stage' = "reading"
      /\ UNCHANGED <<walk, visited, out, pos, frames>>
      /\ frames = <<>> /\ pos = 1
  BY DEF Arrive, TypeInv, Fresh
<1>1. PICK tr : /\ Whole(tr, walk.root, visited) /\ tr[Len(tr)].at = Len(out)
                /\ Written(tr, Len(tr), out)
  BY <1>0, AllWritten
<1>2. tr[1] = [walk |-> Begin(walk.root), at |-> 0] /\ Len(tr) \in Nat \ {0}
  BY <1>1 DEF Whole, Run
<1>3. tr[1].walk = Begin(walk.root) /\ tr[1].at = 0 /\ 1 \in 1 .. Len(tr)
  BY <1>2
<1>4. ~Ended(tr[1].walk)
  BY <1>3, BeginWalking
<1>5. Match(frames', tr[1].walk)
  BY <1>0, <1>3, NoneOpen
<1>6. ReadingAt(tr, 1)'
  BY <1>0, <1>1, <1>3, <1>4, <1>5 DEF ReadingAt
<1> QED
  BY <1>0, <1>6 DEF Reading, RoundTrip, PartialRead

LEMMA LongerIs ==
    ASSUME TypeInv, Sent
    PROVE  /\ Longer \in Seq(Byte) /\ IsPrefix(out, Longer) /\ IsPrefix(input, Longer)
           /\ IsPrefix(out, input) => Longer = input
<1>1. out \in Seq(Byte) /\ input \in Seq(Byte)
  BY DEF TypeInv
<1> QED
  BY <1>1, PrefixSelf DEF Longer, Sent

\* Where read() is, and what is there if all of it has arrived.
LEMMA ReadHere ==
    ASSUME TypeInv, Sent, NEW tr, NEW k, ReadingAt(tr, k)
    PROVE  LET w == tr[k].walk
           IN  /\ AllOf(visited) /\ Walking(w, visited) /\ w.root = walk.root /\ ~Ended(w)
               /\ w.due => Item(w) \in visited
               /\ Match(frames, w)
               /\ pos \in Nat \ {0} /\ Holds(Longer, pos, BytesOf(w))
               /\ k + 1 \in 1 .. Len(tr) /\ tr[k + 1].walk = After(w)
               /\ tr[k + 1].at + 1 = pos + SizeOf(w) /\ SizeOf(w) \in Nat
<1>0. AllOf(visited) /\ pos \in Nat \ {0}
  BY VisitedProper DEF TypeInv
<1>1. /\ Whole(tr, walk.root, visited) /\ k \in 1 .. Len(tr) /\ ~Ended(tr[k].walk)
      /\ pos = tr[k].at + 1 /\ Match(frames, tr[k].walk) /\ Written(tr, Len(tr), out)
      /\ Len(tr) \in Nat
  BY DEF ReadingAt, Whole, Run
<1>2. /\ Walking(tr[k].walk, visited) /\ tr[k].walk.root = walk.root /\ tr[k].at \in Nat
      /\ k + 1 \in 1 .. Len(tr) /\ (tr[k].walk.due => Item(tr[k].walk) \in visited)
      /\ tr[k + 1].walk = After(tr[k].walk) /\ tr[k + 1].at = tr[k].at + SizeOf(tr[k].walk)
  BY <1>0, <1>1, RunAt
<1>3. SizeOf(tr[k].walk) \in Nat
  BY <1>0, <1>1, <1>2, BytesLength
<1>4. k \in 1 .. Len(tr) - 1 /\ Len(tr) \in 1 .. Len(tr)
  BY <1>1, <1>2
<1>5. Written(tr, Len(tr), Longer)
  <2>1. out \in Seq(Byte)
    BY DEF TypeInv
  <2> QED
    BY <1>0, <1>1, <1>4, <2>1, LongerIs, WrittenPrefix
<1>6. tr[k + 1].at + 1 = pos + SizeOf(tr[k].walk)
  BY <1>1, <1>2, <1>3
<1>7. Holds(Longer, pos, BytesOf(tr[k].walk))
  BY <1>1, <1>4, <1>5 DEF Written
<1> QED
  BY <1>0, <1>1, <1>2, <1>3, <1>6, <1>7

\* One place further, or done.
LEMMA ReadOn ==
    ASSUME TypeInv, stage = "reading", Sent, NEW tr, NEW k, ReadingAt(tr, k),
           UNCHANGED <<walk, visited, out, input>>,
           \/ /\ UNCHANGED stage /\ ~Ended(After(tr[k].walk))
              /\ pos' = pos + SizeOf(tr[k].walk) /\ Match(frames', After(tr[k].walk))
           \/ /\ stage' = "read" /\ Ended(After(tr[k].walk))
              /\ result' = Got(walk.root, pos + SizeOf(tr[k].walk))
    PROVE  Reading'
<1>1. /\ AllOf(visited) /\ k + 1 \in 1 .. Len(tr) /\ tr[k + 1].walk = After(tr[k].walk)
      /\ tr[k + 1].at + 1 = pos + SizeOf(tr[k].walk)
  BY ReadHere
<1>2. /\ Whole(tr, walk.root, visited)
      /\ tr[Len(tr)].at = Len(out) /\ Written(tr, Len(tr), out)
  BY DEF ReadingAt
<1>3. CASE /\ UNCHANGED stage /\ ~Ended(After(tr[k].walk))
           /\ pos' = pos + SizeOf(tr[k].walk) /\ Match(frames', After(tr[k].walk))
  <2>1. ReadingAt(tr, k + 1)'
    BY <1>1, <1>2, <1>3 DEF ReadingAt
  <2>2. RoundTrip' /\ PartialRead'
    BY <1>3 DEF RoundTrip, PartialRead
  <2> QED
    BY <2>1, <2>2 DEF Reading
<1>4. CASE /\ stage' = "read" /\ Ended(After(tr[k].walk))
           /\ result' = Got(walk.root, pos + SizeOf(tr[k].walk))
  <2>1. k + 1 = Len(tr)
    BY <1>1, <1>2, <1>4, RunAt
  <2>2. pos + SizeOf(tr[k].walk) = Len(out) + 1
    BY <1>1, <1>2, <2>1
  <2>3. result'.value = walk'.root
    BY <1>4, GotIs
  <2>4. RoundTrip'
    BY <1>4, <2>2 DEF RoundTrip
  <2>5. PartialRead'
    BY <2>3, PartSame DEF PartialRead
  <2> QED
    BY <1>4, <2>4, <2>5 DEF Reading
<1> QED
  BY <1>3, <1>4

\* An error, because not all of it has arrived.
LEMMA Failed ==
    ASSUME ~IsPrefix(out, input), Fail, UNCHANGED <<out, input>>
    PROVE  Reading'
<1>1. stage' = "read" /\ result'.ok = FALSE
  BY GotIs DEF Fail
<1> QED
  BY <1>1 DEF Reading, RoundTrip, PartialRead

-----------------------------------------------------------------------------
(* What read() does where the bytes end *)

LEMMA PathAt ==
    ASSUME NEW V, AllOf(V), NEW w, Walking(w, V), NEW j \in 1 .. Len(w.path)
    PROVE  /\ w.path[j].of \in V /\ Proper(w.path[j].of) /\ IsContainer(w.path[j].of)
           /\ w.path[j].done \in 0 .. Len(Entries(w.path[j].of))
           /\ j < Len(w.path) =>
                /\ w.path[j].done >= 1
                /\ w.path[j + 1].of = EntryValue(w.path[j].of, w.path[j].done)
           /\ w.path[1].of = w.root
<1> DEFINE p == w.path
<1>1. p \in Seq([of : V, done : Nat])
  BY DEF Walking
<1>2. p[j] \in [of : V, done : Nat] /\ Len(p) \in Nat /\ p # <<>>
  <2> DEFINE S == [of : V, done : Nat]
  <2>1. p \in Seq(S) /\ j \in 1 .. Len(p)
    BY <1>1
  <2> HIDE DEF p, S
  <2>2. p[j] \in S /\ Len(p) \in Nat /\ p # <<>>
    BY <2>1
  <2> QED
    BY <2>2 DEF S
<1>3. p[j].of \in V /\ p[j].done \in Nat
  BY <1>2
<1>4. Proper(p[j].of)
  BY <1>3 DEF AllOf
<1>5. /\ IsContainer(p[j].of) /\ p[j].done <= Len(Entries(p[j].of))
      /\ j < Len(p) => p[j].done >= 1
      /\ p[1].of = w.root
  BY <1>2 DEF Walking
<1>6. Len(Entries(p[j].of)) \in Nat
  BY <1>4, <1>5, EntriesTable
<1>7. j < Len(p) => p[j + 1].of = EntryValue(p[j].of, p[j].done)
  <2>1. j < Len(p) => j \in 1 .. Len(p) - 1
    BY <1>2
  <2> QED
    BY <2>1 DEF Walking
<1> QED
  BY <1>3, <1>4, <1>5, <1>6, <1>7

\* The end of a loop that was left in the middle, and what is then known of the one around it.
LEMMA CutOff ==
    ASSUME TypeInv, stage = "reading", AllReadable, ~IsPrefix(out, input), pos > Len(input),
           NEW w, NEW n, ClosingAt(w, n), Close(pos),
           UNCHANGED <<walk, visited, out, input, pos>>
    PROVE  Reading'
<1> DEFINE d == Len(frames)
           r == Filled(Last(frames))
           gs == Front(frames)
<1>1. AllOf(visited) /\ out \in Seq(Byte) /\ Len(out) \in Nat
  BY VisitedProper DEF TypeInv
<1>2. /\ Walking(w, visited) /\ w.root = walk.root
      /\ Table(frames) /\ d \in 1 .. Len(w.path)
      /\ \A j \in 1 .. d - 1 : frames[j] = FrameOf(w.path[j], TRUE)
      /\ n \in Nat /\ n + d <= Len(out)
      /\ Cut(r, w.path[d].of, n)
  BY DEF ClosingAt
<1>3. Deliver(r, gs, pos)
  BY DEF Close
<1>4. d \in Nat \ {0} /\ frames # <<>> /\ Len(w.path) \in Nat
  <2>1. w.path \in Seq([of : visited, done : Nat])
    BY <1>2 DEF Walking
  <2>2. Len(w.path) \in Nat
    BY <2>1
  <2> QED
    BY <1>2, <2>2, TableIs
<1>5. Table(gs) /\ Len(gs) = d - 1 /\ \A i \in 1 .. d - 1 : gs[i] = frames[i]
  BY <1>2, <1>4, TableFront
<1>6. gs = <<>> <=> d = 1
  BY <1>4, <1>5, TableIs
<1>7. RoundTrip'
  BY DEF RoundTrip
<1>8. CASE d = 1
  <2>1. stage' = "read" /\ result' = Got(r, pos)
    BY <1>3, <1>6, <1>8 DEF Deliver
  <2>2. w.path[d].of = walk.root
    BY <1>1, <1>2, <1>8, PathAt
  <2>3. n \in 0 .. Len(out)
    BY <1>1, <1>2, <1>4
  <2> HIDE DEF r
  <2>4. PartOf(r, walk.root, Len(out))
    BY <1>1, <1>2, <2>2, <2>3, CutPart
  <2>5. result'.value = r
    BY <2>1, GotIs
  <2>6. PartialRead'
    BY <2>4, <2>5 DEF PartialRead
  <2> QED
    BY <1>7, <2>1, <2>6 DEF Reading
<1>9. CASE d # 1
  <2> DEFINE s == w.path[d - 1]
             f == Fill(Last(gs), r)
             hs == Front(gs)
             fs == Append(hs, f)
  <2>1. stage' = stage /\ frames' = fs
    BY <1>3, <1>6, <1>9 DEF Deliver
  <2>2. d - 1 \in 1 .. Len(w.path) /\ d - 1 < Len(w.path) /\ (d - 1) + 1 = d /\ d - 1 \in 1 .. d - 1
    <3>1. d \in Nat \ {0} /\ d # 1 /\ d \in 1 .. Len(w.path) /\ Len(w.path) \in Nat
      BY <1>2, <1>4, <1>9
    <3> HIDE DEF d
    <3> QED
      BY <3>1
  <2>3. /\ s.of \in visited /\ Proper(s.of) /\ IsContainer(s.of) /\ s.done \in 0 .. Len(Entries(s.of))
        /\ s.done >= 1 /\ w.path[d].of = EntryValue(s.of, s.done)
    <3> DEFINE i == d - 1
    <3>1. i \in 1 .. Len(w.path) /\ i < Len(w.path) /\ i + 1 = d
      BY <2>2
    <3> HIDE DEF i
    <3>2. /\ w.path[i].of \in visited /\ Proper(w.path[i].of) /\ IsContainer(w.path[i].of)
          /\ w.path[i].done \in 0 .. Len(Entries(w.path[i].of)) /\ w.path[i].done >= 1
          /\ w.path[i + 1].of = EntryValue(w.path[i].of, w.path[i].done)
      BY <1>1, <1>2, <3>1, PathAt
    <3> QED
      BY <3>1, <3>2 DEF i
  <2>4. KeysDistinct(s.of)
    BY <2>3 DEF AllReadable, Readable
  <2>5. Len(Entries(s.of)) \in Nat
    BY <2>3, EntriesTable
  <2>6. s.done \in 1 .. Len(Entries(s.of))
    BY <2>3, <2>5
  <2>7. gs # <<>> /\ Last(gs) = FrameOf(s, TRUE)
    <3>1. gs # <<>>
      BY <1>6, <1>9
    <3>2. Last(gs) = gs[d - 1]
      BY <1>5 DEF Last
    <3> QED
      BY <1>2, <1>5, <2>2, <3>1, <3>2
  <2>8. /\ f.entry = <<>> /\ CutInside(Filled(f), s.of)
        /\ Len(Entries(Filled(f))) = s.done /\ EntryValue(Filled(f), s.done) = r
    <3> DEFINE g == Fill(FrameOf(s, TRUE), r)
    <3>1. f = g
      BY <2>7
    <3> HIDE DEF r, s, f
    <3>2. /\ g.entry = <<>> /\ CutInside(Filled(g), s.of)
          /\ Len(Entries(Filled(g))) = s.done /\ EntryValue(Filled(g), s.done) = r
      BY <2>3, <2>4, <2>6, CutAt
    <3> QED
      BY <3>1, <3>2
  <2>9. Table(hs) /\ Len(hs) = d - 2 /\ \A i \in 1 .. d - 2 : hs[i] = gs[i]
    <3>1. Table(hs) /\ Len(hs) = Len(gs) - 1 /\ \A i \in 1 .. Len(gs) - 1 : hs[i] = gs[i]
      BY <1>5, <2>7, TableFront
    <3>2. Len(gs) - 1 = d - 2
      BY <1>4, <1>5
    <3> QED
      BY <3>1, <3>2
  <2> HIDE DEF f, gs, hs, r
  <2>10. Cut(Filled(f), s.of, n + 1)
    BY <1>2, <2>3, <2>8, CutMore
  <2>11. /\ Table(fs) /\ Len(fs) = d - 1 /\ fs[d - 1] = f
         /\ \A i \in 1 .. d - 2 : fs[i] = frames[i]
    <3>1. /\ Table(fs) /\ Len(fs) = Len(hs) + 1 /\ fs[Len(hs) + 1] = f
          /\ \A i \in 1 .. Len(hs) : fs[i] = hs[i]
      BY <2>9, TableAppend
    <3>2. Len(hs) + 1 = d - 1 /\ \A i \in 1 .. d - 2 : i \in 1 .. d - 1
      BY <1>4, <2>9
    <3> HIDE DEF fs, d
    <3> QED
      BY <1>5, <2>9, <3>1, <3>2
  <2>12. Last(fs) = f
    BY <2>11 DEF Last
  <2> HIDE DEF fs
  <2>13. \A j \in 1 .. Len(fs) - 1 : fs[j] = FrameOf(w.path[j], TRUE)
    <3>1. \A j \in 1 .. Len(fs) - 1 : j \in 1 .. d - 2 /\ j \in 1 .. d - 1
      BY <1>4, <2>11
    <3> QED
      BY <1>2, <2>11, <3>1
  <2>14. Len(fs) \in 1 .. Len(w.path) /\ n + 1 \in Nat /\ (n + 1) + Len(fs) <= Len(out)
    BY <1>1, <1>2, <1>4, <2>2, <2>11
  <2>15. Cut(Filled(Last(fs)), w.path[Len(fs)].of, n + 1)
    BY <2>10, <2>11, <2>12 DEF s
  <2>16. ClosingAt(w, n + 1)'
    BY <1>2, <2>1, <2>8, <2>11, <2>12, <2>13, <2>14, <2>15 DEF ClosingAt
  <2>17. PartialRead'
    BY <2>1 DEF PartialRead
  <2> QED
    BY <1>7, <2>1, <2>16, <2>17 DEF Reading
<1> QED
  BY <1>8, <1>9

\* In the loop over its entries an object or array has the first ones.
LEMMA CutHere ==
    ASSUME TypeInv, Sent, NEW tr, NEW k, ReadingAt(tr, k), ~tr[k].walk.due
    PROVE  ClosingAt(tr[k].walk, 0)
<1> DEFINE w == tr[k].walk
           s == Top(w)
<1>1. /\ AllOf(visited) /\ Walking(w, visited) /\ w.root = walk.root /\ ~Ended(w)
      /\ Match(frames, w)
  BY ReadHere
<1>2. /\ Whole(tr, walk.root, visited) /\ tr[Len(tr)].at = Len(out) /\ k \in 1 .. Len(tr)
  BY DEF ReadingAt
<1>3. /\ Len(w.path) \in Nat /\ Len(w.path) <= tr[k].at /\ tr[k].at <= Len(out)
      /\ tr[k].at \in Nat /\ Len(out) \in Nat
  <2>1. tr[k].at \in Nat /\ Len(out) \in Nat
    BY <1>1, <1>2, RunAt DEF TypeInv
  <2>2. /\ Len(tr[k].walk.path) \in Nat /\ Len(tr[k].walk.path) <= tr[k].at
        /\ tr[k].at <= tr[Len(tr)].at
    BY <1>1, <1>2, DepthBelow
  <2> QED
    BY <1>2, <2>1, <2>2
<1>4. w.due = FALSE /\ w.path # <<>>
  <2>1. w.due \in BOOLEAN /\ ~w.due
    BY <1>1 DEF Walking
  <2> QED
    BY <1>1, <2>1 DEF Ended
<1> HIDE DEF w, s
<1>5. /\ Table(frames) /\ Len(frames) = Len(w.path) /\ Len(w.path) \in Nat \ {0}
      /\ Last(frames) = FrameOf(s, FALSE)
  BY <1>1, <1>4, MatchLength DEF s
<1>6. ASSUME NEW j \in 1 .. Len(frames) - 1
      PROVE  frames[j] = FrameOf(w.path[j], TRUE)
  <2>1. j \in 1 .. Len(w.path) /\ (j < Len(w.path)) = TRUE
    BY <1>5
  <2>2. frames[j] = FrameOf(w.path[j], j < Len(w.path))
    BY <1>1, <1>4, <2>1 DEF Match, Going
  <2> QED
    BY <2>1, <2>2
<1>7. /\ s = w.path[Len(w.path)] /\ Proper(s.of) /\ IsContainer(s.of)
      /\ s.done \in 0 .. Len(Entries(s.of))
  BY <1>1, <1>4, TopIs DEF s
<1>8. FrameOf(s, FALSE).entry = <<>>
  BY DEF FrameOf
<1>9. Cut(Filled(Last(frames)), s.of, 0)
  BY <1>5, <1>7, FirstAt, CutFirst
<1>10. Len(frames) \in 1 .. Len(w.path) /\ 0 + Len(frames) <= Len(out)
  BY <1>3, <1>5 DEF w
<1>11. ClosingAt(w, 0)
  BY <1>1, <1>5, <1>6, <1>7, <1>8, <1>9, <1>10 DEF ClosingAt
<1> QED
  BY <1>11 DEF w

\* A loop ends where the bytes end.
LEMMA LoopOut ==
    ASSUME TypeInv, ReadProperty \/ ReadElement, pos > Len(input)
    PROVE  InLoop /\ Close(pos) /\ UNCHANGED <<walk, visited, out, input, pos>>
<1>1. input \in Seq(Byte) /\ pos \in Nat \ {0} /\ Len(input) \in Nat
  BY DEF TypeInv
<1>2. ~IsObjectEof(input, pos) /\ ~(pos <= Len(input))
  BY <1>1, NothingThere
<1> QED
  BY <1>2 DEF ReadProperty, ReadElement

\* After that, all loops end, or a value is missing.
LEMMA EndsKeep ==
    ASSUME TypeInv, stage = "reading", AllReadable, ~IsPrefix(out, input), pos > Len(input),
           Doomed \/ \E w, n : ClosingAt(w, n),
           ReadScalar \/ ReadContainer \/ ReadProperty \/ ReadElement
    PROVE  Reading'
<1>1. CASE Doomed
  <2>1. ~InLoop
    BY <1>1 DEF Doomed, InLoop
  <2>2. input \in Seq(Byte) /\ pos \in Nat \ {0}
    BY DEF TypeInv
  <2>3. AnyScalar(input, pos) = Failure /\ \A M : ~Discovers(input, pos, M)
    BY <2>2, NothingThere
  <2>4. ReadScalar
    BY <2>1, <2>3 DEF ReadContainer, ReadProperty, ReadElement
  <2>5. Fail /\ UNCHANGED <<out, input>>
    BY <2>3, <2>4, GotIs DEF ReadScalar
  <2> QED
    BY <2>5, Failed
<1>2. CASE \E w, n : ClosingAt(w, n)
  <2>1. PICK w, n : ClosingAt(w, n)
    BY <1>2
  <2>2. InLoop
    <3>1. Table(frames) /\ Len(frames) \in 1 .. Len(w.path) /\ Last(frames).entry = <<>>
      BY <2>1 DEF ClosingAt
    <3>2. frames # <<>>
      BY <3>1, TableIs
    <3> QED
      BY <3>1, <3>2 DEF InLoop
  <2>3. ReadProperty \/ ReadElement
    BY <2>2 DEF ReadScalar, ReadContainer
  <2>4. Close(pos) /\ UNCHANGED <<walk, visited, out, input, pos>>
    BY <2>3, LoopOut
  <2> QED
    BY <2>1, <2>4, CutOff
<1> QED
  BY <1>1, <1>2

-----------------------------------------------------------------------------
(* What read() does at a place *)

\* In the loop over the entries of what the place is in, or at a value.
LEMMA LoopIs ==
    ASSUME NEW V, AllOf(V), NEW w, Walking(w, V), Match(frames, w)
    PROVE  /\ w.due => ~InLoop
           /\ ~w.due /\ w.path # <<>> =>
                /\ InLoop /\ frames # <<>>
                /\ Last(frames) = FrameOf(Top(w), FALSE)
                /\ HasElems(Last(frames)) <=> HasElems(Top(w).of)
                /\ HasElems(Top(w).of) =>
                     /\ Len(Last(frames).items) = Top(w).done
                     /\ Last(frames).count = Top(w).of.count
<1>1. /\ frames = <<>> <=> w.path = <<>>
      /\ w.path # <<>> => Last(frames) = FrameOf(Top(w), w.due)
  BY MatchLength
<1>2. CASE w.due
  <2>1. FrameOf(Top(w), TRUE).entry # <<>>
    BY DEF FrameOf
  <2>2. w.due = TRUE
    BY <1>2 DEF Walking
  <2>3. w.path # <<>> => Last(frames) = FrameOf(Top(w), TRUE)
    BY <1>1, <2>2
  <2>4. ~InLoop
    BY <1>1, <2>1, <2>3 DEF InLoop
  <2> QED
    BY <1>2, <2>4
<1>3. CASE ~w.due /\ w.path # <<>>
  <2>0. w.due = FALSE
    BY <1>3 DEF Walking
  <2>1. /\ Top(w).done \in Nat /\ Len(Entries(Top(w).of)) \in Nat
        /\ Top(w).done <= Len(Entries(Top(w).of))
        /\ Proper(Top(w).of) /\ IsContainer(Top(w).of)
    BY <1>3, TopIs
  <2>2. Table(Entries(Top(w).of))
    BY <2>1, EntriesTable
  <2>3. Top(w).done \in 0 .. Len(Entries(Top(w).of))
    BY <2>1
  <2>4. Len(SubSeq(Entries(Top(w).of), 1, Top(w).done)) = Top(w).done
    BY <2>2, <2>3, TableSub
  <2> DEFINE f == FrameOf(Top(w), FALSE)
  <2>5. /\ f.entry = <<>> /\ f.marker = Top(w).of.marker /\ f.count = CountOf(Top(w).of)
        /\ f.items = SubSeq(Entries(Top(w).of), 1, Top(w).done)
    BY DEF FrameOf
  <2>6. Last(frames) = f /\ frames # <<>>
    BY <1>1, <1>3, <2>0
  <2> HIDE DEF f
  <2>7. HasElems(Top(w).of) => CountOf(Top(w).of) = Top(w).of.count
    BY Markers DEF HasElems, CountOf
  <2>8. HasElems(f) <=> HasElems(Top(w).of)
    BY <2>5 DEF HasElems
  <2>9. InLoop
    BY <2>5, <2>6 DEF InLoop
  <2> QED
    BY <1>3, <2>4, <2>5, <2>6, <2>7, <2>8, <2>9 DEF f
<1> QED
  BY <1>2, <1>3

\* What Deliver does at a place whose value has been made.
LEMMA ReadDelivers ==
    ASSUME TypeInv, stage = "reading", Sent, NEW tr, NEW k, ReadingAt(tr, k),
           UNCHANGED <<walk, visited, out, input>>,
           NEW v, NEW fs, Deliver(v, fs, pos + SizeOf(tr[k].walk)),
           pos' = pos + SizeOf(tr[k].walk),
           fs = <<>> => Ended(After(tr[k].walk)) /\ v = walk.root,
           fs # <<>> => /\ ~Ended(After(tr[k].walk))
                        /\ Match(Append(Front(fs), Fill(Last(fs), v)), After(tr[k].walk))
    PROVE  Reading'
<1>1. CASE fs = <<>>
  <2>1. result' = Got(v, pos + SizeOf(tr[k].walk)) /\ stage' = "read"
    BY <1>1 DEF Deliver
  <2> QED
    BY <1>1, <2>1, ReadOn
<1>2. CASE fs # <<>>
  <2>1. frames' = Append(Front(fs), Fill(Last(fs), v)) /\ UNCHANGED stage
    BY <1>2 DEF Deliver
  <2> QED
    BY <1>2, <2>1, ReadOn
<1> QED
  BY <1>1, <1>2

\* An error where there is none in all that was written.
LEMMA Missing ==
    ASSUME Longer # input, Fail, UNCHANGED <<out, input>>
    PROVE  Reading'
<1>1. ~IsPrefix(out, input)
  BY DEF Longer
<1> QED
  BY <1>1, Failed

LEMMA ReadValue ==
    ASSUME TypeInv, stage = "reading", Sent, AllReadable, NEW tr, NEW k, ReadingAt(tr, k),
           ReadScalar \/ ReadContainer, tr[k].walk.due
    PROVE  Reading'
<1> DEFINE w == tr[k].walk
           v == Item(w)
<1>1. /\ AllOf(visited) /\ Walking(w, visited) /\ w.root = walk.root /\ ~Ended(w)
      /\ v \in visited /\ Proper(v) /\ Readable(v)
      /\ Match(frames, w)
      /\ pos \in Nat \ {0} /\ Holds(Longer, pos, BytesOf(w))
      /\ input \in Seq(Byte) /\ Longer \in Seq(Byte) /\ IsPrefix(input, Longer)
  <2>1. v \in visited
    BY ReadHere
  <2>2. Proper(v) /\ Readable(v)
    BY <2>1, ReadHere DEF AllOf, AllReadable
  <2>3. input \in Seq(Byte) /\ Longer \in Seq(Byte) /\ IsPrefix(input, Longer)
    BY LongerIs DEF TypeInv
  <2> QED
    BY <2>1, <2>2, <2>3, ReadHere
<1>2. UNCHANGED <<walk, visited, out, input>>
  BY DEF ReadScalar, ReadContainer
<1>3. \A u \in visited : KeysDistinct(u)
  BY DEF AllReadable, Readable
<1>4. w.due
  OBVIOUS
<1> HIDE DEF w
<1>5. CASE IsContainer(v)
  <2>1. AtContainer(w) /\ ~AtScalar(w)
    BY <1>4, <1>5 DEF AtContainer, AtScalar
  <2>2. BytesOf(w) = ContainerBytes(v) /\ SizeOf(w) = ContainerSize(v)
    BY <1>1, <2>1, Kinds DEF BytesOf, SizeOf
  <2> DEFINE g == Got(CountOf(v), pos + ContainerSize(v))
  <2>3. /\ Discovers(Longer, pos, Containers) /\ Longer[pos] = v.marker
        /\ AnyCount(Longer, pos) = g
    BY <1>1, <1>5, <2>2, ContainerRead
  <2>4. g.ok = TRUE /\ g.value = CountOf(v) /\ g.next = pos + ContainerSize(v)
    BY DEF Got
  <2> HIDE DEF g
  <2>5. CASE ReadScalar
    <3>1. ~Discovers(input, pos, Containers)
      BY <2>5 DEF ReadScalar
    <3>2. AnyScalar(Longer, pos) = Failure
      BY <2>3, Markers DEF Discovers, Containers, AnyScalar
    <3>3. ~AnyScalar(input, pos).ok
      BY <1>1, <3>2, ScalarPrefix, GotIs
    <3>4. Fail
      BY <2>5, <3>3 DEF ReadScalar
    <3> QED
      BY <1>2, <2>3, <3>1, <3>4, Missing
  <2>6. CASE ReadContainer /\ ~AnyCount(input, pos).ok
    <3>1. Fail
      BY <2>6 DEF ReadContainer
    <3> QED
      BY <1>2, <2>3, <2>4, <2>6, <3>1, Missing
  <2>7. CASE ReadContainer /\ AnyCount(input, pos).ok
    <3>1. Discovers(input, pos, Containers)
      BY <2>7 DEF ReadContainer
    <3>2. AnyCount(input, pos) = g /\ input[pos] = v.marker
      BY <1>1, <2>3, <2>7, <3>1, CountPrefix
    <3>3. Open(v.marker, CountOf(v)) /\ pos' = pos + ContainerSize(v)
      BY <2>4, <2>7, <3>2 DEF ReadContainer
    <3>4. frames' = Append(frames, Frame(v.marker, CountOf(v))) /\ UNCHANGED stage
      BY <3>3 DEF Open
    <3>5. Match(frames', After(w))
      BY <1>1, <2>1, <3>4, MatchOpen
    <3>6. ~Ended(After(w))
      <4> DEFINE s == [of |-> v, done |-> 0]
                 t == Append(w.path, s)
      <4>1. After(w) = [root |-> w.root, path |-> t, due |-> FALSE]
        BY <1>1, <2>1, AfterIs
      <4>2. After(w).path = t
        BY <4>1
      <4>3. Table(w.path)
        BY <1>1, ATable DEF Walking
      <4> HIDE DEF s
      <4>4. Table(t) /\ Len(t) = Len(w.path) + 1 /\ Len(w.path) \in Nat
        BY <4>3, TableAppend, TableIs
      <4> HIDE DEF t
      <4>5. t = <<>> <=> Len(t) = 0
        BY <4>4, TableIs
      <4>6. t # <<>>
        BY <4>4, <4>5
      <4> QED
        BY <4>2, <4>6 DEF Ended
    <3> QED
      BY <1>2, <2>2, <3>3, <3>4, <3>5, <3>6, ReadOn DEF w
  <2> QED
    BY <2>5, <2>6, <2>7
<1>6. CASE ~IsContainer(v)
  <2>1. AtScalar(w) /\ ~AtContainer(w)
    BY <1>4, <1>6 DEF AtContainer, AtScalar
  <2>2. BytesOf(w) = ScalarBytes(v) /\ SizeOf(w) = ScalarSize(v)
    BY <1>1, <2>1, Kinds DEF BytesOf, SizeOf
  <2> DEFINE g == Got(v, pos + ScalarSize(v))
  <2>3. AnyScalar(Longer, pos) = g /\ ~Discovers(Longer, pos, Containers)
    BY <1>1, <1>6, <2>2, ScalarRead
  <2>4. g.ok = TRUE /\ g.value = v /\ g.next = pos + ScalarSize(v)
    BY DEF Got
  <2> HIDE DEF g
  <2>5. ReadScalar
    <3>1. ~Discovers(input, pos, Containers)
      BY <1>1, <2>3, CountPrefix
    <3> QED
      BY <3>1 DEF ReadContainer
  <2>6. CASE ~AnyScalar(input, pos).ok
    <3>1. Fail
      BY <2>5, <2>6 DEF ReadScalar
    <3> QED
      BY <1>2, <2>3, <2>4, <2>6, <3>1, Missing
  <2>7. CASE AnyScalar(input, pos).ok
    <3>1. AnyScalar(input, pos) = g
      BY <1>1, <2>3, <2>7, ScalarPrefix
    <3>2. Deliver(v, frames, pos + SizeOf(w)) /\ pos' = pos + SizeOf(w)
      BY <2>2, <2>4, <2>5, <2>7, <3>1 DEF ReadScalar
    <3>3. After(w) = [root |-> w.root, path |-> w.path, due |-> FALSE]
      BY <1>1, <2>1, AfterIs
    <3>4. frames = <<>> <=> w.path = <<>>
      BY <1>1, MatchLength
    <3>5. After(w).path = w.path /\ After(w).due = FALSE
      BY <3>3
    <3>6. frames = <<>> => Ended(After(w)) /\ v = walk.root
      BY <1>1, <3>4, <3>5 DEF Ended, Item
    <3>7. frames # <<>> => /\ ~Ended(After(w))
                           /\ Match(Append(Front(frames), Fill(Last(frames), v)), After(w))
      BY <1>1, <1>3, <2>1, <3>4, <3>5, MatchValue DEF Ended
    <3> HIDE DEF v
    <3> QED
      BY <1>2, <3>2, <3>6, <3>7, ReadDelivers DEF w
  <2> QED
    BY <2>6, <2>7
<1> QED
  BY <1>5, <1>6

LEMMA KeyOf ==
    ASSUME NEW V, AllOf(V), NEW w, Walking(w, V), AtEntry(w)
    PROVE  LET v == Top(w).of
           IN  /\ v \in V /\ Proper(v) /\ IsContainer(v) /\ Top(w).done < Len(Entries(v))
               /\ Top(w).done + 1 \in 1 .. Len(Entries(v))
               /\ BytesOf(w) = EntryBytes(v, NextKey(w)) /\ SizeOf(w) = EntrySize(v, NextKey(w))
               /\ After(w).due = TRUE /\ Item(After(w)) = EntryValue(v, Top(w).done + 1)
               /\ ~Ended(After(w))
               /\ HasProps(v) =>
                    /\ NextKey(w) = v.props[Top(w).done + 1].key /\ NextKey(w) \in Seq(Byte)
                    /\ Top(w).done + 1 \in DOMAIN v.props
<1>1. w.path # <<>> /\ Top(w).done < Len(Entries(Top(w).of))
  BY DEF AtEntry
<1>2. /\ Len(w.path) \in Nat \ {0} /\ Top(w) = w.path[Len(w.path)]
      /\ Top(w).of \in V /\ Proper(Top(w).of) /\ IsContainer(Top(w).of)
      /\ Top(w).done \in Nat /\ Len(Entries(Top(w).of)) \in Nat
  BY <1>1, TopIs
<1>3. Top(w).done + 1 \in 1 .. Len(Entries(Top(w).of))
  BY <1>1, <1>2
<1>4. BytesOf(w) = EntryBytes(Top(w).of, NextKey(w)) /\ SizeOf(w) = EntrySize(Top(w).of, NextKey(w))
  BY Kinds DEF BytesOf, SizeOf
<1> DEFINE s == [of |-> Top(w).of, done |-> Top(w).done + 1]
           p == [w.path EXCEPT ![Len(w.path)] = s]
<1>5. After(w) = [root |-> w.root, path |-> p, due |-> TRUE]
  BY AfterIs
<1>6. After(w).path = p /\ After(w).due = TRUE
  BY <1>5
<1>7. s.of = Top(w).of /\ s.done = Top(w).done + 1
  OBVIOUS
<1> HIDE DEF s
<1>8. Table(w.path) /\ Len(w.path) \in DOMAIN w.path
  <2>1. Table(w.path)
    BY ATable DEF Walking
  <2> QED
    BY <1>2, <2>1, TableIs
<1>9. Table(p) /\ Len(p) = Len(w.path) /\ p[Len(w.path)] = s
  BY <1>2, <1>8, TableExcept
<1> HIDE DEF p
<1>10. p # <<>>
  <2>1. p = <<>> <=> Len(p) = 0
    BY <1>9, TableIs
  <2> QED
    BY <1>2, <1>9, <2>1
<1>11. Last(p) = s
  BY <1>9 DEF Last
<1>12. Item(After(w)) = EntryValue(Top(w).of, Top(w).done + 1)
  BY <1>6, <1>7, <1>10, <1>11 DEF Item, Top
<1>13. HasProps(Top(w).of) =>
         /\ NextKey(w) = Top(w).of.props[Top(w).done + 1].key /\ NextKey(w) \in Seq(Byte)
         /\ Top(w).done + 1 \in DOMAIN Top(w).of.props
  BY <1>2, <1>3, KeyBytes DEF NextKey
<1> QED
  BY <1>1, <1>2, <1>3, <1>4, <1>6, <1>12, <1>13 DEF Ended

\* The first byte of the value that an entry has is behind its key, and no end marker.
LEMMA ValueAhead ==
    ASSUME TypeInv, Sent, NEW tr, NEW k, ReadingAt(tr, k), AtEntry(tr[k].walk)
    PROVE  LET p == pos + SizeOf(tr[k].walk)
           IN  p <= Len(Longer) /\ Longer[p] # 9 /\ p >= pos
<1> DEFINE w == tr[k].walk
           u == tr[k + 1].walk
           v == Item(u)
           p == pos + SizeOf(w)
<1>0. AllOf(visited)
  BY VisitedProper
<1>1. /\ Walking(w, visited) /\ Longer \in Seq(Byte) /\ pos \in Nat \ {0}
      /\ k + 1 \in 1 .. Len(tr) /\ u = After(w) /\ tr[k + 1].at + 1 = p /\ SizeOf(w) \in Nat
  BY ReadHere, LongerIs
<1>2. u.due = TRUE /\ ~Ended(u)
  BY <1>0, <1>1, KeyOf
<1>3. /\ Whole(tr, walk.root, visited) /\ Written(tr, Len(tr), out)
      /\ Len(tr) \in Nat /\ Len(tr) \in 1 .. Len(tr)
  BY DEF ReadingAt, Whole, Run
<1>4. Walking(u, visited) /\ k + 1 # Len(tr) /\ v \in visited
  BY <1>0, <1>1, <1>2, <1>3, RunAt
<1>5. k + 1 \in 1 .. Len(tr) - 1
  BY <1>1, <1>3, <1>4
<1>6. Holds(Longer, p, BytesOf(u))
  <2>1. out \in Seq(Byte) /\ IsPrefix(out, Longer)
    BY LongerIs DEF TypeInv
  <2>2. Written(tr, Len(tr), Longer)
    BY <1>0, <1>1, <1>3, <2>1, WrittenPrefix
  <2> QED
    BY <1>1, <1>3, <1>5, <2>2 DEF Written
<1> HIDE DEF w, u
<1>7. BytesOf(u) = IF IsContainer(v) THEN ContainerBytes(v) ELSE ScalarBytes(v)
  BY <1>0, <1>2, <1>4, Kinds DEF BytesOf, AtContainer, AtScalar
<1>8. Proper(v)
  BY <1>0, <1>4 DEF AllOf
<1> HIDE DEF v
<1>9. Len(BytesOf(u)) >= 1 /\ BytesOf(u)[1] # 9
  BY <1>7, <1>8, FirstOfValue
<1>10. BytesOf(u) \in Seq(Byte)
  BY <1>0, <1>2, <1>4, BytesLength DEF v
<1>11. 1 \in 1 .. Len(BytesOf(u)) /\ Len(BytesOf(u)) \in Nat /\ p \in Nat /\ p + 1 - 1 = p /\ Len(Longer) \in Nat
  BY <1>1, <1>9, <1>10
<1>12. p <= Len(Longer) /\ Longer[p] = BytesOf(u)[1]
  <2>1. p + Len(BytesOf(u)) - 1 <= Len(Longer) /\ Longer[p + 1 - 1] = BytesOf(u)[1]
    BY <1>6, <1>11 DEF Holds
  <2> QED
    BY <1>9, <1>11, <2>1
<1> QED
  BY <1>1, <1>9, <1>12 DEF w

\* The bytes end before what the loop comes to next.
LEMMA LoopCut ==
    ASSUME TypeInv, stage = "reading", Sent, AllReadable, NEW tr, NEW k, ReadingAt(tr, k),
           ~tr[k].walk.due, ReadProperty \/ ReadElement, pos > Len(input), pos <= Len(Longer)
    PROVE  Reading'
<1>1. ~IsPrefix(out, input)
  <2>1. input \in Seq(Byte) /\ pos \in Nat
    BY DEF TypeInv
  <2>2. Longer # input
    BY <2>1
  <2> QED
    BY <2>2 DEF Longer
<1>2. ClosingAt(tr[k].walk, 0)
  BY CutHere
<1>3. Close(pos) /\ UNCHANGED <<walk, visited, out, input, pos>>
  BY LoopOut
<1> QED
  BY <1>1, <1>2, <1>3, CutOff

LEMMA ReadKey ==
    ASSUME TypeInv, stage = "reading", Sent, AllReadable, NEW tr, NEW k, ReadingAt(tr, k),
           ReadProperty \/ ReadElement, AtEntry(tr[k].walk)
    PROVE  Reading'
<1> DEFINE w == tr[k].walk
           v == Top(w).of
           n == Top(w).done + 1
           key == NextKey(w)
           p == pos + SizeOf(w)
<1>1. /\ AllOf(visited) /\ Walking(w, visited) /\ Match(frames, w)
      /\ pos \in Nat \ {0} /\ Holds(Longer, pos, BytesOf(w))
      /\ SizeOf(w) \in Nat
      /\ input \in Seq(Byte) /\ Longer \in Seq(Byte) /\ IsPrefix(input, Longer)
  <2>1. input \in Seq(Byte) /\ Longer \in Seq(Byte) /\ IsPrefix(input, Longer)
    BY LongerIs DEF TypeInv
  <2> QED
    BY <2>1, ReadHere
<1>2. p <= Len(Longer) /\ Longer[p] # 9 /\ p >= pos
  BY ValueAhead
<1>3. ~w.due /\ w.path # <<>>
  BY DEF AtEntry
<1>4. /\ InLoop /\ frames # <<>>
      /\ HasElems(Last(frames)) <=> HasElems(v)
      /\ HasElems(v) => Len(Last(frames).items) = Top(w).done /\ Last(frames).count = v.count
  BY <1>1, <1>3, LoopIs
<1>5. /\ v \in visited /\ Proper(v) /\ IsContainer(v) /\ Top(w).done < Len(Entries(v))
      /\ BytesOf(w) = EntryBytes(v, key) /\ SizeOf(w) = EntrySize(v, key)
      /\ ~Ended(After(w))
      /\ HasProps(v) => key = v.props[n].key /\ key \in Seq(Byte) /\ n \in DOMAIN v.props
  BY <1>1, KeyOf
<1>6. Readable(v)
  BY <1>5 DEF AllReadable
<1>7. UNCHANGED <<walk, visited, out, input>>
  BY DEF ReadProperty, ReadElement
<1>8. ASSUME BeginEntry(key), pos' = pos + SizeOf(w)
      PROVE  Reading'
  <2>1. frames' = [frames EXCEPT ![Len(frames)].entry = <<key>>] /\ UNCHANGED stage
    BY <1>8 DEF BeginEntry
  <2>2. Match(frames', After(w))
    BY <1>1, <2>1, MatchEntry
  <2> QED
    BY <1>5, <1>7, <1>8, <2>1, <2>2, ReadOn
<1>9. CASE pos > Len(input)
  <2>1. pos <= Len(Longer)
    BY <1>1, <1>2
  <2> QED
    BY <1>3, <1>9, <2>1, LoopCut
<1> HIDE DEF w, v, n, key, p
<1>10. CASE ~(pos > Len(input)) /\ HasProps(v)
  <2>1. ~HasElems(v)
    BY <1>10, Markers DEF HasProps, HasElems
  <2>2. ReadProperty
    BY <1>4, <2>1 DEF ReadElement
  <2>3. Holds(Longer, pos, Utf8Bytes(key)) /\ SizeOf(w) = Utf8Size(key)
    BY <1>1, <1>5, <1>10 DEF EntryBytes, EntrySize
  <2>4. Len(key) < Limit
    BY <1>5, <1>6, <1>10 DEF Readable
  <2>5. ~IsObjectEof(Longer, pos)
    BY <1>1, <1>2, <1>5, <1>10, <2>3, <2>4, KeyNotEof DEF p
  <2>6. ~IsObjectEof(input, pos)
    BY <1>1, <2>5, EofPrefix
  <2> DEFINE g == Got(key, pos + Utf8Size(key))
  <2>7. ReadUtf8(Longer, pos) = g
    BY <1>1, <1>5, <1>10, <2>3, <2>4, Utf8Read
  <2>8. g.ok = TRUE /\ g.value = key /\ g.next = pos + Utf8Size(key)
    BY DEF Got
  <2> HIDE DEF g
  <2>9. CASE ~ReadUtf8(input, pos).ok
    <3>1. Fail
      BY <1>10, <2>2, <2>6, <2>9 DEF ReadProperty
    <3>2. Longer # input
      BY <2>7, <2>8, <2>9
    <3> QED
      BY <1>7, <3>1, <3>2, Missing
  <2>10. CASE ReadUtf8(input, pos).ok
    <3>1. ReadUtf8(input, pos) = g
      BY <1>1, <2>7, <2>10, Utf8Prefix
    <3>2. BeginEntry(key) /\ pos' = pos + Utf8Size(key)
      BY <1>10, <2>2, <2>6, <2>8, <2>10, <3>1 DEF ReadProperty
    <3> QED
      BY <1>8, <2>3, <3>2
  <2> QED
    BY <2>9, <2>10
<1>11. CASE ~(pos > Len(input)) /\ ~HasProps(v)
  <2>1. HasElems(v)
    BY <1>5, <1>11 DEF IsContainer
  <2>2. ReadElement
    BY <1>4, <2>1 DEF ReadProperty
  <2>3. key = <<>> /\ SizeOf(w) = 0
    BY <1>5, <1>11 DEF EntrySize, NextKey, EntryKey, key, v
  <2>4. Entries(v) = v.elems /\ Len(Entries(v)) \in Nat
    BY <1>5, <2>1, EntriesTable
  <2>5. v.count = Len(v.elems)
    BY <1>6, <2>1 DEF Readable
  <2>6. Top(w).done \in Nat
    BY <1>1, <1>3, TopIs
  <2>7. ~(Len(Last(frames).items) >= Last(frames).count)
    BY <1>4, <1>5, <2>1, <2>4, <2>5, <2>6
  <2>8. BeginEntry(key) /\ pos' = pos
    BY <1>11, <2>2, <2>3, <2>7 DEF ReadElement
  <2>9. pos' = pos + SizeOf(w)
    BY <1>1, <2>3, <2>8
  <2> QED
    BY <1>8, <2>8, <2>9
<1> QED
  BY <1>9, <1>10, <1>11

LEMMA EntryBegun ==
    ASSUME Table(frames), frames # <<>>, NEW s, Last(frames) = FrameOf(s, FALSE),
           NEW key, BeginEntry(key)
    PROVE  Doomed'
<1> DEFINE n == Len(frames)
           f == [Last(frames) EXCEPT !.entry = <<key>>]
           fs == [frames EXCEPT ![n] = f]
<1>1. n \in DOMAIN frames /\ n \in Nat \ {0}
  BY TableIs
<1>2. frames' = fs
  BY DEF BeginEntry, Last
<1>3. f.entry = <<key>>
  <2> DEFINE m == s.of.marker
             c == CountOf(s.of)
             i == SubSeq(Entries(s.of), 1, s.done)
  <2>1. Last(frames) = [marker |-> m, count |-> c, items |-> i, entry |-> <<>>]
    BY DEF FrameOf
  <2> HIDE DEF m, c, i
  <2> QED
    BY <2>1
<1> HIDE DEF f
<1>4. Table(fs) /\ Len(fs) = n /\ fs[n] = f
  <2>1. n \in 1 .. Len(frames)
    BY <1>1
  <2> QED
    BY <1>1, <2>1, TableExcept
<1> HIDE DEF fs
<1>5. fs # <<>> /\ Last(fs) = f
  <2>1. fs = <<>> <=> Len(fs) = 0
    BY <1>4, TableIs
  <2> QED
    BY <1>1, <1>4, <2>1 DEF Last
<1>6. <<key>> # <<>>
  OBVIOUS
<1> QED
  BY <1>2, <1>3, <1>5, <1>6 DEF Doomed

\* The bytes end inside of an end marker.
LEMMA MarkerCut ==
    ASSUME TypeInv, stage = "reading", Sent, AllReadable, NEW tr, NEW k, ReadingAt(tr, k),
           AtEnd(tr[k].walk), HasProps(Top(tr[k].walk).of), ReadProperty,
           IsObjectEof(Longer, pos), ~IsObjectEof(input, pos), pos <= Len(input)
    PROVE  Reading'
<1> DEFINE w == tr[k].walk
           key == ReadUtf8(input, pos)
<1>1. /\ AllOf(visited) /\ Walking(w, visited) /\ Match(frames, w) /\ pos \in Nat \ {0}
  BY ReadHere
<1>2. input \in Seq(Byte) /\ Longer \in Seq(Byte) /\ IsPrefix(input, Longer) /\ Len(input) \in Nat
  BY LongerIs DEF TypeInv
<1>3. UNCHANGED <<walk, visited, out, input>> /\ Longer # input
  BY DEF ReadProperty
<1>4. pos + 2 > Len(input)
  BY <1>1, <1>2, TypePrefix
<1>5. ~(pos > Len(input))
  BY <1>1, <1>2
<1>6. CASE ~key.ok
  <2>1. Fail
    BY <1>5, <1>6 DEF ReadProperty
  <2> QED
    BY <1>3, <2>1, Missing
<1>7. CASE key.ok
  <2>1. BeginEntry(key.value) /\ pos' = key.next
    BY <1>5, <1>7 DEF ReadProperty
  <2>2. key.next \in Nat /\ key.next >= pos + 2
    BY <1>1, <1>2, <1>7, Utf8Prefix
  <2> HIDE DEF key
  <2>3. pos' > Len(input')
    BY <1>1, <1>2, <1>3, <1>4, <2>1, <2>2
  <2>4. ~w.due /\ w.path # <<>>
    BY DEF AtEnd
  <2>5. Table(frames) /\ frames # <<>> /\ Last(frames) = FrameOf(Top(w), FALSE)
    BY <1>1, <2>4, MatchLength, LoopIs
  <2> HIDE DEF w
  <2>6. Doomed'
    BY <2>1, <2>5, EntryBegun
  <2>7. ~IsPrefix(out', input') /\ stage' = "reading"
    BY <1>3, <2>1 DEF Longer, BeginEntry
  <2>8. RoundTrip' /\ PartialRead'
    BY <2>7 DEF RoundTrip, PartialRead
  <2> QED
    BY <2>3, <2>6, <2>7, <2>8 DEF Reading
<1> QED
  BY <1>6, <1>7

LEMMA ReadEnd ==
    ASSUME TypeInv, stage = "reading", Sent, AllReadable, NEW tr, NEW k, ReadingAt(tr, k),
           ReadProperty \/ ReadElement, AtEnd(tr[k].walk)
    PROVE  Reading'
<1> DEFINE w == tr[k].walk
           v == Top(w).of
           gs == Front(frames)
<1>1. /\ AllOf(visited) /\ Walking(w, visited) /\ w.root = walk.root /\ Match(frames, w)
      /\ pos \in Nat \ {0} /\ Holds(Longer, pos, BytesOf(w))
      /\ input \in Seq(Byte) /\ Longer \in Seq(Byte) /\ IsPrefix(input, Longer)
  <2>1. input \in Seq(Byte) /\ Longer \in Seq(Byte) /\ IsPrefix(input, Longer)
    BY LongerIs DEF TypeInv
  <2> QED
    BY <2>1, ReadHere
<1>2. ~w.due /\ w.path # <<>> /\ Top(w).done >= Len(Entries(v))
  BY DEF AtEnd
<1>3. /\ InLoop /\ frames # <<>>
      /\ HasElems(Last(frames)) <=> HasElems(v)
      /\ HasElems(v) => Len(Last(frames).items) = Top(w).done /\ Last(frames).count = v.count
  BY <1>1, <1>2, LoopIs
<1>4. /\ v \in visited /\ Proper(v) /\ IsContainer(v) /\ Top(w).done \in Nat
  BY <1>1, <1>2, TopIs
<1>5. Readable(v)
  BY <1>4 DEF AllReadable
<1>6. UNCHANGED <<walk, visited, out, input>>
  BY DEF ReadProperty, ReadElement
<1>7. BytesOf(w) = EndBytes(v) /\ SizeOf(w) = EndSize(v)
  BY <1>1, Kinds DEF BytesOf, SizeOf
<1>8. \A u \in visited : KeysDistinct(u)
  BY DEF AllReadable, Readable
<1>9. /\ Filled(Last(frames)) = v
      /\ gs = <<>> => Ended(After(w)) /\ v = w.root
      /\ gs # <<>> =>
           /\ ~Ended(After(w))
           /\ Match(Append(Front(gs), Fill(Last(gs), v)), After(w))
  BY <1>1, <1>8, MatchClose
<1>10. ASSUME Close(pos + SizeOf(w)), pos' = pos + SizeOf(w)
       PROVE  Reading'
  <2>1. Deliver(v, gs, pos + SizeOf(w))
    BY <1>9, <1>10 DEF Close
  <2> HIDE DEF v, gs
  <2> QED
    BY <1>1, <1>6, <1>9, <1>10, <2>1, ReadDelivers DEF w
<1>11. CASE HasProps(v)
  <2>1. ~HasElems(v)
    BY <1>11, Markers DEF HasProps, HasElems
  <2>2. ReadProperty
    BY <1>3, <2>1 DEF ReadElement
  <2>3. IsObjectEof(Longer, pos) /\ pos <= Len(Longer) /\ SizeOf(w) = EofSize
    <3>1. Holds(Longer, pos, EofBytes) /\ SizeOf(w) = EofSize
      BY <1>1, <1>7, <1>11 DEF EndBytes, EndSize
    <3> QED
      BY <1>1, <3>1, EofRead
  <2>4. CASE pos > Len(input)
    BY <1>2, <2>2, <2>3, <2>4, LoopCut
  <2>5. CASE pos <= Len(input) /\ ~IsObjectEof(input, pos)
    BY <1>11, <2>2, <2>3, <2>5, MarkerCut
  <2>6. CASE pos <= Len(input) /\ IsObjectEof(input, pos)
    <3> HIDE DEF w
    <3>1. ~(pos > Len(input))
      BY <1>1, <2>6
    <3>2. Close(pos + EofSize) /\ pos' = pos + EofSize
      BY <2>2, <2>6, <3>1 DEF ReadProperty
    <3> QED
      BY <1>10, <2>3, <3>2
  <2> QED
    BY <1>1, <2>4, <2>5, <2>6
<1> HIDE DEF w, v, gs
<1>12. CASE ~HasProps(v)
  <2>1. HasElems(v)
    BY <1>4, <1>12 DEF IsContainer
  <2>2. ReadElement
    BY <1>3, <2>1 DEF ReadProperty
  <2>3. SizeOf(w) = 0
    BY <1>7, <1>12 DEF EndSize
  <2>4. Entries(v) = v.elems /\ Len(Entries(v)) \in Nat
    BY <1>4, <2>1, EntriesTable
  <2>5. v.count = Len(v.elems)
    BY <1>5, <2>1 DEF Readable
  <2>6. Len(Last(frames).items) >= Last(frames).count
    BY <1>2, <1>3, <1>4, <2>1, <2>4, <2>5 DEF v
  <2>7. Close(pos) /\ pos' = pos
    BY <2>2, <2>6 DEF ReadElement
  <2>8. pos + SizeOf(w) = pos
    BY <1>1, <2>3
  <2> QED
    BY <1>10, <2>7, <2>8
<1> QED
  BY <1>11, <1>12

LEMMA ReadingKeeps ==
    ASSUME TypeInv, Reading, ReadScalar \/ ReadContainer \/ ReadProperty \/ ReadElement
    PROVE  Reading'
<1>1. /\ stage = "reading" /\ UNCHANGED <<walk, visited, out, input>>
  BY DEF ReadScalar, ReadContainer, ReadProperty, ReadElement
<1>2. CASE ~(Sent /\ AllReadable)
  <2>1. ~(Sent /\ AllReadable)'
    BY <1>1, <1>2 DEF AllReadable, Sent
  <2>2. RoundTrip' /\ PartialRead'
    BY <2>1 DEF RoundTrip, PartialRead, Sent
  <2> QED
    BY <2>1, <2>2 DEF Reading
<1>3. CASE Sent /\ AllReadable /\ \E tr, k : ReadingAt(tr, k)
  <2>1. PICK tr, k : ReadingAt(tr, k)
    BY <1>3
  <2> DEFINE w == tr[k].walk
  <2>2. AllOf(visited) /\ Walking(w, visited) /\ ~Ended(w) /\ Match(frames, w)
    BY <1>3, <2>1, ReadHere
  <2>3. AtContainer(w) \/ AtScalar(w) \/ AtEntry(w) \/ AtEnd(w)
    BY <2>2, Kinds
  <2>4. CASE AtContainer(w) \/ AtScalar(w)
    <3>1. w.due
      BY <2>4 DEF AtContainer, AtScalar
    <3>2. ~InLoop
      BY <2>2, <3>1, LoopIs
    <3>3. ReadScalar \/ ReadContainer
      BY <3>2 DEF ReadProperty, ReadElement
    <3> QED
      BY <1>1, <1>3, <2>1, <3>1, <3>3, ReadValue
  <2>5. CASE AtEntry(w) \/ AtEnd(w)
    <3>1. ~w.due /\ w.path # <<>>
      BY <2>5 DEF AtEntry, AtEnd
    <3>2. InLoop
      BY <2>2, <3>1, LoopIs
    <3>3. ReadProperty \/ ReadElement
      BY <3>2 DEF ReadScalar, ReadContainer
    <3> QED
      BY <1>1, <1>3, <2>1, <2>5, <3>3, ReadKey, ReadEnd
  <2> QED
    BY <2>3, <2>4, <2>5
<1>4. CASE AllReadable /\ pos > Len(input) /\ ~IsPrefix(out, input)
           /\ (Doomed \/ \E w, n : ClosingAt(w, n))
  BY <1>1, <1>4, EndsKeep
<1> QED
  BY <1>1, <1>2, <1>3, <1>4 DEF Reading

-----------------------------------------------------------------------------
(* copy() *)

Same(v) == KeysDistinct(v) /\ (v.marker = Marker.String => CString(v.string) = v.string)

CopyingSame ==
    /\ stage = "copying" /\ (\A v \in visited : Same(v)) =>
          Walking(walk, visited) /\ ~Ended(walk) /\ Match(frames, walk)
    /\ CopySame

LEMMA StartCopyKeeps ==
    ASSUME TypeInv, NEW v, StartCopy(v)
    PROVE  CopyingSame'
<1>1. stage' = "copying" /\ walk' = Begin(v) /\ frames' = <<>>
  BY DEF StartCopy, TypeInv, Fresh
<1> QED
  BY <1>1, BeginWalking, NoneOpen DEF CopyingSame, CopySame

LEMMA CopiesTo ==
    ASSUME stage = "copying", walk' = After(walk), walk'.root = walk.root,
           Walking(After(walk), visited'),
           NEW v, NEW fs, NEW p, Deliver(v, fs, p),
           fs = <<>> => v = walk.root,
           fs # <<>> => /\ ~Ended(After(walk))
                        /\ Match(Append(Front(fs), Fill(Last(fs), v)), After(walk))
    PROVE  CopyingSame'
<1>1. CASE fs = <<>>
  <2>1. result' = Got(v, p) /\ stage' = "copied"
    BY <1>1 DEF Deliver
  <2>2. result'.value = v
    BY <2>1 DEF Got
  <2> QED
    BY <1>1, <2>1, <2>2 DEF CopyingSame, CopySame
<1>2. CASE fs # <<>>
  <2>1. frames' = Append(Front(fs), Fill(Last(fs), v)) /\ UNCHANGED stage
    BY <1>2 DEF Deliver
  <2> QED
    BY <1>2, <2>1 DEF CopyingSame, CopySame
<1> QED
  BY <1>1, <1>2

LEMMA CopyingKeeps ==
    ASSUME TypeInv, TypeInv', CopyingSame, Copy
    PROVE  CopyingSame'
<1> DEFINE V == visited'
           v == Item(walk)
<1>0. /\ stage = "copying" /\ walk' = After(walk) /\ Visit /\ WalkSound(walk)
      /\ CopyOpen \/ CopyScalar \/ CopyEntry \/ CopyClose
      /\ AllOf(V)
  BY SoundAll DEF TypeInv, Copy
<1>1. visited \subseteq V /\ (walk.due => v \in V)
  BY <1>0 DEF Visit
<1>2. stage' = "copying" \/ stage' = "copied"
  BY <1>0 DEF CopyOpen, CopyScalar, CopyEntry, CopyClose, Open, BeginEntry, Close, Deliver
<1>3. CASE \E u \in V : ~Same(u)
  BY <1>2, <1>3 DEF CopyingSame, CopySame, Same
<1>4. CASE \A u \in V : Same(u)
  <2>1. Walking(walk, V) /\ ~Ended(walk) /\ Match(frames, walk)
    BY <1>0, <1>1, <1>4, WalkingOn DEF CopyingSame
  <2>2. Walking(After(walk), V) /\ After(walk).root = walk.root
    BY <1>0, <1>1, <2>1, AfterWalking
  <2>3. \A u \in V : KeysDistinct(u)
    BY <1>4 DEF Same
  <2>4. frames = <<>> <=> walk.path = <<>>
    BY <2>1, MatchLength
  <2> HIDE DEF V
  <2>5. CASE CopyOpen
    <3>1. AtContainer(walk) /\ frames' = Append(frames, Frame(v.marker, CountOf(v))) /\ UNCHANGED stage
      BY <2>5 DEF CopyOpen, Open
    <3>2. v \in V
      BY <1>1, <3>1 DEF AtContainer
    <3>3. Match(frames', After(walk))
      BY <1>0, <2>1, <3>1, <3>2, MatchOpen
    <3>4. frames' # <<>>
      <4>1. Table(frames)
        BY <2>1, MatchLength
      <4> DEFINE f == Frame(v.marker, CountOf(v))
      <4> HIDE DEF f
      <4>2. Table(Append(frames, f)) /\ Len(Append(frames, f)) = Len(frames) + 1 /\ Len(frames) \in Nat
        BY <4>1, TableAppend, TableIs
      <4>3. frames' = Append(frames, f)
        BY <3>1 DEF f
      <4>4. Table(frames') /\ Len(frames') # 0
        BY <4>2, <4>3
      <4> QED
        BY <4>4, TableIs
    <3>5. After(walk).path # <<>>
      BY <2>2, <3>3, <3>4, MatchLength
    <3> QED
      BY <1>0, <2>2, <3>1, <3>3, <3>5 DEF CopyingSame, CopySame, Ended, V
  <2>6. CASE CopyScalar
    <3>1. AtScalar(walk) /\ Deliver(CopyOf(v), frames, pos)
      BY <2>6 DEF CopyScalar
    <3>2. v \in V /\ Proper(v)
      BY <1>0, <1>1, <3>1 DEF AtScalar, AllOf
    <3>3. CopyOf(v) = v
      <4>1. v.marker = Marker.String => v = String(v.string)
        BY <3>2, Markers DEF Proper, Null, Undefined, ObjectEOF
      <4> QED
        BY <1>4, <3>2, <4>1 DEF CopyOf, Same
    <3>4. After(walk) = [root |-> walk.root, path |-> walk.path, due |-> FALSE]
      BY <1>0, <2>1, <3>1, AfterIs
    <3>5. After(walk).path = walk.path
      BY <3>4
    <3>6. frames # <<>> => /\ ~Ended(After(walk))
                           /\ Match(Append(Front(frames), Fill(Last(frames), v)), After(walk))
      BY <1>0, <2>1, <2>3, <2>4, <3>1, <3>5, MatchValue DEF Ended
    <3>7. frames = <<>> => v = walk.root
      BY <2>4 DEF Item
    <3> HIDE DEF v
    <3> QED
      BY <1>0, <2>2, <3>1, <3>3, <3>6, <3>7, CopiesTo DEF V
  <2>7. CASE CopyEntry
    <3>1. AtEntry(walk) /\ frames' = [frames EXCEPT ![Len(frames)].entry = <<NextKey(walk)>>]
          /\ UNCHANGED stage
      BY <2>7 DEF CopyEntry, BeginEntry
    <3>2. Match(frames', After(walk))
      BY <1>0, <2>1, <3>1, MatchEntry
    <3>3. ~Ended(After(walk))
      BY <1>0, <2>1, <3>1, KeyOf
    <3> QED
      BY <1>0, <2>2, <3>1, <3>2, <3>3 DEF CopyingSame, CopySame, V
  <2>8. CASE CopyClose
    <3> DEFINE u == Top(walk).of
               gs == Front(frames)
    <3>1. AtEnd(walk) /\ Close(pos)
      BY <2>8 DEF CopyClose
    <3>2. /\ Filled(Last(frames)) = u
          /\ gs = <<>> => Ended(After(walk)) /\ u = walk.root
          /\ gs # <<>> =>
               /\ ~Ended(After(walk))
               /\ Match(Append(Front(gs), Fill(Last(gs), u)), After(walk))
      BY <1>0, <2>1, <2>3, <3>1, MatchClose
    <3>3. Deliver(u, gs, pos)
      BY <3>1, <3>2 DEF Close
    <3> HIDE DEF u, gs
    <3> QED
      BY <1>0, <2>2, <3>2, <3>3, CopiesTo DEF V
  <2> QED
    BY <1>0, <2>5, <2>6, <2>7, <2>8
<1> QED
  BY <1>3, <1>4

-----------------------------------------------------------------------------
(* The inductive invariant of the four functions *)

CodecInv == Sizing /\ Writing /\ Refused /\ Reading /\ CopyingSame

LEMMA Elsewhere ==
    /\ stage' # "sizing" => Sizing'
    /\ stage' # "writing" => Writing'
    /\ stage' # "overflow" => Refused'
    /\ stage' \notin {"reading", "read"} => Reading'
    /\ stage' \notin {"copying", "copied"} => CopyingSame'
BY DEF Sizing, Writing, Refused, Reading, RoundTrip, PartialRead, CopyingSame, CopySame

LEMMA CodecStart == Init => CodecInv
BY DEF Init, CodecInit, CodecInv, Sizing, Writing, Refused, Reading, RoundTrip,
       PartialRead, CopyingSame, CopySame

LEMMA SendStarts ==
    ASSUME TypeInv, NEW v, Send(v)
    PROVE  Sizing'
<1>1. walk' = Begin(v) /\ size' = 0
  BY DEF Send, TypeInv, Fresh
<1>2. Begin(v).root = v
  BY BeginWalking
<1>3. \E tr : Run(tr, v, visited') /\ tr[Len(tr)] = [walk |-> Begin(v), at |-> 0]
  BY RunBegin
<1> QED
  BY <1>1, <1>2, <1>3 DEF Sizing

LEMMA SameReading ==
    ASSUME Reading, UNCHANGED <<stage, walk, visited, out, input, pos, frames, result>>
    PROVE  Reading'
<1>1. Sent' = Sent /\ AllReadable' = AllReadable /\ Doomed' = Doomed
  BY DEF Sent, AllReadable, Doomed
<1>2. \A tr, k : ReadingAt(tr, k) => ReadingAt(tr, k)'
  BY DEF ReadingAt
<1>3. \A w, n : ClosingAt(w, n) => ClosingAt(w, n)'
  BY DEF ClosingAt
<1>4. RoundTrip' /\ PartialRead'
  BY DEF Reading, RoundTrip, PartialRead, AllReadable
<1> QED
  BY <1>1, <1>2, <1>3, <1>4 DEF Reading

LEMMA CodecNext ==
    ASSUME TypeInv, TypeInv', CodecInv, [Next]_vars
    PROVE  CodecInv'
<1>0. Sizing /\ Writing /\ Refused /\ Reading /\ CopyingSame /\ out \in Seq(Byte)
  BY DEF CodecInv, TypeInv
<1>1. CASE UNCHANGED vars
  <2>1. UNCHANGED <<stage, walk, size, visited, room, out, input, pos, frames, result>>
    BY <1>1 DEF vars, codecVars
  <2>2. Sizing' /\ Refused'
    BY <1>0, <2>1 DEF Sizing, Refused
  <2>3. Writing'
    BY <1>0, <2>1 DEF Writing, WritingAt
  <2>4. Reading'
    BY <1>0, <2>1, SameReading
  <2>5. CopyingSame'
    BY <1>0, <2>1 DEF CopyingSame, CopySame
  <2> QED
    BY <2>2, <2>3, <2>4, <2>5 DEF CodecInv
<1>2. ASSUME stage' = "idle"
      PROVE  CodecInv'
  BY <1>2, Elsewhere DEF CodecInv
<1>3. CASE \/ \E k \in Keys, v \in Values : SetProp(k, v)
           \/ \E k \in Keys : UnsetProp(k) \/ RemoveProp(k)
           \/ \E v \in Values : AppendElem(v)
           \/ Clear
  <2>1. stage' = "idle"
    BY <1>3 DEF SetProp, UnsetProp, RemoveProp, AppendElem, Clear, Changes, codecVars
  <2> QED
    BY <1>2, <2>1
<1>4. CASE Call
  <2>1. ASSUME NEW v, Send(v)
        PROVE  CodecInv'
    <3>1. Sizing' /\ stage' = "sizing"
      BY <2>1, SendStarts DEF Send
    <3> QED
      BY <3>1, Elsewhere DEF CodecInv
  <2>2. CASE StartCopy(value)
    <3>1. CopyingSame' /\ stage' = "copying"
      BY <2>2, StartCopyKeeps DEF StartCopy
    <3> QED
      BY <3>1, Elsewhere DEF CodecInv
  <2>3. CASE Allocate(size) \/ Allocate(size - 1)
    <3>1. Writing' /\ stage' = "writing"
      BY <1>0, <2>3, AllocateStarts DEF Allocate
    <3> QED
      BY <3>1, Elsewhere DEF CodecInv
  <2>4. ASSUME NEW b \in Seq(Byte), Arrive(b)
        PROVE  CodecInv'
    <3>1. Reading' /\ stage' = "reading"
      BY <1>0, <2>4, ArriveKeeps DEF Arrive
    <3> QED
      BY <3>1, Elsewhere DEF CodecInv
  <2>5. \A n \in 0 .. Len(out) : SubSeq(out, 1, n) \in Seq(Byte)
    BY <1>0
  <2>6. \A rest \in Rests : out \o rest \in Seq(Byte)
    BY <1>0, BytesAssumption
  <2> QED
    BY <1>4, <2>1, <2>2, <2>3, <2>4, <2>5, <2>6 DEF Call
<1>5. CASE Measure
  <2>1. Sizing' /\ stage' = "sizing"
    BY <1>0, <1>5, SizingKeeps DEF Measure
  <2> QED
    BY <2>1, Elsewhere DEF CodecInv
<1>6. CASE Write
  <2>1. Writing' /\ stage' = "writing"
    BY <1>0, <1>6, WritingKeeps DEF Write
  <2> QED
    BY <2>1, Elsewhere DEF CodecInv
<1>7. CASE Overflow
  <2>1. Refused' /\ stage' = "overflow"
    BY <1>0, <1>7, OverflowKeeps DEF Overflow
  <2> QED
    BY <2>1, Elsewhere DEF CodecInv
<1>8. CASE ReadScalar \/ ReadContainer \/ ReadProperty \/ ReadElement
  <2>1. stage' \in {"reading", "read"}
    BY <1>8 DEF ReadScalar, ReadContainer, ReadProperty, ReadElement, Deliver, Close, Open,
          BeginEntry, Fail
  <2>2. Reading'
    BY <1>0, <1>8, ReadingKeeps
  <2> QED
    BY <2>1, <2>2, Elsewhere DEF CodecInv
<1>9. CASE Copy
  <2>1. stage' \in {"copying", "copied"}
    BY <1>9 DEF Copy, CopyOpen, CopyScalar, CopyEntry, CopyClose, Deliver, Close, Open, BeginEntry
  <2>2. CopyingSame'
    BY <1>0, <1>9, CopyingKeeps
  <2> QED
    BY <2>1, <2>2, Elsewhere DEF CodecInv
<1>10. CASE Finish \/ Receive
  BY <1>2, <1>10 DEF Receive, Finish
<1> QED
  BY <1>1, <1>3, <1>4, <1>5, <1>6, <1>7, <1>8, <1>9, <1>10 DEF Next, CodecStep

\* total_size(), write(), read() and copy() are always at a place of the value that
\* they are called for, with what belongs to it.
THEOREM CodecCorrect == Spec => [](TypeInv /\ CodecInv)
<1>1. Init => TypeInv /\ CodecInv
  BY TypeInit, CodecStart
<1>2. TypeInv /\ CodecInv /\ [Next]_vars => (TypeInv /\ CodecInv)'
  BY TypeNext, CodecNext
<1> QED
  BY <1>1, <1>2, PTL DEF Spec

\* total_size() is exactly what write() needs: write() fills a buffer of that size and
\* is refused by a smaller one.
THEOREM SizeIsExact == Spec => []SizeExact
<1>1. TypeInv /\ CodecInv => SizeExact
  BY AllWritten DEF CodecInv, SizeExact, Refused
<1> QED
  BY <1>1, CodecCorrect, PTL

\* read() gives back what write() has written, and takes no more bytes than that.
THEOREM RoundTrips == Spec => []RoundTrip
<1>1. CodecInv => RoundTrip
  BY DEF CodecInv, Reading
<1> QED
  BY <1>1, CodecCorrect, PTL

\* read() of the first bytes of what write() has written is an error, or gives a part
\* of the value: some of the first entries, and in the last of them a part again.
THEOREM PartsAreRead == Spec => []PartialRead
<1>1. CodecInv => PartialRead
  BY DEF CodecInv, Reading
<1> QED
  BY <1>1, CodecCorrect, PTL

\* copy() gives the same value, whatever it is made of.
THEOREM CopiesAreSame == Spec => []CopySame
<1>1. CodecInv => CopySame
  BY DEF CodecInv, CopyingSame
<1> QED
  BY <1>1, CodecCorrect, PTL
=============================================================================
