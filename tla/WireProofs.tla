------------------------------- MODULE WireProofs -------------------------------
(* Lemmas about the octets of Messages and Wire, for any events, statuses and   *)
(* answers: what a parser reads of a string is what was written in it, through  *)
(* the fields of a message, its subtype, its TLVs, its SNAC and its frame, or   *)
(* the enciphered packet of a direct connection; and a stream of frames is read *)
(* the same however it is cut.                                                  *)
EXTENDS Messages, SequenceTheorems, FiniteSetTheorems, NaturalsInduction, TLAPS

-----------------------------------------------------------------------------
(* Strings of bytes one after the other.                                     *)

LEMMA Cat ==
    ASSUME NEW a \in Bytes, NEW b \in Bytes
    PROVE  /\ a \o b \in Bytes /\ Len(a \o b) = Len(a) + Len(b)
           /\ \A i \in 1 .. Len(a) : (a \o b)[i] = a[i]
           /\ \A i \in 1 .. Len(b) : (a \o b)[Len(a) + i] = b[i]
<1>1. a \in Seq(Byte) /\ b \in Seq(Byte)
  BY DEF Bytes
<1>2. Len(a) \in Nat /\ Len(b) \in Nat
  BY <1>1, LenProperties
<1>3. a \o b \in Seq(Byte) /\ Len(a \o b) = Len(a) + Len(b)
      /\ \A i \in 1 .. Len(a) + Len(b) : (a \o b)[i] = IF i <= Len(a) THEN a[i] ELSE b[i - Len(a)]
  BY <1>1, ConcatProperties
<1>4. \A i \in 1 .. Len(a) : (a \o b)[i] = a[i]
  BY <1>2, <1>3
<1>5. \A i \in 1 .. Len(b) : (a \o b)[Len(a) + i] = b[i]
  BY <1>2, <1>3
<1>6. QED
  BY <1>3, <1>4, <1>5 DEF Bytes

LEMMA BytesType ==
    ASSUME NEW s \in Bytes
    PROVE  /\ Len(s) \in Nat /\ s \in Seq(Byte)
           /\ \A i \in 1 .. Len(s) : s[i] \in Byte
           /\ s \o <<>> = s /\ <<>> \o s = s
<1>1. s \in Seq(Byte)
  BY DEF Bytes
<1>2. QED
  BY <1>1, LenProperties, ElementOfSeq, ConcatEmptySeq

LEMMA ByteOf == ASSUME NEW s \in Bytes, NEW j \in 1 .. Len(s) PROVE s[j] \in Byte /\ s[j] \in Nat
<1>1. s[j] \in Byte
  BY BytesType
<1>2. \A k \in 0 .. 255 : k \in Nat
  OBVIOUS
<1>3. QED
  BY <1>1, <1>2 DEF Byte

LEMMA NoBytes == <<>> \in Bytes /\ Len(<<>>) = 0
  BY EmptySeq DEF Bytes

LEMMA Tuples ==
    /\ \A a \in Byte : <<a>> \in Bytes /\ Len(<<a>>) = 1
    /\ \A a, b \in Byte : <<a, b>> \in Bytes /\ Len(<<a, b>>) = 2
    /\ \A a, b, c, d \in Byte : <<a, b, c, d>> \in Bytes /\ Len(<<a, b, c, d>>) = 4
<1>1. \A a \in Byte : <<a>> \in Seq(Byte) /\ Len(<<a>>) = 1
  BY SMT
<1>2. \A a, b \in Byte : <<a, b>> \in Seq(Byte) /\ Len(<<a, b>>) = 2
  BY SMT
<1>3. \A a, b, c, d \in Byte : <<a, b, c, d>> \in Seq(Byte) /\ Len(<<a, b, c, d>>) = 4
  BY SMT
<1>4. QED
  BY <1>1, <1>2, <1>3 DEF Bytes

\* The provers look inside s \o t. Here it is one string.
Join(s, t) == s \o t

LEMMA JoinIs ==
    /\ \A a, b \in Bytes : Join(a, b) \in Bytes /\ Len(Join(a, b)) = Len(a) + Len(b)
    /\ \A a, b, c \in Bytes : Join(Join(a, b), c) = Join(a, Join(b, c))
    /\ \A a \in Bytes : Join(a, <<>>) = a /\ Join(<<>>, a) = a
<1>1. \A a, b \in Bytes : Join(a, b) \in Bytes /\ Len(Join(a, b)) = Len(a) + Len(b)
  BY Cat DEF Join
<1>2. \A a, b, c \in Bytes : Join(Join(a, b), c) = Join(a, Join(b, c))
  BY ConcatAssociative DEF Bytes, Join
<1>3. \A a \in Bytes : Join(a, <<>>) = a /\ Join(<<>>, a) = a
  BY BytesType DEF Join
<1>4. QED
  BY <1>1, <1>2, <1>3

One(b) == <<b>>

LEMMA OneIs == \A b \in Byte : One(b) \in Bytes /\ Len(One(b)) = 1 /\ One(b)[1] = b
  BY Tuples, Zenon DEF One

LEMMA Integers2 ==
    ASSUME NEW n \in Word2
    PROVE  /\ LE(n, 2) \in Bytes /\ Len(LE(n, 2)) = 2 /\ BE(n, 2) \in Bytes /\ Len(BE(n, 2)) = 2
           /\ LE(n, 2)[1] + 256 * LE(n, 2)[2] = n
           /\ BE(n, 2)[2] + 256 * BE(n, 2)[1] = n
<1> DEFINE b(w) == (n \div w) % 256
<1>1. b(1) + 256 * b(256) = n /\ b(1) \in Byte /\ b(256) \in Byte
  BY SMT DEF Byte, Word2
<1>2. LE(n, 2) = <<b(1), b(256)>>
  BY SMT DEF LE, Weight
<1>3. BE(n, 2) = <<b(256), b(1)>>
  BY SMT DEF BE, Weight
<1> HIDE DEF b
<1>4. LE(n, 2) \in Bytes /\ Len(LE(n, 2)) = 2 /\ BE(n, 2) \in Bytes /\ Len(BE(n, 2)) = 2
  BY <1>1, <1>2, <1>3, Tuples
<1>5. QED
  BY <1>1, <1>2, <1>3, <1>4, SMT

LEMMA Integers4 ==
    ASSUME NEW n \in Word4
    PROVE  /\ LE(n, 4) \in Bytes /\ Len(LE(n, 4)) = 4 /\ BE(n, 4) \in Bytes /\ Len(BE(n, 4)) = 4
           /\ LE(n, 4)[1] + Weight[2] * LE(n, 4)[2] + Weight[3] * LE(n, 4)[3] + Weight[4] * LE(n, 4)[4] = n
           /\ BE(n, 4)[4] + Weight[2] * BE(n, 4)[3] + Weight[3] * BE(n, 4)[2] + Weight[4] * BE(n, 4)[1] = n
<1> DEFINE b(w) == (n \div w) % 256
<1>1. b(1) + Weight[2] * b(Weight[2]) + Weight[3] * b(Weight[3]) + Weight[4] * b(Weight[4]) = n
  BY SMT DEF Word4, Weight
<1>2. b(1) \in Byte /\ b(Weight[2]) \in Byte /\ b(Weight[3]) \in Byte /\ b(Weight[4]) \in Byte
  BY SMT DEF Byte, Weight, Word4
<1>3. LE(n, 4) = <<b(1), b(Weight[2]), b(Weight[3]), b(Weight[4])>>
  BY SMT DEF LE, Weight
<1>4. BE(n, 4) = <<b(Weight[4]), b(Weight[3]), b(Weight[2]), b(1)>>
  BY SMT DEF BE, Weight
<1> HIDE DEF b
<1>7. LE(n, 4) \in Bytes /\ Len(LE(n, 4)) = 4 /\ BE(n, 4) \in Bytes /\ Len(BE(n, 4)) = 4
  BY <1>2, <1>3, <1>4, Tuples
<1>8. QED
  BY <1>1, <1>3, <1>4, <1>7, SMT

(* A reader: where it is, what it has read, and what is before it.           *)

Rd(d, p, o, v, i) == [data |-> d, pos |-> p, order |-> o, v |-> v, ist |-> i]
Rest(d, p) == SubSeq(d, p + 1, Len(d))

\* The reader r of d has read v, found i, and x is what is left.
At(r, d, o, v, i, x) ==
    d \in Bytes /\ x \in Bytes /\ \E p \in 0 .. Len(d) : r = Rd(d, p, o, v, i) /\ Rest(d, p) = x

LEMMA IsSubSeq ==
    ASSUME NEW d \in Bytes, NEW p \in Nat, NEW n \in Nat, p <= n, n <= Len(d), NEW y \in Bytes,
           Len(y) = n - p, \A i \in 1 .. Len(y) : d[p + i] = y[i]
    PROVE  SubSeq(d, p + 1, n) = y
<1>1. \A i \in p + 1 .. n : d[i] \in Byte
  BY BytesType
<1>2. /\ SubSeq(d, p + 1, n) \in Seq(Byte)
      /\ Len(SubSeq(d, p + 1, n)) = IF p + 1 <= n THEN n - (p + 1) + 1 ELSE 0
      /\ \A i \in 1 .. n - (p + 1) + 1 : SubSeq(d, p + 1, n)[i] = d[p + 1 + i - 1]
  BY <1>1, SubSeqProperties
<1>3. Len(SubSeq(d, p + 1, n)) = Len(y)
  BY <1>2
<1>4. \A i \in 1 .. Len(y) : SubSeq(d, p + 1, n)[i] = y[i]
  <2>1. SUFFICES ASSUME NEW i \in 1 .. Len(y) PROVE SubSeq(d, p + 1, n)[i] = y[i]
    OBVIOUS
  <2>2. i \in 1 .. n - (p + 1) + 1 /\ p + 1 + i - 1 = p + i
    OBVIOUS
  <2>3. QED
    BY <1>2, <2>2
<1>5. QED
  BY <1>2, <1>3, <1>4, SeqEqual DEF Bytes

LEMMA Ahead ==
    ASSUME NEW d \in Bytes, NEW p \in 0 .. Len(d), NEW x \in Bytes, NEW y \in Bytes,
           Rest(d, p) = Join(x, y)
    PROVE  /\ p + Len(x) \in 0 .. Len(d) /\ Rest(d, p + Len(x)) = y
           /\ Len(d) - p = Len(x) + Len(y)
           /\ SubSeq(d, p + 1, p + Len(x)) = x
           /\ \A i \in 1 .. Len(x) : d[p + i] = x[i]
<1>1. Len(d) \in Nat /\ Len(x) \in Nat /\ Len(y) \in Nat /\ \A i \in 1 .. Len(d) : d[i] \in Byte
  BY BytesType
<1>2. /\ Len(SubSeq(d, p + 1, Len(d))) = Len(d) - p
      /\ \A i \in 1 .. Len(d) - p : SubSeq(d, p + 1, Len(d))[i] = d[p + i]
  <2>1. p + 1 \in Int /\ Len(d) \in Int /\ \A i \in p + 1 .. Len(d) : d[i] \in Byte
    BY <1>1
  <2>2. /\ Len(SubSeq(d, p + 1, Len(d))) = IF p + 1 <= Len(d) THEN Len(d) - (p + 1) + 1 ELSE 0
        /\ \A i \in 1 .. Len(d) - (p + 1) + 1 : SubSeq(d, p + 1, Len(d))[i] = d[p + 1 + i - 1]
    BY <2>1, SubSeqProperties
  <2>3. Len(d) - (p + 1) + 1 = Len(d) - p
    BY <1>1
  <2>4. \A i \in 1 .. Len(d) - p : p + 1 + i - 1 = p + i
    BY <1>1
  <2>5. (IF p + 1 <= Len(d) THEN Len(d) - (p + 1) + 1 ELSE 0) = Len(d) - p
    BY <1>1
  <2>6. QED
    BY <2>2, <2>3, <2>4, <2>5, Zenon
<1>3. Len(x \o y) = Len(x) + Len(y) /\ (\A i \in 1 .. Len(x) : (x \o y)[i] = x[i])
      /\ \A i \in 1 .. Len(y) : (x \o y)[Len(x) + i] = y[i]
  BY Cat
<1> USE DEF Rest, Join
<1>4. Len(d) - p = Len(x) + Len(y) /\ p + Len(x) \in 0 .. Len(d)
  BY <1>1, <1>2, <1>3
<1>5. \A i \in 1 .. Len(x) : d[p + i] = x[i]
  BY <1>1, <1>2, <1>3, <1>4
<1>6. \A i \in 1 .. Len(y) : d[p + Len(x) + i] = y[i]
  <2>1. SUFFICES ASSUME NEW i \in 1 .. Len(y) PROVE d[p + Len(x) + i] = y[i]
    OBVIOUS
  <2>2. Len(x) + i \in 1 .. Len(d) - p /\ p + (Len(x) + i) = p + Len(x) + i
    BY <1>1, <1>4
  <2>3. QED
    BY <1>2, <1>3, <2>2
<1>7. SubSeq(d, p + Len(x) + 1, Len(d)) = y
  <2> DEFINE q == p + Len(x)
  <2>1. q \in Nat /\ Len(d) \in Nat /\ q <= Len(d) /\ Len(d) <= Len(d) /\ Len(y) = Len(d) - q
    BY <1>1, <1>4
  <2>2. \A i \in 1 .. Len(y) : d[q + i] = y[i]
    BY <1>6
  <2> HIDE DEF q
  <2>3. SubSeq(d, q + 1, Len(d)) = y
    BY <2>1, <2>2, IsSubSeq
  <2>4. QED
    BY <2>3 DEF q
<1>8. SubSeq(d, p + 1, p + Len(x)) = x
  <2> DEFINE q == p + Len(x)
  <2>1. q \in Nat /\ q <= Len(d) /\ p \in Nat /\ p <= q /\ Len(x) = q - p
    BY <1>1, <1>4
  <2> HIDE DEF q
  <2>2. SubSeq(d, p + 1, q) = x
    BY <2>1, <1>5, IsSubSeq
  <2>3. QED
    BY <2>2 DEF q
<1>9. QED
  BY <1>4, <1>5, <1>7, <1>8, SMTT(30) DEF Rest

\* The provers look inside Append as well.
Add(v, value) == Append(v, value)

LEMMA Steps ==
    ASSUME NEW d, NEW p, NEW o, NEW v, NEW i, NEW n, NEW value
    PROVE  /\ After(Rd(d, p, o, v, i), n) = Rd(d, p + n, o, v, i)
           /\ Got(Rd(d, p, o, v, i), value, n) = Rd(d, p + n, o, Add(v, value), i)
           /\ Rd(d, p, o, v, i).data = d /\ Rd(d, p, o, v, i).pos = p /\ Rd(d, p, o, v, i).order = o
           /\ Rd(d, p, o, v, i).v = v /\ Rd(d, p, o, v, i).ist = i
<1>1. After(Rd(d, p, o, v, i), n) = Rd(d, p + n, o, v, i)
  BY DEF After, Rd
<1>2. Got(Rd(d, p, o, v, i), value, n) = [Rd(d, p + n, o, v, i) EXCEPT !.v = Append(@, value)]
  BY <1>1 DEF Got
<1>3. [Rd(d, p + n, o, v, i) EXCEPT !.v = Append(@, value)] = Rd(d, p + n, o, Add(v, value), i)
  BY DEF Rd, Add
<1>4. QED
  BY <1>1, <1>2, <1>3 DEF Rd

\* What is so of a reader before x and y, and how it goes on behind x.
Passes(r, d, o, v, i, x, y) ==
    /\ \A value : At(Got(r, value, Len(x)), d, o, Add(v, value), i, y)
    /\ At(After(r, Len(x)), d, o, v, i, y)
    /\ Remains(r) = Len(x) + Len(y) /\ r.pos \in Nat /\ r.data = d /\ r.order = o
    /\ SubSeq(d, r.pos + 1, r.pos + Len(x)) = x
    /\ \A j \in 1 .. Len(x) : d[r.pos + j] = x[j]

LEMMA Moved ==
    ASSUME NEW r, NEW d, NEW o, NEW v, NEW i, NEW x \in Bytes, NEW y \in Bytes,
           At(r, d, o, v, i, Join(x, y))
    PROVE  Passes(r, d, o, v, i, x, y)
<1>1. PICK p \in 0 .. Len(d) : r = Rd(d, p, o, v, i) /\ Rest(d, p) = Join(x, y)
  BY DEF At
<1>2. d \in Bytes
  BY DEF At
<1>3. /\ p + Len(x) \in 0 .. Len(d) /\ Rest(d, p + Len(x)) = y
      /\ Len(d) - p = Len(x) + Len(y)
      /\ SubSeq(d, p + 1, p + Len(x)) = x
      /\ \A j \in 1 .. Len(x) : d[p + j] = x[j]
  BY <1>1, <1>2, Ahead
<1>4. r.data = d /\ r.order = o /\ r.pos = p /\ After(r, Len(x)) = Rd(d, p + Len(x), o, v, i)
      /\ \A value : Got(r, value, Len(x)) = Rd(d, p + Len(x), o, Add(v, value), i)
  BY <1>1, Steps
<1>5. At(After(r, Len(x)), d, o, v, i, y)
  BY <1>2, <1>3, <1>4 DEF At
<1>6. \A value : At(Got(r, value, Len(x)), d, o, Add(v, value), i, y)
  BY <1>2, <1>3, <1>4 DEF At
<1>7. Remains(r) = Len(x) + Len(y) /\ r.pos \in Nat
  BY <1>3, <1>4 DEF Remains
<1>8. QED
  BY <1>3, <1>4, <1>5, <1>6, <1>7 DEF Passes

\* Integers, in both orders.
LEMMA ReadU8 ==
    ASSUME NEW r, NEW d, NEW o, NEW v, NEW i, NEW b \in Byte, NEW y \in Bytes,
           At(r, d, o, v, i, Join(One(b), y))
    PROVE  At(ReadField(r, U8), d, o, Add(v, b), i, y)
<1>1. One(b) \in Bytes /\ Len(One(b)) = 1 /\ One(b)[1] = b
  BY OneIs
<1>2. Passes(r, d, o, v, i, One(b), y)
  BY <1>1, Moved
<1>3. /\ At(Got(r, b, 1), d, o, Add(v, b), i, y) /\ Remains(r) = 1 + Len(y) /\ r.pos \in Nat
      /\ r.data = d /\ d[r.pos + 1] = One(b)[1]
  BY <1>1, <1>2 DEF Passes
<1>4. Len(y) \in Nat /\ One(b)[1] = b /\ b \in Nat
  BY <1>1, BytesType DEF Byte
<1>5. ValueAt(r, 1) = b
  <2>1. r.pos + (IF r.order = "little" THEN 1 ELSE 1 + 1 - 1) = r.pos + 1
    OBVIOUS
  <2>2. Weight[1] = 1
    BY SMT DEF Weight
  <2>3. Remains(r) >= 1
    BY <1>3, <1>4
  <2>4. QED
    BY <1>3, <1>4, <2>1, <2>2, <2>3 DEF ValueAt
<1>6. ReadField(r, U8) = Got(r, b, 1)
  BY <1>3, <1>4, <1>5 DEF ReadField, U8, Field
<1>7. QED
  BY <1>3, <1>6

LEMMA Value2 ==
    ASSUME NEW r, NEW d, NEW o \in {"little", "big"}, NEW v, NEW i, NEW n \in Word2, NEW y \in Bytes,
           At(r, d, o, v, i, Join((IF o = "little" THEN LE(n, 2) ELSE BE(n, 2)), y))
    PROVE  /\ ValueAt(r, 2) = n /\ Remains(r) = 2 + Len(y)
           /\ At(After(r, 2), d, o, v, i, y)
           /\ At(ReadField(r, U16), d, o, Add(v, n), i, y)
<1> DEFINE x == IF o = "little" THEN LE(n, 2) ELSE BE(n, 2)
<1>1. /\ x \in Bytes /\ Len(x) = 2
      /\ o = "little" => x[1] + 256 * x[2] = n
      /\ o # "little" => x[2] + 256 * x[1] = n
  BY Integers2
<1> HIDE DEF x
<1>2. x[1] \in Nat /\ x[2] \in Nat /\ Len(y) \in Nat
  <2>1. 1 \in 1 .. Len(x) /\ 2 \in 1 .. Len(x)
    BY <1>1
  <2>2. QED
    BY <1>1, <2>1, ByteOf, BytesType
<1>3. Passes(r, d, o, v, i, x, y)
  BY <1>1, Moved DEF x
<1>4. /\ Remains(r) = 2 + Len(y) /\ r.pos \in Nat
      /\ r.data = d /\ r.order = o /\ d[r.pos + 1] = x[1] /\ d[r.pos + 2] = x[2]
      /\ At(Got(r, n, 2), d, o, Add(v, n), i, y) /\ At(After(r, 2), d, o, v, i, y)
  BY <1>1, <1>3 DEF Passes
<1>5. ValueAt(r, 2) = n
  <2>1. Weight[1] = 1 /\ Weight[2] = 256
    BY SMT DEF Weight
  <2>2. Remains(r) >= 2
    BY <1>2, <1>4
  <2>3. 2 + 1 - 1 = 2 /\ 2 + 1 - 2 = 1
    OBVIOUS
  <2>4. CASE o = "little"
    BY <1>1, <1>2, <1>4, <2>1, <2>2, <2>4 DEF ValueAt
  <2>5. CASE o # "little"
    BY <1>1, <1>2, <1>4, <2>1, <2>2, <2>3, <2>5 DEF ValueAt
  <2>6. QED
    BY <2>4, <2>5
<1>6. ReadField(r, U16) = Got(r, n, 2)
  BY <1>5 DEF ReadField, U16, Field
<1>7. QED
  BY <1>4, <1>5, <1>6

LEMMA ReadU16LE ==
    ASSUME NEW r, NEW d, NEW v, NEW i, NEW n \in Word2, NEW y \in Bytes,
           At(r, d, "little", v, i, Join(LE(n, 2), y))
    PROVE  At(ReadField(r, U16), d, "little", Add(v, n), i, y)
<1>1. At(r, d, "little", v, i, Join((IF "little" = "little" THEN LE(n, 2) ELSE BE(n, 2)), y))
  OBVIOUS
<1>2. QED
  BY <1>1, Value2

LEMMA ReadU16BE ==
    ASSUME NEW r, NEW d, NEW v, NEW i, NEW n \in Word2, NEW y \in Bytes,
           At(r, d, "big", v, i, Join(BE(n, 2), y))
    PROVE  At(ReadField(r, U16), d, "big", Add(v, n), i, y)
<1>1. At(r, d, "big", v, i, Join((IF "big" = "little" THEN LE(n, 2) ELSE BE(n, 2)), y))
  OBVIOUS
<1>2. QED
  BY <1>1, Value2

LEMMA Value4 ==
    ASSUME NEW r, NEW d, NEW o \in {"little", "big"}, NEW v, NEW i, NEW n \in Word4, NEW y \in Bytes,
           At(r, d, o, v, i, Join((IF o = "little" THEN LE(n, 4) ELSE BE(n, 4)), y))
    PROVE  At(ReadField(r, U32), d, o, Add(v, n), i, y)
<1> DEFINE x == IF o = "little" THEN LE(n, 4) ELSE BE(n, 4)
<1>1. /\ x \in Bytes /\ Len(x) = 4
      /\ o = "little" => x[1] + Weight[2] * x[2] + Weight[3] * x[3] + Weight[4] * x[4] = n
      /\ o # "little" => x[4] + Weight[2] * x[3] + Weight[3] * x[2] + Weight[4] * x[1] = n
  BY Integers4
<1> HIDE DEF x
<1>2. x[1] \in Nat /\ x[2] \in Nat /\ x[3] \in Nat /\ x[4] \in Nat /\ Len(y) \in Nat
  <2>1. 1 \in 1 .. Len(x) /\ 2 \in 1 .. Len(x) /\ 3 \in 1 .. Len(x) /\ 4 \in 1 .. Len(x)
    BY <1>1
  <2>2. x[1] \in Nat /\ x[2] \in Nat /\ x[3] \in Nat /\ x[4] \in Nat
    BY <1>1, <2>1, ByteOf
  <2>3. QED
    BY <2>2, BytesType
<1>3. Passes(r, d, o, v, i, x, y)
  BY <1>1, Moved DEF x
<1>4. /\ Remains(r) = 4 + Len(y) /\ r.pos \in Nat
      /\ r.data = d /\ r.order = o /\ d[r.pos + 1] = x[1] /\ d[r.pos + 2] = x[2]
      /\ d[r.pos + 3] = x[3] /\ d[r.pos + 4] = x[4]
      /\ At(Got(r, n, 4), d, o, Add(v, n), i, y)
  BY <1>1, <1>3 DEF Passes
<1>5. ValueAt(r, 4) = n
  <2>1. Weight[1] = 1
    BY SMT DEF Weight
  <2>2. Remains(r) >= 4
    BY <1>2, <1>4
  <2>3. 4 + 1 - 1 = 4 /\ 4 + 1 - 2 = 3 /\ 4 + 1 - 3 = 2 /\ 4 + 1 - 4 = 1
    OBVIOUS
  <2>4. CASE o = "little"
    BY <1>1, <1>2, <1>4, <2>1, <2>2, <2>4, SMTT(30) DEF ValueAt
  <2>5. CASE o # "little"
    BY <1>1, <1>2, <1>4, <2>1, <2>2, <2>3, <2>5, SMTT(30) DEF ValueAt
  <2>6. QED
    BY <2>4, <2>5
<1>6. ReadField(r, U32) = Got(r, n, 4)
  BY <1>5 DEF ReadField, U32, Field
<1>7. QED
  BY <1>4, <1>6

LEMMA ReadU32LE ==
    ASSUME NEW r, NEW d, NEW v, NEW i, NEW n \in Word4, NEW y \in Bytes,
           At(r, d, "little", v, i, Join(LE(n, 4), y))
    PROVE  At(ReadField(r, U32), d, "little", Add(v, n), i, y)
<1>1. At(r, d, "little", v, i, Join((IF "little" = "little" THEN LE(n, 4) ELSE BE(n, 4)), y))
  OBVIOUS
<1>2. QED
  BY <1>1, Value4

LEMMA ReadU32BE ==
    ASSUME NEW r, NEW d, NEW v, NEW i, NEW n \in Word4, NEW y \in Bytes,
           At(r, d, "big", v, i, Join(BE(n, 4), y))
    PROVE  At(ReadField(r, U32), d, "big", Add(v, n), i, y)
<1>1. At(r, d, "big", v, i, Join((IF "big" = "little" THEN LE(n, 4) ELSE BE(n, 4)), y))
  OBVIOUS
<1>2. QED
  BY <1>1, Value4

LEMMA ReadSkip ==
    ASSUME NEW r, NEW d, NEW o, NEW v, NEW i, NEW x \in Bytes, NEW y \in Bytes, NEW n, Len(x) = n,
           At(r, d, o, v, i, Join(x, y))
    PROVE  At(ReadField(r, Skip(n)), d, o, v, i, y)
<1>1. Passes(r, d, o, v, i, x, y)
  BY Moved
<1>2. ReadField(r, Skip(n)) = After(r, Len(x))
  BY DEF ReadField, Skip, Field
<1>3. QED
  BY <1>1, <1>2 DEF Passes

LEMMA ReadLittle ==
    ASSUME NEW r, NEW d, NEW o, NEW v, NEW i, NEW y, At(r, d, o, v, i, y)
    PROVE  At(ReadField(r, Little), d, "little", v, i, y)
<1>1. ReadField(r, Little) = [r EXCEPT !.order = "little"]
  BY DEF ReadField, Little, Field
<1>2. PICK p \in 0 .. Len(d) : r = Rd(d, p, o, v, i) /\ Rest(d, p) = y
  BY DEF At
<1>3. ReadField(r, Little) = Rd(d, p, "little", v, i)
  BY <1>1, <1>2 DEF Rd
<1>4. QED
  BY <1>2, <1>3 DEF At

\* Strings: as many bytes as there should be, all that are left, and those with their length.
LEMMA ReadStr ==
    ASSUME NEW r, NEW d, NEW o, NEW v, NEW i, NEW x \in Bytes, NEW y \in Bytes, NEW n \in Nat,
           Len(x) = n \/ (y = <<>> /\ n >= Len(x)), At(r, d, o, v, i, Join(x, y))
    PROVE  At(ReadField(r, Str(n)), d, o, Add(v, x), i, y) /\ Unpack(r, n) = x
<1>1. Len(x) \in Nat /\ Len(y) \in Nat /\ (y = <<>> => Len(y) = 0)
  BY BytesType, NoBytes
<1>2. Passes(r, d, o, v, i, x, y)
  BY Moved
<1>3. /\ At(Got(r, x, Len(x)), d, o, Add(v, x), i, y)
      /\ Remains(r) = Len(x) + Len(y) /\ r.pos \in Nat /\ r.data = d
      /\ SubSeq(d, r.pos + 1, r.pos + Len(x)) = x
  BY <1>2 DEF Passes
<1>4. (IF n < Remains(r) THEN r.pos + n ELSE Len(r.data)) = r.pos + Len(x)
  <2>1. Len(d) \in Nat
    BY BytesType DEF At
  <2>2. Len(d) - r.pos = Len(x) + Len(y)
    BY <1>3 DEF Remains
  <2>3. Len(d) = r.pos + Len(x) + Len(y)
    <3>1. \A l, p, a, c \in Nat : l - p = a + c => l = p + a + c
      OBVIOUS
    <3>2. r.pos \in Nat
      BY <1>3
    <3>3. QED
      BY <1>1, <2>1, <2>2, <3>1, <3>2
  <2>4. QED
    BY <1>1, <1>3, <2>3, SMTT(30)
<1>5. Unpack(r, n) = x
  BY <1>3, <1>4 DEF Unpack
<1>6. ReadField(r, Str(n)) = Got(r, x, Len(x))
  <2>1. 0 + Len(x) + 0 = Len(x)
    BY <1>1
  <2>2. QED
    BY <1>5, <2>1 DEF ReadField, Str, Field, GotString
<1>7. QED
  BY <1>3, <1>5, <1>6

LEMMA ReadAll ==
    ASSUME NEW r, NEW d, NEW o, NEW v, NEW i, NEW x \in Bytes, NEW y \in Bytes, At(r, d, o, v, i, Join(x, y))
    PROVE  At(ReadField(r, Str(Len(x))), d, o, Add(v, x), i, y) /\ Unpack(r, Len(x)) = x
<1>1. Len(x) \in Nat
  BY BytesType
<1>2. SUFFICES ASSUME NEW n \in Nat, Len(x) = n
               PROVE  At(ReadField(r, Str(n)), d, o, Add(v, x), i, y) /\ Unpack(r, n) = x
  BY <1>1
<1>3. QED
  BY <1>2, ReadStr

LEMMA ReadByteStr ==
    ASSUME NEW r, NEW d, NEW o, NEW v, NEW i, NEW x \in Bytes, Len(x) < 256, NEW y \in Bytes,
           At(r, d, o, v, i, Join(ByteString(x), y))
    PROVE  At(ReadField(r, ByteStr), d, o, Add(v, x), i, y)
<1> DEFINE n == Len(x)
           r1 == After(r, 1)
<1>1. n \in Nat
  BY BytesType
<1>2. n \in Byte
  <2>1. \A k \in Nat : k < 256 => k \in 0 .. 255
    OBVIOUS
  <2>2. QED
    BY <1>1, <2>1 DEF Byte
<1> DEFINE h == One(n)
<1>3. h \in Bytes /\ Len(h) = 1 /\ h[1] = n
  BY <1>2, OneIs
<1>4. ByteString(x) = Join(h, x)
  BY DEF ByteString, Join, One
<1> HIDE DEF n, h
<1>6. /\ Join(x, y) \in Bytes /\ Len(Join(x, y)) \in Nat /\ Join(ByteString(x), y) = Join(h, Join(x, y))
      /\ ByteString(x) \in Bytes /\ Len(ByteString(x)) = 1 + Len(x) + 0
  <2>1. ByteString(x) \in Bytes /\ Len(ByteString(x)) = Len(h) + Len(x) /\ Join(x, y) \in Bytes
    BY <1>3, <1>4, JoinIs, ZenonT(60)
  <2>2. Join(ByteString(x), y) = Join(h, Join(x, y))
    BY <1>3, <1>4, JoinIs
  <2>3. Len(Join(x, y)) \in Nat
    BY <2>1, BytesType
  <2>4. QED
    BY <1>1, <1>3, <2>1, <2>2, <2>3 DEF n
<1>7. Passes(r, d, o, v, i, h, Join(x, y))
  BY <1>3, <1>4, <1>6, Moved
<1>8. /\ At(r1, d, o, v, i, Join(x, y)) /\ r.pos \in Nat /\ r.data = d /\ d[r.pos + 1] = n
      /\ Remains(r) = 1 + Len(Join(x, y))
  BY <1>3, <1>7 DEF Passes
<1>9. ValueAt(r, 1) = n
  <2>1. r.pos + (IF r.order = "little" THEN 1 ELSE 1 + 1 - 1) = r.pos + 1
    OBVIOUS
  <2>2. Weight[1] = 1
    BY SMT DEF Weight
  <2>3. Remains(r) >= 1
    BY <1>6, <1>8
  <2>4. QED
    BY <1>1, <1>8, <2>1, <2>2, <2>3 DEF ValueAt
<1> HIDE DEF r1
<1>10. Unpack(r1, n) = x
  BY <1>8, ReadAll DEF n
<1>11. ReadField(r, ByteStr) = Got(r, x, 1 + Len(x) + 0)
  <2>1. ReadField(r, ByteStr) = GotString(r, Unpack(After(r, 1), ValueAt(r, 1)), 1, 0)
    BY DEF ReadField, ByteStr, Field
  <2>2. QED
    BY <2>1, <1>9, <1>10 DEF GotString, r1
<1>12. Passes(r, d, o, v, i, ByteString(x), y)
  BY <1>6, Moved
<1>13. QED
  BY <1>6, <1>11, <1>12 DEF Passes

LEMMA ReadNullStr ==
    ASSUME NEW r, NEW d, NEW v, NEW i, NEW x \in Bytes, Len(x) + 1 \in Word2, NEW y \in Bytes,
           At(r, d, "little", v, i, Join(NullString(x), y))
    PROVE  At(ReadField(r, NullStr), d, "little", Add(v, x), i, y)
<1> DEFINE n == Len(x) + 1
           r1 == After(r, 2)
           h == One(0)
           z == Join(h, y)
<1>1. Len(x) \in Nat /\ n - 1 = Len(x) /\ n # 0 /\ 0 \in Byte /\ n \in Word2
  BY BytesType DEF Byte
<1>2. LE(n, 2) \in Bytes /\ Len(LE(n, 2)) = 2 /\ h \in Bytes /\ Len(h) = 1
  BY <1>1, OneIs, Integers2
<1>3. NullString(x) = Join(Join(LE(n, 2), x), h)
  BY DEF NullString, Join, One
<1> HIDE DEF n, z, h
<1>4. /\ z \in Bytes /\ Join(x, z) \in Bytes
      /\ Join(NullString(x), y) = Join(LE(n, 2), Join(x, z))
      /\ NullString(x) \in Bytes /\ Len(NullString(x)) = 2 + Len(x) + 1
  <2>1. z \in Bytes
    BY <1>2, JoinIs DEF z
  <2>2. Join(x, z) \in Bytes /\ Join(LE(n, 2), x) \in Bytes /\ Len(Join(LE(n, 2), x)) = Len(LE(n, 2)) + Len(x)
    BY <1>2, <2>1, JoinIs
  <2>3. Join(NullString(x), y) = Join(Join(LE(n, 2), x), z)
    BY <1>2, <1>3, <2>2, JoinIs DEF z
  <2>4. Join(Join(LE(n, 2), x), z) = Join(LE(n, 2), Join(x, z))
    BY <1>2, <2>1, JoinIs
  <2>5. NullString(x) \in Bytes /\ Len(NullString(x)) = Len(Join(LE(n, 2), x)) + Len(h)
    <3>1. \A s \in Bytes : Join(s, h) \in Bytes /\ Len(Join(s, h)) = Len(s) + Len(h)
      BY <1>2, JoinIs
    <3>2. QED
      BY <1>3, <2>2, <3>1
  <2>6. QED
    BY <1>1, <1>2, <2>1, <2>2, <2>3, <2>4, <2>5
<1>5. At(r, d, "little", v, i, Join((IF "little" = "little" THEN LE(n, 2) ELSE BE(n, 2)), Join(x, z)))
  BY <1>4
<1>6. ValueAt(r, 2) = n /\ At(r1, d, "little", v, i, Join(x, z))
  BY <1>1, <1>4, <1>5, Value2, ZenonT(60)
<1> HIDE DEF r1
<1>7. Unpack(r1, n - 1) = x
  BY <1>1, <1>4, <1>6, ReadAll
<1>8. ReadField(r, NullStr) = Got(r, x, 2 + Len(x) + 1)
  <2>1. ReadField(r, NullStr) = GotString(r, Unpack(After(r, 2), ValueAt(r, 2) - 1), 2, 1)
    BY <1>1, <1>6 DEF ReadField, NullStr, Field
  <2>2. QED
    BY <2>1, <1>6, <1>7 DEF GotString, r1
<1>9. Passes(r, d, "little", v, i, NullString(x), y)
  BY <1>4, Moved
<1>10. QED
  BY <1>4, <1>8, <1>9 DEF Passes

LEMMA ReadAny4 ==
    ASSUME NEW r, NEW d, NEW o, NEW v, NEW i, NEW x \in Bytes, Len(x) = 4, NEW y \in Bytes,
           At(r, d, o, v, i, Join(x, y))
    PROVE  \E w : At(ReadField(r, U32), d, o, Add(v, w), i, y)
<1>1. Passes(r, d, o, v, i, x, y)
  BY Moved
<1>2. ReadField(r, U32) = Got(r, ValueAt(r, 4), Len(x))
  BY DEF ReadField, U32, Field
<1>3. QED
  BY <1>1, <1>2 DEF Passes

LEMMA ReadSkips ==
    ASSUME NEW r, NEW d, NEW o, NEW v, NEW i, NEW x \in Bytes, NEW y \in Bytes, At(r, d, o, v, i, Join(x, y))
    PROVE  At(ReadField(r, Skip(Len(x))), d, o, v, i, y)
  BY ReadSkip

LEMMA ReadEnd ==
    ASSUME NEW r, NEW d, NEW o, NEW v, NEW i, NEW x \in Bytes, NEW n \in Nat, Len(x) <= n, At(r, d, o, v, i, x)
    PROVE  At(ReadField(r, Str(n)), d, o, Add(v, x), i, <<>>)
<1>1. x = Join(x, <<>>) /\ <<>> \in Bytes /\ Len(x) \in Nat
  BY JoinIs, NoBytes, BytesType
<1>2. n >= Len(x)
  BY <1>1
<1>3. QED
  BY <1>1, <1>2, ReadStr

-----------------------------------------------------------------------------
(* Natural numbers: the least of a set, and induction over a set of them.    *)

LEMMA LeastOf ==
    ASSUME NEW C, C \subseteq Nat, C # {}
    PROVE  \E n \in C : \A m \in C : n <= m
<1> DEFINE T == {1 .. n : n \in C}
<1>1. IsWellFoundedOn(StrictSubsetOrdering(Nat), FiniteSubsetsOf(Nat))
  BY FS_StrictSubsetOrderingWellFounded
<1>2. T \subseteq FiniteSubsetsOf(Nat)
  <2>1. \A n \in C : IsFiniteSet(1 .. n)
    <3>1. SUFFICES ASSUME NEW n \in C PROVE IsFiniteSet(1 .. n)
      OBVIOUS
    <3>2. 1 \in Int /\ n \in Int
      OBVIOUS
    <3>3. QED
      BY <3>2, FS_Interval
  <2>2. \A n \in C : 1 .. n \in SUBSET Nat
    OBVIOUS
  <2>3. QED
    BY <2>1, <2>2 DEF FiniteSubsetsOf
<1>3. T # {}
  OBVIOUS
<1> HIDE DEF T
<1>4. PICK x \in T : \A y \in T : ~ (<<y, x>> \in StrictSubsetOrdering(Nat))
  BY <1>1, <1>2, <1>3, WFMin
<1>5. PICK n \in C : x = 1 .. n
  BY <1>4 DEF T
<1>6. ASSUME NEW m \in C, ~(n <= m) PROVE FALSE
  <2>1. 1 .. m \in T /\ 1 .. m \subseteq 1 .. n /\ n \in 1 .. n /\ n \notin 1 .. m
    BY <1>6 DEF T
  <2>2. 1 .. m \in SUBSET Nat /\ 1 .. n \in SUBSET Nat
    OBVIOUS
  <2>3. <<1 .. m, 1 .. n>> \in (SUBSET Nat) \X (SUBSET Nat) /\ 1 .. m # 1 .. n
    BY <2>1, <2>2
  <2>4. <<1 .. m, 1 .. n>> \in StrictSubsetOrdering(Nat)
    BY <2>1, <2>3 DEF StrictSubsetOrdering
  <2>5. QED
    BY <1>4, <1>5, <2>1, <2>4
<1>7. QED
  BY <1>6

LEMMA SetInduction ==
    ASSUME NEW S, 0 \in S, \A n \in Nat : n \in S => n + 1 \in S
    PROVE  Nat \subseteq S
<1> DEFINE C == Nat \ S
<1>1. SUFFICES ASSUME C # {} PROVE FALSE
  OBVIOUS
<1>2. PICK n \in C : \A m \in C : n <= m
  BY <1>1, LeastOf
<1>3. n \in Nat /\ n # 0
  BY <1>2
<1>4. n - 1 \in Nat /\ n - 1 \in S /\ (n - 1) + 1 = n
  BY <1>2, <1>3
<1>5. QED
  BY <1>2, <1>4


(* Layouts: the fields of a layout are read one after the other.             *)

Start(r) == [r EXCEPT !.v = <<>>]

LEMMA ReadFunction ==
    ASSUME NEW r, NEW layout, Len(layout) \in Nat
    PROVE  \E f : /\ Read(r, layout) = f[Len(layout)] /\ f[0] = Start(r)
                  /\ \A j \in 1 .. Len(layout) : f[j] = ReadField(f[j - 1], layout[j])
<1> DEFINE Step(j, f) == IF j = 0 THEN [r EXCEPT !.v = <<>>] ELSE ReadField(f[j - 1], layout[j])
           N == 0 .. Len(layout)
           Good(k, f) == DOMAIN f = 0 .. k /\ \A j \in 0 .. k : f[j] = Step(j, f)
           S == {k \in Nat : \E f : Good(k, f)}
<1>1. 0 \in S
  <2>1. DOMAIN [j \in 0 .. 0 |-> [r EXCEPT !.v = <<>>]] = 0 .. 0
        /\ \A j \in 0 .. 0 : j = 0 /\ [k \in 0 .. 0 |-> [r EXCEPT !.v = <<>>]][j] = [r EXCEPT !.v = <<>>]
    OBVIOUS
  <2>2. Good(0, [j \in 0 .. 0 |-> [r EXCEPT !.v = <<>>]])
    BY <2>1
  <2>3. QED
    BY <2>2
<1>2. ASSUME NEW k \in Nat, k \in S PROVE k + 1 \in S
  <2>1. PICK g : Good(k, g)
    BY <1>2
  <2> DEFINE f == [j \in 0 .. k + 1 |-> IF j <= k THEN g[j] ELSE ReadField(g[k], layout[k + 1])]
  <2>2. DOMAIN f = 0 .. k + 1 /\ \A j \in 0 .. k + 1 : f[j] = Step(j, f)
    <3>1. ASSUME NEW j \in 0 .. k + 1 PROVE f[j] = Step(j, f)
      <4>1. CASE j = 0
        BY <2>1, <4>1
      <4>2. CASE j \in 1 .. k
        <5>1. j \in 0 .. k /\ j - 1 \in 0 .. k /\ j <= k /\ j - 1 <= k /\ j # 0 /\ j - 1 \in 0 .. k + 1
          BY <4>2
        <5>2. f[j] = g[j] /\ f[j - 1] = g[j - 1]
          BY <5>1
        <5>3. g[j] = ReadField(g[j - 1], layout[j])
          BY <2>1, <5>1
        <5>4. QED
          BY <5>1, <5>2, <5>3
      <4>3. CASE j = k + 1
        <5>1. k \in 0 .. k + 1 /\ ~(k + 1 <= k) /\ k + 1 # 0 /\ (k + 1) - 1 = k /\ k <= k
          OBVIOUS
        <5>2. f[j] = ReadField(g[k], layout[k + 1]) /\ f[j - 1] = g[k]
          BY <4>3, <5>1
        <5>3. QED
          BY <4>3, <5>1, <5>2
      <4>4. QED
        BY <4>1, <4>2, <4>3
    <3>2. QED
      BY <3>1
  <2> HIDE DEF f
  <2>3. Good(k + 1, f)
    BY <2>2
  <2>4. QED
    BY <2>3
<1>3. Len(layout) \in S
  BY <1>1, <1>2, SetInduction
<1>4. PICK f : Good(Len(layout), f)
  BY <1>3
<1>5. f = [j \in N |-> Step(j, f)]
  BY <1>4
<1>6. \E h : h = [j \in N |-> Step(j, h)]
  BY <1>5
<1> DEFINE u == CHOOSE h : h = [j \in N |-> Step(j, h)]
<1>7. u = [j \in N |-> Step(j, u)]
  BY <1>6
<1>8. Read(r, layout) = u[Len(layout)]
  BY DEF Read
<1> HIDE DEF u
<1>9. u[0] = [r EXCEPT !.v = <<>>] /\ \A j \in 1 .. Len(layout) : u[j] = ReadField(u[j - 1], layout[j])
  BY <1>7
<1>10. QED
  BY <1>8, <1>9 DEF Start

LEMMA Starts ==
    ASSUME NEW r, NEW d, NEW o, NEW v, NEW i, NEW x, At(r, d, o, v, i, x)
    PROVE  At(Start(r), d, o, <<>>, i, x)
<1>1. PICK p \in 0 .. Len(d) : r = Rd(d, p, o, v, i) /\ Rest(d, p) = x
  BY DEF At
<1>2. Start(r) = Rd(d, p, o, <<>>, i)
  BY <1>1 DEF Start, Rd
<1>3. QED
  BY <1>1, <1>2 DEF At

LEMMA Read1 ==
    ASSUME NEW r, NEW f1
    PROVE  Read(r, <<f1>>) =
              ReadField(Start(r), f1)
<1> DEFINE l == <<f1>>
<1>1. Len(l) = 1 /\ l[1] = f1
  BY SMT
<1> HIDE DEF l
<1>2. Len(l) \in Nat
  BY <1>1
<1>3. PICK f : /\ Read(r, l) = f[Len(l)] /\ f[0] = Start(r)
               /\ \A j \in 1 .. Len(l) : f[j] = ReadField(f[j - 1], l[j])
  BY <1>2, ReadFunction
<1>4. f[1] = ReadField(f[0], f1)
  BY <1>1, <1>3
<1>5. QED
  BY <1>1, <1>3, <1>4 DEF l

LEMMA Read2 ==
    ASSUME NEW r, NEW f1, NEW f2
    PROVE  Read(r, <<f1, f2>>) =
              ReadField(ReadField(Start(r), f1), f2)
<1> DEFINE l == <<f1, f2>>
<1>1. Len(l) = 2 /\ l[1] = f1 /\ l[2] = f2
  BY SMT
<1> HIDE DEF l
<1>2. Len(l) \in Nat
  BY <1>1
<1>3. PICK f : /\ Read(r, l) = f[Len(l)] /\ f[0] = Start(r)
               /\ \A j \in 1 .. Len(l) : f[j] = ReadField(f[j - 1], l[j])
  BY <1>2, ReadFunction
<1>4. f[1] = ReadField(f[0], f1) /\ f[2] = ReadField(f[1], f2)
  BY <1>1, <1>3
<1>5. QED
  BY <1>1, <1>3, <1>4 DEF l

LEMMA Read3 ==
    ASSUME NEW r, NEW f1, NEW f2, NEW f3
    PROVE  Read(r, <<f1, f2, f3>>) =
              ReadField(ReadField(ReadField(Start(r), f1), f2), f3)
<1> DEFINE l == <<f1, f2, f3>>
<1>1. Len(l) = 3 /\ l[1] = f1 /\ l[2] = f2 /\ l[3] = f3
  BY SMT
<1> HIDE DEF l
<1>2. Len(l) \in Nat
  BY <1>1
<1>3. PICK f : /\ Read(r, l) = f[Len(l)] /\ f[0] = Start(r)
               /\ \A j \in 1 .. Len(l) : f[j] = ReadField(f[j - 1], l[j])
  BY <1>2, ReadFunction
<1>4. f[1] = ReadField(f[0], f1) /\ f[2] = ReadField(f[1], f2) /\ f[3] = ReadField(f[2], f3)
  BY <1>1, <1>3
<1>5. QED
  BY <1>1, <1>3, <1>4 DEF l

LEMMA Read4 ==
    ASSUME NEW r, NEW f1, NEW f2, NEW f3, NEW f4
    PROVE  Read(r, <<f1, f2, f3, f4>>) =
              ReadField(ReadField(ReadField(ReadField(Start(r), f1), f2), f3), f4)
<1> DEFINE l == <<f1, f2, f3, f4>>
<1>1. Len(l) = 4 /\ l[1] = f1 /\ l[2] = f2 /\ l[3] = f3 /\ l[4] = f4
  BY SMT
<1> HIDE DEF l
<1>2. Len(l) \in Nat
  BY <1>1
<1>3. PICK f : /\ Read(r, l) = f[Len(l)] /\ f[0] = Start(r)
               /\ \A j \in 1 .. Len(l) : f[j] = ReadField(f[j - 1], l[j])
  BY <1>2, ReadFunction
<1>4. f[1] = ReadField(f[0], f1) /\ f[2] = ReadField(f[1], f2) /\ f[3] = ReadField(f[2], f3) /\ f[4] = ReadField(f[3], f4)
  BY <1>1, <1>3
<1>5. QED
  BY <1>1, <1>3, <1>4 DEF l

LEMMA Read6 ==
    ASSUME NEW r, NEW f1, NEW f2, NEW f3, NEW f4, NEW f5, NEW f6
    PROVE  Read(r, <<f1, f2, f3, f4, f5, f6>>) =
              ReadField(ReadField(ReadField(ReadField(ReadField(ReadField(Start(r), f1), f2), f3), f4), f5), f6)
<1> DEFINE l == <<f1, f2, f3, f4, f5, f6>>
<1>1. Len(l) = 6 /\ l[1] = f1 /\ l[2] = f2 /\ l[3] = f3 /\ l[4] = f4 /\ l[5] = f5 /\ l[6] = f6
  BY SMT
<1> HIDE DEF l
<1>2. Len(l) \in Nat
  BY <1>1
<1>3. PICK f : /\ Read(r, l) = f[Len(l)] /\ f[0] = Start(r)
               /\ \A j \in 1 .. Len(l) : f[j] = ReadField(f[j - 1], l[j])
  BY <1>2, ReadFunction
<1>4. f[1] = ReadField(f[0], f1) /\ f[2] = ReadField(f[1], f2) /\ f[3] = ReadField(f[2], f3)
          /\ f[4] = ReadField(f[3], f4) /\ f[5] = ReadField(f[4], f5) /\ f[6] = ReadField(f[5], f6)
  BY <1>1, <1>3
<1>5. QED
  BY <1>1, <1>3, <1>4 DEF l

LEMMA Read7 ==
    ASSUME NEW r, NEW f1, NEW f2, NEW f3, NEW f4, NEW f5, NEW f6, NEW f7
    PROVE  Read(r, <<f1, f2, f3, f4, f5, f6, f7>>) =
              ReadField(ReadField(ReadField(ReadField(ReadField(ReadField(ReadField(Start(r), f1), f2), f3), f4), f5), f6), f7)
<1> DEFINE l == <<f1, f2, f3, f4, f5, f6, f7>>
<1>1. Len(l) = 7 /\ l[1] = f1 /\ l[2] = f2 /\ l[3] = f3 /\ l[4] = f4 /\ l[5] = f5 /\ l[6] = f6 /\ l[7] = f7
  BY SMT
<1> HIDE DEF l
<1>2. Len(l) \in Nat
  BY <1>1
<1>3. PICK f : /\ Read(r, l) = f[Len(l)] /\ f[0] = Start(r)
               /\ \A j \in 1 .. Len(l) : f[j] = ReadField(f[j - 1], l[j])
  BY <1>2, ReadFunction
<1>4. f[1] = ReadField(f[0], f1) /\ f[2] = ReadField(f[1], f2) /\ f[3] = ReadField(f[2], f3)
          /\ f[4] = ReadField(f[3], f4) /\ f[5] = ReadField(f[4], f5) /\ f[6] = ReadField(f[5], f6)
                    /\ f[7] = ReadField(f[6], f7)
  BY <1>1, <1>3
<1>5. QED
  BY <1>1, <1>3, <1>4 DEF l

LEMMA Read8 ==
    ASSUME NEW r, NEW f1, NEW f2, NEW f3, NEW f4, NEW f5, NEW f6, NEW f7, NEW f8
    PROVE  Read(r, <<f1, f2, f3, f4, f5, f6, f7, f8>>) =
              ReadField(ReadField(ReadField(ReadField(ReadField(ReadField(ReadField(ReadField(Start(r), f1),
                        f2), f3), f4), f5), f6), f7), f8)
<1> DEFINE l == <<f1, f2, f3, f4, f5, f6, f7, f8>>
<1>1. Len(l) = 8 /\ l[1] = f1 /\ l[2] = f2 /\ l[3] = f3 /\ l[4] = f4 /\ l[5] = f5 /\ l[6] = f6 /\ l[7] = f7 /\ l[8] = f8
  BY SMT
<1> HIDE DEF l
<1>2. Len(l) \in Nat
  BY <1>1
<1>3. PICK f : /\ Read(r, l) = f[Len(l)] /\ f[0] = Start(r)
               /\ \A j \in 1 .. Len(l) : f[j] = ReadField(f[j - 1], l[j])
  BY <1>2, ReadFunction
<1>4. f[1] = ReadField(f[0], f1) /\ f[2] = ReadField(f[1], f2) /\ f[3] = ReadField(f[2], f3)
          /\ f[4] = ReadField(f[3], f4) /\ f[5] = ReadField(f[4], f5) /\ f[6] = ReadField(f[5], f6)
                    /\ f[7] = ReadField(f[6], f7) /\ f[8] = ReadField(f[7], f8)
  BY <1>1, <1>3
<1>5. QED
  BY <1>1, <1>3, <1>4 DEF l

-----------------------------------------------------------------------------
(* Every layout that is read, and what it gives.                             *)

LEMMA ByteStringType == \A s \in Bytes : Len(s) < 256 => ByteString(s) \in Bytes
<1>1. SUFFICES ASSUME NEW s \in Bytes, Len(s) < 256 PROVE ByteString(s) \in Bytes
  OBVIOUS
<1>2. \A k \in Nat : k < 256 => k \in 0 .. 255
  OBVIOUS
<1>3. Len(s) \in Byte
  BY <1>1, <1>2, BytesType DEF Byte
<1>4. QED
  BY <1>3, OneIs, JoinIs DEF ByteString, One, Join

LEMMA NullStringType == \A s \in Bytes : Len(s) + 1 \in Word2 => NullString(s) \in Bytes
<1>1. SUFFICES ASSUME NEW s \in Bytes, Len(s) + 1 \in Word2 PROVE NullString(s) \in Bytes
  OBVIOUS
<1>2. 0 \in Byte
  BY DEF Byte
<1> DEFINE a == LE(Len(s) + 1, 2)
<1>3. a \in Bytes /\ One(0) \in Bytes
  BY <1>1, <1>2, OneIs, Integers2
<1>4. NullString(s) = Join(Join(a, s), One(0))
  BY DEF NullString, One, Join
<1> HIDE DEF a
<1>5. Join(Join(a, s), One(0)) \in Bytes
  BY <1>3, JoinIs
<1>6. QED
  BY <1>4, <1>5

\* What is written is bytes.
LEMMA Written ==
    /\ \A s, t \in Bytes : Join(s, t) \in Bytes
    /\ \A b \in Byte : One(b) \in Bytes
    /\ \A n \in Word2 : LE(n, 2) \in Bytes /\ BE(n, 2) \in Bytes
    /\ \A n \in Word4 : LE(n, 4) \in Bytes /\ BE(n, 4) \in Bytes
    /\ \A s \in Bytes : Len(s) < 256 => ByteString(s) \in Bytes
    /\ \A s \in Bytes : Len(s) + 1 \in Word2 => NullString(s) \in Bytes
    /\ <<>> \in Bytes
<1>1. \A n \in Word2 : LE(n, 2) \in Bytes /\ BE(n, 2) \in Bytes
  BY Integers2
<1>2. \A n \in Word4 : LE(n, 4) \in Bytes /\ BE(n, 4) \in Bytes
  BY Integers4
<1>3. QED
  BY <1>1, <1>2, JoinIs, OneIs, ByteStringType, NullStringType, NoBytes

LEMMA Adds ==
    /\ \A a : Add(<<>>, a) = <<a>>
    /\ \A a, b : Add(<<a>>, b) = <<a, b>>
    /\ \A a, b, c : Add(<<a, b>>, c) = <<a, b, c>>
    /\ \A a, b, c, d : Add(<<a, b, c>>, d) = <<a, b, c, d>>
    /\ \A a, b, c, d, e : Add(<<a, b, c, d>>, e) = <<a, b, c, d, e>>
    /\ \A a, b, c, d, e, f : Add(<<a, b, c, d, e>>, f) = <<a, b, c, d, e, f>>
<1>1. ASSUME NEW S, NEW s \in Seq(S), NEW x \in S, NEW t \in Seq(S), Len(t) = Len(s) + 1, t[Len(s) + 1] = x,
             \A i \in 1 .. Len(s) : s[i] = t[i]
      PROVE  Add(s, x) = t
  <2>1. /\ Append(s, x) \in Seq(S) /\ Len(Append(s, x)) = Len(s) + 1
        /\ \A i \in 1 .. Len(s) : Append(s, x)[i] = s[i]
        /\ Append(s, x)[Len(s) + 1] = x
    BY AppendProperties
  <2>2. \A i \in 1 .. Len(t) : Append(s, x)[i] = t[i]
    <3>1. SUFFICES ASSUME NEW i \in 1 .. Len(t) PROVE Append(s, x)[i] = t[i]
      OBVIOUS
    <3>2. i \in 1 .. Len(s) \/ i = Len(s) + 1
      BY <1>1, LenProperties
    <3>3. QED
      BY <1>1, <2>1, <3>2
  <2>3. Append(s, x) = t
    BY <1>1, <2>1, <2>2, SeqEqual
  <2>4. QED
    BY <2>3 DEF Add
<1>2. ASSUME NEW a PROVE Add(<<>>, a) = <<a>>
  <2>1. <<>> \in Seq({a}) /\ <<a>> \in Seq({a}) /\ a \in {a}
    OBVIOUS
  <2>2. Len(<<a>>) = Len(<<>>) + 1 /\ <<a>>[Len(<<>>) + 1] = a
    OBVIOUS
  <2>3. \A i \in 1 .. Len(<<>>) : <<>>[i] = <<a>>[i]
    OBVIOUS
  <2>4. QED
    BY <1>1, <2>1, <2>2, <2>3
<1>3. ASSUME NEW a, NEW b PROVE Add(<<a>>, b) = <<a, b>>
  <2>1. <<a>> \in Seq({a, b}) /\ <<a, b>> \in Seq({a, b}) /\ b \in {a, b}
    OBVIOUS
  <2>2. Len(<<a, b>>) = Len(<<a>>) + 1 /\ <<a, b>>[Len(<<a>>) + 1] = b
    OBVIOUS
  <2>3. \A i \in 1 .. Len(<<a>>) : <<a>>[i] = <<a, b>>[i]
    OBVIOUS
  <2>4. QED
    BY <1>1, <2>1, <2>2, <2>3
<1>4. ASSUME NEW a, NEW b, NEW c PROVE Add(<<a, b>>, c) = <<a, b, c>>
  <2>1. <<a, b>> \in Seq({a, b, c}) /\ <<a, b, c>> \in Seq({a, b, c}) /\ c \in {a, b, c}
    OBVIOUS
  <2>2. Len(<<a, b, c>>) = Len(<<a, b>>) + 1 /\ <<a, b, c>>[Len(<<a, b>>) + 1] = c
    OBVIOUS
  <2>3. \A i \in 1 .. Len(<<a, b>>) : <<a, b>>[i] = <<a, b, c>>[i]
    OBVIOUS
  <2>4. QED
    BY <1>1, <2>1, <2>2, <2>3
<1>5. ASSUME NEW a, NEW b, NEW c, NEW d PROVE Add(<<a, b, c>>, d) = <<a, b, c, d>>
  <2>1. <<a, b, c>> \in Seq({a, b, c, d}) /\ <<a, b, c, d>> \in Seq({a, b, c, d}) /\ d \in {a, b, c, d}
    OBVIOUS
  <2>2. Len(<<a, b, c, d>>) = Len(<<a, b, c>>) + 1 /\ <<a, b, c, d>>[Len(<<a, b, c>>) + 1] = d
    OBVIOUS
  <2>3. \A i \in 1 .. Len(<<a, b, c>>) : <<a, b, c>>[i] = <<a, b, c, d>>[i]
    OBVIOUS
  <2>4. QED
    BY <1>1, <2>1, <2>2, <2>3
<1>6. ASSUME NEW a, NEW b, NEW c, NEW d, NEW e PROVE Add(<<a, b, c, d>>, e) = <<a, b, c, d, e>>
  <2>1. <<a, b, c, d>> \in Seq({a, b, c, d, e}) /\ <<a, b, c, d, e>> \in Seq({a, b, c, d, e}) /\ e \in {a,
        b, c, d, e}
    OBVIOUS
  <2>2. Len(<<a, b, c, d, e>>) = Len(<<a, b, c, d>>) + 1 /\ <<a, b, c, d, e>>[Len(<<a, b, c, d>>) + 1] = e
    OBVIOUS
  <2>3. \A i \in 1 .. Len(<<a, b, c, d>>) : <<a, b, c, d>>[i] = <<a, b, c, d, e>>[i]
    OBVIOUS
  <2>4. QED
    BY <1>1, <2>1, <2>2, <2>3
<1>7. ASSUME NEW a, NEW b, NEW c, NEW d, NEW e, NEW f PROVE Add(<<a, b, c, d, e>>, f) = <<a, b, c, d, e, f>>
  <2>1. <<a, b, c, d, e>> \in Seq({a, b, c, d, e, f}) /\ <<a, b, c, d, e, f>> \in Seq({a, b, c, d, e,
        f}) /\ f \in {a, b, c, d, e, f}
    OBVIOUS
  <2>2. Len(<<a, b, c, d, e, f>>) = Len(<<a, b, c, d, e>>) + 1 /\ <<a, b, c, d, e, f>>[Len(<<a, b, c, d,
        e>>) + 1] = f
    OBVIOUS
  <2>3. \A i \in 1 .. Len(<<a, b, c, d, e>>) : <<a, b, c, d, e>>[i] = <<a, b, c, d, e, f>>[i]
    OBVIOUS
  <2>4. QED
    BY <1>1, <2>1, <2>2, <2>3
<1>8. QED
  BY <1>2, <1>3, <1>4, <1>5, <1>6, <1>7

LEMMA ReadsHead ==
    ASSUME NEW r, NEW d, NEW v, NEW i, NEW a \in Byte, NEW b \in Byte, NEW y \in Bytes,
           At(r, d, "little", v, i, Join(One(a), Join(One(b), y)))
    PROVE  At(Read(r, <<U8, U8>>), d, "little", <<a, b>>, i, y)
<1>1. At(Start(r), d, "little", <<>>, i, Join(One(a), Join(One(b), y)))
  BY Starts
<1>2. At(ReadField(ReadField(Start(r), U8), U8), d, "little",
      Add(Add(<<>>, a), b), i, y)
  BY <1>1, ReadU8, Written, SMT
<1>3. Add(Add(<<>>, a), b) = <<a, b>>
  BY Adds
<1>4. QED
  BY <1>2, <1>3, Read2

LEMMA ReadsTwo ==
    ASSUME NEW r, NEW d, NEW v, NEW i, NEW a \in Word2, NEW b \in Word2, NEW y \in Bytes,
           At(r, d, "little", v, i, Join(LE(a, 2), Join(LE(b, 2), y)))
    PROVE  At(Read(r, <<U16, U16>>), d, "little", <<a, b>>, i, y)
<1>1. At(Start(r), d, "little", <<>>, i, Join(LE(a, 2), Join(LE(b, 2), y)))
  BY Starts
<1>2. At(ReadField(ReadField(Start(r), U16), U16), d, "little",
      Add(Add(<<>>, a), b), i, y)
  BY <1>1, ReadU16LE, Written, SMT
<1>3. Add(Add(<<>>, a), b) = <<a, b>>
  BY Adds
<1>4. QED
  BY <1>2, <1>3, Read2

LEMMA ReadsText ==
    ASSUME NEW r, NEW d, NEW v, NEW i, NEW a \in Bytes, NEW y \in Bytes,
           Len(a) + 1 \in Word2,
           At(r, d, "little", v, i, Join(NullString(a), y))
    PROVE  At(Read(r, <<NullStr>>), d, "little", <<a>>, i, y)
<1>1. At(Start(r), d, "little", <<>>, i, Join(NullString(a), y))
  BY Starts
<1>2. At(ReadField(Start(r), NullStr), d, "little",
      Add(<<>>, a), i, y)
  BY <1>1, ReadNullStr, Written, SMT
<1>3. Add(<<>>, a) = <<a>>
  BY Adds
<1>4. QED
  BY <1>2, <1>3, Read1

LEMMA ReadsTextAck ==
    ASSUME NEW r, NEW d, NEW v, NEW i, NEW a \in Bytes, NEW x \in Bytes, NEW k1, NEW y \in Bytes,
           Len(a) + 1 \in Word2, Len(x) = k1,
           At(r, d, "little", v, i, Join(NullString(a), Join(x, y)))
    PROVE  At(Read(r, <<NullStr, Skip(k1)>>), d, "little", <<a>>, i, y)
<1>1. At(Start(r), d, "little", <<>>, i, Join(NullString(a), Join(x, y)))
  BY Starts
<1>2. At(ReadField(ReadField(Start(r), NullStr), Skip(k1)), d, "little",
      Add(<<>>, a), i, y)
  BY <1>1, ReadNullStr, ReadSkips, Written, SMT
<1>3. Add(<<>>, a) = <<a>>
  BY Adds
<1>4. QED
  BY <1>2, <1>3, Read2

LEMMA ReadsColoured ==
    ASSUME NEW r, NEW d, NEW v, NEW i, NEW a \in Bytes, NEW b \in Word4, NEW c \in Word4, NEW y \in Bytes,
           Len(a) + 1 \in Word2,
           At(r, d, "little", v, i, Join(NullString(a), Join(LE(b, 4), Join(LE(c, 4), y))))
    PROVE  At(Read(r, <<NullStr, U32, U32>>), d, "little", <<a, b, c>>, i, y)
<1>1. At(Start(r), d, "little", <<>>, i, Join(NullString(a), Join(LE(b, 4), Join(LE(c, 4), y))))
  BY Starts
<1>2. At(ReadField(ReadField(ReadField(Start(r), NullStr), U32), U32), d, "little",
      Add(Add(Add(<<>>, a), b), c), i, y)
  BY <1>1, ReadNullStr, ReadU32LE, Written, SMT
<1>3. Add(Add(Add(<<>>, a), b), c) = <<a, b, c>>
  BY Adds
<1>4. QED
  BY <1>2, <1>3, Read3

LEMMA ReadsFT ==
    ASSUME NEW r, NEW d, NEW v, NEW i, NEW a \in Bytes, NEW b \in Word2, NEW x \in Bytes, NEW k1,
      NEW c \in Bytes, NEW e \in Word4, NEW g \in Word2, NEW z \in Bytes, NEW k2, NEW y \in Bytes,
           Len(a) + 1 \in Word2, Len(x) = k1, Len(c) + 1 \in Word2, Len(z) = k2,
           At(r, d, "little", v, i, Join(NullString(a), Join(LE(b, 2), Join(x, Join(NullString(c),
             Join(LE(e, 4), Join(LE(g, 2), Join(z, y))))))))
    PROVE  At(Read(r, <<NullStr, U16, Skip(k1), NullStr, U32, U16, Skip(k2)>>), d, "little", <<a, b, c, e,
           g>>, i, y)
<1>1. At(Start(r), d, "little", <<>>, i, Join(NullString(a), Join(LE(b, 2), Join(x, Join(NullString(c),
      Join(LE(e, 4), Join(LE(g, 2), Join(z, y))))))))
  BY Starts
<1>2. At(ReadField(ReadField(ReadField(ReadField(ReadField(ReadField(ReadField(Start(r), NullStr), U16),
      Skip(k1)), NullStr), U32), U16), Skip(k2)), d, "little",
      Add(Add(Add(Add(Add(<<>>, a), b), c), e), g), i, y)
  BY <1>1, ReadNullStr, ReadSkips, ReadU16LE, ReadU32LE, Written, SMT
<1>3. Add(Add(Add(Add(Add(<<>>, a), b), c), e), g) = <<a, b, c, e, g>>
  BY Adds
<1>4. QED
  BY <1>2, <1>3, Read7

LEMMA ReadsPacket6 ==
    ASSUME NEW r, NEW d, NEW v, NEW i, NEW a \in Word2, NEW x \in Bytes, NEW k1, NEW b \in Word2,
      NEW c \in Word2, NEW e \in Word2, NEW z \in Bytes, NEW k2, NEW y \in Bytes,
           Len(x) = k1, Len(z) = k2,
           At(r, d, "big", v, i, Join(LE(a, 2), Join(x, Join(LE(b, 2), Join(LE(c, 2), Join(LE(e, 2),
             Join(z, y)))))))
    PROVE  At(Read(r, <<Little, U16, Skip(k1), U16, U16, U16, Skip(k2)>>), d, "little", <<a, b, c, e>>, i, y)
<1>1. At(Start(r), d, "big", <<>>, i, Join(LE(a, 2), Join(x, Join(LE(b, 2), Join(LE(c, 2), Join(LE(e, 2),
      Join(z, y)))))))
  BY Starts
<1>2. At(ReadField(ReadField(ReadField(ReadField(ReadField(ReadField(ReadField(Start(r), Little), U16),
      Skip(k1)), U16), U16), U16), Skip(k2)), d, "little",
      Add(Add(Add(Add(<<>>, a), b), c), e), i, y)
  BY <1>1, ReadLittle, ReadSkips, ReadU16LE, Written, SMT
<1>3. Add(Add(Add(Add(<<>>, a), b), c), e) = <<a, b, c, e>>
  BY Adds
<1>4. QED
  BY <1>2, <1>3, Read7, SMTT(30)

LEMMA ReadsPacket7 ==
    ASSUME NEW r, NEW d, NEW v, NEW i, NEW a \in Word2, NEW g \in Byte, NEW x \in Bytes, NEW k1,
      NEW b \in Word2, NEW c \in Word2, NEW e \in Word2, NEW z \in Bytes, NEW k2, NEW y \in Bytes,
           Len(x) = k1, Len(z) = k2,
           At(r, d, "big", v, i, Join(LE(a, 2), Join(One(g), Join(x, Join(LE(b, 2), Join(LE(c, 2),
             Join(LE(e, 2), Join(z, y))))))))
    PROVE  At(Read(r, <<Little, U16, U8, Skip(k1), U16, U16, U16, Skip(k2)>>), d, "little", <<a, g, b, c,
           e>>, i, y)
<1>1. At(Start(r), d, "big", <<>>, i, Join(LE(a, 2), Join(One(g), Join(x, Join(LE(b, 2), Join(LE(c, 2),
      Join(LE(e, 2), Join(z, y))))))))
  BY Starts
<1>2. At(ReadField(ReadField(ReadField(ReadField(ReadField(ReadField(ReadField(ReadField(Start(r), Little),
      U16), U8), Skip(k1)), U16), U16), U16), Skip(k2)), d, "little",
      Add(Add(Add(Add(Add(<<>>, a), g), b), c), e), i, y)
  BY <1>1, ReadLittle, ReadSkips, ReadU16LE, ReadU8, Written, SMT
<1>3. Add(Add(Add(Add(Add(<<>>, a), g), b), c), e) = <<a, g, b, c, e>>
  BY Adds
<1>4. QED
  BY <1>2, <1>3, Read8

LEMMA ReadsSent ==
    ASSUME NEW r, NEW d, NEW v, NEW i, NEW x \in Bytes, NEW k1, NEW a \in Word2, NEW b \in Bytes,
      NEW y \in Bytes,
           Len(x) = k1, Len(b) < 256,
           At(r, d, "big", v, i, Join(x, Join(BE(a, 2), Join(ByteString(b), y))))
    PROVE  At(Read(r, <<Str(k1), U16, ByteStr>>), d, "big", <<x, a, b>>, i, y)
<1>1. At(Start(r), d, "big", <<>>, i, Join(x, Join(BE(a, 2), Join(ByteString(b), y))))
  BY Starts
<1>2. At(ReadField(ReadField(ReadField(Start(r), Str(k1)), U16), ByteStr), d, "big",
      Add(Add(Add(<<>>, x), a), b), i, y)
  BY <1>1, ReadAll, ReadByteStr, ReadU16BE, Written, SMT
<1>3. Add(Add(Add(<<>>, x), a), b) = <<x, a, b>>
  BY Adds
<1>4. QED
  BY <1>2, <1>3, Read3

LEMMA ReadsAckSent ==
    ASSUME NEW r, NEW d, NEW v, NEW i, NEW x \in Bytes, NEW k1, NEW b \in Bytes, NEW y \in Bytes,
           Len(x) = k1, Len(b) < 256,
           At(r, d, "big", v, i, Join(x, Join(ByteString(b), y)))
    PROVE  At(Read(r, <<Str(k1), ByteStr>>), d, "big", <<x, b>>, i, y)
<1>1. At(Start(r), d, "big", <<>>, i, Join(x, Join(ByteString(b), y)))
  BY Starts
<1>2. At(ReadField(ReadField(Start(r), Str(k1)), ByteStr), d, "big",
      Add(Add(<<>>, x), b), i, y)
  BY <1>1, ReadAll, ReadByteStr, Written, SMT
<1>3. Add(Add(<<>>, x), b) = <<x, b>>
  BY Adds
<1>4. QED
  BY <1>2, <1>3, Read2

LEMMA ReadsSNAC ==
    ASSUME NEW r, NEW d, NEW v, NEW i, NEW a \in Word2, NEW b \in Word2, NEW c \in Word2, NEW e \in Word4,
      NEW y \in Bytes,
           At(r, d, "big", v, i, Join(BE(a, 2), Join(BE(b, 2), Join(BE(c, 2), Join(BE(e, 4), y)))))
    PROVE  At(Read(r, <<U16, U16, U16, U32>>), d, "big", <<a, b, c, e>>, i, y)
<1>1. At(Start(r), d, "big", <<>>, i, Join(BE(a, 2), Join(BE(b, 2), Join(BE(c, 2), Join(BE(e, 4), y)))))
  BY Starts
<1>2. At(ReadField(ReadField(ReadField(ReadField(Start(r), U16), U16), U16), U32), d, "big",
      Add(Add(Add(Add(<<>>, a), b), c), e), i, y)
  BY <1>1, ReadU16BE, ReadU32BE, Written, SMT
<1>3. Add(Add(Add(Add(<<>>, a), b), c), e) = <<a, b, c, e>>
  BY Adds
<1>4. QED
  BY <1>2, <1>3, Read4

LEMMA ReadsFLAP ==
    ASSUME NEW r, NEW d, NEW v, NEW i, NEW a \in Byte, NEW b \in Byte, NEW c \in Word2, NEW e \in Word2,
      NEW y \in Bytes,
           At(r, d, "big", v, i, Join(One(a), Join(One(b), Join(BE(c, 2), Join(BE(e, 2), y)))))
    PROVE  At(Read(r, <<U8, U8, U16, U16>>), d, "big", <<a, b, c, e>>, i, y)
<1>1. At(Start(r), d, "big", <<>>, i, Join(One(a), Join(One(b), Join(BE(c, 2), Join(BE(e, 2), y)))))
  BY Starts
<1>2. At(ReadField(ReadField(ReadField(ReadField(Start(r), U8), U8), U16), U16), d, "big",
      Add(Add(Add(Add(<<>>, a), b), c), e), i, y)
  BY <1>1, ReadU16BE, ReadU8, Written, SMT
<1>3. Add(Add(Add(Add(<<>>, a), b), c), e) = <<a, b, c, e>>
  BY Adds
<1>4. QED
  BY <1>2, <1>3, Read4

LEMMA ReadsMessage ==
    ASSUME NEW r, NEW d, NEW v, NEW i, NEW a \in Word4, NEW x \in Bytes, NEW k1, NEW b \in Word2,
      NEW y \in Bytes,
           Len(x) = k1,
           At(r, d, "big", v, i, Join(BE(a, 4), Join(x, Join(BE(b, 2), y))))
    PROVE  At(Read(r, <<U32, Skip(k1), U16>>), d, "big", <<a, b>>, i, y)
<1>1. At(Start(r), d, "big", <<>>, i, Join(BE(a, 4), Join(x, Join(BE(b, 2), y))))
  BY Starts
<1>2. At(ReadField(ReadField(ReadField(Start(r), U32), Skip(k1)), U16), d, "big",
      Add(Add(<<>>, a), b), i, y)
  BY <1>1, ReadSkips, ReadU16BE, ReadU32BE, Written, SMT
<1>3. Add(Add(<<>>, a), b) = <<a, b>>
  BY Adds
<1>4. QED
  BY <1>2, <1>3, Read3

LEMMA ReadsUser ==
    ASSUME NEW r, NEW d, NEW v, NEW i, NEW a \in Bytes, NEW b \in Word2, NEW c \in Word2, NEW y \in Bytes,
           Len(a) < 256,
           At(r, d, "big", v, i, Join(ByteString(a), Join(BE(b, 2), Join(BE(c, 2), y))))
    PROVE  At(Read(r, <<ByteStr, U16, U16>>), d, "big", <<a, b, c>>, i, y)
<1>1. At(Start(r), d, "big", <<>>, i, Join(ByteString(a), Join(BE(b, 2), Join(BE(c, 2), y))))
  BY Starts
<1>2. At(ReadField(ReadField(ReadField(Start(r), ByteStr), U16), U16), d, "big",
      Add(Add(Add(<<>>, a), b), c), i, y)
  BY <1>1, ReadByteStr, ReadU16BE, Written, SMT
<1>3. Add(Add(Add(<<>>, a), b), c) = <<a, b, c>>
  BY Adds
<1>4. QED
  BY <1>2, <1>3, Read3

LEMMA ReadsBig ==
    ASSUME NEW r, NEW d, NEW v, NEW i, NEW a \in Word2, NEW y \in Bytes,
           At(r, d, "big", v, i, Join(BE(a, 2), y))
    PROVE  At(Read(r, <<U16>>), d, "big", <<a>>, i, y)
<1>1. At(Start(r), d, "big", <<>>, i, Join(BE(a, 2), y))
  BY Starts
<1>2. At(ReadField(Start(r), U16), d, "big",
      Add(<<>>, a), i, y)
  BY <1>1, ReadU16BE, Written, SMT
<1>3. Add(<<>>, a) = <<a>>
  BY Adds
<1>4. QED
  BY <1>2, <1>3, Read1

LEMMA ReadsLittle ==
    ASSUME NEW r, NEW d, NEW v, NEW i, NEW a \in Word2, NEW y \in Bytes,
           At(r, d, "little", v, i, Join(LE(a, 2), y))
    PROVE  At(Read(r, <<U16>>), d, "little", <<a>>, i, y)
<1>1. At(Start(r), d, "little", <<>>, i, Join(LE(a, 2), y))
  BY Starts
<1>2. At(ReadField(Start(r), U16), d, "little",
      Add(<<>>, a), i, y)
  BY <1>1, ReadU16LE, Written, SMT
<1>3. Add(<<>>, a) = <<a>>
  BY Adds
<1>4. QED
  BY <1>2, <1>3, Read1

LEMMA ReadsMessageText ==
    ASSUME NEW r, NEW d, NEW v, NEW i, NEW a \in Word2, NEW b \in Word2, NEW c \in Word2, NEW x \in Bytes,
      NEW y \in Bytes,
           At(r, d, "big", v, i, Join(BE(a, 2), Join(BE(b, 2), Join(BE(c, 2), Join(x, y)))))
    PROVE  At(Read(r, <<U16, U16, U16, Str(Len(x))>>), d, "big", <<a, b, c, x>>, i, y)
<1>1. At(Start(r), d, "big", <<>>, i, Join(BE(a, 2), Join(BE(b, 2), Join(BE(c, 2), Join(x, y)))))
  BY Starts
<1>2. At(ReadField(ReadField(ReadField(ReadField(Start(r), U16), U16), U16), Str(Len(x))), d, "big",
      Add(Add(Add(Add(<<>>, a), b), c), x), i, y)
  BY <1>1, ReadAll, ReadU16BE, Written, SMT
<1>3. Add(Add(Add(Add(<<>>, a), b), c), x) = <<a, b, c, x>>
  BY Adds
<1>4. QED
  BY <1>2, <1>3, Read4

LEMMA ReadsData ==
    ASSUME NEW r, NEW d, NEW v, NEW i, NEW a \in Word2, NEW b \in Word4, NEW y \in Bytes,
           At(r, d, "big", v, i, Join(BE(a, 2), Join(LE(b, 4), y)))
    PROVE  At(Read(r, <<U16, Little, U32>>), d, "little", <<a, b>>, i, y)
<1>1. At(Start(r), d, "big", <<>>, i, Join(BE(a, 2), Join(LE(b, 4), y)))
  BY Starts
<1>2. At(ReadField(ReadField(ReadField(Start(r), U16), Little), U32), d, "little",
      Add(Add(<<>>, a), b), i, y)
  BY <1>1, ReadLittle, ReadU16BE, ReadU32LE, Written, SMT
<1>3. Add(Add(<<>>, a), b) = <<a, b>>
  BY Adds
<1>4. QED
  BY <1>2, <1>3, Read3

LEMMA ReadsAdvBody ==
    ASSUME NEW r, NEW d, NEW v, NEW i, NEW a \in Word2, NEW x \in Bytes, NEW k1, NEW b \in Word2,
      NEW c \in Word2, NEW e \in Word2, NEW z \in Bytes, NEW k2, NEW y \in Bytes,
           Len(x) = k1, Len(z) = k2,
           At(r, d, "big", v, i, Join(BE(a, 2), Join(x, Join(LE(b, 2), Join(LE(c, 2), Join(LE(e, 2),
             Join(z, y)))))))
    PROVE  At(Read(r, <<U16, Skip(k1), Little, U16, U16, U16, Skip(k2)>>), d, "little", <<a, b, c, e>>, i, y)
<1>1. At(Start(r), d, "big", <<>>, i, Join(BE(a, 2), Join(x, Join(LE(b, 2), Join(LE(c, 2), Join(LE(e, 2),
      Join(z, y)))))))
  BY Starts
<1>2. At(ReadField(ReadField(ReadField(ReadField(ReadField(ReadField(ReadField(Start(r), U16), Skip(k1)),
      Little), U16), U16), U16), Skip(k2)), d, "little",
      Add(Add(Add(Add(<<>>, a), b), c), e), i, y)
  BY <1>1, ReadLittle, ReadSkips, ReadU16BE, ReadU16LE, Written, SMT
<1>3. Add(Add(Add(Add(<<>>, a), b), c), e) = <<a, b, c, e>>
  BY Adds
<1>4. QED
  BY <1>2, <1>3, Read7, SMTT(30)

LEMMA ReadsAdvData ==
    ASSUME NEW r, NEW d, NEW v, NEW i, NEW a \in Word2, NEW b \in Word2, NEW x \in Bytes, NEW k1,
      NEW z \in Bytes, NEW k2, NEW y \in Bytes,
           Len(x) = k1, Len(z) = k2,
           At(r, d, "big", v, i, Join(BE(a, 2), Join(BE(b, 2), Join(x, Join(z, y)))))
    PROVE  At(Read(r, <<U16, U16, Skip(k1), Skip(k2)>>), d, "big", <<a, b>>, i, y)
<1>1. At(Start(r), d, "big", <<>>, i, Join(BE(a, 2), Join(BE(b, 2), Join(x, Join(z, y)))))
  BY Starts
<1>2. At(ReadField(ReadField(ReadField(ReadField(Start(r), U16), U16), Skip(k1)), Skip(k2)), d, "big",
      Add(Add(<<>>, a), b), i, y)
  BY <1>1, ReadSkips, ReadU16BE, Written, SMT
<1>3. Add(Add(<<>>, a), b) = <<a, b>>
  BY Adds
<1>4. QED
  BY <1>2, <1>3, Read4

LEMMA ReadsAck ==
    ASSUME NEW r, NEW d, NEW v, NEW i, NEW a \in Word4, NEW x \in Bytes, NEW k1, NEW b \in Word2,
      NEW c \in Bytes, NEW z \in Bytes, NEW k2, NEW e \in Word2, NEW y \in Bytes,
           Len(x) = k1, Len(c) < 256, Len(z) = k2,
           At(r, d, "big", v, i, Join(BE(a, 4), Join(x, Join(BE(b, 2), Join(ByteString(c), Join(z,
             Join(LE(e, 2), y)))))))
    PROVE  At(Read(r, <<U32, Skip(k1), U16, ByteStr, Skip(k2), Little, U16>>), d, "little", <<a, b, c, e>>,
           i, y)
<1>1. At(Start(r), d, "big", <<>>, i, Join(BE(a, 4), Join(x, Join(BE(b, 2), Join(ByteString(c), Join(z,
      Join(LE(e, 2), y)))))))
  BY Starts
<1>2. At(ReadField(ReadField(ReadField(ReadField(ReadField(ReadField(ReadField(Start(r), U32), Skip(k1)),
      U16), ByteStr), Skip(k2)), Little), U16), d, "little",
      Add(Add(Add(Add(<<>>, a), b), c), e), i, y)
  BY <1>1, ReadByteStr, ReadLittle, ReadSkips, ReadU16BE, ReadU16LE, ReadU32BE, Written, SMT
<1>3. Add(Add(Add(Add(<<>>, a), b), c), e) = <<a, b, c, e>>
  BY Adds
<1>4. Read(r, <<U32, Skip(k1), U16, ByteStr, Skip(k2), Little,
      U16>>) = ReadField(ReadField(ReadField(ReadField(ReadField(ReadField(ReadField(Start(r), U32),
        Skip(k1)), U16), ByteStr), Skip(k2)), Little), U16)
  BY Read7
<1>5. QED
  BY <1>2, <1>3, <1>4

LEMMA ReadsResponse ==
    ASSUME NEW r, NEW d, NEW v, NEW i, NEW a \in Word2, NEW b \in Word2, NEW c \in Word2, NEW e \in Word4,
      NEW g \in Word2, NEW h \in Word2, NEW y \in Bytes,
           At(r, d, "big", v, i, Join(BE(a, 2), Join(BE(b, 2), Join(LE(c, 2), Join(LE(e, 4), Join(LE(g, 2),
             Join(LE(h, 2), y)))))))
    PROVE  At(Read(r, <<U16, U16, Little, U16, U32, U16, U16>>), d, "little", <<a, b, c, e, g, h>>, i, y)
<1>1. At(Start(r), d, "big", <<>>, i, Join(BE(a, 2), Join(BE(b, 2), Join(LE(c, 2), Join(LE(e, 4),
      Join(LE(g, 2), Join(LE(h, 2), y)))))))
  BY Starts
<1>2. At(ReadField(ReadField(ReadField(ReadField(ReadField(ReadField(ReadField(Start(r), U16), U16),
      Little), U16), U32), U16), U16), d, "little",
      Add(Add(Add(Add(Add(Add(<<>>, a), b), c), e), g), h), i, y)
  BY <1>1, ReadLittle, ReadU16BE, ReadU16LE, ReadU32LE, Written, SMT
<1>3. Add(Add(Add(Add(Add(Add(<<>>, a), b), c), e), g), h) = <<a, b, c, e, g, h>>
  BY Adds
<1>4. QED
  BY <1>2, <1>3, Read7

LEMMA ReadsStored ==
    ASSUME NEW r, NEW d, NEW v, NEW i, NEW a \in Word4, NEW b \in Word2, NEW c \in Byte, NEW e \in Byte,
      NEW g \in Byte, NEW h \in Byte, NEW y \in Bytes,
           At(r, d, "little", v, i, Join(LE(a, 4), Join(LE(b, 2), Join(One(c), Join(One(e), Join(One(g),
             Join(One(h), y)))))))
    PROVE  At(Read(r, <<U32, U16, U8, U8, U8, U8>>), d, "little", <<a, b, c, e, g, h>>, i, y)
<1>1. At(Start(r), d, "little", <<>>, i, Join(LE(a, 4), Join(LE(b, 2), Join(One(c), Join(One(e),
      Join(One(g), Join(One(h), y)))))))
  BY Starts
<1>2. At(ReadField(ReadField(ReadField(ReadField(ReadField(ReadField(Start(r), U32), U16), U8), U8), U8),
      U8), d, "little",
      Add(Add(Add(Add(Add(Add(<<>>, a), b), c), e), g), h), i, y)
  BY <1>1, ReadU16LE, ReadU32LE, ReadU8, Written, SMT
<1>3. Add(Add(Add(Add(Add(Add(<<>>, a), b), c), e), g), h) = <<a, b, c, e, g, h>>
  BY Adds
<1>4. QED
  BY <1>2, <1>3, Read6

LEMMA ReadsChannel4 ==
    ASSUME NEW r, NEW d, NEW v, NEW i, NEW a \in Word2, NEW b \in Word2, NEW x \in Bytes, NEW z \in Bytes,
      NEW n \in Nat,
           Len(x) = 4, Len(z) <= n,
           At(r, d, "big", v, i, Join(BE(a, 2), Join(BE(b, 2), Join(x, z))))
    PROVE  \E w : At(Read(r, <<U16, U16, U32, Str(n)>>), d, "big", <<a, b, w, z>>, i, <<>>)
<1>1. At(Start(r), d, "big", <<>>, i, Join(BE(a, 2), Join(BE(b, 2), Join(x, z))))
  BY Starts
<1>2. \E w : At(ReadField(ReadField(ReadField(ReadField(Start(r), U16), U16), U32), Str(n)), d, "big",
      Add(Add(Add(Add(<<>>, a), b), w), z), i, <<>>)
  BY <1>1, ReadAny4, ReadEnd, ReadU16BE, Written, SMT
<1>3. \A w : Add(Add(Add(Add(<<>>, a), b), w), z) = <<a, b, w, z>>
  BY Adds
<1>4. QED
  BY <1>2, <1>3, Read4

LEMMA ReadsChannel1 ==
    ASSUME NEW r, NEW d, NEW v, NEW i, NEW a \in Word2, NEW x \in Bytes, NEW k1, NEW xx \in Bytes, NEW k2,
      NEW b \in Word2, NEW c \in Word2, NEW xxx \in Bytes, NEW k3, NEW z \in Bytes, NEW n \in Nat,
           Len(x) = k1, Len(xx) = k2, Len(xxx) = k3, Len(z) <= n,
           At(r, d, "big", v, i, Join(BE(a, 2), Join(x, Join(xx, Join(BE(b, 2), Join(BE(c, 2), Join(xxx,
             z)))))))
    PROVE  At(Read(r, <<U16, Skip(k1), Skip(k2), U16, U16, Skip(k3), Str(n)>>), d, "big", <<a, b, c, z>>,
           i, <<>>)
<1>1. At(Start(r), d, "big", <<>>, i, Join(BE(a, 2), Join(x, Join(xx, Join(BE(b, 2), Join(BE(c, 2),
      Join(xxx, z)))))))
  BY Starts
<1>2. At(ReadField(ReadField(ReadField(ReadField(ReadField(ReadField(ReadField(Start(r), U16), Skip(k1)),
      Skip(k2)), U16), U16), Skip(k3)), Str(n)), d, "big",
      Add(Add(Add(Add(<<>>, a), b), c), z), i, <<>>)
  BY <1>1, ReadEnd, ReadSkips, ReadU16BE, Written, SMT
<1>3. Add(Add(Add(Add(<<>>, a), b), c), z) = <<a, b, c, z>>
  BY Adds
<1>4. QED
  BY <1>2, <1>3, Read7

-----------------------------------------------------------------------------
(* ICQ subtypes: what a parser finds after its head.                         *)

LEMMA Seen ==
    ASSUME NEW r, NEW d, NEW o, NEW v, NEW i, NEW x, At(r, d, o, v, i, x)
    PROVE  /\ r.v = v /\ r.ist = i /\ r.order = o /\ r.data = d /\ r.pos \in 0 .. Len(d)
           /\ Rest(d, r.pos) = x /\ r = Rd(d, r.pos, o, v, i) /\ d \in Bytes /\ x \in Bytes
<1>1. PICK p \in 0 .. Len(d) : r = Rd(d, p, o, v, i) /\ Rest(d, p) = x
  BY DEF At
<1>2. r.v = v /\ r.ist = i /\ r.order = o /\ r.data = d /\ r.pos = p
  BY <1>1, Steps
<1>3. QED
  BY <1>1, <1>2 DEF At

LEMMA Finds ==
    ASSUME NEW r, NEW d, NEW o, NEW v, NEW i, NEW x, At(r, d, o, v, i, x), NEW j, NEW w
    PROVE  /\ At([r EXCEPT !.ist = j], d, o, v, j, x)
           /\ At([r EXCEPT !.v = w], d, o, w, i, x)
<1>1. PICK p \in 0 .. Len(d) : r = Rd(d, p, o, v, i) /\ Rest(d, p) = x
  BY DEF At
<1>2. [r EXCEPT !.ist = j] = Rd(d, p, o, v, j) /\ [r EXCEPT !.v = w] = Rd(d, p, o, w, i)
  BY <1>1 DEF Rd
<1>3. QED
  BY <1>1, <1>2 DEF At

\* The subtype of a body that gave the values v.
Parsed(t, v, s, p, advanced, ack) ==
    LET fields == CASE t = Type.FT -> <<v[1], v[3]>>
                    [] t # Type.FT /\ ack -> <<>>
                    [] OTHER -> Fields(t, v[1])
        ist == [Subtype(t, fields) EXCEPT
                    !.status = s, !.advanced = advanced, !.ack = ack,
                    !.away = IF ack /\ t # Type.FT THEN v[1] ELSE <<>>,
                    !.numbers = IF t = Type.FT THEN <<v[5], v[2], v[4]>> ELSE @]
    IN  ParsePriority(ist, p)

LEMMA Subtypes ==
    ASSUME NEW b, NEW d, NEW o, NEW v, NEW i, NEW x, At(b, d, o, v, i, x),
           NEW t, NEW s, NEW p, NEW advanced, NEW ack
    PROVE  At(WithSubtype(b, t, s, p, advanced, ack), d, o, v, Parsed(t, v, s, p, advanced, ack), x)
<1>1. b.v = v
  BY Seen
<1>2. WithSubtype(b, t, s, p, advanced, ack) = [b EXCEPT !.ist = Parsed(t, b.v, s, p, advanced, ack)]
  BY DEF WithSubtype, Parsed
<1>3. PICK j : j = Parsed(t, v, s, p, advanced, ack)
  OBVIOUS
<1>4. At([b EXCEPT !.ist = j], d, o, v, j, x)
  BY Finds
<1>5. QED
  BY <1>1, <1>2, <1>3, <1>4

\* The parser r is at the body of a subtype, z, having read its type, status and priority.
AtBody(r, d, i, t, s, p, advanced, ack, z) ==
    \E h : /\ At(h, d, "little", <<s, p>>, i, z)
           /\ ParseICQSubType(r, advanced, ack) =
                 WithSubtype(Read(h, BodyLayout(t, advanced, ack)), t, s, p, advanced, ack)

LEMMA ParsesAdvanced ==
    ASSUME NEW r, NEW d, NEW v, NEW i, NEW t \in Types, t \in Byte, NEW f \in Byte, NEW s \in Word2,
           NEW p \in Word2, NEW z \in Bytes, NEW ack,
           At(r, d, "little", v, i, Join(One(t), Join(One(f), Join(LE(s, 2), Join(LE(p, 2), z)))))
    PROVE  AtBody(r, d, i, t, s, p, TRUE, ack, z)
<1> DEFINE z2 == Join(LE(p, 2), z)
           z1 == Join(LE(s, 2), z2)
           h0 == Read(r, <<U8, U8>>)
           h == Read(h0, <<U16, U16>>)
<1>1. z2 \in Bytes /\ z1 \in Bytes
  BY Written, SMT
<1>2. At(h0, d, "little", <<t, f>>, i, z1)
  BY <1>1, ReadsHead
<1>3. At(h, d, "little", <<s, p>>, i, z)
  BY <1>2, ReadsTwo
<1>4. ParseICQSubType(r, TRUE, ack) = ParseAfter(h0, TRUE, ack)
  BY DEF ParseICQSubType
<1> HIDE DEF h0
<1>5. h0.v = <<t, f>>
  BY <1>2, Seen
<1>6. h0.v[1] = t
  BY <1>5
<1>7. ParseAfter(h0, TRUE, ack) = ParseBody(h, t, TRUE, ack)
  BY <1>6 DEF ParseAfter
<1> HIDE DEF h
<1>8. h.v = <<s, p>>
  BY <1>3, Seen
<1>9. h.v[1] = s /\ h.v[2] = p
  BY <1>8
<1>10. ParseBody(h, t, TRUE, ack) = WithSubtype(Read(h, BodyLayout(t, TRUE, ack)), t, s, p, TRUE, ack)
  BY <1>9 DEF ParseBody
<1>11. QED
  BY <1>3, <1>4, <1>7, <1>10 DEF AtBody

LEMMA ParsesPlain ==
    ASSUME NEW r, NEW d, NEW v, NEW i, NEW t \in Types, t \in Byte, NEW f \in Byte, NEW z \in Bytes,
           At(r, d, "little", v, i, Join(One(t), Join(One(f), z)))
    PROVE  AtBody(r, d, i, t, 0, 0, FALSE, FALSE, z)
<1> DEFINE h0 == Read(r, <<U8, U8>>)
           h == [h0 EXCEPT !.v = <<0, 0>>]
<1>2. At(h0, d, "little", <<t, f>>, i, z)
  BY ReadsHead
<1>4. ParseICQSubType(r, FALSE, FALSE) = ParseAfter(h0, FALSE, FALSE)
  BY DEF ParseICQSubType
<1> HIDE DEF h0
<1>3. At(h, d, "little", <<0, 0>>, i, z)
  BY <1>2, Finds
<1>5. h0.v = <<t, f>>
  BY <1>2, Seen
<1>6. h0.v[1] = t
  BY <1>5
<1>7. ParseAfter(h0, FALSE, FALSE) = ParseBody(h, t, FALSE, FALSE)
  BY <1>6 DEF ParseAfter
<1> HIDE DEF h
<1>8. h.v = <<0, 0>>
  BY <1>3, Seen
<1>9. h.v[1] = 0 /\ h.v[2] = 0
  BY <1>8
<1>10. ParseBody(h, t, FALSE, FALSE) = WithSubtype(Read(h, BodyLayout(t, FALSE, FALSE)), t, 0, 0, FALSE, FALSE)
  BY <1>9 DEF ParseBody
<1>11. QED
  BY <1>3, <1>4, <1>7, <1>10 DEF AtBody

\* The body x, read with this layout, gives the values vv; the bytes x hold the subtype j.
Gives(layout, x, vv) ==
    x \in Bytes /\ \A r, d, v, i : \A y \in Bytes :
        At(r, d, "little", v, i, Join(x, y)) => At(Read(r, layout), d, "little", vv, i, y)
Holds(x, advanced, ack, j) ==
    x \in Bytes /\ \A r, d, v, i : \A y \in Bytes :
        At(r, d, "little", v, i, Join(x, y)) =>
            \E w : At(ParseICQSubType(r, advanced, ack), d, "little", w, j, y)

LEMMA GivesText ==
    ASSUME NEW a \in Bytes, Len(a) + 1 \in Word2
    PROVE  Gives(<<NullStr>>, NullString(a), <<a>>)
  BY ReadsText, Written DEF Gives

LEMMA GivesTextAck ==
    ASSUME NEW a \in Bytes, Len(a) + 1 \in Word2, NEW x \in Bytes, Len(x) = 8
    PROVE  Gives(<<NullStr, Skip(8)>>, Join(NullString(a), x), <<a>>)
<1>1. NullString(a) \in Bytes /\ Join(NullString(a), x) \in Bytes
  BY Written
<1>2. ASSUME NEW r, NEW d, NEW v, NEW i, NEW y \in Bytes,
             At(r, d, "little", v, i, Join(Join(NullString(a), x), y))
      PROVE  At(Read(r, <<NullStr, Skip(8)>>), d, "little", <<a>>, i, y)
  <2>1. At(r, d, "little", v, i, Join(NullString(a), Join(x, y)))
    BY <1>1, <1>2, JoinIs
  <2>2. QED
    BY <2>1, ReadsTextAck
<1>3. QED
  BY <1>1, <1>2 DEF Gives

LEMMA GivesColoured ==
    ASSUME NEW a \in Bytes, Len(a) + 1 \in Word2, NEW b \in Word4, NEW c \in Word4
    PROVE  Gives(<<NullStr, U32, U32>>, Join(NullString(a), Join(LE(b, 4), LE(c, 4))), <<a, b, c>>)
<1>1. /\ NullString(a) \in Bytes /\ LE(b, 4) \in Bytes /\ LE(c, 4) \in Bytes
      /\ Join(LE(b, 4), LE(c, 4)) \in Bytes /\ Join(NullString(a), Join(LE(b, 4), LE(c, 4))) \in Bytes
  BY Written
<1>2. ASSUME NEW r, NEW d, NEW v, NEW i, NEW y \in Bytes,
             At(r, d, "little", v, i, Join(Join(NullString(a), Join(LE(b, 4), LE(c, 4))), y))
      PROVE  At(Read(r, <<NullStr, U32, U32>>), d, "little", <<a, b, c>>, i, y)
  <2>1. At(r, d, "little", v, i, Join(NullString(a), Join(LE(b, 4), Join(LE(c, 4), y))))
    BY <1>1, <1>2, JoinIs
  <2>2. QED
    BY <2>1, ReadsColoured
<1>3. QED
  BY <1>1, <1>2 DEF Gives

LEMMA GivesFT ==
    ASSUME NEW a \in Bytes, Len(a) + 1 \in Word2, NEW b \in Word2, NEW x \in Bytes, Len(x) = 2,
           NEW c \in Bytes, Len(c) + 1 \in Word2, NEW e \in Word4, NEW g \in Word2, NEW z \in Bytes, Len(z) = 2
    PROVE  Gives(FTLayout,
                 Join(NullString(a), Join(LE(b, 2), Join(x, Join(NullString(c),
                     Join(LE(e, 4), Join(LE(g, 2), z)))))), <<a, b, c, e, g>>)
<1> DEFINE z6 == Join(LE(g, 2), z)
           z5 == Join(LE(e, 4), z6)
           z4 == Join(NullString(c), z5)
           z3 == Join(x, z4)
           z2 == Join(LE(b, 2), z3)
           z1 == Join(NullString(a), z2)
<1>1. /\ NullString(a) \in Bytes /\ LE(b, 2) \in Bytes /\ NullString(c) \in Bytes /\ LE(e, 4) \in Bytes
      /\ LE(g, 2) \in Bytes
      /\ z6 \in Bytes /\ z5 \in Bytes /\ z4 \in Bytes /\ z3 \in Bytes /\ z2 \in Bytes /\ z1 \in Bytes
  BY Written, SMT
<1>2. ASSUME NEW r, NEW d, NEW v, NEW i, NEW y \in Bytes, At(r, d, "little", v, i, Join(z1, y))
      PROVE  At(Read(r, FTLayout), d, "little", <<a, b, c, e, g>>, i, y)
  <2>1. At(r, d, "little", v, i, Join(NullString(a), Join(LE(b, 2), Join(x, Join(NullString(c),
                     Join(LE(e, 4), Join(LE(g, 2), Join(z, y))))))))
    BY <1>1, <1>2, JoinIs, SMT
  <2>2. At(Read(r, <<NullStr, U16, Skip(2), NullStr, U32, U16, Skip(2)>>), d, "little", <<a, b, c, e, g>>, i, y)
    BY <2>1, ReadsFT
  <2>3. QED
    BY <2>2 DEF FTLayout
<1>3. QED
  BY <1>1, <1>2 DEF Gives

LEMMA HoldsAdvanced ==
    ASSUME NEW t \in Types, t \in Byte, NEW f \in Byte, NEW s \in Word2, NEW p \in Word2, NEW ack,
           NEW x, NEW vv, Gives(BodyLayout(t, TRUE, ack), x, vv)
    PROVE  Holds(Join(One(t), Join(One(f), Join(LE(s, 2), Join(LE(p, 2), x)))), TRUE, ack,
                 Parsed(t, vv, s, p, TRUE, ack))
<1> DEFINE z3 == Join(LE(p, 2), x)
           z2 == Join(LE(s, 2), z3)
           z1 == Join(One(f), z2)
           z == Join(One(t), z1)
<1>1. /\ x \in Bytes /\ One(t) \in Bytes /\ One(f) \in Bytes /\ LE(s, 2) \in Bytes /\ LE(p, 2) \in Bytes
      /\ z3 \in Bytes /\ z2 \in Bytes /\ z1 \in Bytes /\ z \in Bytes
  <2>1. x \in Bytes
    BY DEF Gives
  <2>2. QED
    BY <2>1, Written, SMT
<1>2. ASSUME NEW r, NEW d, NEW v, NEW i, NEW y \in Bytes, At(r, d, "little", v, i, Join(z, y))
      PROVE  \E w : At(ParseICQSubType(r, TRUE, ack), d, "little", w, Parsed(t, vv, s, p, TRUE, ack), y)
  <2>1. At(r, d, "little", v, i, Join(One(t), Join(One(f), Join(LE(s, 2), Join(LE(p, 2), Join(x, y))))))
    BY <1>1, <1>2, JoinIs, SMT
  <2>2. Join(x, y) \in Bytes
    BY <1>1, Written
  <2> DEFINE u == Join(x, y)
  <2>7. u \in Bytes /\ At(r, d, "little", v, i, Join(One(t), Join(One(f), Join(LE(s, 2), Join(LE(p, 2), u)))))
    BY <2>1, <2>2
  <2> HIDE DEF u
  <2>3. PICK h : /\ At(h, d, "little", <<s, p>>, i, u)
                 /\ ParseICQSubType(r, TRUE, ack) =
                        WithSubtype(Read(h, BodyLayout(t, TRUE, ack)), t, s, p, TRUE, ack)
    <3>1. AtBody(r, d, i, t, s, p, TRUE, ack, u)
      BY <2>7, ParsesAdvanced
    <3>2. QED
      BY <3>1 DEF AtBody
  <2>4. At(Read(h, BodyLayout(t, TRUE, ack)), d, "little", vv, i, y)
    BY <2>3 DEF Gives, u
  <2>5. At(WithSubtype(Read(h, BodyLayout(t, TRUE, ack)), t, s, p, TRUE, ack), d, "little", vv,
           Parsed(t, vv, s, p, TRUE, ack), y)
    BY <2>4, Subtypes
  <2>6. QED
    BY <2>3, <2>5
<1>3. QED
  BY <1>1, <1>2 DEF Holds

LEMMA HoldsPlain ==
    ASSUME NEW t \in Types, t \in Byte, NEW f \in Byte, NEW x, NEW vv,
           Gives(BodyLayout(t, FALSE, FALSE), x, vv)
    PROVE  Holds(Join(One(t), Join(One(f), x)), FALSE, FALSE, Parsed(t, vv, 0, 0, FALSE, FALSE))
<1> DEFINE z1 == Join(One(f), x)
           z == Join(One(t), z1)
<1>1. x \in Bytes /\ One(t) \in Bytes /\ One(f) \in Bytes /\ z1 \in Bytes /\ z \in Bytes
  <2>1. x \in Bytes
    BY DEF Gives
  <2>2. QED
    BY <2>1, Written, SMT
<1>2. ASSUME NEW r, NEW d, NEW v, NEW i, NEW y \in Bytes, At(r, d, "little", v, i, Join(z, y))
      PROVE  \E w : At(ParseICQSubType(r, FALSE, FALSE), d, "little", w, Parsed(t, vv, 0, 0, FALSE, FALSE), y)
  <2>1. At(r, d, "little", v, i, Join(One(t), Join(One(f), Join(x, y))))
    BY <1>1, <1>2, JoinIs, SMT
  <2>2. Join(x, y) \in Bytes
    BY <1>1, Written
  <2> DEFINE u == Join(x, y)
  <2>7. u \in Bytes /\ At(r, d, "little", v, i, Join(One(t), Join(One(f), u)))
    BY <2>1, <2>2
  <2> HIDE DEF u
  <2>3. PICK h : /\ At(h, d, "little", <<0, 0>>, i, u)
                 /\ ParseICQSubType(r, FALSE, FALSE) =
                        WithSubtype(Read(h, BodyLayout(t, FALSE, FALSE)), t, 0, 0, FALSE, FALSE)
    <3>1. AtBody(r, d, i, t, 0, 0, FALSE, FALSE, u)
      BY <2>7, ParsesPlain
    <3>2. QED
      BY <3>1 DEF AtBody
  <2>4. At(Read(h, BodyLayout(t, FALSE, FALSE)), d, "little", vv, i, y)
    BY <2>3 DEF Gives, u
  <2>5. At(WithSubtype(Read(h, BodyLayout(t, FALSE, FALSE)), t, 0, 0, FALSE, FALSE), d, "little", vv,
           Parsed(t, vv, 0, 0, FALSE, FALSE), y)
    BY <2>4, Subtypes
  <2>6. QED
    BY <2>3, <2>5
<1>3. QED
  BY <1>1, <1>2 DEF Holds

-----------------------------------------------------------------------------
(* Lists of TLVs: the readers between them, up to the last.                  *)

LEMMA Left ==
    ASSUME NEW r, NEW d, NEW o, NEW v, NEW i, NEW x, At(r, d, o, v, i, x)
    PROVE  /\ r.pos \in Nat /\ Len(d) \in Nat /\ Len(x) \in Nat /\ r.pos + Len(x) = Len(d)
           /\ r.pos >= Len(r.data) <=> Len(x) = 0
<1>1. r.pos \in 0 .. Len(d) /\ Rest(d, r.pos) = x /\ r.data = d /\ d \in Bytes /\ x \in Bytes
  BY Seen
<1>2. Len(d) \in Nat /\ Len(x) \in Nat
  BY <1>1, BytesType
<1>3. Rest(d, r.pos) = Join(<<>>, x)
  BY <1>1, JoinIs
<1>4. Len(d) - r.pos = Len(<<>>) + Len(x)
  BY <1>1, <1>3, NoBytes, Ahead
<1>5. QED
  BY <1>1, <1>2, <1>4, NoBytes

\* The readers rs[0] to rs[k] are at the TLVs of a list that takes at most "count" of them.
Ends(r, count, rs, k) ==
    /\ k \in Nat /\ count \in Nat /\ Len(r.data) \in Nat /\ k <= Len(r.data) /\ rs[0] = r
    /\ \A n \in 1 .. k : n <= count /\ ~(rs[n - 1].pos >= Len(r.data))
    /\ k = count \/ rs[k].pos >= Len(r.data)

LEMMA Runs ==
    ASSUME NEW L \in Nat, NEW k \in 0 .. L, NEW rs, NEW u, u[0] = rs[0],
           \A n \in 1 .. k : u[n - 1] = rs[n - 1] => u[n] = rs[n],
           \A n \in k + 1 .. L : u[n - 1] = rs[k] => u[n] = rs[k]
    PROVE  u[L] = rs[k]
<1> DEFINE at(n) == IF n <= k THEN rs[n] ELSE rs[k]
           S == {n \in Nat : n <= L => u[n] = at(n)}
<1>1. 0 \in S
  OBVIOUS
<1>2. ASSUME NEW n \in Nat, n \in S PROVE n + 1 \in S
  <2>1. SUFFICES ASSUME n + 1 <= L PROVE u[n + 1] = at(n + 1)
    OBVIOUS
  <2>2. u[n] = at(n) /\ (n + 1) - 1 = n
    BY <1>2, <2>1
  <2>3. CASE n + 1 <= k
    <3>1. n + 1 \in 1 .. k /\ n <= k
      BY <2>3
    <3>2. QED
      BY <2>2, <3>1
  <2>4. CASE ~(n + 1 <= k)
    <3>1. n + 1 \in k + 1 .. L /\ (n = k \/ ~(n <= k))
      BY <2>1, <2>4
    <3>2. QED
      BY <2>2, <2>4, <3>1
  <2>5. QED
    BY <2>3, <2>4
<1>3. L \in S
  BY <1>1, <1>2, SetInduction
<1>4. QED
  BY <1>3

ListRawTLV(r, count) == TLVs(RawTLV, r, count)

LEMMA ListOfRawTLV ==
    ASSUME NEW r, NEW count, NEW rs, NEW k, Ends(r, count, rs, k),
           \A n \in 1 .. k : rs[n] = RawTLV(Read(rs[n - 1], <<U16>>))
    PROVE  ListRawTLV(r, count) = rs[k]
<1> DEFINE L == Len(r.data)
           A(prev, n) == IF n > count \/ prev.pos >= L THEN prev ELSE RawTLV(Read(prev, <<U16>>))
           w == [n \in 0 .. L |-> IF n <= k THEN rs[n] ELSE rs[k]]
           u == CHOOSE f : f = [n \in 0 .. L |-> IF n = 0 THEN r ELSE A(f[n - 1], n)]
<1>1. TLVs(RawTLV, r, count) = u[L]
  BY DEF TLVs
<1>2. /\ \A n \in 1 .. k : A(rs[n - 1], n) = rs[n]
      /\ \A n \in Nat : n > k => A(rs[k], n) = rs[k]
      /\ L \in Nat /\ k \in 0 .. L /\ rs[0] = r
  BY DEF Ends
<1> HIDE DEF A, L
<1>3. ASSUME NEW n \in 0 .. L PROVE w[n] = IF n = 0 THEN r ELSE A(w[n - 1], n)
  <2>1. CASE n = 0
    BY <1>2, <2>1
  <2>2. CASE n \in 1 .. k
    BY <1>2, <2>2
  <2>3. CASE n > k /\ n # 0
    <3>1. w[n] = rs[k] /\ w[n - 1] = rs[k]
      BY <1>2, <2>3
    <3>2. QED
      BY <1>2, <2>3, <3>1
  <2>4. QED
    BY <1>2, <2>1, <2>2, <2>3
<1>4. w = [n \in 0 .. L |-> IF n = 0 THEN r ELSE A(w[n - 1], n)]
  BY <1>3
<1>5. u = [n \in 0 .. L |-> IF n = 0 THEN r ELSE A(u[n - 1], n)]
  BY <1>4
<1> HIDE DEF u, w
<1>6. u[0] = r /\ \A n \in 1 .. L : u[n] = A(u[n - 1], n)
  BY <1>2, <1>5
<1>7. u[L] = rs[k]
  BY <1>2, <1>6, Runs
<1>8. QED
  BY <1>1, <1>7 DEF ListRawTLV

ListInMessageData(r, count) == TLVs(InMessageData, r, count)

LEMMA ListOfInMessageData ==
    ASSUME NEW r, NEW count, NEW rs, NEW k, Ends(r, count, rs, k),
           \A n \in 1 .. k : rs[n] = InMessageData(Read(rs[n - 1], <<U16>>))
    PROVE  ListInMessageData(r, count) = rs[k]
<1> DEFINE L == Len(r.data)
           A(prev, n) == IF n > count \/ prev.pos >= L THEN prev ELSE InMessageData(Read(prev, <<U16>>))
           w == [n \in 0 .. L |-> IF n <= k THEN rs[n] ELSE rs[k]]
           u == CHOOSE f : f = [n \in 0 .. L |-> IF n = 0 THEN r ELSE A(f[n - 1], n)]
<1>1. TLVs(InMessageData, r, count) = u[L]
  BY DEF TLVs
<1>2. /\ \A n \in 1 .. k : A(rs[n - 1], n) = rs[n]
      /\ \A n \in Nat : n > k => A(rs[k], n) = rs[k]
      /\ L \in Nat /\ k \in 0 .. L /\ rs[0] = r
  BY DEF Ends
<1> HIDE DEF A, L
<1>3. ASSUME NEW n \in 0 .. L PROVE w[n] = IF n = 0 THEN r ELSE A(w[n - 1], n)
  <2>1. CASE n = 0
    BY <1>2, <2>1
  <2>2. CASE n \in 1 .. k
    BY <1>2, <2>2
  <2>3. CASE n > k /\ n # 0
    <3>1. w[n] = rs[k] /\ w[n - 1] = rs[k]
      BY <1>2, <2>3
    <3>2. QED
      BY <1>2, <2>3, <3>1
  <2>4. QED
    BY <1>2, <2>1, <2>2, <2>3
<1>4. w = [n \in 0 .. L |-> IF n = 0 THEN r ELSE A(w[n - 1], n)]
  BY <1>3
<1>5. u = [n \in 0 .. L |-> IF n = 0 THEN r ELSE A(u[n - 1], n)]
  BY <1>4
<1> HIDE DEF u, w
<1>6. u[0] = r /\ \A n \in 1 .. L : u[n] = A(u[n - 1], n)
  BY <1>2, <1>5
<1>7. u[L] = rs[k]
  BY <1>2, <1>6, Runs
<1>8. QED
  BY <1>1, <1>7 DEF ListInMessageData

ListInAdvMsgData(r, count) == TLVs(InAdvMsgData, r, count)

LEMMA ListOfInAdvMsgData ==
    ASSUME NEW r, NEW count, NEW rs, NEW k, Ends(r, count, rs, k),
           \A n \in 1 .. k : rs[n] = InAdvMsgData(Read(rs[n - 1], <<U16>>))
    PROVE  ListInAdvMsgData(r, count) = rs[k]
<1> DEFINE L == Len(r.data)
           A(prev, n) == IF n > count \/ prev.pos >= L THEN prev ELSE InAdvMsgData(Read(prev, <<U16>>))
           w == [n \in 0 .. L |-> IF n <= k THEN rs[n] ELSE rs[k]]
           u == CHOOSE f : f = [n \in 0 .. L |-> IF n = 0 THEN r ELSE A(f[n - 1], n)]
<1>1. TLVs(InAdvMsgData, r, count) = u[L]
  BY DEF TLVs
<1>2. /\ \A n \in 1 .. k : A(rs[n - 1], n) = rs[n]
      /\ \A n \in Nat : n > k => A(rs[k], n) = rs[k]
      /\ L \in Nat /\ k \in 0 .. L /\ rs[0] = r
  BY DEF Ends
<1> HIDE DEF A, L
<1>3. ASSUME NEW n \in 0 .. L PROVE w[n] = IF n = 0 THEN r ELSE A(w[n - 1], n)
  <2>1. CASE n = 0
    BY <1>2, <2>1
  <2>2. CASE n \in 1 .. k
    BY <1>2, <2>2
  <2>3. CASE n > k /\ n # 0
    <3>1. w[n] = rs[k] /\ w[n - 1] = rs[k]
      BY <1>2, <2>3
    <3>2. QED
      BY <1>2, <2>3, <3>1
  <2>4. QED
    BY <1>2, <2>1, <2>2, <2>3
<1>4. w = [n \in 0 .. L |-> IF n = 0 THEN r ELSE A(w[n - 1], n)]
  BY <1>3
<1>5. u = [n \in 0 .. L |-> IF n = 0 THEN r ELSE A(u[n - 1], n)]
  BY <1>4
<1> HIDE DEF u, w
<1>6. u[0] = r /\ \A n \in 1 .. L : u[n] = A(u[n - 1], n)
  BY <1>2, <1>5
<1>7. u[L] = rs[k]
  BY <1>2, <1>6, Runs
<1>8. QED
  BY <1>1, <1>7 DEF ListInAdvMsgData

ListMessageBlock(r, count) == TLVs(MessageBlock, r, count)

LEMMA ListOfMessageBlock ==
    ASSUME NEW r, NEW count, NEW rs, NEW k, Ends(r, count, rs, k),
           \A n \in 1 .. k : rs[n] = MessageBlock(Read(rs[n - 1], <<U16>>))
    PROVE  ListMessageBlock(r, count) = rs[k]
<1> DEFINE L == Len(r.data)
           A(prev, n) == IF n > count \/ prev.pos >= L THEN prev ELSE MessageBlock(Read(prev, <<U16>>))
           w == [n \in 0 .. L |-> IF n <= k THEN rs[n] ELSE rs[k]]
           u == CHOOSE f : f = [n \in 0 .. L |-> IF n = 0 THEN r ELSE A(f[n - 1], n)]
<1>1. TLVs(MessageBlock, r, count) = u[L]
  BY DEF TLVs
<1>2. /\ \A n \in 1 .. k : A(rs[n - 1], n) = rs[n]
      /\ \A n \in Nat : n > k => A(rs[k], n) = rs[k]
      /\ L \in Nat /\ k \in 0 .. L /\ rs[0] = r
  BY DEF Ends
<1> HIDE DEF A, L
<1>3. ASSUME NEW n \in 0 .. L PROVE w[n] = IF n = 0 THEN r ELSE A(w[n - 1], n)
  <2>1. CASE n = 0
    BY <1>2, <2>1
  <2>2. CASE n \in 1 .. k
    BY <1>2, <2>2
  <2>3. CASE n > k /\ n # 0
    <3>1. w[n] = rs[k] /\ w[n - 1] = rs[k]
      BY <1>2, <2>3
    <3>2. QED
      BY <1>2, <2>3, <3>1
  <2>4. QED
    BY <1>2, <2>1, <2>2, <2>3
<1>4. w = [n \in 0 .. L |-> IF n = 0 THEN r ELSE A(w[n - 1], n)]
  BY <1>3
<1>5. u = [n \in 0 .. L |-> IF n = 0 THEN r ELSE A(u[n - 1], n)]
  BY <1>4
<1> HIDE DEF u, w
<1>6. u[0] = r /\ \A n \in 1 .. L : u[n] = A(u[n - 1], n)
  BY <1>2, <1>5
<1>7. u[L] = rs[k]
  BY <1>2, <1>6, Runs
<1>8. QED
  BY <1>1, <1>7 DEF ListMessageBlock

ListAdvMsgBlock(r, count) == TLVs(AdvMsgBlock, r, count)

LEMMA ListOfAdvMsgBlock ==
    ASSUME NEW r, NEW count, NEW rs, NEW k, Ends(r, count, rs, k),
           \A n \in 1 .. k : rs[n] = AdvMsgBlock(Read(rs[n - 1], <<U16>>))
    PROVE  ListAdvMsgBlock(r, count) = rs[k]
<1> DEFINE L == Len(r.data)
           A(prev, n) == IF n > count \/ prev.pos >= L THEN prev ELSE AdvMsgBlock(Read(prev, <<U16>>))
           w == [n \in 0 .. L |-> IF n <= k THEN rs[n] ELSE rs[k]]
           u == CHOOSE f : f = [n \in 0 .. L |-> IF n = 0 THEN r ELSE A(f[n - 1], n)]
<1>1. TLVs(AdvMsgBlock, r, count) = u[L]
  BY DEF TLVs
<1>2. /\ \A n \in 1 .. k : A(rs[n - 1], n) = rs[n]
      /\ \A n \in Nat : n > k => A(rs[k], n) = rs[k]
      /\ L \in Nat /\ k \in 0 .. L /\ rs[0] = r
  BY DEF Ends
<1> HIDE DEF A, L
<1>3. ASSUME NEW n \in 0 .. L PROVE w[n] = IF n = 0 THEN r ELSE A(w[n - 1], n)
  <2>1. CASE n = 0
    BY <1>2, <2>1
  <2>2. CASE n \in 1 .. k
    BY <1>2, <2>2
  <2>3. CASE n > k /\ n # 0
    <3>1. w[n] = rs[k] /\ w[n - 1] = rs[k]
      BY <1>2, <2>3
    <3>2. QED
      BY <1>2, <2>3, <3>1
  <2>4. QED
    BY <1>2, <2>1, <2>2, <2>3
<1>4. w = [n \in 0 .. L |-> IF n = 0 THEN r ELSE A(w[n - 1], n)]
  BY <1>3
<1>5. u = [n \in 0 .. L |-> IF n = 0 THEN r ELSE A(u[n - 1], n)]
  BY <1>4
<1> HIDE DEF u, w
<1>6. u[0] = r /\ \A n \in 1 .. L : u[n] = A(u[n - 1], n)
  BY <1>2, <1>5
<1>7. u[L] = rs[k]
  BY <1>2, <1>6, Runs
<1>8. QED
  BY <1>1, <1>7 DEF ListAdvMsgBlock

-----------------------------------------------------------------------------
(* UINs as strings of one digit or two.                                      *)

LEMMA OneDigit ==
    ASSUME NEW a \in Nat
    PROVE  StringtoUIN(<<a>>) = a - 48
<1> DEFINE s == <<a>>
           w == [i \in 0 .. 1 |-> IF i = 0 THEN 0 ELSE a - 48]
           u == CHOOSE f : f = [i \in 0 .. Len(s) |-> IF i = 0 THEN 0 ELSE 10 * f[i - 1] + s[i] - 48]
<1>1. StringtoUIN(s) = u[Len(s)]
  BY DEF StringtoUIN
<1>2. Len(s) = 1 /\ s[1] = a
  OBVIOUS
<1> HIDE DEF s
<1>3. w = [i \in 0 .. Len(s) |-> IF i = 0 THEN 0 ELSE 10 * w[i - 1] + s[i] - 48]
  <2>1. ASSUME NEW i \in 0 .. 1 PROVE w[i] = IF i = 0 THEN 0 ELSE 10 * w[i - 1] + s[i] - 48
    <3>1. i = 0 \/ i = 1
      OBVIOUS
    <3>2. w[0] = 0 /\ w[1] = a - 48
      OBVIOUS
    <3> HIDE DEF w
    <3>3. QED
      BY <1>2, <3>1, <3>2
  <2>2. QED
    BY <1>2, <2>1
<1>4. u = [i \in 0 .. Len(s) |-> IF i = 0 THEN 0 ELSE 10 * u[i - 1] + s[i] - 48]
  BY <1>3
<1> HIDE DEF u
<1>5. u[0] = 0 /\ u[1] = 10 * u[0] + s[1] - 48
  BY <1>2, <1>4
<1>6. QED
  BY <1>1, <1>2, <1>5 DEF s

LEMMA TwoDigits ==
    ASSUME NEW a \in Nat, NEW b \in Nat
    PROVE  StringtoUIN(<<a, b>>) = 10 * (a - 48) + b - 48
<1> DEFINE s == <<a, b>>
           w == [i \in 0 .. 2 |-> IF i = 0 THEN 0 ELSE IF i = 1 THEN a - 48 ELSE 10 * (a - 48) + b - 48]
           u == CHOOSE f : f = [i \in 0 .. Len(s) |-> IF i = 0 THEN 0 ELSE 10 * f[i - 1] + s[i] - 48]
<1>1. StringtoUIN(s) = u[Len(s)]
  BY DEF StringtoUIN
<1>2. Len(s) = 2 /\ s[1] = a /\ s[2] = b
  OBVIOUS
<1> HIDE DEF s
<1>3. w = [i \in 0 .. Len(s) |-> IF i = 0 THEN 0 ELSE 10 * w[i - 1] + s[i] - 48]
  <2>1. ASSUME NEW i \in 0 .. 2 PROVE w[i] = IF i = 0 THEN 0 ELSE 10 * w[i - 1] + s[i] - 48
    <3>1. i = 0 \/ i = 1 \/ i = 2
      OBVIOUS
    <3>2. w[0] = 0 /\ w[1] = a - 48 /\ w[2] = 10 * (a - 48) + b - 48
      OBVIOUS
    <3> HIDE DEF w
    <3>3. QED
      BY <1>2, <3>1, <3>2
  <2>2. QED
    BY <1>2, <2>1
<1>4. u = [i \in 0 .. Len(s) |-> IF i = 0 THEN 0 ELSE 10 * u[i - 1] + s[i] - 48]
  BY <1>3
<1> HIDE DEF u
<1>5. u[0] = 0 /\ u[1] = 10 * u[0] + s[1] - 48 /\ u[2] = 10 * u[1] + s[2] - 48
  BY <1>2, <1>4
<1>6. QED
  BY <1>1, <1>2, <1>5 DEF s

LEMMA UINs ==
    ASSUME NEW n \in Nat, n < 100
    PROVE  /\ UINtoString(n) \in Bytes /\ Len(UINtoString(n)) \in {1, 2}
           /\ \A i \in 1 .. Len(UINtoString(n)) : UINtoString(n)[i] # Sep
           /\ StringtoUIN(UINtoString(n)) = n
<1>1. CASE n < 10
  <2>1. UINtoString(n) = <<48 + n>>
    BY <1>1 DEF UINtoString
  <2>2. 48 + n \in Byte /\ 48 + n # 254 /\ 48 + n \in Nat /\ 48 + n - 48 = n
    BY <1>1 DEF Byte
  <2> DEFINE a == 48 + n
  <2>4. <<a>> \in Bytes /\ Len(<<a>>) = 1 /\ <<a>>[1] = a
    BY <2>2, Tuples
  <2>5. \A i \in 1 .. 1 : i = 1
    OBVIOUS
  <2>6. StringtoUIN(<<a>>) = n
    BY <2>2, OneDigit
  <2> HIDE DEF a
  <2>7. UINtoString(n) = <<a>> /\ a # 254
    BY <2>1, <2>2 DEF a
  <2>8. QED
    BY <2>4, <2>5, <2>6, <2>7 DEF Sep
<1>2. CASE n >= 10
  <2>1. UINtoString(n) = <<48 + (n \div 10), 48 + (n % 10)>>
    BY <1>2 DEF UINtoString
  <2>2. /\ 48 + (n \div 10) \in Byte /\ 48 + (n % 10) \in Byte
        /\ 48 + (n \div 10) # 254 /\ 48 + (n % 10) # 254 /\ 48 + (n \div 10) \in Nat /\ 48 + (n % 10) \in Nat
        /\ 10 * (48 + (n \div 10) - 48) + (48 + (n % 10)) - 48 = n
    BY <1>2, SMT DEF Byte
  <2> DEFINE a == 48 + (n \div 10)
             b == 48 + (n % 10)
  <2>3. a \in Byte /\ b \in Byte /\ a # 254 /\ b # 254 /\ a \in Nat /\ b \in Nat
        /\ 10 * (a - 48) + b - 48 = n /\ UINtoString(n) = <<a, b>>
    BY <2>1, <2>2
  <2> HIDE DEF a, b
  <2>4. <<a, b>> \in Bytes /\ Len(<<a, b>>) = 2
    BY <2>3, Tuples
  <2>5. <<a, b>>[1] = a /\ <<a, b>>[2] = b /\ \A i \in 1 .. 2 : i = 1 \/ i = 2
    OBVIOUS
  <2>6. StringtoUIN(<<a, b>>) = n
    BY <2>3, TwoDigits
  <2>7. QED
    BY <2>3, <2>4, <2>5, <2>6 DEF Sep
<1>3. QED
  BY <1>1, <1>2

-----------------------------------------------------------------------------
(* Strings put together from the left, and read from the left.               *)

LEMMA JoinLen == \A a, b \in Bytes : Len(Join(a, b)) = Len(a) + Len(b)
  BY JoinIs

LEMMA JoinAssoc == \A a, b, c \in Bytes : Join(Join(a, b), c) = Join(a, Join(b, c))
  BY JoinIs

LEMMA Flat2 ==
    ASSUME NEW a1 \in Bytes, NEW a2 \in Bytes, NEW y \in Bytes
    PROVE  Join(a1, a2) \in Bytes /\ Join(Join(a1, a2), y) = Join(a1, Join(a2, y))
  BY JoinAssoc, Written

LEMMA Flat3 ==
    ASSUME NEW a1 \in Bytes, NEW a2 \in Bytes, NEW a3 \in Bytes, NEW y \in Bytes
    PROVE  Join(Join(a1, a2), a3) \in Bytes /\ Join(Join(Join(a1, a2), a3), y) = Join(a1, Join(a2, Join(a3, y)))
<1> DEFINE l == Join(a1, a2)
           z == Join(a3, y)
<1>1. z \in Bytes
  BY Written
<1> HIDE DEF z
<1>2. l \in Bytes /\ Join(l, z) = Join(a1, Join(a2, z))
  BY <1>1, Flat2
<1> HIDE DEF l
<1>3. Join(l, a3) \in Bytes /\ Join(Join(l, a3), y) = Join(l, z)
  BY <1>2, JoinAssoc, Written DEF z
<1>4. QED
  BY <1>2, <1>3 DEF l, z

LEMMA Flat4 ==
    ASSUME NEW a1 \in Bytes, NEW a2 \in Bytes, NEW a3 \in Bytes, NEW a4 \in Bytes, NEW y \in Bytes
    PROVE  Join(Join(Join(a1, a2), a3), a4) \in Bytes /\ Join(Join(Join(Join(a1, a2), a3), a4),
           y) = Join(a1, Join(a2, Join(a3, Join(a4, y))))
<1> DEFINE l == Join(Join(a1, a2), a3)
           z == Join(a4, y)
<1>1. z \in Bytes
  BY Written
<1> HIDE DEF z
<1>2. l \in Bytes /\ Join(l, z) = Join(a1, Join(a2, Join(a3, z)))
  BY <1>1, Flat3
<1> HIDE DEF l
<1>3. Join(l, a4) \in Bytes /\ Join(Join(l, a4), y) = Join(l, z)
  BY <1>2, JoinAssoc, Written DEF z
<1>4. QED
  BY <1>2, <1>3 DEF l, z

LEMMA Flat5 ==
    ASSUME NEW a1 \in Bytes, NEW a2 \in Bytes, NEW a3 \in Bytes, NEW a4 \in Bytes, NEW a5 \in Bytes,
      NEW y \in Bytes
    PROVE  Join(Join(Join(Join(a1, a2), a3), a4), a5) \in Bytes /\ Join(Join(Join(Join(Join(a1, a2), a3),
           a4), a5), y) = Join(a1, Join(a2, Join(a3, Join(a4, Join(a5, y)))))
<1> DEFINE l == Join(Join(Join(a1, a2), a3), a4)
           z == Join(a5, y)
<1>1. z \in Bytes
  BY Written
<1> HIDE DEF z
<1>2. l \in Bytes /\ Join(l, z) = Join(a1, Join(a2, Join(a3, Join(a4, z))))
  BY <1>1, Flat4
<1> HIDE DEF l
<1>3. Join(l, a5) \in Bytes /\ Join(Join(l, a5), y) = Join(l, z)
  BY <1>2, JoinAssoc, Written DEF z
<1>4. QED
  BY <1>2, <1>3 DEF l, z

LEMMA Flat6 ==
    ASSUME NEW a1 \in Bytes, NEW a2 \in Bytes, NEW a3 \in Bytes, NEW a4 \in Bytes, NEW a5 \in Bytes,
      NEW a6 \in Bytes, NEW y \in Bytes
    PROVE  Join(Join(Join(Join(Join(a1, a2), a3), a4), a5), a6) \in Bytes
           /\ Join(Join(Join(Join(Join(Join(a1, a2), a3), a4), a5), a6), y) = Join(a1, Join(a2, Join(a3,
             Join(a4, Join(a5, Join(a6, y))))))
<1> DEFINE l == Join(Join(Join(Join(a1, a2), a3), a4), a5)
           z == Join(a6, y)
<1>1. z \in Bytes
  BY Written
<1> HIDE DEF z
<1>2. l \in Bytes /\ Join(l, z) = Join(a1, Join(a2, Join(a3, Join(a4, Join(a5, z)))))
  BY <1>1, Flat5
<1> HIDE DEF l
<1>3. Join(l, a6) \in Bytes /\ Join(Join(l, a6), y) = Join(l, z)
  BY <1>2, JoinAssoc, Written DEF z
<1>4. QED
  BY <1>2, <1>3 DEF l, z

-----------------------------------------------------------------------------
(* TLVs.                                                                     *)

LEMMA Sized ==
    ASSUME NEW x \in Bytes, Len(x) \in Word2
    PROVE  /\ BESized(x) = Join(BE(Len(x), 2), x) /\ LESized(x) = Join(LE(Len(x), 2), x)
           /\ BESized(x) \in Bytes /\ LESized(x) \in Bytes
           /\ Len(BESized(x)) = Len(x) + 2 /\ Len(LESized(x)) = Len(x) + 2
           /\ \A y \in Bytes : /\ Join(BESized(x), y) = Join(BE(Len(x), 2), Join(x, y))
                               /\ Join(LESized(x), y) = Join(LE(Len(x), 2), Join(x, y))
<1> DEFINE n == Len(x)
<1>1. BE(n, 2) \in Bytes /\ LE(n, 2) \in Bytes /\ Len(BE(n, 2)) = 2 /\ Len(LE(n, 2)) = 2
  BY Integers2
<1>2. BESized(x) = Join(BE(n, 2), x) /\ LESized(x) = Join(LE(n, 2), x)
  BY DEF BESized, LESized, Join
<1> HIDE DEF n
<1>3. /\ BESized(x) \in Bytes /\ LESized(x) \in Bytes
      /\ Len(BESized(x)) = 2 + Len(x) /\ Len(LESized(x)) = 2 + Len(x)
  BY <1>1, <1>2, JoinLen, Written, ZenonT(60)
<1>4. \A y \in Bytes : /\ Join(BESized(x), y) = Join(BE(n, 2), Join(x, y))
                       /\ Join(LESized(x), y) = Join(LE(n, 2), Join(x, y))
  BY <1>1, <1>2, JoinIs
<1>5. Len(x) \in Nat
  BY BytesType
<1>6. QED
  BY <1>2, <1>3, <1>4, <1>5 DEF n

LEMMA RawStep ==
    ASSUME NEW r, NEW d, NEW v, NEW i, NEW t \in Word2, NEW x \in Bytes, Len(x) \in Word2, NEW y \in Bytes,
           At(r, d, "big", v, i, Join(BE(t, 2), Join(BESized(x), y)))
    PROVE  /\ Read(r, <<U16>>).v[1] = t
           /\ At(RawTLV(Read(r, <<U16>>)), d, "big", <<Len(x)>>, i, y)
<1> DEFINE n == Len(x)
           h == Read(r, <<U16>>)
           raw == Read(h, <<U16>>)
           u == Join(x, y)
           z == Join(BE(n, 2), u)
<1>1. u \in Bytes /\ z \in Bytes
  BY Written
<1>2. At(r, d, "big", v, i, Join(BE(t, 2), z))
  BY Sized
<1> HIDE DEF z
<1>3. At(h, d, "big", <<t>>, i, z)
  BY <1>1, <1>2, ReadsBig
<1> HIDE DEF h, u
<1>4. At(raw, d, "big", <<n>>, i, u)
  BY <1>1, <1>3, ReadsBig DEF z
<1>5. h.v = <<t>> /\ raw.v = <<n>>
  BY <1>3, <1>4, Seen
<1>6. h.v[1] = t /\ raw.v[1] = n
  BY <1>5
<1>7. RawTLV(h) = After(raw, n)
  BY <1>6 DEF RawTLV
<1> HIDE DEF raw
<1>8. At(raw, d, "big", <<n>>, i, Join(x, y))
  BY <1>4 DEF u
<1> HIDE DEF n
<1>9. Passes(raw, d, "big", <<n>>, i, x, y)
  BY <1>8, Moved
<1>10. At(After(raw, Len(x)), d, "big", <<n>>, i, y)
  BY <1>9 DEF Passes
<1>11. QED
  BY <1>6, <1>7, <1>10 DEF h, n

\* An empty TLV that is read in the other order.
LEMMA RawStepLittle ==
    ASSUME NEW r, NEW d, NEW v, NEW i, NEW t \in Word2, NEW y \in Bytes,
           At(r, d, "little", v, i, Join(LE(t, 2), Join(LE(0, 2), y)))
    PROVE  /\ Read(r, <<U16>>).v[1] = t
           /\ At(RawTLV(Read(r, <<U16>>)), d, "little", <<0>>, i, y)
<1> DEFINE h == Read(r, <<U16>>)
           raw == Read(h, <<U16>>)
           z == Join(LE(0, 2), y)
<1>1. 0 \in Word2
  BY SMT DEF Word2
<1>2. z \in Bytes
  BY <1>1, Written
<1>3. At(h, d, "little", <<t>>, i, z)
  BY <1>2, ReadsLittle
<1> HIDE DEF h
<1>4. At(raw, d, "little", <<0>>, i, y)
  BY <1>1, <1>2, <1>3, ReadsLittle
<1>5. h.v = <<t>> /\ raw.v = <<0>>
  BY <1>3, <1>4, Seen
<1>6. h.v[1] = t /\ raw.v[1] = 0
  BY <1>5
<1>7. RawTLV(h) = After(raw, 0)
  BY <1>6 DEF RawTLV
<1> HIDE DEF raw
<1>8. At(raw, d, "little", <<0>>, i, Join(<<>>, y)) /\ <<>> \in Bytes /\ Len(<<>>) = 0
  BY <1>4, JoinIs, NoBytes
<1>9. Passes(raw, d, "little", <<0>>, i, <<>>, y)
  BY <1>8, Moved
<1>10. At(After(raw, Len(<<>>)), d, "little", <<0>>, i, y)
  BY <1>9 DEF Passes
<1>11. QED
  BY <1>6, <1>7, <1>8, <1>10 DEF h

LEMMA UserInfoRead ==
    ASSUME NEW uin \in Nat, uin < 100, NEW r, NEW d, NEW v, NEW i, NEW y \in Bytes,
           At(r, d, "big", v, i, Join(UserInfo(uin), y))
    PROVE  At(ParseUserInfo(r), d, "big", <<uin>>, i, y)
<1> DEFINE s == UINtoString(uin)
           tlv == BESized(BE(0, 4))
           z == Join(BE(6, 2), Join(tlv, y))
           h == Read(r, <<ByteStr, U16, U16>>)
           last == RawTLV(Read(h, <<U16>>))
<1>1. 0 \in Word2 /\ 1 \in Word2 /\ 6 \in Word2 /\ 0 \in Word4 /\ 4 \in Word2
  BY SMT DEF Word2, Word4
<1>2. BE(0, 4) \in Bytes /\ Len(BE(0, 4)) = 4
  BY <1>1, Integers4
<1>3. tlv \in Bytes
  BY <1>1, <1>2, Sized
<1>4. s \in Bytes /\ Len(s) < 256 /\ StringtoUIN(s) = uin
  BY UINs
<1>5. UserInfo(uin) = Join(Join(Join(Join(ByteString(s), BE(0, 2)), BE(1, 2)), BE(6, 2)), tlv)
  BY DEF UserInfo, Join
<1>6. ByteString(s) \in Bytes /\ BE(0, 2) \in Bytes /\ BE(1, 2) \in Bytes /\ BE(6, 2) \in Bytes
  BY <1>1, <1>4, Written
<1> HIDE DEF s, tlv
<1>7. Join(UserInfo(uin), y) = Join(ByteString(s), Join(BE(0, 2), Join(BE(1, 2), Join(BE(6, 2), Join(tlv, y)))))
  BY <1>3, <1>5, <1>6, Flat5
<1>8. z \in Bytes /\ Len(z) > 0
  <2>1. Join(tlv, y) \in Bytes /\ Len(BE(6, 2)) = 2
    BY <1>1, <1>3, Written, Integers2
  <2>2. z \in Bytes /\ Len(z) = Len(BE(6, 2)) + Len(Join(tlv, y))
    BY <1>6, <2>1, JoinLen, Written
  <2>3. Len(Join(tlv, y)) \in Nat
    BY <2>1, BytesType
  <2>4. PICK n, m, l : n = Len(BE(6, 2)) /\ m = Len(Join(tlv, y)) /\ l = Len(z)
    OBVIOUS
  <2>5. n = 2 /\ m \in Nat /\ l = n + m
    BY <2>1, <2>2, <2>3, <2>4
  <2>6. l > 0
    BY <2>5
  <2>7. QED
    BY <2>2, <2>4, <2>6
<1> HIDE DEF z
<1>9. At(h, d, "big", <<s, 0, 1>>, i, z)
  BY <1>1, <1>4, <1>7, <1>8, ReadsUser DEF z
<1> HIDE DEF h
<1>10. At(h, d, "big", <<s, 0, 1>>, i, Join(BE(6, 2), Join(BESized(BE(0, 4)), y)))
  BY <1>9 DEF z, tlv
<1> DEFINE four == BE(0, 4)
<1>11. four \in Bytes /\ Len(four) \in Word2 /\ At(h, d, "big", <<s, 0, 1>>, i, Join(BE(6, 2), Join(BESized(four), y)))
  BY <1>1, <1>2, <1>10
<1> HIDE DEF four
<1>12. At(last, d, "big", <<Len(four)>>, i, y)
  BY <1>1, <1>11, RawStep
<1> HIDE DEF last
<1> DEFINE rs == [n \in 0 .. 1 |-> IF n = 0 THEN h ELSE last]
           k == 1
<1>13. rs[0] = h /\ rs[k] = last /\ k \in Nat /\ k = 1 /\ \A n \in 1 .. k : n = k /\ rs[n - 1] = h
  OBVIOUS
<1> HIDE DEF rs, k
<1>14. h.data = d /\ h.v = <<s, 0, 1>>
  BY <1>9, Seen
<1>15. ~(h.pos >= Len(h.data)) /\ Len(h.data) \in Nat /\ k <= Len(h.data)
  BY <1>8, <1>9, <1>13, <1>14, Left
<1>16. Ends(h, k, rs, k)
  BY <1>13, <1>15 DEF Ends
<1>17. \A n \in 1 .. k : rs[n] = RawTLV(Read(rs[n - 1], <<U16>>))
  BY <1>13 DEF last
<1>18. TLVs(RawTLV, h, k) = last
  <2>1. ListRawTLV(h, k) = rs[k]
    BY <1>16, <1>17, ListOfRawTLV
  <2>2. QED
    BY <1>13, <2>1 DEF ListRawTLV
<1>19. h.v[1] = s /\ h.v[3] = k
  BY <1>13, <1>14
<1>20. ParseUserInfo(r) = [TLVs(RawTLV, h, h.v[3]) EXCEPT !.v = <<StringtoUIN(h.v[1])>>]
  BY DEF ParseUserInfo, h
<1>21. ParseUserInfo(r) = [last EXCEPT !.v = <<uin>>]
  BY <1>4, <1>18, <1>19, <1>20
<1>22. PICK w : w = <<uin>>
  OBVIOUS
<1>23. At([last EXCEPT !.v = w], d, "big", w, i, y)
  BY <1>12, Finds
<1>24. QED
  BY <1>21, <1>22, <1>23

-----------------------------------------------------------------------------
(* Fields with separators between them, taken apart again.                    *)


\* The string s is the fields F, each with a separator after it, which the last may lack:
\* P[k] is where the k-th ends with its separator.
Splits(s, F, P) ==
    LET n == Len(F)
    IN  /\ s \in Bytes /\ F \in Seq(Clean) /\ P[0] = 0
        /\ \A k \in 0 .. n : P[k] \in Nat /\ k <= P[k]
        /\ \A k \in 1 .. n : /\ P[k] = P[k - 1] + Len(F[k]) + 1
                             /\ \A i \in 1 .. Len(F[k]) : s[P[k - 1] + i] = F[k][i]
                             /\ P[k] <= Len(s) => s[P[k]] = Sep
        /\ \A k \in 0 .. n - 1 : P[k] <= Len(s)
        /\ Len(s) = P[n] \/ (n > 0 /\ Len(s) + 1 = P[n])

LEMMA FieldOf ==
    ASSUME NEW s, NEW F, NEW P, Splits(s, F, P), NEW k \in 1 .. Len(F)
    PROVE  /\ F[k] \in Bytes /\ Len(F[k]) \in Nat /\ Len(s) \in Nat /\ P[k] \in Nat /\ P[k - 1] \in Nat
           /\ P[k] = P[k - 1] + Len(F[k]) + 1 /\ P[k] <= Len(s) + 1 /\ P[k - 1] + 1 <= P[k]
           /\ \A i \in 1 .. Len(F[k]) : s[P[k - 1] + i] = F[k][i] /\ F[k][i] # Sep
           /\ P[k] <= Len(s) => s[P[k]] = Sep
<1>1. F \in Seq(Clean) /\ s \in Bytes /\ Len(F) \in Nat
  BY LenProperties DEF Splits
<1>2. F[k] \in Clean
  BY <1>1, ElementOfSeq
<1>3. F[k] \in Bytes /\ \A i \in 1 .. Len(F[k]) : F[k][i] # Sep
  BY <1>2 DEF Clean
<1>4. Len(F[k]) \in Nat /\ Len(s) \in Nat
  BY <1>1, <1>3, BytesType
<1>5. k \in 0 .. Len(F) /\ k - 1 \in 0 .. Len(F) /\ (k \in 0 .. Len(F) - 1 \/ k = Len(F))
  BY <1>1
<1>6. P[k] \in Nat /\ P[k - 1] \in Nat
  BY <1>5 DEF Splits
<1>7. /\ P[k] = P[k - 1] + Len(F[k]) + 1
      /\ \A i \in 1 .. Len(F[k]) : s[P[k - 1] + i] = F[k][i]
      /\ P[k] <= Len(s) => s[P[k]] = Sep
  BY DEF Splits
<1>8. P[k] <= Len(s) + 1
  <2>1. CASE k \in 0 .. Len(F) - 1
    <3>1. P[k] <= Len(s)
      BY <2>1 DEF Splits
    <3>2. QED
      BY <1>4, <1>6, <3>1
  <2>2. CASE k = Len(F)
    <3>1. Len(s) = P[k] \/ Len(s) + 1 = P[k]
      BY <2>2 DEF Splits
    <3>2. QED
      BY <1>4, <1>6, <3>1
  <2>3. QED
    BY <1>5, <2>1, <2>2
<1>9. QED
  BY <1>3, <1>4, <1>6, <1>7, <1>8

FieldAt(s, F, P, k) ==
    /\ F[k] \in Bytes /\ Len(F[k]) \in Nat /\ Len(s) \in Nat /\ P[k] \in Nat /\ P[k - 1] \in Nat
    /\ P[k] = P[k - 1] + Len(F[k]) + 1 /\ P[k] <= Len(s) + 1 /\ P[k - 1] + 1 <= P[k]
    /\ \A i \in 1 .. Len(F[k]) : s[P[k - 1] + i] = F[k][i] /\ F[k][i] # Sep
    /\ P[k] <= Len(s) => s[P[k]] = Sep
LEMMA FieldsOf ==
    ASSUME NEW s, NEW F, NEW P, Splits(s, F, P)
    PROVE  \A k \in 1 .. Len(F) : FieldAt(s, F, P, k)
BY FieldOf DEF FieldAt

LEMMA SepAt ==
    ASSUME NEW s, NEW F, NEW P, Splits(s, F, P), NEW k \in 1 .. Len(F)
    PROVE  /\ SepFrom(s, P[k - 1] + 1) = P[k]
           /\ SubSeq(s, P[k - 1] + 1, P[k] - 1) = F[k]
<1> DEFINE a == P[k - 1]
           b == P[k]
           f == F[k]
           ok(i) == (i = Len(s) + 1 \/ s[i] = Sep) /\ \A j \in a + 1 .. i - 1 : s[j] # Sep
<1>1. /\ f \in Bytes /\ Len(f) \in Nat /\ Len(s) \in Nat /\ a \in Nat /\ b \in Nat
      /\ b = a + Len(f) + 1 /\ b <= Len(s) + 1
      /\ \A i \in 1 .. Len(f) : s[a + i] = f[i] /\ f[i] # Sep
      /\ b <= Len(s) => s[b] = Sep
  <2>1. /\ F[k] \in Bytes /\ Len(F[k]) \in Nat /\ Len(s) \in Nat /\ P[k] \in Nat /\ P[k - 1] \in Nat
        /\ P[k] = P[k - 1] + Len(F[k]) + 1 /\ P[k] <= Len(s) + 1 /\ P[k - 1] + 1 <= P[k]
        /\ \A i \in 1 .. Len(F[k]) : s[P[k - 1] + i] = F[k][i] /\ F[k][i] # Sep
        /\ P[k] <= Len(s) => s[P[k]] = Sep
    BY FieldOf
  <2>2. QED
    BY <2>1
<1>2. SepFrom(s, a + 1) = CHOOSE i \in a + 1 .. Len(s) + 1 : ok(i)
  BY DEF SepFrom
<1>10. s \in Bytes
  BY DEF Splits
<1> HIDE DEF a, b, f
<1>3. \A j \in a + 1 .. b - 1 : s[j] # Sep
  <2>1. SUFFICES ASSUME NEW j \in a + 1 .. b - 1 PROVE s[j] # Sep
    OBVIOUS
  <2>2. j - a \in 1 .. Len(f) /\ a + (j - a) = j
    BY <1>1
  <2>3. QED
    BY <1>1, <2>2
<1>4. b \in a + 1 .. Len(s) + 1 /\ ok(b)
  BY <1>1, <1>3
<1>5. ASSUME NEW i \in a + 1 .. Len(s) + 1, ok(i) PROVE i = b
  <2>1. ~(i < b)
    <3>1. SUFFICES ASSUME i < b PROVE FALSE
      OBVIOUS
    <3>2. i \in a + 1 .. b - 1 /\ i # Len(s) + 1
      BY <1>1, <3>1
    <3>3. QED
      BY <1>3, <1>5, <3>2
  <2>2. ~(b < i)
    <3>1. SUFFICES ASSUME b < i PROVE FALSE
      OBVIOUS
    <3>2. b \in a + 1 .. i - 1 /\ b <= Len(s)
      BY <1>1, <3>1
    <3>3. QED
      BY <1>1, <1>5, <3>2
  <2>3. QED
    BY <1>1, <2>1, <2>2
<1>6. SepFrom(s, a + 1) = b
  BY <1>2, <1>4, <1>5
<1>7. SubSeq(s, a + 1, b - 1) = f
  <2>1. a <= b - 1 /\ b - 1 <= Len(s) /\ b - 1 \in Nat /\ Len(f) = (b - 1) - a
    BY <1>1
  <2> DEFINE n == b - 1
  <2>2. n \in Nat /\ a <= n /\ n <= Len(s) /\ Len(f) = n - a /\ \A i \in 1 .. Len(f) : s[a + i] = f[i]
    BY <1>1, <2>1
  <2> HIDE DEF n
  <2>3. SubSeq(s, a + 1, n) = f
    BY <1>1, <1>10, <2>2, IsSubSeq, ZenonT(60)
  <2>4. QED
    BY <2>3 DEF n
<1>8. QED
  BY <1>6, <1>7 DEF a, b, f

\* Taken apart, a string of n fields gives them when at most n are asked for, and all n of them
\* when the last has no end.
LEMMA SplitIs ==
    ASSUME NEW s, NEW F, NEW P, Splits(s, F, P), NEW c \in Nat,
           c = Len(F) \/ (c <= Len(F) /\ Len(s) = P[Len(F)])
    PROVE  string_split(s, c) = F
<1> DEFINE L == Len(s)
           n == Len(F)
           u == CHOOSE f : f = [k \in 1 .. L |-> IF k = 1 THEN 1
                                ELSE IF f[k - 1] > L THEN f[k - 1] ELSE SepFrom(s, f[k - 1]) + 1]
           m == Cardinality({k \in 1 .. L : u[k] <= L})
           field(k) == SubSeq(s, u[k], SepFrom(s, u[k]) - 1)
           e == IF n = 0 THEN 1 ELSE IF P[n - 1] + 1 > L THEN P[n - 1] + 1 ELSE P[n] + 1
           w == [k \in 1 .. L |-> IF k <= n THEN P[k - 1] + 1 ELSE e]
<1>1. string_split(s, c) = [k \in 1 .. (IF c > m THEN c ELSE m) |-> IF k <= m THEN field(k) ELSE <<>>]
  BY DEF string_split
<1>2. L \in Nat /\ n \in Nat /\ P[0] = 0 /\ F \in Seq(Clean) /\ \A k \in 0 .. n : P[k] \in Nat /\ k <= P[k]
  BY BytesType, LenProperties DEF Splits
<1>3. \A k \in 1 .. n : P[k] <= L + 1 /\ P[k - 1] + 1 <= P[k] /\ P[k] \in Nat /\ P[k - 1] \in Nat
                        /\ SepFrom(s, P[k - 1] + 1) = P[k]
                        /\ SubSeq(s, P[k - 1] + 1, P[k] - 1) = F[k]
                        /\ P[k] = P[k - 1] + Len(F[k]) + 1 /\ F[k] \in Bytes
  BY FieldOf, SepAt
<1>4. (L = P[n] \/ (n > 0 /\ L + 1 = P[n])) /\ (c = n \/ (c <= n /\ L = P[n]))
  BY DEF Splits
<1>5. \A k \in 0 .. n - 1 : P[k] <= L
  BY DEF Splits
<1> HIDE DEF L, n
<1>6. n > 0 => P[n] \in Nat /\ P[n - 1] \in Nat /\ P[n - 1] <= L /\ P[n - 1] + 1 <= P[n] /\ P[n] <= L + 1
               /\ SepFrom(s, P[n - 1] + 1) = P[n]
  <2>1. n > 0 => n \in 1 .. n /\ n - 1 \in 0 .. n - 1
    BY <1>2
  <2>2. QED
    BY <1>3, <1>5, <2>1
<1>7. e \in Nat /\ e > L
  BY <1>2, <1>4, <1>6, SMTT(30)
<1>8. n > 0 => e = IF P[n - 1] + 1 > L THEN P[n - 1] + 1 ELSE SepFrom(s, P[n - 1] + 1) + 1
  BY <1>2, <1>6
<1> HIDE DEF e
<1>9. \A k \in 1 .. L : w[k] = IF k <= n THEN P[k - 1] + 1 ELSE e
  OBVIOUS
<1>10. DOMAIN w = 1 .. L
  OBVIOUS
<1> HIDE DEF w
<1>11. ASSUME NEW k \in 1 .. L
       PROVE  w[k] = IF k = 1 THEN 1 ELSE IF w[k - 1] > L THEN w[k - 1] ELSE SepFrom(s, w[k - 1]) + 1
  <2>1. CASE k = 1
    <3>1. n >= 1
      BY <1>2, <1>4
    <3>2. k <= n /\ P[k - 1] = 0
      BY <1>2, <2>1, <3>1
    <3>3. QED
      BY <1>9, <2>1, <3>2
  <2>2. CASE k # 1
    <3>1. k - 1 \in 1 .. L /\ (k - 1) - 1 = k - 2
      BY <1>2, <2>2
    <3>2. w[k - 1] = IF k - 1 <= n THEN P[k - 2] + 1 ELSE e
      BY <1>9, <3>1
    <3>6. w[k] = IF k <= n THEN P[k - 1] + 1 ELSE e
      BY <1>9
    <3>3. CASE k <= n
      <4>1. k - 1 \in 1 .. n /\ k - 1 \in 0 .. n - 1
        BY <1>2, <3>1, <3>3
      <4>2. /\ P[k - 2] + 1 <= P[k - 1] /\ P[k - 1] \in Nat /\ P[k - 2] \in Nat
            /\ SepFrom(s, P[k - 2] + 1) = P[k - 1] /\ P[k - 1] <= L
        BY <1>3, <1>5, <3>1, <4>1
      <4>3. w[k - 1] = P[k - 2] + 1 /\ ~(w[k - 1] > L) /\ w[k] = P[k - 1] + 1
        BY <1>2, <3>2, <3>6, <3>3, <4>1, <4>2
      <4>4. QED
        BY <2>2, <4>2, <4>3
    <3>4. CASE k > n /\ k - 1 <= n
      <4>1. k - 1 = n /\ n > 0 /\ k - 2 = n - 1
        BY <1>2, <3>1, <3>4
      <4>2. w[k - 1] = P[n - 1] + 1 /\ w[k] = e
        BY <1>2, <3>2, <3>4, <3>6, <4>1
      <4>3. QED
        BY <1>8, <2>2, <4>1, <4>2
    <3>5. CASE k - 1 > n
      <4>1. w[k - 1] = e /\ w[k] = e
        BY <1>2, <3>2, <3>5, <3>6
      <4>2. QED
        BY <1>7, <2>2, <4>1
    <3>7. QED
      BY <1>2, <3>3, <3>4, <3>5
  <2>3. QED
    BY <2>1, <2>2
<1>12. w = [k \in 1 .. L |-> IF k = 1 THEN 1
                             ELSE IF w[k - 1] > L THEN w[k - 1] ELSE SepFrom(s, w[k - 1]) + 1]
  BY <1>11 DEF w
<1>13. u = [k \in 1 .. L |-> IF k = 1 THEN 1
                             ELSE IF u[k - 1] > L THEN u[k - 1] ELSE SepFrom(s, u[k - 1]) + 1]
  BY <1>12
<1> HIDE DEF u
<1>14. \A k \in 1 .. L : u[k] = IF k <= n THEN P[k - 1] + 1 ELSE e
  <2>1. ASSUME NEW k \in 1 .. L
        PROVE  u[k] = IF k = 1 THEN 1 ELSE IF u[k - 1] > L THEN u[k - 1] ELSE SepFrom(s, u[k - 1]) + 1
    BY <1>13
  <2> DEFINE S == {k \in Nat : k + 1 <= L => u[k + 1] = w[k + 1]}
  <2>2. 0 \in S
    <3>1. SUFFICES ASSUME 1 <= L PROVE u[1] = w[1]
      BY <1>2
    <3>2. 1 \in 1 .. L
      BY <1>2, <3>1
    <3>3. QED
      BY <1>11, <2>1, <3>2
  <2>3. ASSUME NEW k \in Nat, k \in S PROVE k + 1 \in S
    <3>1. SUFFICES ASSUME (k + 1) + 1 <= L PROVE u[(k + 1) + 1] = w[(k + 1) + 1]
      OBVIOUS
    <3>2. (k + 1) + 1 \in 1 .. L /\ (k + 1) + 1 # 1 /\ ((k + 1) + 1) - 1 = k + 1 /\ k + 1 <= L
      BY <1>2, <3>1
    <3>3. u[k + 1] = w[k + 1]
      BY <2>3, <3>2
    <3>4. QED
      BY <1>11, <2>1, <3>2, <3>3
  <2>4. \A k \in Nat : k \in S
    BY <2>2, <2>3, SetInduction
  <2>5. ASSUME NEW k \in 1 .. L PROVE u[k] = w[k]
    <3>1. k - 1 \in Nat /\ (k - 1) + 1 = k /\ k <= L
      BY <1>2
    <3>2. QED
      BY <2>4, <3>1
  <2>6. QED
    BY <1>9, <2>5
<1> DEFINE top == IF n > 0 /\ P[n - 1] + 1 > L THEN n - 1 ELSE n
<1>15. top \in Nat /\ top <= n /\ (top = n \/ (top = n - 1 /\ c = n /\ F[n] = <<>>))
  <2>1. CASE ~(n > 0 /\ P[n - 1] + 1 > L)
    BY <1>2, <2>1
  <2>2. CASE n > 0 /\ P[n - 1] + 1 > L
    <3>1. P[n - 1] = L /\ P[n] = L + 1
      BY <1>2, <1>6, <2>2
    <3>2. c = n
      BY <1>2, <1>4, <3>1
    <3>3. n \in 1 .. n
      BY <1>2, <2>2
    <3>4. P[n] = P[n - 1] + Len(F[n]) + 1 /\ F[n] \in Bytes
      BY <1>3, <3>3
    <3>5. Len(F[n]) = 0 /\ F[n] \in Seq(Byte)
      BY <1>2, <3>1, <3>4, BytesType
    <3>6. F[n] = <<>>
      BY <3>5, EmptySeq
    <3>7. QED
      BY <1>2, <2>2, <3>2, <3>6
  <2>3. QED
    BY <2>1, <2>2
<1>16. {k \in 1 .. L : u[k] <= L} = 1 .. top
  <2>1. ASSUME NEW k \in 1 .. L, u[k] <= L PROVE k \in 1 .. top
    <3>1. k <= n
      BY <1>2, <1>7, <1>14, <2>1
    <3>2. u[k] = P[k - 1] + 1
      BY <1>14, <3>1
    <3>3. CASE k <= n - 1
      BY <1>2, <1>15, <3>3
    <3>4. CASE k = n
      BY <1>2, <2>1, <3>2, <3>4
    <3>5. QED
      BY <1>2, <3>1, <3>3, <3>4
  <2>2. ASSUME NEW k \in 1 .. top PROVE k \in 1 .. L /\ u[k] <= L
    <3>1. k \in 1 .. n /\ k - 1 \in 0 .. n - 1 /\ k - 1 \in 0 .. n
      BY <1>2, <1>15
    <3>2. P[k - 1] \in Nat /\ k - 1 <= P[k - 1] /\ P[k - 1] <= L
      BY <1>2, <1>5, <3>1
    <3>3. P[k - 1] + 1 <= L
      <4>1. CASE k = n
        BY <1>2, <1>15, <3>1, <3>2, <4>1
      <4>2. CASE k # n
        <5>1. k \in 0 .. n - 1 /\ k \in 1 .. n
          BY <1>2, <3>1, <4>2
        <5>2. P[k] <= L /\ P[k - 1] + 1 <= P[k] /\ P[k] \in Nat
          BY <1>3, <1>5, <5>1
        <5>3. QED
          BY <1>2, <3>2, <5>2
      <4>3. QED
        BY <4>1, <4>2
    <3>4. k \in 1 .. L /\ k <= n
      BY <1>2, <3>1, <3>2, <3>3
    <3>5. QED
      BY <1>14, <3>3, <3>4
  <2>3. QED
    BY <2>1, <2>2
<1> HIDE DEF top
<1>17. m = top
  <2>1. Cardinality(1 .. top) = IF 1 > top THEN 0 ELSE top - 1 + 1
    BY <1>15, FS_Interval
  <2>2. Cardinality(1 .. top) = top
    BY <1>15, <2>1
  <2>3. QED
    BY <1>16, <2>2
<1> HIDE DEF m
<1>18. \A k \in 1 .. top : field(k) = F[k]
  <2>1. SUFFICES ASSUME NEW k \in 1 .. top PROVE field(k) = F[k]
    OBVIOUS
  <2>2. k \in 1 .. n /\ k \in 1 .. L
    <3>1. k \in {j \in 1 .. L : u[j] <= L}
      BY <1>16
    <3>2. QED
      BY <1>2, <1>15, <3>1
  <2>3. u[k] = P[k - 1] + 1
    BY <1>14, <2>2
  <2>4. SepFrom(s, u[k]) = P[k] /\ SubSeq(s, P[k - 1] + 1, P[k] - 1) = F[k]
    BY <1>3, <2>2, <2>3
  <2>5. QED
    BY <2>3, <2>4
<1> HIDE DEF field
<1>19. (IF c > m THEN c ELSE m) = n
  BY <1>2, <1>4, <1>15, <1>17
<1>20. string_split(s, c) = [k \in 1 .. n |-> IF k <= top THEN field(k) ELSE <<>>]
  BY <1>1, <1>17, <1>19
<1>21. ASSUME NEW k \in 1 .. n PROVE (IF k <= top THEN field(k) ELSE <<>>) = F[k]
  <2>1. CASE k <= top
    <3>1. k \in 1 .. top
      BY <1>15, <2>1
    <3>2. QED
      BY <1>18, <2>1, <3>1
  <2>2. CASE ~(k <= top)
    <3>1. k = n /\ F[n] = <<>>
      BY <1>2, <1>15, <2>2
    <3>2. QED
      BY <2>2, <3>1
  <2>3. QED
    BY <2>1, <2>2
<1>22. F = [k \in 1 .. n |-> F[k]]
  BY <1>2, LenProperties DEF n
<1>23. QED
  BY <1>20, <1>21, <1>22

-----------------------------------------------------------------------------
(* Strings of fields, put together.                                           *)

LEMMA Flattens ==
    ASSUME NEW n \in Nat, NEW G, \A k \in 1 .. n : G[k] \in Bytes
    PROVE  \E f \in [1 .. n -> Bytes] : \A k \in 1 .. n : f[k] = IF k = 1 THEN G[k] ELSE Join(f[k - 1], G[k])
<1> DEFINE ok(m, f) == \A k \in 1 .. m : f[k] = IF k = 1 THEN G[k] ELSE Join(f[k - 1], G[k])
           S == {m \in Nat : m <= n => \E f \in [1 .. m -> Bytes] : ok(m, f)}
<1>1. 0 \in S
  <2>1. [k \in 1 .. 0 |-> <<>>] \in [1 .. 0 -> Bytes] /\ ok(0, [k \in 1 .. 0 |-> <<>>])
    OBVIOUS
  <2>2. QED
    BY <2>1
<1>2. ASSUME NEW m \in Nat, m \in S PROVE m + 1 \in S
  <2>1. SUFFICES ASSUME m + 1 <= n PROVE \E f \in [1 .. m + 1 -> Bytes] : ok(m + 1, f)
    OBVIOUS
  <2>2. PICK f \in [1 .. m -> Bytes] : ok(m, f)
    BY <1>2, <2>1
  <2> DEFINE last == IF m + 1 = 1 THEN G[m + 1] ELSE Join(f[m], G[m + 1])
             g == [k \in 1 .. m + 1 |-> IF k <= m THEN f[k] ELSE last]
  <2>3. G[m + 1] \in Bytes
    BY <2>1
  <2>4. last \in Bytes
    <3>1. CASE m + 1 = 1
      BY <2>3, <3>1
    <3>2. CASE m + 1 # 1
      <4>1. f[m] \in Bytes
        BY <3>2
      <4>2. QED
        BY <2>3, <3>2, <4>1, JoinIs
    <3>3. QED
      BY <3>1, <3>2
  <2> HIDE DEF last
  <2>5. g \in [1 .. m + 1 -> Bytes]
    BY <2>4
  <2>6. ok(m + 1, g)
    <3>1. SUFFICES ASSUME NEW k \in 1 .. m + 1 PROVE g[k] = IF k = 1 THEN G[k] ELSE Join(g[k - 1], G[k])
      OBVIOUS
    <3>2. CASE k <= m
      <4>1. k \in 1 .. m /\ (k = 1 \/ k - 1 \in 1 .. m)
        BY <3>2
      <4>2. g[k] = f[k] /\ (k = 1 \/ g[k - 1] = f[k - 1])
        BY <4>1
      <4>3. QED
        BY <2>2, <4>1, <4>2
    <3>3. CASE k = m + 1
      <4>1. g[k] = last /\ (k = 1 \/ g[k - 1] = f[m])
        BY <3>3
      <4>2. QED
        BY <3>3, <4>1 DEF last
    <3>4. QED
      BY <3>2, <3>3
  <2>7. QED
    BY <2>5, <2>6
<1>3. n \in S
  BY <1>1, <1>2, SetInduction
<1>4. QED
  BY <1>3

LEMMA FlattenIs ==
    ASSUME NEW n \in Nat, NEW G, DOMAIN G = 1 .. n, Len(G) = n, n > 0, \A k \in 1 .. n : G[k] \in Bytes
    PROVE  \E f : /\ FlattenSeq(G) = f[n]
                  /\ \A k \in 1 .. n : f[k] \in Bytes /\ f[k] = IF k = 1 THEN G[k] ELSE Join(f[k - 1], G[k])
<1> DEFINE f == CHOOSE h : h = [k \in 1 .. n |-> IF k = 1 THEN G[k] ELSE h[k - 1] \o G[k]]
<1>1. FlattenSeq(G) = f[n]
  BY DEF FlattenSeq
<1>2. PICK h \in [1 .. n -> Bytes] : \A k \in 1 .. n : h[k] = IF k = 1 THEN G[k] ELSE Join(h[k - 1], G[k])
  BY Flattens, ZenonT(60)
<1>3. h = [k \in 1 .. n |-> IF k = 1 THEN G[k] ELSE h[k - 1] \o G[k]]
  BY <1>2 DEF Join
<1>4. f = [k \in 1 .. n |-> IF k = 1 THEN G[k] ELSE f[k - 1] \o G[k]]
  BY <1>3, Zenon
<1> HIDE DEF f
<1>5. \A k \in 1 .. n : f[k] = IF k = 1 THEN G[k] ELSE Join(f[k - 1], G[k])
  BY <1>4 DEF Join
<1> DEFINE S == {k \in Nat : k \in 1 .. n => f[k] \in Bytes}
<1>6. 0 \in S
  OBVIOUS
<1>7. ASSUME NEW k \in Nat, k \in S PROVE k + 1 \in S
  <2>1. SUFFICES ASSUME k + 1 \in 1 .. n PROVE f[k + 1] \in Bytes
    OBVIOUS
  <2>2. CASE k = 0
    BY <1>5, <2>1, <2>2
  <2>3. CASE k # 0
    <3>1. k \in 1 .. n /\ (k + 1) - 1 = k /\ k + 1 # 1
      BY <2>1, <2>3
    <3>2. f[k + 1] = Join(f[k], G[k + 1])
      BY <1>5, <2>1, <3>1
    <3>3. f[k] \in Bytes /\ G[k + 1] \in Bytes
      BY <1>7, <2>1, <3>1
    <3>4. QED
      BY <3>2, <3>3, JoinIs
  <2>4. QED
    BY <2>2, <2>3
<1>8. \A k \in Nat : k \in S
  BY <1>6, <1>7, SetInduction
<1>9. QED
  BY <1>1, <1>5, <1>8

\* Where the fields end.
LEMMA EndedSplits ==
    ASSUME NEW F \in Seq(Clean)
    PROVE  \E P : Splits(Ended(F), F, P) /\ Len(Ended(F)) = P[Len(F)]
<1> DEFINE n == Len(F)
           G == [i \in DOMAIN F |-> F[i] \o <<Sep>>]
<1>1. n \in Nat /\ DOMAIN F = 1 .. n /\ \A k \in 1 .. n : F[k] \in Clean
  BY LenProperties, ElementOfSeq
<1>2. Ended(F) = FlattenSeq(G)
  BY DEF Ended
<1>3. One(Sep) \in Bytes /\ Len(One(Sep)) = 1 /\ One(Sep)[1] = Sep
  <2>1. Sep \in Byte
    BY DEF Sep, Byte
  <2>2. QED
    BY <2>1, OneIs
<1>4. ASSUME NEW k \in 1 .. n
      PROVE  /\ F[k] \in Bytes /\ Len(F[k]) \in Nat /\ G[k] \in Bytes /\ Len(G[k]) = Len(F[k]) + 1
             /\ \A i \in 1 .. Len(F[k]) : G[k][i] = F[k][i] /\ F[k][i] # Sep
             /\ G[k][Len(F[k]) + 1] = Sep
  <2>1. F[k] \in Bytes /\ \A i \in 1 .. Len(F[k]) : F[k][i] # Sep
    BY <1>1 DEF Clean
  <2>2. G[k] = F[k] \o One(Sep)
    BY <1>1 DEF One
  <2>3. /\ F[k] \o One(Sep) \in Bytes /\ Len(F[k] \o One(Sep)) = Len(F[k]) + Len(One(Sep))
        /\ \A i \in 1 .. Len(F[k]) : (F[k] \o One(Sep))[i] = F[k][i]
        /\ \A i \in 1 .. Len(One(Sep)) : (F[k] \o One(Sep))[Len(F[k]) + i] = One(Sep)[i]
    BY <1>3, <2>1, Cat
  <2> HIDE DEF G
  <2>4. QED
    BY <1>3, <2>1, <2>2, <2>3, BytesType
<1>5. DOMAIN G = 1 .. n /\ Len(G) = n
  <2>1. G = [i \in 1 .. n |-> F[i] \o <<Sep>>]
    BY <1>1
  <2>2. QED
    BY <1>1, <2>1
<1> HIDE DEF G, n
<1>6. CASE n = 0
  <2> DEFINE P == [k \in 0 .. 0 |-> 0]
  <2>1. F = <<>>
    BY <1>6, EmptySeq DEF n
  <2>2. G = <<>>
    BY <2>1 DEF G
  <2>3. Ended(F) = <<>>
    BY <1>2, <1>5, <1>6, <2>2 DEF FlattenSeq
  <2>4. P[0] = 0 /\ \A k \in 0 .. 0 : k = 0
    OBVIOUS
  <2>5. Ended(F) \in Bytes /\ Len(Ended(F)) = 0
    BY <2>3, NoBytes
  <2> HIDE DEF P
  <2>6. Splits(Ended(F), F, P)
    BY <1>6, <2>4, <2>5 DEF Splits, n
  <2>7. QED
    BY <1>6, <2>4, <2>5, <2>6 DEF n
<1>7. CASE n > 0
  <2>0. \A k \in 1 .. n : G[k] \in Bytes
    BY <1>4
  <2>1. PICK f : /\ FlattenSeq(G) = f[n]
                 /\ \A k \in 1 .. n : f[k] \in Bytes /\ f[k] = IF k = 1 THEN G[k] ELSE Join(f[k - 1], G[k])
    BY <1>1, <1>5, <1>7, <2>0, FlattenIs
  <2> DEFINE P == [k \in 0 .. n |-> IF k = 0 THEN 0 ELSE Len(f[k])]
  <2>2. P[0] = 0 /\ \A k \in 1 .. n : P[k] = Len(f[k]) /\ P[k] \in Nat
    <3>1. \A k \in 1 .. n : Len(f[k]) \in Nat
      BY <2>1, BytesType
    <3>2. P[0] = 0 /\ \A k \in 1 .. n : P[k] = Len(f[k])
      BY <1>1
    <3>3. QED
      BY <3>1, <3>2
  <2> HIDE DEF P
  \* Each string is the one before it and a field more.
  <2>3. ASSUME NEW k \in 1 .. n
        PROVE  /\ P[k - 1] \in Nat /\ P[k] = P[k - 1] + Len(F[k]) + 1
               /\ \A i \in 1 .. P[k - 1] : f[k][i] = f[k - 1][i]
               /\ \A i \in 1 .. Len(G[k]) : f[k][P[k - 1] + i] = G[k][i]
    <3>1. CASE k = 1
      <4>1. f[k] = G[k] /\ P[k - 1] = 0
        BY <2>1, <2>2, <3>1
      <4>2. QED
        BY <1>4, <2>2, <4>1
    <3>2. CASE k # 1
      <4>1. k - 1 \in 1 .. n
        BY <1>1, <3>2
      <4>2. f[k] = f[k - 1] \o G[k] /\ f[k - 1] \in Bytes /\ G[k] \in Bytes
        BY <1>4, <2>1, <3>2, <4>1 DEF Join
      <4> DEFINE a == f[k - 1]
                 b == G[k]
      <4>6. /\ Len(a \o b) = Len(a) + Len(b)
            /\ \A i \in 1 .. Len(a) : (a \o b)[i] = a[i]
            /\ \A i \in 1 .. Len(b) : (a \o b)[Len(a) + i] = b[i]
        <5>1. a \in Bytes /\ b \in Bytes
          BY <4>2
        <5> HIDE DEF a, b
        <5>2. QED
          BY <5>1, Cat
      <4>7. f[k] = a \o b
        BY <4>2
      <4> HIDE DEF a, b
      <4>8. /\ Len(f[k]) = Len(a) + Len(b)
            /\ \A i \in 1 .. Len(a) : f[k][i] = a[i]
            /\ \A i \in 1 .. Len(b) : f[k][Len(a) + i] = b[i]
        BY <4>6, <4>7
      <4>3. /\ Len(f[k]) = Len(f[k - 1]) + Len(G[k])
            /\ \A i \in 1 .. Len(f[k - 1]) : f[k][i] = f[k - 1][i]
            /\ \A i \in 1 .. Len(G[k]) : f[k][Len(f[k - 1]) + i] = G[k][i]
        BY <4>8 DEF a, b
      <4>4. P[k - 1] = Len(f[k - 1]) /\ P[k - 1] \in Nat /\ P[k] = Len(f[k])
        BY <2>2, <4>1
      <4>9. Len(G[k]) = Len(F[k]) + 1 /\ Len(F[k]) \in Nat
        BY <1>4
      <4>10. P[k] = P[k - 1] + Len(F[k]) + 1
        <5>1. PICK x, y, l : x = P[k - 1] /\ y = P[k] /\ l = Len(F[k])
          OBVIOUS
        <5>2. x \in Nat /\ l \in Nat /\ y = x + (l + 1)
          BY <4>3, <4>4, <4>9, <5>1
        <5>3. y = x + l + 1
          BY <5>2
        <5>4. QED
          BY <5>1, <5>3
      <4>5. QED
        BY <4>3, <4>4, <4>10
    <3>3. QED
      BY <3>1, <3>2
  <2> DEFINE has(s, k) == /\ \A i \in 1 .. Len(F[k]) : s[P[k - 1] + i] = F[k][i]
                          /\ s[P[k]] = Sep
             S == {k \in Nat : k <= n => /\ k <= P[k]
                                         /\ \A j \in 0 .. k : P[j] <= P[k]
                                         /\ \A j \in 1 .. k : has(f[k], j)}
  <2>4. 0 \in S
    BY <1>1, <2>2
  <2>5. ASSUME NEW k \in Nat, k \in S PROVE k + 1 \in S
    <3>1. SUFFICES ASSUME k + 1 <= n
                   PROVE  /\ k + 1 <= P[k + 1] /\ \A j \in 0 .. k + 1 : P[j] <= P[k + 1]
                          /\ \A j \in 1 .. k + 1 : has(f[k + 1], j)
      OBVIOUS
    <3>2. k + 1 \in 1 .. n /\ (k + 1) - 1 = k /\ k <= n
      BY <1>1, <3>1
    <3>3. k <= P[k] /\ (\A j \in 0 .. k : P[j] <= P[k]) /\ \A j \in 1 .. k : has(f[k], j)
      BY <2>5, <3>2
    <3>4. /\ P[k] \in Nat /\ P[k + 1] \in Nat /\ P[k + 1] = P[k] + Len(F[k + 1]) + 1
          /\ \A i \in 1 .. P[k] : f[k + 1][i] = f[k][i]
          /\ \A i \in 1 .. Len(G[k + 1]) : f[k + 1][P[k] + i] = G[k + 1][i]
      BY <2>2, <2>3, <3>2
    <3>5. /\ Len(F[k + 1]) \in Nat /\ Len(G[k + 1]) = Len(F[k + 1]) + 1
          /\ \A i \in 1 .. Len(F[k + 1]) : G[k + 1][i] = F[k + 1][i]
          /\ G[k + 1][Len(F[k + 1]) + 1] = Sep
      BY <1>4, <3>2
    <3>6. \A j \in 0 .. n : P[j] \in Nat
      BY <1>1, <2>2
    <3> HIDE DEF has
    <3>7. k + 1 <= P[k + 1] /\ \A j \in 0 .. k + 1 : P[j] <= P[k + 1]
      BY <1>1, <3>1, <3>3, <3>4, <3>5, <3>6
    <3>8. has(f[k + 1], k + 1)
      <4>1. \A i \in 1 .. Len(F[k + 1]) : f[k + 1][P[k] + i] = F[k + 1][i]
        BY <3>4, <3>5
      <4>2. f[k + 1][P[k] + (Len(F[k + 1]) + 1)] = Sep /\ P[k] + (Len(F[k + 1]) + 1) = P[k + 1]
        <5>1. Len(F[k + 1]) + 1 \in 1 .. Len(G[k + 1])
          BY <3>5
        <5>2. f[k + 1][P[k] + (Len(F[k + 1]) + 1)] = Sep
          BY <3>4, <3>5, <5>1
        <5>3. P[k] + (Len(F[k + 1]) + 1) = P[k + 1]
          BY <3>4, <3>5, SMTT(30)
        <5>4. QED
          BY <5>2, <5>3
      <4>3. QED
        BY <3>2, <4>1, <4>2 DEF has
    <3>9. ASSUME NEW j \in 1 .. k PROVE has(f[k + 1], j)
      <4>1. /\ j \in 1 .. n /\ j - 1 \in 0 .. n /\ j \in 0 .. k
        BY <1>1, <3>1
      <4>2. /\ P[j] <= P[k] /\ P[j] \in Nat /\ P[j - 1] \in Nat /\ P[j] = P[j - 1] + Len(F[j]) + 1
            /\ Len(F[j]) \in Nat
        BY <1>4, <2>2, <2>3, <3>3, <4>1
      <4>3. /\ \A i \in 1 .. Len(F[j]) : f[k][P[j - 1] + i] = F[j][i]
            /\ f[k][P[j]] = Sep
        BY <3>3 DEF has
      <4>4. \A i \in 1 .. Len(F[j]) : P[j - 1] + i \in 1 .. P[k]
        <5>1. PICK a, b, c, l : a = P[j - 1] /\ b = P[j] /\ c = P[k] /\ l = Len(F[j])
          OBVIOUS
        <5>2. a \in Nat /\ b \in Nat /\ c \in Nat /\ l \in Nat /\ b <= c /\ b = a + l + 1
          BY <3>4, <4>2, <5>1
        <5>3. \A i \in 1 .. l : a + i \in 1 .. c
          BY <5>2
        <5>4. QED
          BY <5>1, <5>3
      <4>5. P[j] \in 1 .. P[k]
        BY <3>4, <4>2
      <4>6. QED
        BY <3>4, <4>3, <4>4, <4>5 DEF has
    <3>10. \A j \in 1 .. k + 1 : j \in 1 .. k \/ j = k + 1
      OBVIOUS
    <3>11. QED
      BY <3>7, <3>8, <3>9, <3>10
  <2>6. \A k \in Nat : k \in S
    BY <2>4, <2>5, SetInduction
  <2>7. Ended(F) = f[n] /\ f[n] \in Bytes /\ Len(f[n]) = P[n]
    BY <1>1, <1>2, <1>7, <2>1, <2>2
  <2>8. \A k \in 0 .. n : P[k] \in Nat /\ k <= P[k] /\ P[k] <= P[n]
    BY <1>1, <2>2, <2>6
  <2>9. \A k \in 1 .. n : has(f[n], k)
    BY <1>1, <2>6
  <2>10. \A k \in 1 .. n : P[k] = P[k - 1] + Len(F[k]) + 1
    BY <2>3
  <2>11. Splits(Ended(F), F, P)
    BY <1>1, <2>2, <2>7, <2>8, <2>9, <2>10 DEF Splits, n
  <2>12. QED
    BY <2>7, <2>11 DEF n
<1>8. QED
  BY <1>1, <1>6, <1>7

LEMMA JoinedSplits ==
    ASSUME NEW F \in Seq(Clean), Len(F) > 0
    PROVE  \E P : Splits(Joined(F), F, P)
<1> DEFINE n == Len(F)
           e == Ended(F)
           s == Joined(F)
<1>1. PICK P : Splits(e, F, P) /\ Len(e) = P[n]
  BY EndedSplits
<1>2. n \in Nat /\ n > 0 /\ n \in 1 .. n
  BY LenProperties
<1>3. e \in Bytes /\ Len(e) \in Nat
  BY <1>1, BytesType DEF Splits
<1>4. s = SubSeq(e, 1, Len(e) - 1)
  BY DEF Joined, Front
<1>5. P[n] = P[n - 1] + Len(F[n]) + 1 /\ P[n - 1] \in Nat /\ Len(F[n]) \in Nat
  BY <1>1, <1>2, FieldOf
<1>6. Len(e) > 0
  BY <1>1, <1>3, <1>5
<1> DEFINE L == Len(e) - 1
<1>7. L \in Nat /\ Len(e) = L + 1
  BY <1>3, <1>6
<1>8. s \in Bytes /\ Len(s) = L /\ \A i \in 1 .. L : s[i] = e[i]
  <2>1. \A i \in 1 .. L : e[i] \in Byte
    BY <1>3, <1>7, BytesType
  <2>2. s = SubSeq(e, 1, L)
    BY <1>4
  <2> HIDE DEF s, L
  <2>3. /\ SubSeq(e, 1, L) \in Seq(Byte)
        /\ Len(SubSeq(e, 1, L)) = IF 1 <= L THEN L - 1 + 1 ELSE 0
        /\ \A i \in 1 .. L - 1 + 1 : SubSeq(e, 1, L)[i] = e[1 + i - 1]
    BY <1>7, <2>1, SubSeqProperties
  <2>4. Len(SubSeq(e, 1, L)) = L
    BY <1>7, <2>3
  <2>5. ASSUME NEW i \in 1 .. L PROVE SubSeq(e, 1, L)[i] = e[i]
    <3>1. i \in 1 .. L - 1 + 1 /\ 1 + i - 1 = i
      BY <1>7
    <3>2. QED
      BY <2>3, <3>1
  <2>6. QED
    BY <2>2, <2>3, <2>4, <2>5 DEF Bytes
<1> HIDE DEF s, L, e, n
<1>9. ASSUME NEW k \in 1 .. n
      PROVE  /\ P[k] = P[k - 1] + Len(F[k]) + 1
             /\ \A i \in 1 .. Len(F[k]) : s[P[k - 1] + i] = F[k][i]
             /\ P[k] <= Len(s) => s[P[k]] = Sep
  <2>1. /\ Len(F[k]) \in Nat /\ P[k] \in Nat /\ P[k - 1] \in Nat
        /\ P[k] = P[k - 1] + Len(F[k]) + 1 /\ P[k] <= Len(e) + 1
        /\ \A i \in 1 .. Len(F[k]) : e[P[k - 1] + i] = F[k][i]
        /\ P[k] <= Len(e) => e[P[k]] = Sep
    <3>1. k \in 1 .. Len(F)
      BY DEF n
    <3>2. FieldAt(e, F, P, k)
      BY <1>1, <3>1, FieldsOf, Zenon
    <3>3. QED
      BY <3>2, Zenon DEF FieldAt
  <2>2. P[k] <= Len(e)
    <3>1. k = n \/ k \in 0 .. n - 1
      BY <1>2
    <3>2. k \in 0 .. n - 1 => P[k] <= Len(e)
      BY <1>1 DEF Splits, n
    <3>3. QED
      BY <1>1, <1>3, <3>1, <3>2
  <2>3. ASSUME NEW i \in 1 .. Len(F[k]) PROVE s[P[k - 1] + i] = F[k][i]
    <3>1. PICK x, y, l : x = P[k - 1] /\ y = P[k] /\ l = Len(F[k])
      OBVIOUS
    <3>2. x \in Nat /\ l \in Nat /\ y = x + l + 1 /\ y <= L + 1 /\ i \in 1 .. l
      BY <1>7, <2>1, <2>2, <3>1
    <3>3. x + i \in 1 .. L
      BY <1>7, <3>2
    <3>4. QED
      BY <1>8, <2>1, <3>1, <3>3
  <2>4. P[k] <= Len(s) => s[P[k]] = Sep
    <3>1. P[k] >= 1
      <4>1. PICK x, y, l : x = P[k - 1] /\ y = P[k] /\ l = Len(F[k])
        OBVIOUS
      <4>2. x \in Nat /\ l \in Nat /\ y = x + l + 1
        BY <2>1, <4>1
      <4>3. y >= 1
        BY <4>2
      <4>4. QED
        BY <4>1, <4>3
    <3>2. P[k] <= L => P[k] \in 1 .. L
      BY <1>7, <2>1, <3>1
    <3>3. QED
      BY <1>8, <2>1, <2>2, <3>2
  <2>5. QED
    BY <2>1, <2>3, <2>4
<1>10. \A k \in 0 .. n - 1 : P[k] <= Len(s)
  <2>1. SUFFICES ASSUME NEW k \in 0 .. n - 1 PROVE P[k] <= Len(s)
    OBVIOUS
  <2>2. \A j \in 0 .. n - 1 : P[j] <= P[n - 1]
    <3> DEFINE S == {m \in Nat : m <= n - 1 => \A j \in 0 .. m : P[j] <= P[m]}
    <3>0. \A j \in 0 .. n : P[j] \in Nat
      BY <1>1 DEF Splits, n
    <3>1. 0 \in S
      BY <1>2, <3>0
    <3>2. ASSUME NEW m \in Nat, m \in S PROVE m + 1 \in S
      <4>1. SUFFICES ASSUME m + 1 <= n - 1, NEW j \in 0 .. m + 1 PROVE P[j] <= P[m + 1]
        OBVIOUS
      <4>2. m + 1 \in 1 .. n /\ (m + 1) - 1 = m
        BY <1>2, <4>1
      <4>3. P[m + 1] \in Nat /\ P[m] \in Nat /\ P[m] + 1 <= P[m + 1]
        BY <1>1, <4>2, FieldOf DEF n
      <4>4. CASE j \in 0 .. m
        <5>1. P[j] <= P[m] /\ P[j] \in Nat
          BY <1>2, <3>0, <3>2, <4>1, <4>4
        <5>2. QED
          BY <4>3, <5>1
      <4>5. CASE j = m + 1
        BY <4>3, <4>5
      <4>6. QED
        BY <4>4, <4>5
    <3>3. \A m \in Nat : m \in S
      BY <3>1, <3>2, SetInduction
    <3>4. QED
      BY <1>2, <3>3
  <2>3. P[k] \in Nat /\ P[n - 1] \in Nat
    <3>1. \A j \in 0 .. n : P[j] \in Nat
      BY <1>1 DEF Splits, n
    <3>2. QED
      BY <1>2, <3>1
  <2>4. P[n - 1] <= L
    <3>1. PICK x, y, l : x = P[n - 1] /\ y = P[n] /\ l = Len(F[n])
      OBVIOUS
    <3>2. x \in Nat /\ l \in Nat /\ y = x + l + 1 /\ y = L + 1
      BY <1>1, <1>5, <1>7, <3>1
    <3>3. x <= L
      BY <1>7, <3>2
    <3>4. QED
      BY <3>1, <3>3
  <2>5. QED
    BY <1>7, <1>8, <2>2, <2>3, <2>4
<1>11. Len(s) + 1 = P[n]
  BY <1>1, <1>7, <1>8
<1>12. P[0] = 0 /\ \A k \in 0 .. n : P[k] \in Nat /\ k <= P[k]
  BY <1>1 DEF Splits, n
<1>13. Splits(s, F, P)
  BY <1>2, <1>8, <1>9, <1>10, <1>11, <1>12 DEF Splits, n
<1>14. QED
  BY <1>13 DEF s

LEMMA Whole ==
    ASSUME NEW S, NEW F \in Seq(S), NEW n \in Nat, Len(F) = n
    PROVE  SubSeq(F, 1, n) = F
<1>1. \A i \in 1 .. n : F[i] \in S
  BY ElementOfSeq
<1>2. /\ SubSeq(F, 1, n) \in Seq(S)
      /\ Len(SubSeq(F, 1, n)) = IF 1 <= n THEN n - 1 + 1 ELSE 0
      /\ \A i \in 1 .. n - 1 + 1 : SubSeq(F, 1, n)[i] = F[1 + i - 1]
  BY <1>1, SubSeqProperties
<1>3. Len(SubSeq(F, 1, n)) = n
  BY <1>2
<1>4. ASSUME NEW i \in 1 .. n PROVE SubSeq(F, 1, n)[i] = F[i]
  <2>1. i \in 1 .. n - 1 + 1 /\ 1 + i - 1 = i
    OBVIOUS
  <2>2. QED
    BY <1>2, <2>1
<1>5. QED
  BY <1>2, <1>3, <1>4, SeqEqual

LEMMA EndedFields ==
    ASSUME NEW F \in Seq(Clean), Len(F) = 5
    PROVE  Ended(F) \in Bytes /\ UserAddFields(Ended(F)) = F
<1>1. PICK P : Splits(Ended(F), F, P)
  BY EndedSplits
<1>2. PICK c : c = 5
  OBVIOUS
<1>3. string_split(Ended(F), c) = F
  BY <1>1, <1>2, SplitIs
<1>4. SubSeq(F, 1, c) = F
  BY <1>2, Whole
<1>5. Ended(F) \in Bytes
  BY <1>1 DEF Splits
<1>6. QED
  BY <1>2, <1>3, <1>4, <1>5 DEF UserAddFields

LEMMA JoinedFields ==
    ASSUME NEW F \in Seq(Clean), Len(F) = 6
    PROVE  Joined(F) \in Bytes /\ AuthReqFields(Joined(F)) = F /\ MagicFields(Joined(F)) = F
<1>1. PICK P : Splits(Joined(F), F, P)
  BY JoinedSplits, SMTT(30)
<1>2. PICK c : c = 6
  OBVIOUS
<1>3. string_split(Joined(F), c) = F
  BY <1>1, <1>2, SplitIs
<1>4. SubSeq(F, 1, c) = F
  BY <1>2, Whole
<1>5. Joined(F) \in Bytes
  BY <1>1 DEF Splits
<1>6. QED
  BY <1>2, <1>3, <1>4, <1>5 DEF AuthReqFields, MagicFields

LEMMA URLFieldsOf ==
    ASSUME NEW a \in Clean, NEW b \in Clean
    PROVE  Joined(<<a, b>>) \in Bytes /\ URLFields(Joined(<<a, b>>)) = <<a, b>>
<1> DEFINE F == <<a, b>>
           s == Joined(F)
<1>1. F \in Seq(Clean) /\ Len(F) = 2 /\ Len(F) > 0 /\ F[1] = a /\ F[2] = b
  OBVIOUS
<1> HIDE DEF F
<1>2. PICK P : Splits(s, F, P)
  BY <1>1, JoinedSplits
<1>3. 1 \in 1 .. 2 /\ 2 \in 1 .. 2 /\ 0 \in 0 .. 2 - 1 /\ 1 \in 0 .. 2 - 1 /\ 1 - 1 = 0 /\ 2 - 1 = 1
  OBVIOUS
<1>4. P[0] = 0 /\ P[1] <= Len(s) /\ s \in Bytes
  BY <1>1, <1>2, <1>3 DEF Splits
<1> HIDE DEF s
<1>5. /\ SepFrom(s, P[0] + 1) = P[1] /\ SubSeq(s, P[0] + 1, P[1] - 1) = a
      /\ P[1] \in Nat /\ Len(s) \in Nat
  <2>1. /\ SepFrom(s, P[1 - 1] + 1) = P[1] /\ SubSeq(s, P[1 - 1] + 1, P[1] - 1) = F[1]
        /\ P[1] \in Nat /\ Len(s) \in Nat
    <3>1. \A k \in 1 .. Len(F) : SepFrom(s, P[k - 1] + 1) = P[k] /\ SubSeq(s, P[k - 1] + 1, P[k] - 1) = F[k]
      BY <1>2, SepAt
    <3>2. \A k \in 1 .. Len(F) : P[k] \in Nat /\ Len(s) \in Nat
      BY <1>2, FieldOf
    <3>3. QED
      BY <1>1, <1>3, <3>1, <3>2
  <2>2. QED
    BY <1>1, <1>3, <2>1
<1>6. SubSeq(s, P[1] + 1, P[2] - 1) = b /\ P[2] \in Nat
  <2>1. SubSeq(s, P[2 - 1] + 1, P[2] - 1) = F[2] /\ P[2] \in Nat
    <3>1. \A k \in 1 .. Len(F) : SubSeq(s, P[k - 1] + 1, P[k] - 1) = F[k]
      BY <1>2, SepAt
    <3>2. \A k \in 1 .. Len(F) : P[k] \in Nat
      BY <1>2, FieldOf
    <3>3. QED
      BY <1>1, <1>3, <3>1, <3>2
  <2>2. QED
    BY <1>1, <1>3, <2>1
<1>7. Len(s) = P[2] - 1
  <2>1. Len(s) = P[2] \/ Len(s) + 1 = P[2]
    BY <1>1, <1>2 DEF Splits
  <2>2. PICK Q : Splits(Ended(F), F, Q) /\ Len(Ended(F)) = Q[2]
    BY <1>1, EndedSplits
  <2>3. P[2] = P[1] + Len(b) + 1 /\ P[1] = P[0] + Len(a) + 1 /\ Len(a) \in Nat /\ Len(b) \in Nat
    <3>1. P[1] = P[1 - 1] + Len(F[1]) + 1 /\ P[2] = P[2 - 1] + Len(F[2]) + 1
          /\ Len(F[1]) \in Nat /\ Len(F[2]) \in Nat
      <4>1. \A k \in 1 .. Len(F) : P[k] = P[k - 1] + Len(F[k]) + 1 /\ Len(F[k]) \in Nat
        BY <1>2, FieldOf
      <4>2. QED
        BY <1>1, <1>3, <4>1
    <3>2. QED
      BY <1>1, <1>3, <3>1
  <2>4. Q[2] = Q[1] + Len(b) + 1 /\ Q[1] = Q[0] + Len(a) + 1 /\ Q[0] = 0
    <3>1. Q[1] = Q[1 - 1] + Len(F[1]) + 1 /\ Q[2] = Q[2 - 1] + Len(F[2]) + 1
      <4>1. \A k \in 1 .. Len(F) : Q[k] = Q[k - 1] + Len(F[k]) + 1
        BY <2>2, FieldOf
      <4>2. QED
        BY <1>1, <1>3, <4>1
    <3>2. Q[0] = 0
      BY <2>2 DEF Splits
    <3>3. QED
      BY <1>1, <1>3, <3>1, <3>2
  <2>5. s = SubSeq(Ended(F), 1, Len(Ended(F)) - 1)
    BY DEF s, Joined, Front
  <2>6. P[2] = Q[2]
    BY <1>4, <2>3, <2>4
  <2> DEFINE L == P[2] - 1
  <2>7. L \in Nat /\ s = SubSeq(Ended(F), 1, L) /\ Ended(F) \in Bytes /\ Len(Ended(F)) = L + 1
    <3>1. Ended(F) \in Bytes
      BY <2>2 DEF Splits
    <3>2. PICK x, y, z : x = P[2] /\ y = P[1] /\ z = Len(b)
      OBVIOUS
    <3>3. x \in Nat /\ y \in Nat /\ z \in Nat /\ x = y + z + 1
      BY <1>5, <1>6, <2>3, <3>2
    <3>4. x - 1 \in Nat /\ x - 1 + 1 = x
      BY <3>3
    <3>5. QED
      BY <2>2, <2>5, <2>6, <3>1, <3>2, <3>4
  <2> HIDE DEF L
  <2>8. \A i \in 1 .. L : Ended(F)[i] \in Byte
    BY <2>7, BytesType
  <2>9. Len(SubSeq(Ended(F), 1, L)) = IF 1 <= L THEN L - 1 + 1 ELSE 0
    BY <2>7, <2>8, SubSeqProperties
  <2>10. Len(s) = L
    BY <2>7, <2>9
  <2>11. QED
    BY <2>10 DEF L
<1>8. P[0] + 1 = 1
  BY <1>4
<1>9. SepFrom(s, 1) = P[1] /\ SubSeq(s, 1, P[1] - 1) = a
  BY <1>5, <1>8
<1>10. ~(P[1] > Len(s))
  BY <1>4, <1>5
<1>11. URLFields(s) = <<a, b>>
  BY <1>6, <1>7, <1>9, <1>10 DEF URLFields
<1>12. QED
  BY <1>4, <1>11 DEF s, F

LEMMA ContactFieldsOf ==
    ASSUME NEW F \in Seq(Clean), NEW h \in Nat, Len(F) = 2 * h, h < 100
    PROVE  /\ Ended(<<UINtoString(h)>> \o F) \in Bytes
           /\ ContactFields(Ended(<<UINtoString(h)>> \o F)) = F
<1> DEFINE c == UINtoString(h)
           G == <<c>> \o F
           s == Ended(G)
           n == Len(F)
<1>1. c \in Clean /\ StringtoUIN(c) = h
  BY UINs DEF Clean
<1> HIDE DEF c
<1>2. n \in Nat /\ \A k \in 1 .. n : F[k] \in Clean
  BY LenProperties, ElementOfSeq
<1>3. G \in Seq(Clean) /\ Len(G) = n + 1 /\ G[1] = c /\ \A k \in 1 .. n : G[k + 1] = F[k]
  <2>1. <<c>> \in Seq(Clean) /\ Len(<<c>>) = 1 /\ <<c>>[1] = c
    BY <1>1
  <2>2. /\ <<c>> \o F \in Seq(Clean) /\ Len(<<c>> \o F) = Len(<<c>>) + Len(F)
        /\ \A i \in 1 .. Len(<<c>>) + Len(F) :
              (<<c>> \o F)[i] = IF i <= Len(<<c>>) THEN <<c>>[i] ELSE F[i - Len(<<c>>)]
    BY <2>1, ConcatProperties
  <2> HIDE DEF G
  <2>3. G \in Seq(Clean) /\ Len(G) = 1 + n
        /\ \A i \in 1 .. 1 + n : G[i] = IF i <= 1 THEN c ELSE F[i - 1]
    BY <2>1, <2>2 DEF G
  <2> HIDE DEF n
  <2>4. ASSUME NEW k \in 1 .. n PROVE G[k + 1] = F[k]
    <3>1. k + 1 \in 1 .. 1 + n /\ ~(k + 1 <= 1) /\ (k + 1) - 1 = k
      BY <1>2
    <3>2. QED
      BY <2>3, <3>1
  <2>5. QED
    BY <1>2, <2>3, <2>4
<1> HIDE DEF G
<1>4. PICK P : Splits(s, G, P) /\ Len(s) = P[n + 1]
  BY <1>3, EndedSplits
<1> HIDE DEF s, n
<1>5. \A k \in 1 .. n + 1 : /\ Len(G[k]) \in Nat /\ P[k] \in Nat /\ P[k - 1] \in Nat
                            /\ P[k] = P[k - 1] + Len(G[k]) + 1 /\ P[k] <= Len(s) + 1 /\ P[k - 1] + 1 <= P[k]
                            /\ \A i \in 1 .. Len(G[k]) : s[P[k - 1] + i] = G[k][i]
                            /\ P[k] <= Len(s) => s[P[k]] = Sep
  <2> SUFFICES ASSUME NEW k \in 1 .. n + 1
               PROVE  /\ Len(G[k]) \in Nat /\ P[k] \in Nat /\ P[k - 1] \in Nat
                      /\ P[k] = P[k - 1] + Len(G[k]) + 1 /\ P[k] <= Len(s) + 1 /\ P[k - 1] + 1 <= P[k]
                      /\ \A i \in 1 .. Len(G[k]) : s[P[k - 1] + i] = G[k][i]
                      /\ P[k] <= Len(s) => s[P[k]] = Sep
    OBVIOUS
  <2>1. \A j \in 1 .. Len(G) : FieldAt(s, G, P, j)
    BY <1>4, FieldsOf, Zenon
  <2>2. k \in 1 .. Len(G)
    BY <1>3
  <2>3. FieldAt(s, G, P, k)
    BY <2>1, <2>2, Zenon
  <2>4. QED
    BY <2>3, Zenon DEF FieldAt
<1>6. P[0] = 0 /\ s \in Bytes /\ Len(s) \in Nat
  BY <1>4, BytesType DEF Splits
<1>7. \A k \in 0 .. n : P[k] <= Len(s)
  <2>1. \A k \in 0 .. Len(G) - 1 : P[k] <= Len(s)
    BY <1>4 DEF Splits
  <2>2. QED
    BY <1>2, <1>3, <2>1
<1>8. /\ SepFrom(s, 1) = P[1] /\ SubSeq(s, 1, P[1] - 1) = c /\ P[1] \in Nat /\ P[1] <= Len(s)
  <2>1. \A k \in 1 .. Len(G) : SepFrom(s, P[k - 1] + 1) = P[k] /\ SubSeq(s, P[k - 1] + 1, P[k] - 1) = G[k]
    BY <1>4, SepAt
  <2>2. 1 \in 1 .. Len(G) /\ 1 \in 1 .. n + 1 /\ P[1 - 1] + 1 = 1
    BY <1>2, <1>3, <1>6
  <2>3. SepFrom(s, P[1 - 1] + 1) = P[1] /\ SubSeq(s, P[1 - 1] + 1, P[1] - 1) = G[1] /\ P[1] \in Nat
    BY <1>5, <2>1, <2>2
  <2>4. P[1] <= Len(s)
    <3>1. CASE n = 0
      BY <1>4, <2>3, <3>1
    <3>2. CASE n # 0
      BY <1>2, <1>7, <3>2
    <3>3. QED
      BY <3>1, <3>2
  <2>5. QED
    BY <1>3, <2>2, <2>3, <2>4
<1> DEFINE p == P[1]
           L == Len(s)
           rest == SubSeq(s, p + 1, L)
           Q == [k \in 0 .. n |-> P[k + 1] - p]
<1>9. rest \in Bytes /\ Len(rest) = L - p /\ \A i \in 1 .. L - p : rest[i] = s[p + i]
  <2>1. \A i \in p + 1 .. L : s[i] \in Byte
    BY <1>6, <1>8, BytesType
  <2>2. /\ rest \in Seq(Byte) /\ Len(rest) = IF p + 1 <= L THEN L - (p + 1) + 1 ELSE 0
        /\ \A i \in 1 .. L - (p + 1) + 1 : rest[i] = s[p + 1 + i - 1]
    <3>1. p + 1 \in Int /\ L \in Int
      BY <1>6, <1>8
    <3> HIDE DEF p, L
    <3>2. QED
      BY <2>1, <3>1, SubSeqProperties
  <2>3. p \in Nat /\ L \in Nat /\ p <= L
    BY <1>6, <1>8
  <2> HIDE DEF p, L, rest
  <2>4. Len(rest) = L - p
    BY <2>2, <2>3
  <2>5. ASSUME NEW i \in 1 .. L - p PROVE rest[i] = s[p + i]
    <3>1. i \in 1 .. L - (p + 1) + 1 /\ p + 1 + i - 1 = p + i
      BY <2>3
    <3>2. QED
      BY <2>2, <3>1
  <2>6. QED
    BY <2>2, <2>4, <2>5 DEF Bytes
<1>10. p \in Nat /\ L \in Nat /\ p <= L
  BY <1>6, <1>8
<1>11. \A k \in 0 .. n : Q[k] = P[k + 1] - p
  OBVIOUS
<1>19. SepFrom(s, 1) = p /\ SubSeq(s, 1, p - 1) = c /\ ~(p > Len(s))
  BY <1>6, <1>8
<1> HIDE DEF p, rest, Q
<1>12. ASSUME NEW k \in Nat, k <= n PROVE P[k + 1] \in Nat /\ p + k <= P[k + 1]
  <2> DEFINE S == {m \in Nat : m <= n => p + m <= P[m + 1]}
  <2>0. \A m \in Nat : m <= n => m + 1 \in 1 .. n + 1
    BY <1>2
  <2>1. 0 \in S
    BY <1>10 DEF p
  <2>2. ASSUME NEW m \in Nat, m \in S PROVE m + 1 \in S
    <3>1. SUFFICES ASSUME m + 1 <= n PROVE p + (m + 1) <= P[(m + 1) + 1]
      OBVIOUS
    <3>2. (m + 1) + 1 \in 1 .. n + 1 /\ m + 1 \in 1 .. n + 1 /\ ((m + 1) + 1) - 1 = m + 1 /\ m <= n
      BY <1>2, <3>1
    <3>3. P[m + 1] + 1 <= P[(m + 1) + 1] /\ P[m + 1] \in Nat /\ P[(m + 1) + 1] \in Nat
      BY <1>5, <3>2
    <3>4. p + m <= P[m + 1]
      BY <2>2, <3>2
    <3>5. QED
      BY <1>10, <3>3, <3>4
  <2>3. \A m \in Nat : m \in S
    BY <2>1, <2>2, SetInduction
  <2>4. p + k <= P[k + 1]
    BY <1>12, <2>3
  <2>5. k + 1 \in 1 .. n + 1
    BY <1>12, <2>0
  <2>6. QED
    BY <1>5, <2>4, <2>5
<1>13. Q[0] = 0 /\ Len(rest) = Q[n]
  <2>1. Q[0] = P[0 + 1] - p /\ Q[n] = P[n + 1] - p
    BY <1>2, <1>11
  <2>2. P[0 + 1] = p
    BY DEF p
  <2>3. QED
    BY <1>4, <1>9, <1>10, <2>1, <2>2 DEF L
<1>14. \A k \in 0 .. n : Q[k] \in Nat /\ k <= Q[k]
  <2>1. SUFFICES ASSUME NEW k \in 0 .. n PROVE Q[k] \in Nat /\ k <= Q[k]
    OBVIOUS
  <2>2. P[k + 1] \in Nat /\ p + k <= P[k + 1]
    BY <1>2, <1>12
  <2>3. QED
    BY <1>10, <1>11, <2>2
<1>15. \A k \in 0 .. n - 1 : Q[k] <= Len(rest)
  <2>1. SUFFICES ASSUME NEW k \in 0 .. n - 1 PROVE Q[k] <= Len(rest)
    OBVIOUS
  <2>2. k + 1 \in 0 .. n /\ k \in 0 .. n
    BY <1>2
  <2>3. P[k + 1] <= L /\ P[k + 1] \in Nat /\ Q[k] = P[k + 1] - p
    BY <1>2, <1>7, <1>11, <1>12, <2>2 DEF L
  <2>4. QED
    BY <1>9, <1>10, <2>3
<1>16. ASSUME NEW k \in 1 .. n
       PROVE  /\ Q[k] = Q[k - 1] + Len(F[k]) + 1
              /\ \A i \in 1 .. Len(F[k]) : rest[Q[k - 1] + i] = F[k][i]
              /\ Q[k] <= Len(rest) => rest[Q[k]] = Sep
  <2>1. k + 1 \in 1 .. n + 1 /\ (k + 1) - 1 = k /\ k \in 0 .. n /\ k - 1 \in 0 .. n /\ (k - 1) + 1 = k
    BY <1>2
  <2>2. G[k + 1] = F[k]
    BY <1>3 DEF n
  <2>3. /\ Len(F[k]) \in Nat /\ P[k + 1] \in Nat /\ P[k] \in Nat
        /\ P[k + 1] = P[k] + Len(F[k]) + 1 /\ P[k + 1] <= L + 1
        /\ \A i \in 1 .. Len(F[k]) : s[P[k] + i] = F[k][i]
        /\ P[k + 1] <= L => s[P[k + 1]] = Sep
    BY <1>5, <2>1, <2>2 DEF L
  <2>4. Q[k] = P[k + 1] - p /\ Q[k - 1] = P[k] - p /\ Q[k] \in Nat /\ Q[k - 1] \in Nat /\ P[k + 1] <= L
    <3>1. Q[k] = P[k + 1] - p /\ Q[k - 1] = P[k] - p /\ Q[k] \in Nat /\ Q[k - 1] \in Nat
      BY <1>11, <1>14, <2>1
    <3>2. k = n \/ k + 1 \in 0 .. n
      BY <1>2
    <3>3. QED
      BY <1>4, <1>6, <1>7, <3>1, <3>2 DEF L
  <2>5. PICK a, b, l : a = P[k] /\ b = P[k + 1] /\ l = Len(F[k])
    OBVIOUS
  <2>6. a \in Nat /\ b \in Nat /\ l \in Nat /\ b = a + l + 1 /\ b <= L /\ a - p \in Nat /\ b - p \in Nat
    BY <2>3, <2>4, <2>5
  <2>7. Q[k] = Q[k - 1] + Len(F[k]) + 1
    <3>1. b - p = (a - p) + l + 1
      BY <1>10, <2>6
    <3>2. QED
      BY <2>4, <2>5, <3>1
  <2>8. ASSUME NEW i \in 1 .. Len(F[k]) PROVE rest[Q[k - 1] + i] = F[k][i]
    <3>0. i \in 1 .. l
      BY <2>5
    <3> HIDE DEF L
    <3>1. (a - p) + i \in 1 .. L - p /\ p + ((a - p) + i) = a + i
      BY <1>10, <2>6, <3>0
    <3>2. rest[(a - p) + i] = s[a + i]
      BY <1>9, <3>1 DEF L
    <3>3. QED
      BY <2>3, <2>4, <2>5, <3>2
  <2>9. rest[Q[k]] = Sep
    <3>1. b - p \in 1 .. L - p /\ p + (b - p) = b
      BY <1>10, <2>6
    <3>2. rest[b - p] = s[b]
      BY <1>9, <3>1 DEF L
    <3>3. QED
      BY <2>3, <2>4, <2>5, <3>2
  <2>10. QED
    BY <2>7, <2>8, <2>9
<1>17. Splits(rest, F, Q)
  BY <1>9, <1>13, <1>14, <1>15, <1>16 DEF Splits, n
<1>18. string_split(rest, h) = F
  <2>1. h <= Len(F) /\ Len(rest) = Q[Len(F)]
    BY <1>13 DEF n
  <2>2. QED
    BY <1>17, <2>1, SplitIs
<1>20. ContactFields(s) = CountedFields(c, rest)
  <2>1. ContactFields(s) = CountedFields(SubSeq(s, 1, p - 1), SubSeq(s, p + 1, Len(s)))
    BY <1>19 DEF ContactFields
  <2>2. QED
    BY <1>19, <2>1 DEF rest, L
<1>21. Len(F) % 2 = 0
  BY SMT
<1>22. CountedFields(c, rest) = F
  BY <1>1, <1>18, <1>21 DEF CountedFields, Pairs
<1>23. QED
  BY <1>6, <1>20, <1>22 DEF s, G, c

-----------------------------------------------------------------------------
(* ICQ subtypes.                                                              *)

\* A subtype, all of it.
Sub(t, F, N, s, u, l, adv, ack, w, q, from, to) ==
    [type |-> t, fields |-> F, numbers |-> N, status |-> s, urgent |-> u, tolist |-> l, advanced |-> adv,
     ack |-> ack, away |-> w, seq |-> q, source |-> from, dest |-> to]
None == <<0, 0, 0>>

LEMMA SubIs ==
    ASSUME NEW t, NEW F, NEW N, NEW s, NEW u, NEW l, NEW adv, NEW ack, NEW w, NEW q, NEW from, NEW to,
           NEW x, x = Sub(t, F, N, s, u, l, adv, ack, w, q, from, to)
    PROVE  /\ x.type = t /\ x.fields = F /\ x.numbers = N /\ x.status = s /\ x.urgent = u /\ x.tolist = l
           /\ x.advanced = adv /\ x.ack = ack /\ x.away = w /\ x.seq = q /\ x.source = from /\ x.dest = to
           /\ t # 0 => x # NoSubtype
  BY DEF Sub, NoSubtype, Subtype

LEMMA SubNew ==
    ASSUME NEW t, NEW F
    PROVE  Subtype(t, F) = Sub(t, F, None, 0, FALSE, FALSE, FALSE, FALSE, <<>>, 0, 0, 0)
  BY DEF Sub, Subtype, None

LEMMA SubFlags ==
    ASSUME NEW x, NEW y, NEW z
    PROVE  [x EXCEPT !.urgent = y, !.tolist = z] = [[x EXCEPT !.urgent = y] EXCEPT !.tolist = z]
  OBVIOUS

\* A subtype that a parser has made, and all of it: its flags are still to be set.
Made(t, F, N, s, adv, ack, w) ==
    [Subtype(t, F) EXCEPT !.status = s, !.advanced = adv, !.ack = ack, !.away = w, !.numbers = N]
AsRead(t, F, N, s, adv, ack, w) == Sub(t, F, N, s, FALSE, FALSE, adv, ack, w, 0, 0, 0)

LEMMA SubParsed ==
    ASSUME NEW t, NEW F, NEW N, NEW s, NEW adv, NEW ack, NEW w
    PROVE  Made(t, F, N, s, adv, ack, w) = AsRead(t, F, N, s, adv, ack, w)
<1> DEFINE x == Subtype(t, F)
           x1 == [x EXCEPT !.status = s]
           x2 == [x1 EXCEPT !.advanced = adv]
           x3 == [x2 EXCEPT !.ack = ack]
           x4 == [x3 EXCEPT !.away = w]
           x5 == [x4 EXCEPT !.numbers = N]
<1>0. PICK no, e, o : no = FALSE /\ e = <<>> /\ o = 0
  OBVIOUS
<1>1. x = Sub(t, F, None, o, no, no, no, no, e, o, o, o)
  BY <1>0, SubNew
<1> HIDE DEF x
<1>7. Made(t, F, N, s, adv, ack, w) = x5
  BY DEF Made, x
<1>2. x1 = Sub(t, F, None, s, no, no, no, no, e, o, o, o)
  BY <1>1 DEF Sub
<1> HIDE DEF x1
<1>3. x2 = Sub(t, F, None, s, no, no, adv, no, e, o, o, o)
  BY <1>2 DEF Sub
<1> HIDE DEF x2
<1>4. x3 = Sub(t, F, None, s, no, no, adv, ack, e, o, o, o)
  BY <1>3 DEF Sub
<1> HIDE DEF x3
<1>5. x4 = Sub(t, F, None, s, no, no, adv, ack, w, o, o, o)
  BY <1>4 DEF Sub
<1> HIDE DEF x4
<1>6. x5 = Sub(t, F, N, s, no, no, adv, ack, w, o, o, o)
  BY <1>5 DEF Sub
<1> HIDE DEF x5
<1>8. QED
  BY <1>0, <1>6, <1>7 DEF AsRead

\* What the strings of a message may be, and what its text is.
Says(t, F) ==
    \/ t \in {Type.Normal, Type.AuthRej} /\ \E a \in Bytes : F = <<a>>
    \/ t = Type.URL /\ \E a, b \in Clean : F = <<a, b>>
    \/ t = Type.AuthReq /\ F \in Seq(Clean) /\ Len(F) = 6
    \/ t = Type.UserAdd /\ F \in Seq(Clean) /\ Len(F) = 5
    \/ t = Type.Contact /\ F \in Seq(Clean) /\ \E h \in Nat : Len(F) = 2 * h /\ h < 100
    \/ t \in AutoReq \cup {Type.AuthAcc} /\ F = <<>>
TextOf(t, F) == Text(Subtype(t, F))

LEMMA TextSame ==
    ASSUME NEW x, NEW t, NEW F, x.type = t, x.fields = F
    PROVE  Text(x) = TextOf(t, F)
<1> DEFINE y == Subtype(t, F)
<1>1. y.type = t /\ y.fields = F
  BY DEF Subtype
<1> HIDE DEF y
<1>2. Text(x) = Text(y)
  BY <1>1 DEF Text, AuthReqText, ContactText
<1>3. QED
  BY <1>2 DEF TextOf, y

LEMMA KindsDiffer ==
    /\ Type.Normal = 1 /\ Type.FT = 3 /\ Type.URL = 4 /\ Type.AuthReq = 6 /\ Type.AuthRej = 7
    /\ Type.AuthAcc = 8 /\ Type.UserAdd = 12 /\ Type.WebPager = 13 /\ Type.EmailEx = 14 /\ Type.Contact = 19
    /\ AutoReq = {232, 233, 234, 235, 236}
  BY DEF Type, AutoReq

LEMMA TextRead ==
    ASSUME NEW t, NEW F, Says(t, F)
    PROVE  TextOf(t, F) \in Bytes /\ Fields(t, TextOf(t, F)) = F
<1> DEFINE y == Subtype(t, F)
<1>1. y.type = t /\ y.fields = F /\ TextOf(t, F) = Text(y)
  BY DEF Subtype, TextOf
<1> HIDE DEF y
<1>2. CASE t \in {Type.Normal, Type.AuthRej} /\ \E a \in Bytes : F = <<a>>
  <2>1. PICK a \in Bytes : F = <<a>>
    BY <1>2
  <2>2. F[1] = a
    BY <2>1
  <2>3. Text(y) = F[1]
    BY <1>1, <1>2, KindsDiffer DEF Text
  <2>4. Fields(t, a) = <<a>>
    BY <1>2, KindsDiffer DEF Fields
  <2>5. QED
    BY <1>1, <2>1, <2>2, <2>3, <2>4
<1>3. CASE t = Type.URL /\ \E a, b \in Clean : F = <<a, b>>
  <2>1. PICK a \in Clean, b \in Clean : F = <<a, b>>
    BY <1>3
  <2>2. Text(y) = Joined(F)
    BY <1>1, <1>3, KindsDiffer DEF Text
  <2>3. Fields(t, Joined(F)) = URLFields(Joined(F))
    BY <1>3, KindsDiffer DEF Fields
  <2>4. Joined(<<a, b>>) \in Bytes /\ URLFields(Joined(<<a, b>>)) = <<a, b>>
    BY URLFieldsOf
  <2>5. QED
    BY <1>1, <2>1, <2>2, <2>3, <2>4
<1>4. CASE t = Type.AuthReq /\ F \in Seq(Clean) /\ Len(F) = 6
  <2>1. Text(y) = Joined(F)
    BY <1>1, <1>4, KindsDiffer DEF Text, AuthReqText
  <2>2. Fields(t, Joined(F)) = AuthReqFields(Joined(F))
    BY <1>4, KindsDiffer DEF Fields
  <2>3. QED
    BY <1>1, <1>4, <2>1, <2>2, JoinedFields
<1>5. CASE t = Type.UserAdd /\ F \in Seq(Clean) /\ Len(F) = 5
  <2>1. Text(y) = Ended(F)
    BY <1>1, <1>5, KindsDiffer DEF Text
  <2>2. Fields(t, Ended(F)) = UserAddFields(Ended(F))
    BY <1>5, KindsDiffer DEF Fields
  <2>3. QED
    BY <1>1, <1>5, <2>1, <2>2, EndedFields
<1>6. CASE t = Type.Contact /\ F \in Seq(Clean) /\ \E h \in Nat : Len(F) = 2 * h /\ h < 100
  <2>1. PICK h \in Nat : Len(F) = 2 * h /\ h < 100
    BY <1>6
  <2>2. Len(F) \div 2 = h
    BY <2>1, SMT
  <2>3. Text(y) = Ended(<<UINtoString(h)>> \o F)
    BY <1>1, <1>6, <2>2, KindsDiffer DEF Text, ContactText
  <2>4. Fields(t, Text(y)) = ContactFields(Text(y))
    BY <1>6, KindsDiffer DEF Fields
  <2>5. QED
    BY <1>1, <1>6, <2>1, <2>3, <2>4, ContactFieldsOf
<1>7. CASE t \in AutoReq \cup {Type.AuthAcc} /\ F = <<>>
  <2>1. Text(y) = <<>>
    BY <1>1, <1>7, KindsDiffer DEF Text
  <2>2. Fields(t, <<>>) = <<>>
    BY <1>7, KindsDiffer DEF Fields
  <2>3. QED
    BY <1>1, <1>7, <2>1, <2>2, NoBytes
<1>8. QED
  BY <1>2, <1>3, <1>4, <1>5, <1>6, <1>7 DEF Says

-----------------------------------------------------------------------------
(* What each subtype is written as, and that it is read back.                 *)

LEMMA Pair == \A a, b \in Byte : <<a, b>> = Join(One(a), One(b))
<1>1. SUFFICES ASSUME NEW a \in Byte, NEW b \in Byte PROVE <<a, b>> = <<a>> \o <<b>>
  BY DEF Join, One
<1>2. <<a, b>> \in Seq(Byte) /\ <<a>> \in Seq(Byte) /\ <<b>> \in Seq(Byte)
  OBVIOUS
<1>3. /\ <<a>> \o <<b>> \in Seq(Byte) /\ Len(<<a>> \o <<b>>) = Len(<<a>>) + Len(<<b>>)
      /\ \A i \in 1 .. Len(<<a>>) + Len(<<b>>) :
             (<<a>> \o <<b>>)[i] = IF i <= Len(<<a>>) THEN <<a>>[i] ELSE <<b>>[i - Len(<<a>>)]
  BY <1>2, ConcatProperties
<1>4. Len(<<a>>) = 1 /\ Len(<<b>>) = 1 /\ Len(<<a, b>>) = 2 /\ <<a>>[1] = a /\ <<b>>[1] = b
      /\ <<a, b>>[1] = a /\ <<a, b>>[2] = b
  OBVIOUS
<1> DEFINE s == <<a>> \o <<b>>
           t == <<a, b>>
           u == <<a>>
           v == <<b>>
<1>5. s \in Seq(Byte) /\ Len(s) = Len(u) + Len(v)
      /\ \A i \in 1 .. Len(u) + Len(v) : s[i] = IF i <= Len(u) THEN u[i] ELSE v[i - Len(u)]
  BY <1>3
<1>6. Len(u) = 1 /\ Len(v) = 1 /\ Len(t) = 2 /\ u[1] = a /\ v[1] = b /\ t[1] = a /\ t[2] = b /\ t \in Seq(Byte)
  BY <1>2, <1>4
<1> HIDE DEF s, t, u, v
<1>7. Len(s) = 2 /\ s[1] = a /\ s[2] = b
  <2>1. Len(s) = 2 /\ \A i \in 1 .. 2 : s[i] = IF i <= 1 THEN u[i] ELSE v[i - 1]
    BY <1>5, <1>6
  <2>2. 1 \in 1 .. 2 /\ 2 \in 1 .. 2 /\ 1 <= 1 /\ ~(2 <= 1) /\ 2 - 1 = 1
    OBVIOUS
  <2>3. QED
    BY <1>6, <2>1, <2>2
<1>8. \A i \in 1 .. 2 : i = 1 \/ i = 2
  OBVIOUS
<1>9. s = t
  BY <1>5, <1>6, <1>7, <1>8, SeqEqual
<1>10. QED
  BY <1>9 DEF s, t

FlagsByte(t) == IF t \in AutoReq THEN 3 ELSE 0
Priority(x) == IF x.ack THEN 0 ELSE IF x.tolist THEN 4 ELSE IF x.urgent THEN 2 ELSE 1
BodyOf(x) == IF x.ack THEN OutputBodyUINACK(x) ELSE OutputBodyUIN(x)

LEMMA TypeBytes ==
    /\ \A t \in Types : t \in Byte /\ t \in Word2 /\ FlagsByte(t) \in Byte
    /\ \A x : Priority(x) \in Word2 /\ Priority(x) \in {0, 1, 2, 4}
<1>1. Types = {1, 3, 4, 6, 7, 8, 12, 13, 14, 19, 232, 233, 234, 235, 236}
  BY DEF Types, Type
<1>2. \A t \in Types : t \in Byte
  BY <1>1 DEF Byte
<1>3. \A t \in Types : t \in Word2
  BY <1>1, SMT DEF Word2
<1>4. \A t : FlagsByte(t) \in Byte
  BY SMT DEF FlagsByte, Byte
<1>5. \A x : Priority(x) \in {0, 1, 2, 4}
  BY DEF Priority
<1>6. \A p \in {0, 1, 2, 4} : p \in Word2
  BY SMT DEF Word2
<1>7. QED
  BY <1>2, <1>3, <1>4, <1>5, <1>6

LEMMA OutputAdvanced ==
    ASSUME NEW x, x.type \in Types, x.advanced = TRUE, x.status \in Word2, BodyOf(x) \in Bytes
    PROVE  Output(x) = Join(One(x.type), Join(One(FlagsByte(x.type)),
               Join(LE(x.status, 2), Join(LE(Priority(x), 2), BodyOf(x)))))
<1> DEFINE t == x.type
           f == FlagsByte(x.type)
           s == LE(x.status, 2)
           p == LE(Priority(x), 2)
           b == BodyOf(x)
<1>1. Output(x) = <<t, f>> \o ((s \o p) \o b)
  BY DEF Output, OutputBody, FlagsByte, Priority, BodyOf
<1>2. t \in Byte /\ f \in Byte /\ s \in Bytes /\ p \in Bytes /\ b \in Bytes
  BY TypeBytes, Written
<1> HIDE DEF t, f, s, p, b
<1>3. Output(x) = Join(Join(One(t), One(f)), Join(Join(s, p), b))
  BY <1>1, <1>2, Pair DEF Join
<1>4. One(t) \in Bytes /\ One(f) \in Bytes
  BY <1>2, OneIs
<1>5. Join(Join(s, p), b) = Join(s, Join(p, b)) /\ Join(s, Join(p, b)) \in Bytes
  BY <1>2, JoinIs
<1>6. Output(x) = Join(One(t), Join(One(f), Join(s, Join(p, b))))
  BY <1>3, <1>4, <1>5, JoinAssoc
<1>7. QED
  BY <1>6 DEF t, f, s, p, b

LEMMA OutputPlain ==
    ASSUME NEW x, x.type \in Types, x.advanced = FALSE, BodyOf(x) \in Bytes
    PROVE  Output(x) = Join(One(x.type), Join(One(FlagsByte(x.type)), BodyOf(x)))
<1> DEFINE t == x.type
           f == FlagsByte(x.type)
           b == BodyOf(x)
<1>1. Output(x) = <<t, f>> \o (<<>> \o b)
  BY DEF Output, OutputBody, FlagsByte, BodyOf
<1>2. t \in Byte /\ f \in Byte /\ b \in Bytes
  BY TypeBytes
<1> HIDE DEF t, f, b
<1>3. Output(x) = Join(Join(One(t), One(f)), b)
  BY <1>1, <1>2, Pair, BytesType DEF Join
<1>4. One(t) \in Bytes /\ One(f) \in Bytes
  BY <1>2, OneIs
<1>6. Output(x) = Join(One(t), Join(One(f), b))
  BY <1>2, <1>3, <1>4, JoinAssoc
<1>7. QED
  BY <1>6 DEF t, f, b

SetFlags(x, y, z) == [x EXCEPT !.urgent = y, !.tolist = z]

LEMMA TwoFlags ==
    ASSUME NEW t, NEW F, NEW N, NEW s, NEW u, NEW l, NEW adv, NEW ack, NEW w, NEW q, NEW from, NEW to,
           NEW x, x = Sub(t, F, N, s, u, l, adv, ack, w, q, from, to), NEW y, NEW z
    PROVE  SetFlags(x, y, z) = Sub(t, F, N, s, y, z, adv, ack, w, q, from, to)
<1> DEFINE x1 == [x EXCEPT !.urgent = y]
<1>1. x1 = Sub(t, F, N, s, y, l, adv, ack, w, q, from, to)
  BY DEF Sub
<1>2. SetFlags(x, y, z) = [x1 EXCEPT !.tolist = z]
  BY DEF SetFlags
<1> HIDE DEF x1
<1>3. [x1 EXCEPT !.tolist = z] = Sub(t, F, N, s, y, z, adv, ack, w, q, from, to)
  BY <1>1 DEF Sub
<1>4. QED
  BY <1>2, <1>3

LEMMA Priorities ==
    ASSUME NEW t, NEW F, NEW N, NEW s, NEW adv, NEW ack, NEW w, NEW u \in BOOLEAN, NEW l \in BOOLEAN, NEW p,
           p = IF ack THEN 0 ELSE IF l THEN 4 ELSE IF u THEN 2 ELSE 1, ack \in BOOLEAN
    PROVE  ParsePriority(AsRead(t, F, N, s, adv, ack, w), p) =
               Sub(t, F, N, s, u /\ ~l /\ ~ack, l /\ ~ack, adv, ack, w, 0, 0, 0)
<1> DEFINE uu == u /\ ~l /\ ~ack
           ll == l /\ ~ack
           x == AsRead(t, F, N, s, adv, ack, w)
<1>1. Bit(p, 2) = uu
  BY SMT DEF Bit
<1>2. (Bit(p, 4) \/ (~Bit(p, 2) /\ p \notin {0, 1})) = ll
  BY SMT DEF Bit
<1> HIDE DEF uu, ll
<1>3. ParsePriority(x, p) = SetFlags(x, uu, ll)
  BY <1>1, <1>2 DEF ParsePriority, SetFlags
<1>4. PICK no, y, z, o : no = FALSE /\ y = uu /\ z = ll /\ o = 0
  OBVIOUS
<1>6. x = Sub(t, F, N, s, no, no, adv, ack, w, o, o, o)
  BY <1>4 DEF AsRead
<1> HIDE DEF x
<1>7. SetFlags(x, y, z) = Sub(t, F, N, s, y, z, adv, ack, w, o, o, o)
  BY <1>6, TwoFlags
<1>5. QED
  BY <1>3, <1>4, <1>7 DEF uu, ll, x

\* How long strings are that are put together from the right.
LEMMA JoinTwo == \A a, b \in Bytes : Join(a, b) \in Bytes /\ Len(Join(a, b)) = Len(a) + Len(b)
  BY JoinIs

LEMMA Lens3 ==
    ASSUME NEW a1 \in Bytes, NEW a2 \in Bytes, NEW a3 \in Bytes
    PROVE  Join(a1, Join(a2, a3)) \in Bytes /\ Len(Join(a1, Join(a2, a3))) = Len(a1) + (Len(a2) +
           Len(a3))
<1> DEFINE z == Join(a2, a3)
<1>1. z \in Bytes /\ Len(z) = Len(a2) + Len(a3)
  BY JoinTwo
<1> HIDE DEF z
<1>2. Join(a1, z) \in Bytes /\ Len(Join(a1, z)) = Len(a1) + Len(z)
  BY <1>1, JoinTwo
<1>3. QED
  BY <1>1, <1>2 DEF z

LEMMA Lens4 ==
    ASSUME NEW a1 \in Bytes, NEW a2 \in Bytes, NEW a3 \in Bytes, NEW a4 \in Bytes
    PROVE  Join(a1, Join(a2, Join(a3, a4))) \in Bytes /\ Len(Join(a1, Join(a2, Join(a3, a4)))) = Len(a1)
           + (Len(a2) + (Len(a3) + Len(a4)))
<1> DEFINE z == Join(a2, Join(a3, a4))
<1>1. z \in Bytes /\ Len(z) = Len(a2) + (Len(a3) + Len(a4))
  BY Lens3
<1> HIDE DEF z
<1>2. Join(a1, z) \in Bytes /\ Len(Join(a1, z)) = Len(a1) + Len(z)
  BY <1>1, JoinTwo
<1>3. QED
  BY <1>1, <1>2 DEF z

LEMMA Lens5 ==
    ASSUME NEW a1 \in Bytes, NEW a2 \in Bytes, NEW a3 \in Bytes, NEW a4 \in Bytes, NEW a5 \in Bytes
    PROVE  Join(a1, Join(a2, Join(a3, Join(a4, a5)))) \in Bytes /\ Len(Join(a1, Join(a2, Join(a3,
           Join(a4, a5))))) = Len(a1) + (Len(a2) + (Len(a3) + (Len(a4) + Len(a5))))
<1> DEFINE z == Join(a2, Join(a3, Join(a4, a5)))
<1>1. z \in Bytes /\ Len(z) = Len(a2) + (Len(a3) + (Len(a4) + Len(a5)))
  BY Lens4
<1> HIDE DEF z
<1>2. Join(a1, z) \in Bytes /\ Len(Join(a1, z)) = Len(a1) + Len(z)
  BY <1>1, JoinTwo
<1>3. QED
  BY <1>1, <1>2 DEF z

\* The bodies of subtypes.
Within(s, n) == s \in Bytes /\ Len(s) <= Limit + n

LEMMA ShortIs ==
    ASSUME NEW a \in Short
    PROVE  /\ a \in Bytes /\ Len(a) \in Nat /\ Len(a) + 1 \in Word2 /\ Within(a, 0)
           /\ NullString(a) \in Bytes /\ Len(NullString(a)) = Len(a) + 3
<1>0. a \in Bytes /\ Len(a) <= Limit
  BY DEF Short
<1>1. a \in Bytes /\ Len(a) \in Nat
  BY <1>0, BytesType
<1>2. Len(a) + 1 \in Word2
  BY <1>0, <1>1, SMT DEF Word2, Limit
<1>10. Within(a, 0)
  BY <1>0, <1>1, SMT DEF Within, Limit
<1> DEFINE n == LE(Len(a) + 1, 2)
<1>3. n \in Bytes /\ Len(n) = 2
  BY <1>2, Integers2
<1>4. 0 \in Byte
  BY DEF Byte
<1>5. One(0) \in Bytes /\ Len(One(0)) = 1
  BY <1>4, OneIs
<1>6. NullString(a) = Join(Join(n, a), One(0))
  BY DEF NullString, One, Join
<1> HIDE DEF n
<1>7. Join(n, a) \in Bytes /\ Len(Join(n, a)) = 2 + Len(a)
  BY <1>1, <1>3, JoinTwo
<1>8. NullString(a) \in Bytes /\ Len(NullString(a)) = 2 + Len(a) + 1
  BY <1>5, <1>6, <1>7, JoinTwo
<1>9. QED
  BY <1>1, <1>2, <1>8, <1>10

LEMMA Fixed ==
    /\ LE(0, 2) \in Bytes /\ Len(LE(0, 2)) = 2 /\ 0 \in Word2 /\ 0 \in Word4 /\ White \in Word4
    /\ LE(0, 4) \in Bytes /\ Len(LE(0, 4)) = 4 /\ LE(White, 4) \in Bytes /\ Len(LE(White, 4)) = 4
    /\ Zeros(4) \in Bytes /\ Len(Zeros(4)) = 4
    /\ <<255, 255, 255, 255>> \in Bytes /\ Len(<<255, 255, 255, 255>>) = 4
<1>1. 0 \in Word2 /\ 0 \in Word4 /\ White \in Word4
  BY SMT DEF Word2, Word4, White
<1>2. 0 \in Byte /\ 255 \in Byte
  BY DEF Byte
<1>3. LE(0, 2) \in Bytes /\ Len(LE(0, 2)) = 2
  BY <1>1, Integers2, SMT
<1>4. LE(0, 4) \in Bytes /\ Len(LE(0, 4)) = 4 /\ LE(White, 4) \in Bytes /\ Len(LE(White, 4)) = 4
  BY <1>1, Integers4, SMT
<1>5. Zeros(4) \in Seq(Byte) /\ Len(Zeros(4)) = 4
  BY <1>2, SMT DEF Zeros
<1>6. <<255, 255, 255, 255>> \in Bytes /\ Len(<<255, 255, 255, 255>>) = 4
  BY <1>2, Tuples
<1>7. QED
  BY <1>1, <1>3, <1>4, <1>5, <1>6, SMT DEF Bytes

\* What is read from the body of x: a, before anything else.
Body(x, a) ==
    /\ \E vv : Gives(BodyLayout(x.type, x.advanced, x.ack), BodyOf(x), vv) /\ vv[1] = a
    /\ Within(BodyOf(x), 11)

\* The body of a message that is not acknowledged.
LEMMA GivesBody ==
    ASSUME NEW x, NEW t, NEW F, x.type = t, x.fields = F, x.ack = FALSE, t # Type.FT,
           Says(t, F), TextOf(t, F) \in Short, x.advanced \in BOOLEAN
    PROVE  Body(x, TextOf(t, F))
<1> DEFINE a == TextOf(t, F)
           b == LE(0, 4)
           c == LE(White, 4)
<1>1. BodyOf(x) = OutputBodyUIN(x) /\ Text(x) = a
  BY TextSame DEF BodyOf
<1>0. Within(a, 0)
  BY ShortIs
<1>2. a \in Bytes /\ Len(a) \in Nat /\ Len(a) + 1 \in Word2 /\ NullString(a) \in Bytes /\ Len(NullString(a)) = Len(a) + 3
  BY ShortIs
<1> HIDE DEF a
<1>3. CASE t = Type.Normal /\ x.advanced
  <2>1. BodyOf(x) = NullString(a) \o (b \o c)
    <3>1. NormalBody(x) = NullString(Text(x)) \o (b \o c)
      BY <1>3 DEF NormalBody
    <3>2. QED
      BY <1>1, <1>3, <3>1, KindsDiffer DEF OutputBodyUIN
  <2>2. BodyOf(x) = Join(NullString(a), Join(b, c))
    BY <2>1 DEF Join
  <2>3. PICK m, n : m = 0 /\ n = White /\ m \in Word4 /\ n \in Word4
    BY Fixed
  <2>4. Gives(<<NullStr, U32, U32>>, BodyOf(x), <<a, m, n>>)
    BY <1>2, <2>2, <2>3, GivesColoured
  <2>5. BodyLayout(x.type, x.advanced, x.ack) = <<NullStr, U32, U32>>
    BY <1>3, KindsDiffer DEF BodyLayout
  <2>6. <<a, m, n>>[1] = a
    OBVIOUS
  <2>7. b \in Bytes /\ c \in Bytes /\ Len(b) = 4 /\ Len(c) = 4
    BY Fixed
  <2> HIDE DEF b, c
  <2>8. Join(b, c) \in Bytes /\ Len(Join(b, c)) = 8
    <3>1. Join(b, c) \in Bytes /\ Len(Join(b, c)) = 4 + 4
      BY <2>7, JoinTwo
    <3>2. QED
      BY <3>1, 4 + 4 = 8
  <2>9. BodyOf(x) \in Bytes /\ Len(BodyOf(x)) = Len(a) + 3 + 8
    <3>1. NullString(a) \in Bytes /\ Len(NullString(a)) = Len(a) + 3
      BY <1>2
    <3>2. QED
      BY <2>2, <2>8, <3>1, JoinTwo
  <2>10. Within(BodyOf(x), 11)
    BY <1>0, <1>2, <2>9, SMT DEF Within, Limit
  <2>11. QED
    BY <2>4, <2>5, <2>6, <2>9, <2>10 DEF a, Body
<1>4. CASE ~(t = Type.Normal /\ x.advanced)
  <2>1. BodyOf(x) = NullString(a)
    <3>1. CASE t = Type.Normal
      <4>1. BodyOf(x) = NullString(a) \o <<>>
        <5>0. x.advanced = FALSE
          BY <1>4, <3>1
        <5>1. NormalBody(x) = NullString(Text(x)) \o <<>>
          BY <5>0 DEF NormalBody
        <5>2. QED
          BY <1>1, <3>1, <5>1, KindsDiffer DEF OutputBodyUIN
      <4>2. QED
        BY <1>2, <4>1, BytesType
    <3>2. CASE t # Type.Normal
      BY <1>1, <3>2 DEF OutputBodyUIN
    <3>3. QED
      BY <3>1, <3>2
  <2>2. BodyLayout(x.type, x.advanced, x.ack) = <<NullStr>>
    BY <1>4 DEF BodyLayout
  <2>3. Gives(<<NullStr>>, BodyOf(x), <<a>>)
    BY <1>2, <2>1, GivesText
  <2>4. <<a>>[1] = a
    OBVIOUS
  <2>5. Within(BodyOf(x), 11)
    BY <1>0, <1>2, <2>1, SMT DEF Within, Limit
  <2>6. QED
    BY <1>2, <2>1, <2>2, <2>3, <2>4, <2>5 DEF a, Body
<1>5. QED
  BY <1>3, <1>4

LEMMA GivesAck ==
    ASSUME NEW x, NEW t, NEW a \in Short, x.type = t, x.away = a, x.ack = TRUE, t # Type.FT, x.advanced = TRUE
    PROVE  Body(x, a)
<1> DEFINE b == Zeros(4)
           c == <<255, 255, 255, 255>>
<1>1. BodyOf(x) = OutputBodyUINACK(x)
  BY DEF BodyOf
<1>0. Within(a, 0)
  BY ShortIs
<1>2. a \in Bytes /\ Len(a) \in Nat /\ Len(a) + 1 \in Word2 /\ NullString(a) \in Bytes /\ Len(NullString(a)) = Len(a) + 3
  BY ShortIs
<1>3. CASE t = Type.Normal
  <2>1. BodyOf(x) = (NullString(a) \o b) \o c
    BY <1>1, <1>3, KindsDiffer DEF OutputBodyUINACK
  <2>7. b \in Bytes /\ c \in Bytes /\ Len(b) = 4 /\ Len(c) = 4
    BY Fixed
  <2> HIDE DEF b, c
  <2>2. BodyOf(x) = Join(NullString(a), Join(b, c))
    BY <1>2, <2>1, <2>7, JoinAssoc DEF Join
  <2>8. Join(b, c) \in Bytes /\ Len(Join(b, c)) = 8
    <3>1. Join(b, c) \in Bytes /\ Len(Join(b, c)) = 4 + 4
      BY <2>7, JoinTwo
    <3>2. QED
      BY <3>1, 4 + 4 = 8
  <2>4. Gives(<<NullStr, Skip(8)>>, BodyOf(x), <<a>>)
    BY <1>2, <2>2, <2>8, GivesTextAck
  <2>5. BodyLayout(x.type, x.advanced, x.ack) = <<NullStr, Skip(8)>>
    BY <1>3, KindsDiffer DEF BodyLayout
  <2>6. <<a>>[1] = a
    OBVIOUS
  <2>9. BodyOf(x) \in Bytes /\ Len(BodyOf(x)) = Len(a) + 3 + 8
    <3>1. NullString(a) \in Bytes /\ Len(NullString(a)) = Len(a) + 3
      BY <1>2
    <3>2. QED
      BY <2>2, <2>8, <3>1, JoinTwo
  <2>10. Within(BodyOf(x), 11)
    BY <1>0, <1>2, <2>9, SMT DEF Within, Limit
  <2>11. QED
    BY <2>4, <2>5, <2>6, <2>9, <2>10 DEF Body
<1>4. CASE t # Type.Normal
  <2>1. BodyOf(x) = NullString(a)
    BY <1>1, <1>4 DEF OutputBodyUINACK
  <2>2. BodyLayout(x.type, x.advanced, x.ack) = <<NullStr>>
    BY <1>4 DEF BodyLayout
  <2>3. Gives(<<NullStr>>, BodyOf(x), <<a>>)
    BY <1>2, <2>1, GivesText
  <2>4. <<a>>[1] = a
    OBVIOUS
  <2>5. Within(BodyOf(x), 11)
    BY <1>0, <1>2, <2>1, SMT DEF Within, Limit
  <2>6. QED
    BY <1>2, <2>1, <2>2, <2>3, <2>4, <2>5 DEF Body
<1>5. QED
  BY <1>3, <1>4

-----------------------------------------------------------------------------
(* What a parser makes of what was written.                                   *)

LEMMA ParsedText ==
    ASSUME NEW t, NEW vv, NEW s, NEW p, NEW adv, NEW ack \in BOOLEAN, NEW F, t # Type.FT,
           F = IF ack THEN <<>> ELSE Fields(t, vv[1])
    PROVE  Parsed(t, vv, s, p, adv, ack) =
               ParsePriority(AsRead(t, F, None, s, adv, ack, IF ack THEN vv[1] ELSE <<>>), p)
<1> DEFINE w == IF ack THEN vv[1] ELSE <<>>
<1>1. Subtype(t, F).numbers = None
  BY DEF Subtype, None
<1>4. (CASE t = Type.FT -> <<vv[1], vv[3]>> [] t # Type.FT /\ ack -> <<>> [] OTHER -> Fields(t, vv[1])) = F
  OBVIOUS
<1>5. Parsed(t, vv, s, p, adv, ack) = ParsePriority(Made(t, F, None, s, adv, ack, w), p)
  BY <1>1, <1>4 DEF Parsed, Made
<1>6. QED
  BY <1>5, SubParsed

LEMMA ParsedFile ==
    ASSUME NEW a, NEW b, NEW c, NEW e, NEW g, NEW vv, vv = <<a, b, c, e, g>>, NEW s, NEW p, NEW adv, NEW ack
    PROVE  Parsed(Type.FT, vv, s, p, adv, ack) =
               ParsePriority(AsRead(Type.FT, <<a, c>>, <<g, b, e>>, s, adv, ack, <<>>), p)
<1> DEFINE t == Type.FT
           F == <<a, c>>
           N == <<g, b, e>>
<1>1. vv[1] = a /\ vv[2] = b /\ vv[3] = c /\ vv[4] = e /\ vv[5] = g
  OBVIOUS
<1>4. (CASE t = Type.FT -> <<vv[1], vv[3]>> [] t # Type.FT /\ ack -> <<>> [] OTHER -> Fields(t, vv[1])) = F
  BY <1>1
<1>5. <<vv[5], vv[2], vv[4]>> = N
  BY <1>1
<1>6. Parsed(t, vv, s, p, adv, ack) = ParsePriority(Made(t, F, N, s, adv, ack, <<>>), p)
  BY <1>4, <1>5 DEF Parsed, Made
<1>7. QED
  BY <1>6, SubParsed

LEMMA SaysType ==
    ASSUME NEW t, NEW F, Says(t, F)
    PROVE  t \in Types /\ t # Type.FT /\ t # 0
<1>1. t \in {Type.Normal, Type.AuthRej, Type.URL, Type.AuthReq, Type.UserAdd, Type.Contact, Type.AuthAcc}
         \/ t \in AutoReq
  BY DEF Says
<1>2. t \in {1, 7, 4, 6, 12, 19, 8, 232, 233, 234, 235, 236}
  BY <1>1, KindsDiffer
<1>3. Types = {1, 3, 4, 6, 7, 8, 12, 13, 14, 19, 232, 233, 234, 235, 236}
  BY DEF Types, Type
<1>4. Type.FT = 3
  BY KindsDiffer
<1>5. QED
  BY <1>2, <1>3, <1>4

\* The flags of x that arrive.
Urgent(x) == x.urgent /\ ~x.tolist /\ ~x.ack
ToList(x) == x.tolist /\ ~x.ack
\* An advanced subtype x, whose body was read as fields F, numbers N and away message w.
ReadBack(x, F, N, w) ==
    Sub(x.type, F, N, x.status, Urgent(x), ToList(x), x.advanced, x.ack, w, 0, 0, 0)
Booleans(x) == x.urgent \in BOOLEAN /\ x.tolist \in BOOLEAN /\ x.ack \in BOOLEAN

LEMMA PriorityRead ==
    ASSUME NEW x, Booleans(x), NEW t, NEW F, NEW N, NEW s, NEW adv, NEW w
    PROVE  ParsePriority(AsRead(t, F, N, s, adv, x.ack, w), Priority(x)) =
               Sub(t, F, N, s, Urgent(x), ToList(x), adv, x.ack, w, 0, 0, 0)
<1> DEFINE p == Priority(x)
           u == x.urgent
           l == x.tolist
           ack == x.ack
<1>1. u \in BOOLEAN /\ l \in BOOLEAN /\ ack \in BOOLEAN
  BY DEF Booleans
<1>2. p = IF ack THEN 0 ELSE IF l THEN 4 ELSE IF u THEN 2 ELSE 1
  BY DEF Priority
<1>3. Urgent(x) = (u /\ ~l /\ ~ack) /\ ToList(x) = (l /\ ~ack)
  BY DEF Urgent, ToList
<1> HIDE DEF p, u, l, ack
<1>4. ParsePriority(AsRead(t, F, N, s, adv, ack, w), p) =
          Sub(t, F, N, s, u /\ ~l /\ ~ack, l /\ ~ack, adv, ack, w, 0, 0, 0)
  BY <1>1, <1>2, Priorities
<1>5. QED
  BY <1>3, <1>4 DEF p, ack

LEMMA ReadsBack ==
    ASSUME NEW x, NEW vv, NEW F, NEW N, NEW w, Booleans(x),
           \A p : Parsed(x.type, vv, x.status, p, x.advanced, x.ack) =
                      ParsePriority(AsRead(x.type, F, N, x.status, x.advanced, x.ack, w), p)
    PROVE  Parsed(x.type, vv, x.status, Priority(x), x.advanced, x.ack) = ReadBack(x, F, N, w)
  BY PriorityRead DEF ReadBack

LEMMA TextReadsBack ==
    ASSUME NEW x, NEW vv, NEW F, Booleans(x), x.type # Type.FT, ~x.ack => Fields(x.type, vv[1]) = F,
           x.ack => F = <<>>
    PROVE  Parsed(x.type, vv, x.status, Priority(x), x.advanced, x.ack) =
               ReadBack(x, F, None, IF x.ack THEN vv[1] ELSE <<>>)
<1> DEFINE w == IF x.ack THEN vv[1] ELSE <<>>
<1>1. x.ack \in BOOLEAN
  BY DEF Booleans
<1>2. F = IF x.ack THEN <<>> ELSE Fields(x.type, vv[1])
  BY <1>1
<1>3. \A p : Parsed(x.type, vv, x.status, p, x.advanced, x.ack) =
                 ParsePriority(AsRead(x.type, F, None, x.status, x.advanced, x.ack, w), p)
  BY <1>1, <1>2, ParsedText
<1> HIDE DEF w
<1>4. Parsed(x.type, vv, x.status, Priority(x), x.advanced, x.ack) = ReadBack(x, F, None, w)
  BY <1>3, ReadsBack
<1>5. QED
  BY <1>4 DEF w

\* Bytes that hold an advanced subtype.
LEMMA AdvancedHolds ==
    ASSUME NEW x, NEW t, t \in Types, x.type = t, x.advanced = TRUE, x.status \in Word2,
           NEW vv, Gives(BodyLayout(t, x.advanced, x.ack), BodyOf(x), vv), NEW n \in Nat,
           Within(BodyOf(x), n)
    PROVE  /\ Holds(Output(x), x.advanced, x.ack, Parsed(t, vv, x.status, Priority(x), x.advanced, x.ack))
           /\ Within(Output(x), n + 6)
<1> DEFINE f == FlagsByte(t)
           s == x.status
           p == Priority(x)
           b == BodyOf(x)
<1>0. b \in Bytes
  BY DEF Within
<1>1. Output(x) = Join(One(t), Join(One(f), Join(LE(s, 2), Join(LE(p, 2), b))))
  BY <1>0, OutputAdvanced
<1>2. t \in Byte /\ f \in Byte /\ s \in Word2 /\ p \in Word2
  BY TypeBytes
<1> HIDE DEF f, s, p, b
<1>3. Holds(Output(x), x.advanced, x.ack, Parsed(t, vv, s, p, x.advanced, x.ack))
  <2>1. PICK ack : ack = x.ack
    OBVIOUS
  <2>2. Gives(BodyLayout(t, TRUE, ack), b, vv)
    BY <2>1 DEF b
  <2>3. Holds(Output(x), TRUE, ack, Parsed(t, vv, s, p, TRUE, ack))
    BY <1>1, <1>2, <2>2, HoldsAdvanced
  <2>4. QED
    BY <2>1, <2>3
<1>4. One(t) \in Bytes /\ Len(One(t)) = 1 /\ One(f) \in Bytes /\ Len(One(f)) = 1
  BY <1>2, OneIs
<1>5. LE(s, 2) \in Bytes /\ Len(LE(s, 2)) = 2 /\ LE(p, 2) \in Bytes /\ Len(LE(p, 2)) = 2
  BY <1>2, Integers2
<1>6. b \in Bytes
  BY <1>0 DEF b
<1>7. /\ Output(x) \in Bytes
      /\ Len(Output(x)) = Len(One(t)) + (Len(One(f)) + (Len(LE(s, 2)) + (Len(LE(p, 2)) + Len(b))))
  <2>1. One(t) \in Bytes /\ One(f) \in Bytes /\ LE(s, 2) \in Bytes /\ LE(p, 2) \in Bytes
    BY <1>4, <1>5
  <2> DEFINE z == Join(One(t), Join(One(f), Join(LE(s, 2), Join(LE(p, 2), b))))
  <2>2. z \in Bytes /\ Len(z) = Len(One(t)) + (Len(One(f)) + (Len(LE(s, 2)) + (Len(LE(p, 2)) + Len(b))))
    BY <1>6, <2>1, Lens5
  <2>3. Output(x) = z
    BY <1>1
  <2> HIDE DEF z
  <2>4. QED
    BY <2>2, <2>3
<1>13. Within(Output(x), n + 6)
  <2>1. Len(Output(x)) = 1 + (1 + (2 + (2 + Len(b))))
    BY <1>4, <1>5, <1>7
  <2>2. Len(b) \in Nat /\ Within(b, n)
    BY <1>0, BytesType DEF b
  <2>3. QED
    BY <1>7, <2>1, <2>2, SMT DEF Within, Limit
<1>14. QED
  BY <1>3, <1>13 DEF s, p

LEMMA AdvancedText ==
    ASSUME NEW x, NEW a, NEW F, Body(x, a), x.type \in Types, x.type # Type.FT, x.advanced = TRUE,
           x.status \in Word2, Booleans(x), ~x.ack => Fields(x.type, a) = F, x.ack => F = <<>>
    PROVE  /\ Holds(Output(x), x.advanced, x.ack, ReadBack(x, F, None, IF x.ack THEN a ELSE <<>>))
           /\ Within(Output(x), 17)
<1>1. PICK vv : Gives(BodyLayout(x.type, x.advanced, x.ack), BodyOf(x), vv) /\ vv[1] = a
  BY DEF Body
<1>2. PICK n, t : n = 11 /\ n \in Nat /\ n + 6 = 17 /\ t = x.type
  OBVIOUS
<1>3. Within(BodyOf(x), n)
  BY <1>2 DEF Body
<1>4. Gives(BodyLayout(t, x.advanced, x.ack), BodyOf(x), vv) /\ t \in Types
  BY <1>1, <1>2
<1>5. /\ Holds(Output(x), x.advanced, x.ack, Parsed(t, vv, x.status, Priority(x), x.advanced, x.ack))
      /\ Within(Output(x), n + 6)
  BY <1>2, <1>3, <1>4, AdvancedHolds
<1>6. ~x.ack => Fields(x.type, vv[1]) = F
  BY <1>1
<1>7. Parsed(x.type, vv, x.status, Priority(x), x.advanced, x.ack) =
          ReadBack(x, F, None, IF x.ack THEN vv[1] ELSE <<>>)
  BY <1>6, TextReadsBack
<1>8. QED
  BY <1>1, <1>2, <1>5, <1>7

\* A subtype that is not advanced, its body read as vv.
LEMMA PlainBytes ==
    ASSUME NEW t, t \in Types, t # Type.FT, NEW f \in Byte, NEW b, NEW vv, Gives(BodyLayout(t, FALSE, FALSE), b, vv),
           Within(b, 11), NEW F, Fields(t, vv[1]) = F, NEW z, z = Join(One(t), Join(One(f), b))
    PROVE  /\ Holds(z, FALSE, FALSE, AsRead(t, F, None, 0, FALSE, FALSE, <<>>))
           /\ Within(z, 17)
<1>1. t \in Byte /\ b \in Bytes
  BY TypeBytes DEF Within
<1>6. Holds(z, FALSE, FALSE, Parsed(t, vv, 0, 0, FALSE, FALSE))
  BY <1>1, HoldsPlain
<1>7. PICK no, o, e : no = FALSE /\ o = 0 /\ e = <<>> /\ no \in BOOLEAN
  OBVIOUS
<1>8. F = IF no THEN <<>> ELSE Fields(t, vv[1])
  BY <1>1, <1>7
<1>9. Parsed(t, vv, o, o, no, no) = ParsePriority(AsRead(t, F, None, o, no, no, IF no THEN vv[1] ELSE <<>>), o)
  BY <1>7, <1>8, ParsedText
<1>10. ParsePriority(AsRead(t, F, None, o, no, no, e), o) = AsRead(t, F, None, o, no, no, e)
  <2> DEFINE y == AsRead(t, F, None, o, no, no, e)
  <2>1. Bit(o, 2) = FALSE /\ (Bit(o, 4) \/ (~Bit(o, 2) /\ o \notin {0, 1})) = FALSE
    BY <1>7, SMT DEF Bit
  <2>2. ParsePriority(y, o) = SetFlags(y, no, no)
    BY <1>7, <2>1 DEF ParsePriority, SetFlags
  <2>3. y = Sub(t, F, None, o, no, no, no, no, e, o, o, o)
    BY <1>7 DEF AsRead
  <2> HIDE DEF y
  <2>4. SetFlags(y, no, no) = Sub(t, F, None, o, no, no, no, no, e, o, o, o)
    BY <2>3, TwoFlags
  <2>5. QED
    BY <2>2, <2>3, <2>4 DEF y
<1>11. Holds(z, no, no, AsRead(t, F, None, o, no, no, e))
  BY <1>6, <1>7, <1>9, <1>10
<1>12. Within(z, 17)
  <2>1. One(t) \in Bytes /\ One(f) \in Bytes /\ Len(One(t)) = 1 /\ Len(One(f)) = 1
    BY <1>1, OneIs
  <2>2. One(t) \in Bytes /\ One(f) \in Bytes /\ b \in Bytes
    BY <1>1, <2>1
  <2>3. z \in Bytes /\ Len(z) = Len(One(t)) + (Len(One(f)) + Len(b))
    BY <2>2, Lens3
  <2>4. PICK k, n : k = Len(z) /\ n = Len(b)
    OBVIOUS
  <2>5. k = 1 + (1 + n)
    BY <2>1, <2>3, <2>4, Zenon
  <2>6. n \in Nat /\ n <= Limit + 11
    BY <1>1, <2>4, BytesType DEF Within
  <2>7. k <= Limit + 17
    BY <2>5, <2>6, SMT DEF Limit
  <2>8. QED
    BY <2>3, <2>4, <2>7, Zenon DEF Within
<1>13. QED
  BY <1>7, <1>11, <1>12

LEMMA PlainText ==
    ASSUME NEW x, NEW a, NEW F, Body(x, a), x.type \in Types, x.type # Type.FT, x.advanced = FALSE,
           x.ack = FALSE, Fields(x.type, a) = F
    PROVE  /\ Holds(Output(x), FALSE, FALSE, AsRead(x.type, F, None, 0, FALSE, FALSE, <<>>))
           /\ Within(Output(x), 17)
<1>1. PICK vv : Gives(BodyLayout(x.type, x.advanced, x.ack), BodyOf(x), vv) /\ vv[1] = a
  BY DEF Body
<1>2. PICK t, f, b : t = x.type /\ f = FlagsByte(t) /\ b = BodyOf(x)
  OBVIOUS
<1>3. Within(b, 11) /\ b \in Bytes
  BY <1>2 DEF Body, Within
<1>4. Output(x) = Join(One(t), Join(One(f), b))
  BY <1>2, <1>3, OutputPlain
<1>5. f \in Byte /\ t \in Types /\ t # Type.FT
  BY <1>2, TypeBytes
<1>6. Gives(BodyLayout(t, FALSE, FALSE), b, vv) /\ Fields(t, vv[1]) = F
  BY <1>1, <1>2
<1>7. PICK z : z = Join(One(t), Join(One(f), b))
  OBVIOUS
<1>8. Holds(z, FALSE, FALSE, AsRead(t, F, None, 0, FALSE, FALSE, <<>>)) /\ Within(z, 17)
  BY <1>3, <1>5, <1>6, <1>7, PlainBytes
<1>9. QED
  BY <1>2, <1>4, <1>7, <1>8

\* A request to send a file, and its answer.
LEMMA FileHolds ==
    ASSUME NEW x, NEW a \in Short, NEW c \in Short, Within(Join(a, c), 0), NEW g \in Word2, NEW b \in Word2, NEW e \in Word4,
           x.type = Type.FT, x.fields = <<a, c>>, x.numbers = <<g, b, e>>, x.advanced = TRUE,
           x.status \in Word2, Booleans(x)
    PROVE  /\ Holds(Output(x), x.advanced, x.ack, ReadBack(x, <<a, c>>, <<g, b, e>>, <<>>))
           /\ Within(Output(x), 26)
<1> DEFINE A == NullString(a)
           B == LE(b, 2)
           C == NullString(c)
           E == LE(e, 4)
           G == LE(g, 2)
           Z == LE(0, 2)
           body == Join(A, Join(B, Join(Z, Join(C, Join(E, Join(G, Z))))))
           vv == <<a, b, c, e, g>>
<1>1. /\ A \in Bytes /\ Len(A) = Len(a) + 3 /\ C \in Bytes /\ Len(C) = Len(c) + 3 /\ Len(a) \in Nat /\ Len(c) \in Nat
      /\ Len(a) + 1 \in Word2 /\ Len(c) + 1 \in Word2 /\ a \in Bytes /\ c \in Bytes
  BY ShortIs
<1>2. /\ B \in Bytes /\ Len(B) = 2 /\ E \in Bytes /\ Len(E) = 4 /\ G \in Bytes /\ Len(G) = 2
      /\ Z \in Bytes /\ Len(Z) = 2
  BY Fixed, Integers2, Integers4
<1>3. BodyOf(x) = body
  <2>1. x.fields[1] = a /\ x.fields[2] = c /\ x.numbers[1] = g /\ x.numbers[2] = b /\ x.numbers[3] = e
    OBVIOUS
  <2>2. FTBody(x) = ((((((A \o B) \o Z) \o C) \o E) \o G) \o Z)
    BY <2>1 DEF FTBody
  <2>3. BodyOf(x) = FTBody(x)
    BY KindsDiffer DEF BodyOf, OutputBodyUIN, OutputBodyUINACK
  <2> HIDE DEF A, B, C, E, G, Z
  <2>4. BodyOf(x) = Join(Join(Join(Join(Join(Join(A, B), Z), C), E), G), Z)
    BY <2>2, <2>3 DEF Join
  <2>5. A \in Bytes /\ B \in Bytes /\ Z \in Bytes /\ C \in Bytes /\ E \in Bytes /\ G \in Bytes
    BY <1>1, <1>2
  <2>6. QED
    BY <2>4, <2>5, Flat6
<1>4. Gives(FTLayout, body, vv)
  BY <1>1, <1>2, GivesFT
<1>5. Gives(BodyLayout(x.type, x.advanced, x.ack), BodyOf(x), vv)
  <2>1. BodyLayout(x.type, x.advanced, x.ack) = FTLayout
    BY KindsDiffer DEF BodyLayout
  <2>2. QED
    BY <1>3, <1>4, <2>1
<1> HIDE DEF A, B, C, E, G, Z
<1>6. Within(BodyOf(x), 20)
  <2> DEFINE t == Join(C, Join(E, Join(G, Z)))
  <2>1. A \in Bytes /\ B \in Bytes /\ Z \in Bytes /\ C \in Bytes /\ E \in Bytes /\ G \in Bytes
    BY <1>1, <1>2
  <2>2. t \in Bytes /\ Len(t) = Len(C) + (Len(E) + (Len(G) + Len(Z)))
    BY <2>1, Lens4
  <2> HIDE DEF t
  <2> DEFINE z == Join(A, Join(B, Join(Z, t)))
  <2>3. z \in Bytes /\ Len(z) = Len(A) + (Len(B) + (Len(Z) + Len(t)))
    <3>1. t \in Bytes
      BY <2>2
    <3>2. QED
      BY <2>1, <3>1, Lens4
  <2> HIDE DEF z
  <2>4. BodyOf(x) = z
    BY <1>3 DEF z, t
  <2>5. Len(z) = (Len(a) + 3) + (2 + (2 + ((Len(c) + 3) + (4 + (2 + 2)))))
    BY <1>1, <1>2, <2>2, <2>3
  <2>6. Len(a) \in Nat /\ Len(c) \in Nat /\ Within(Join(a, c), 0) /\ Len(Join(a, c)) = Len(a) + Len(c)
    BY <1>1, JoinTwo
  <2>7. QED
    BY <2>3, <2>4, <2>5, <2>6, SMT DEF Within, Limit
<1> HIDE DEF body
<1>7. PICK n, t : n = 20 /\ n \in Nat /\ n + 6 = 26 /\ t = x.type /\ t \in Types
  BY SMT DEF Types, Type
<1>8. /\ Holds(Output(x), x.advanced, x.ack, Parsed(t, vv, x.status, Priority(x), x.advanced, x.ack))
      /\ Within(Output(x), n + 6)
  BY <1>5, <1>6, <1>7, AdvancedHolds
<1> DEFINE F == <<a, c>>
           N == <<g, b, e>>
<1>9. \A p : Parsed(x.type, vv, x.status, p, x.advanced, x.ack) =
                 ParsePriority(AsRead(x.type, F, N, x.status, x.advanced, x.ack, <<>>), p)
  BY ParsedFile, SMTT(30)
<1> HIDE DEF vv, F, N
<1>10. Parsed(x.type, vv, x.status, Priority(x), x.advanced, x.ack) = ReadBack(x, F, N, <<>>)
  BY <1>9, ReadsBack, ZenonT(60)
<1>11. QED
  BY <1>7, <1>8, <1>10 DEF vv, F, N

-----------------------------------------------------------------------------
(* Exclusive or.                                                              *)

Binary == {0, 1}

IsSum(n, a, b, c, e, f, g, h, i) ==
    n = a + 2 * b + 4 * c + 8 * e + 16 * f + 32 * g + 64 * h + 128 * i

BitsAre(n, a, b, c, e, f, g, h, i) ==
    /\ n \in Byte
    /\ Bit(n, 1) <=> a = 1
    /\ Bit(n, 2) <=> b = 1
    /\ Bit(n, 4) <=> c = 1
    /\ Bit(n, 8) <=> e = 1
    /\ Bit(n, 16) <=> f = 1
    /\ Bit(n, 32) <=> g = 1
    /\ Bit(n, 64) <=> h = 1
    /\ Bit(n, 128) <=> i = 1

LEMMA BitsOfSum ==
    ASSUME NEW a \in Binary, NEW b \in Binary, NEW c \in Binary, NEW e \in Binary,
           NEW f \in Binary, NEW g \in Binary, NEW h \in Binary, NEW i \in Binary,
           NEW n, IsSum(n, a, b, c, e, f, g, h, i)
    PROVE  BitsAre(n, a, b, c, e, f, g, h, i)
<1>0. n \in Byte
  BY SMT DEF Binary, Byte, IsSum
<1>1. Bit(n, 1) <=> a = 1
  BY SMT DEF Binary, Bit, IsSum
<1>2. Bit(n, 2) <=> b = 1
  BY SMT DEF Binary, Bit, IsSum
<1>3. Bit(n, 4) <=> c = 1
  BY SMT DEF Binary, Bit, IsSum
<1>4. Bit(n, 8) <=> e = 1
  BY SMT DEF Binary, Bit, IsSum
<1>5. Bit(n, 16) <=> f = 1
  BY SMT DEF Binary, Bit, IsSum
<1>6. Bit(n, 32) <=> g = 1
  BY SMT DEF Binary, Bit, IsSum
<1>7. Bit(n, 64) <=> h = 1
  BY SMT DEF Binary, Bit, IsSum
<1>8. Bit(n, 128) <=> i = 1
  BY SMT DEF Binary, Bit, IsSum
<1>9. QED
  BY <1>0, <1>1, <1>2, <1>3, <1>4, <1>5, <1>6, <1>7, <1>8 DEF BitsAre

\* The share of a bit.
Share(n, mask) == IF Bit(n, mask) THEN mask ELSE 0
ShareOr(a, b, mask) == IF Bit(a, mask) # Bit(b, mask) THEN mask ELSE 0

LEMMA SumOfBits ==
    ASSUME NEW n \in Byte
    PROVE  n = Share(n, 1) + Share(n, 2) + Share(n, 4) + Share(n, 8) + Share(n, 16) + Share(n, 32)
               + Share(n, 64) + Share(n, 128)
<1> DEFINE a == n % 2
           b == (n \div 2) % 2
           c == (n \div 4) % 2
           e == (n \div 8) % 2
           f == (n \div 16) % 2
           g == (n \div 32) % 2
           h == (n \div 64) % 2
           i == (n \div 128) % 2
<1>1. n = a + 2 * b + 4 * c + 8 * e + 16 * f + 32 * g + 64 * h + 128 * i
  BY SMT DEF Byte
<1>2. /\ Share(n, 1) = a /\ Share(n, 2) = 2 * b /\ Share(n, 4) = 4 * c /\ Share(n, 8) = 8 * e
  BY SMT DEF Byte, Share, Bit
<1>3. Share(n, 16) = 16 * f /\ Share(n, 32) = 32 * g /\ Share(n, 64) = 64 * h /\ Share(n, 128) = 128 * i
  BY SMT DEF Byte, Share, Bit
<1> HIDE DEF a, b, c, e, f, g, h, i
<1>4. QED
  BY <1>1, <1>2, <1>3

LEMMA OrBits ==
    ASSUME NEW a, NEW b
    PROVE  /\ (a ^^ b) \in Byte
           /\ \A m \in {1, 2, 4, 8, 16, 32, 64, 128} : Bit(a ^^ b, m) = (Bit(a, m) # Bit(b, m))
<1> DEFINE bit(m) == IF Bit(a, m) # Bit(b, m) THEN 1 ELSE 0
           n == a ^^ b
<1>1. /\ bit(1) \in Binary /\ bit(2) \in Binary /\ bit(4) \in Binary /\ bit(8) \in Binary
      /\ bit(16) \in Binary /\ bit(32) \in Binary /\ bit(64) \in Binary /\ bit(128) \in Binary
  BY DEF Binary
<1>2. n = bit(1) + 2 * bit(2) + 4 * bit(4) + 8 * bit(8) + 16 * bit(16) + 32 * bit(32) + 64 * bit(64) + 128 * bit(128)
  <2>1. \A m \in {1, 2, 4, 8, 16, 32, 64, 128} : ShareOr(a, b, m) = m * bit(m)
    BY SMT DEF ShareOr
  <2>2. n = ShareOr(a, b, 1) + ShareOr(a, b, 2) + ShareOr(a, b, 4) + ShareOr(a, b, 8) + ShareOr(a, b, 16)
            + ShareOr(a, b, 32) + ShareOr(a, b, 64) + ShareOr(a, b, 128)
    BY DEF ShareOr, ^^
  <2> HIDE DEF bit, n
  <2>3. QED
    BY <2>1, <2>2, <1>1, SMT DEF Binary
<1>3. /\ bit(1) = 1 <=> Bit(a, 1) # Bit(b, 1)
      /\ bit(2) = 1 <=> Bit(a, 2) # Bit(b, 2)
      /\ bit(4) = 1 <=> Bit(a, 4) # Bit(b, 4)
      /\ bit(8) = 1 <=> Bit(a, 8) # Bit(b, 8)
      /\ bit(16) = 1 <=> Bit(a, 16) # Bit(b, 16)
      /\ bit(32) = 1 <=> Bit(a, 32) # Bit(b, 32)
      /\ bit(64) = 1 <=> Bit(a, 64) # Bit(b, 64)
      /\ bit(128) = 1 <=> Bit(a, 128) # Bit(b, 128)
  OBVIOUS
<1> HIDE DEF bit, n
<1>4. PICK a1, a2, a3, a4, a5, a6, a7, a8 :
          /\ a1 = bit(1) /\ a2 = bit(2) /\ a3 = bit(4) /\ a4 = bit(8) /\ a5 = bit(16) /\ a6 = bit(32)
          /\ a7 = bit(64) /\ a8 = bit(128)
  OBVIOUS
<1>5. /\ a1 \in Binary /\ a2 \in Binary /\ a3 \in Binary /\ a4 \in Binary
      /\ a5 \in Binary /\ a6 \in Binary /\ a7 \in Binary /\ a8 \in Binary
  BY <1>1, <1>4
<1>6. IsSum(n, a1, a2, a3, a4, a5, a6, a7, a8)
  BY <1>2, <1>4 DEF IsSum
<1>7. BitsAre(n, a1, a2, a3, a4, a5, a6, a7, a8)
  BY <1>5, <1>6, BitsOfSum
<1>8. /\ n \in Byte
      /\ Bit(n, 1) <=> Bit(a, 1) # Bit(b, 1)
      /\ Bit(n, 2) <=> Bit(a, 2) # Bit(b, 2)
      /\ Bit(n, 4) <=> Bit(a, 4) # Bit(b, 4)
      /\ Bit(n, 8) <=> Bit(a, 8) # Bit(b, 8)
      /\ Bit(n, 16) <=> Bit(a, 16) # Bit(b, 16)
      /\ Bit(n, 32) <=> Bit(a, 32) # Bit(b, 32)
      /\ Bit(n, 64) <=> Bit(a, 64) # Bit(b, 64)
      /\ Bit(n, 128) <=> Bit(a, 128) # Bit(b, 128)
  BY <1>3, <1>4, <1>7 DEF BitsAre
<1>9. \A m \in {1, 2, 4, 8, 16, 32, 64, 128} : Bit(n, m) \in BOOLEAN
  BY DEF Bit
<1>10. QED
  BY <1>8, <1>9 DEF n

LEMMA OrTwice ==
    ASSUME NEW a \in Byte, NEW b
    PROVE  (a ^^ b) \in Byte /\ (a ^^ b) ^^ b = a
<1> DEFINE n == a ^^ b
<1>1. n \in Byte /\ \A m \in {1, 2, 4, 8, 16, 32, 64, 128} : Bit(n, m) = (Bit(a, m) # Bit(b, m))
  BY OrBits
<1>2. n ^^ b = ShareOr(n, b, 1) + ShareOr(n, b, 2) + ShareOr(n, b, 4) + ShareOr(n, b, 8) + ShareOr(n, b, 16)
               + ShareOr(n, b, 32) + ShareOr(n, b, 64) + ShareOr(n, b, 128)
  BY DEF ShareOr, ^^
<1> HIDE DEF n
<1>3. \A m \in {1, 2, 4, 8, 16, 32, 64, 128} : Bit(a, m) \in BOOLEAN /\ Bit(b, m) \in BOOLEAN /\ Bit(n, m) \in BOOLEAN
  BY DEF Bit
<1>4. \A m \in {1, 2, 4, 8, 16, 32, 64, 128} : ShareOr(n, b, m) = Share(a, m)
  BY <1>1, <1>3 DEF Share, ShareOr
<1>5. n ^^ b = Share(a, 1) + Share(a, 2) + Share(a, 4) + Share(a, 8) + Share(a, 16) + Share(a, 32)
               + Share(a, 64) + Share(a, 128)
  <2>1. /\ ShareOr(n, b, 1) = Share(a, 1) /\ ShareOr(n, b, 2) = Share(a, 2) /\ ShareOr(n, b, 4) = Share(a, 4)
        /\ ShareOr(n, b, 8) = Share(a, 8) /\ ShareOr(n, b, 16) = Share(a, 16) /\ ShareOr(n, b, 32) = Share(a, 32)
        /\ ShareOr(n, b, 64) = Share(a, 64) /\ ShareOr(n, b, 128) = Share(a, 128)
    BY <1>4
  <2>2. QED
    BY <1>2, <2>1
<1>6. QED
  BY <1>1, <1>5, SumOfBits DEF n

-----------------------------------------------------------------------------
(* Packets: what is enciphered is deciphered.                                 *)

LEMMA JoinAt ==
    ASSUME NEW a \in Bytes, NEW b \in Bytes
    PROVE  /\ \A i \in 1 .. Len(a) : Join(a, b)[i] = a[i]
           /\ \A i \in 1 .. Len(b) : Join(a, b)[Len(a) + i] = b[i]
  BY Cat DEF Join

LEMMA RestIs ==
    ASSUME NEW d \in Bytes, NEW p \in Nat, p <= Len(d)
    PROVE  /\ Rest(d, p) \in Bytes /\ Len(Rest(d, p)) = Len(d) - p
           /\ \A i \in 1 .. Len(d) - p : Rest(d, p)[i] = d[p + i]
<1> DEFINE n == Len(d)
           m == p + 1
<1>1. n \in Nat /\ n \in Int /\ \A i \in 1 .. n : d[i] \in Byte
  BY BytesType
<1>2. m \in Int /\ m = p + 1
  OBVIOUS
<1>3. p <= n /\ Rest(d, p) = SubSeq(d, m, n)
  BY DEF Rest
<1> HIDE DEF n, m
<1>4. \A i \in m .. n : d[i] \in Byte
  BY <1>1, <1>2
<1>5. /\ SubSeq(d, m, n) \in Seq(Byte) /\ Len(SubSeq(d, m, n)) = IF m <= n THEN n - m + 1 ELSE 0
      /\ \A i \in 1 .. n - m + 1 : SubSeq(d, m, n)[i] = d[m + i - 1]
  BY <1>1, <1>2, <1>4, SubSeqProperties
<1>6. n - m + 1 = n - p /\ (IF m <= n THEN n - m + 1 ELSE 0) = n - p
  BY <1>1, <1>2, <1>3
<1>7. \A i \in 1 .. n - p : m + i - 1 = p + i
  BY <1>1, <1>2
<1>8. \A i \in 1 .. n - p : Rest(d, p)[i] = d[p + i]
  BY <1>3, <1>5, <1>6, <1>7
<1>9. Rest(d, p) \in Bytes /\ Len(Rest(d, p)) = n - p
  BY <1>3, <1>5, <1>6 DEF Bytes
<1>10. QED
  BY <1>8, <1>9 DEF n

LEMMA WholeRest == ASSUME NEW d \in Bytes PROVE Rest(d, 0) = d
<1>1. Len(d) \in Nat /\ 0 <= Len(d)
  BY BytesType
<1>2. Rest(d, 0) \in Bytes /\ Len(Rest(d, 0)) = Len(d) - 0 /\ \A i \in 1 .. Len(d) - 0 : Rest(d, 0)[i] = d[0 + i]
  BY <1>1, RestIs
<1>3. Len(d) - 0 = Len(d) /\ \A i \in 1 .. Len(d) : 0 + i = i
  BY <1>1
<1>4. Len(Rest(d, 0)) = Len(d) /\ \A i \in 1 .. Len(Rest(d, 0)) : Rest(d, 0)[i] = d[i]
  BY <1>2, <1>3
<1>5. QED
  BY <1>2, <1>4, SeqEqual DEF Bytes

\* The byte at i is one of those that the key hides.
Hidden(i, k) == i - 1 \in 4 .. 4 * k + 3
HasKey(n, k) ==
    \A data, check : Keyed(data, n, check) =
        [i \in DOMAIN data |-> IF Hidden(i, k) THEN data[i] ^^ KeyByte(n, check, i) ELSE data[i]]

LEMMA KeyedIs ==
    ASSUME NEW n \in Nat
    PROVE  \E k \in Nat : HasKey(n, k)
<1> DEFINE m == (n + 3) \div 4
           S == {i \in 4 .. m : i % 4 = 0 /\ i < m}
           k == Cardinality(S)
<1>1. m \in Int
  BY SMT
<1>2. IsFiniteSet(4 .. m)
  <2> HIDE DEF m
  <2>1. QED
    BY <1>1, FS_Interval
<1>3. S \subseteq 4 .. m
  OBVIOUS
<1>4. IsFiniteSet(S)
  <2> HIDE DEF S, m
  <2>1. QED
    BY <1>2, <1>3, FS_Subset
<1>5. k \in Nat
  <2> HIDE DEF S, m
  <2>1. QED
    BY <1>4, FS_CardinalityType
<1>6. HasKey(n, k)
  BY DEF HasKey, Hidden, Keyed
<1>7. QED
  BY <1>5, <1>6

LEMMA KeyedType ==
    ASSUME NEW data \in Bytes, NEW n, n = Len(data), NEW check
    PROVE  /\ Keyed(data, n, check) \in Bytes /\ Len(Keyed(data, n, check)) = n
           /\ \A i \in 1 .. n : i <= 4 => Keyed(data, n, check)[i] = data[i]
<1>1. n \in Nat /\ data \in Seq(Byte) /\ \A i \in 1 .. n : data[i] \in Byte
  BY BytesType
<1>2. PICK k \in Nat : HasKey(n, k)
  BY <1>1, KeyedIs
<1> DEFINE e(i) == IF Hidden(i, k) THEN data[i] ^^ KeyByte(n, check, i) ELSE data[i]
<1>3. DOMAIN data = 1 .. n
  BY <1>1
<1>4. Keyed(data, n, check) = [i \in 1 .. n |-> e(i)]
  BY <1>2, <1>3 DEF HasKey
<1>5. \A i \in 1 .. n : e(i) \in Byte
  BY <1>1, OrTwice
<1>6. \A i \in 1 .. n : i <= 4 => e(i) = data[i]
  BY <1>1, <1>2 DEF Hidden
<1> HIDE DEF e
<1>7. [i \in 1 .. n |-> e(i)] \in Seq(Byte) /\ Len([i \in 1 .. n |-> e(i)]) = n
  BY <1>1, <1>5, SMT
<1>8. QED
  BY <1>4, <1>6, <1>7 DEF Bytes

LEMMA KeyedTwice ==
    ASSUME NEW in \in Bytes, NEW n, n = Len(in), NEW check, NEW y \in Bytes, Len(y) = n,
           \A i \in 5 .. n : y[i] = Keyed(in, n, check)[i]
    PROVE  \A i \in 5 .. n : Keyed(y, n, check)[i] = in[i]
<1>1. n \in Nat /\ in \in Seq(Byte) /\ y \in Seq(Byte) /\ \A i \in 1 .. n : in[i] \in Byte
  BY BytesType
<1>2. PICK k \in Nat : HasKey(n, k)
  BY <1>1, KeyedIs
<1>3. DOMAIN in = 1 .. n /\ DOMAIN y = 1 .. n
  BY <1>1
<1>4. SUFFICES ASSUME NEW i \in 5 .. n PROVE Keyed(y, n, check)[i] = in[i]
  OBVIOUS
<1>5. i \in 1 .. n
  BY <1>1
<1> DEFINE b == KeyByte(n, check, i)
<1>6. Keyed(in, n, check)[i] = IF Hidden(i, k) THEN in[i] ^^ b ELSE in[i]
  BY <1>2, <1>3, <1>5 DEF HasKey
<1>7. Keyed(y, n, check)[i] = IF Hidden(i, k) THEN y[i] ^^ b ELSE y[i]
  BY <1>2, <1>3, <1>5 DEF HasKey
<1>8. y[i] = Keyed(in, n, check)[i] /\ in[i] \in Byte
  BY <1>1, <1>5
<1>9. (in[i] ^^ b) ^^ b = in[i]
  BY <1>8, OrTwice
<1>10. QED
  BY <1>6, <1>7, <1>8, <1>9

Hdr(n, v) == IF v = 7 THEN Join(LE(n + 1, 2), One(2)) ELSE LE(n, 2)
\* What Decrypt says of a packet that was enciphered from "in": its head, a check, and the rest of "in".
Deciphers(out, in, v) ==
    /\ out.ok = TRUE
    /\ \E check \in Bytes : /\ Len(check) = 4
                            /\ out.packet = Join(Hdr(Len(in), v), Join(check, Rest(in, 4)))

\* The check c opens with the data d.
Opens(d, c, m, x, y, z) ==
    LET b1 == Check(d, c[4], c[3], c[2], c[1])
    IN  b1[4] = m /\ b1[3] = x /\ b1[2] = y /\ b1[1] = z

LEMMA CheckType ==
    ASSUME NEW data, data[5] \in Byte, data[7] \in Byte, NEW m \in Byte, NEW x \in Byte, NEW y \in Byte, NEW z \in Byte
    PROVE  /\ Check(data, m, x, y, z) \in Bytes /\ Len(Check(data, m, x, y, z)) = 4
           /\ \A d : d[5] = data[5] /\ d[7] = data[7] => Opens(d, Check(data, m, x, y, z), m, x, y, z)
<1>1. /\ z ^^ data[7] \in Byte /\ y ^^ data[5] \in Byte /\ x ^^ data[7] \in Byte /\ m ^^ data[5] \in Byte
      /\ (z ^^ data[7]) ^^ data[7] = z /\ (y ^^ data[5]) ^^ data[5] = y
      /\ (x ^^ data[7]) ^^ data[7] = x /\ (m ^^ data[5]) ^^ data[5] = m
  BY OrTwice
<1>2. Check(data, m, x, y, z) \in Bytes /\ Len(Check(data, m, x, y, z)) = 4
  BY <1>1, Tuples DEF Check
<1>3. SUFFICES ASSUME NEW d, d[5] = data[5], d[7] = data[7]
               PROVE  Opens(d, Check(data, m, x, y, z), m, x, y, z)
  BY <1>2
<1> DEFINE c == Check(data, m, x, y, z)
           b1 == Check(d, c[4], c[3], c[2], c[1])
<1>4. c[1] = z ^^ data[7] /\ c[2] = y ^^ data[5] /\ c[3] = x ^^ data[7] /\ c[4] = m ^^ data[5]
  BY DEF Check
<1> HIDE DEF c
<1>5. b1[1] = c[1] ^^ data[7] /\ b1[2] = c[2] ^^ data[5] /\ b1[3] = c[3] ^^ data[7] /\ b1[4] = c[4] ^^ data[5]
  BY <1>3 DEF Check
<1>6. QED
  BY <1>1, <1>4, <1>5 DEF Opens, c

LEMMA HdrType ==
    ASSUME NEW n \in Nat, n + 1 \in Word2, NEW v \in {6, 7}
    PROVE  Hdr(n, v) \in Bytes /\ Len(Hdr(n, v)) = Correction(v)
<1>1. n \in Word2 /\ 2 \in Byte
  BY SMT DEF Word2, Byte
<1>2. One(2) \in Bytes /\ Len(One(2)) = 1
  BY <1>1, OneIs
<1>3. CASE v = 7
  <2>1. LE(n + 1, 2) \in Bytes /\ Len(LE(n + 1, 2)) = 2
    BY Integers2
  <2>2. Join(LE(n + 1, 2), One(2)) \in Bytes /\ Len(Join(LE(n + 1, 2), One(2))) = 2 + 1
    BY <1>2, <2>1, JoinTwo
  <2>3. QED
    BY <1>3, <2>2, 2 + 1 = 3 DEF Hdr, Correction
<1>4. CASE v # 7
  <2>1. LE(n, 2) \in Bytes /\ Len(LE(n, 2)) = 2
    BY <1>1, Integers2
  <2>2. QED
    BY <1>4, <2>1 DEF Hdr, Correction
<1>5. QED
  BY <1>3, <1>4

LEMMA Deciphered ==
    ASSUME NEW in \in Bytes, Len(in) + 1 \in Word2, NEW v \in {6, 7}, NEW m1 \in 10 .. Len(in) - 1, m1 \in Byte,
           NEW x2 \in 0 .. 219
    PROVE  Deciphers(Decrypt(Encrypt(in, v, m1, x2), v), in, v)
<1> DEFINE n == Len(in)
           x1 == in[m1 + 1] ^^ 255
           x3 == CheckData(x2) ^^ 255
           check == Check(in, m1, x1, x2, x3)
           head == Hdr(n, v)
           K == Keyed(in, n, check)
           R == Rest(K, 4)
           body == Join(check, R)
           wire == Join(head, body)
           c == Correction(v)
           out == Decrypt(wire, v)
<1>1. n \in Nat /\ n > 10 /\ n + 1 \in Word2 /\ \A i \in 1 .. n : in[i] \in Byte
  BY BytesType
<1>2. m1 \in Nat /\ m1 + 1 \in 5 .. n /\ m1 \in Byte /\ x2 \in Byte /\ x2 < 220
  BY <1>1 DEF Byte
<1>3. 5 \in 5 .. n /\ 7 \in 5 .. n /\ 5 \in 1 .. n /\ 7 \in 1 .. n /\ \A i \in 5 .. n : i \in 1 .. n
  BY <1>1
<1>4. in[5] \in Byte /\ in[7] \in Byte /\ in[m1 + 1] \in Byte
  BY <1>1, <1>2, <1>3
<1>5. x1 \in Byte
  BY <1>4, OrTwice, ZenonT(60)
<1>6. x3 \in Byte
  BY OrBits
<1>7. /\ check \in Bytes /\ Len(check) = 4
      /\ \A d : d[5] = in[5] /\ d[7] = in[7] => Opens(d, check, m1, x1, x2, x3)
  <2> HIDE DEF x1, x3
  <2>1. QED
    BY <1>2, <1>4, <1>5, <1>6, CheckType
<1>8. Encrypt(in, v, m1, x2) = wire
  <2>1. head = IF v = 7 THEN LE(n + 1, 2) \o <<2>> ELSE LE(n, 2)
    BY DEF Hdr, Join, One
  <2>2. R = SubSeq(K, 5, n)
    <3>1. Len(K) = n /\ 4 + 1 = 5
      BY <1>7, KeyedType
    <3>2. QED
      BY <3>1 DEF Rest
  <2>3. Encrypt(in, v, m1, x2) = (head \o check) \o SubSeq(K, 5, n)
    BY <2>1 DEF Encrypt
  <2>4. head \in Bytes /\ check \in Bytes
    BY <1>1, <1>7, HdrType
  <2>5. K \in Bytes /\ Len(K) = n
    BY KeyedType
  <2>6. R \in Bytes
    <3> HIDE DEF K
    <3>1. 4 \in Nat /\ 4 <= Len(K)
      BY <1>1, <2>5
    <3>2. QED
      BY <2>5, <3>1, RestIs
  <2> HIDE DEF head, check, K, R
  <2>7. Encrypt(in, v, m1, x2) = Join(Join(head, check), R)
    BY <2>2, <2>3 DEF Join
  <2>8. QED
    BY <2>4, <2>6, <2>7, JoinAssoc
<1>9. K \in Bytes /\ Len(K) = n
  BY KeyedType
<1>10. head \in Bytes /\ Len(head) = c /\ c \in Nat
  BY <1>1, HdrType DEF Correction
<1> HIDE DEF x1, x3, check, head, K, c
<1>11. R \in Bytes /\ Len(R) = n - 4 /\ \A i \in 1 .. n - 4 : R[i] = K[4 + i]
  <2>1. 4 \in Nat /\ 4 <= Len(K)
    BY <1>1, <1>9
  <2>2. QED
    BY <1>9, <2>1, RestIs
<1> HIDE DEF R
<1>12. body \in Bytes /\ Len(body) = n /\ (\A i \in 1 .. 4 : body[i] = check[i]) /\ \A i \in 5 .. n : body[i] = K[i]
  <2>1. body \in Bytes /\ Len(body) = 4 + (n - 4)
    BY <1>7, <1>11, JoinTwo
  <2>2. (\A i \in 1 .. 4 : body[i] = check[i]) /\ (\A i \in 1 .. n - 4 : body[4 + i] = R[i])
    <3>1. (\A i \in 1 .. Len(check) : body[i] = check[i]) /\ (\A i \in 1 .. Len(R) : body[Len(check) + i] = R[i])
      <4>1. check \in Bytes /\ R \in Bytes
        BY <1>7, <1>11
      <4>2. QED
        BY <4>1, JoinAt
    <3>2. QED
      BY <1>7, <1>11, <3>1
  <2>3. \A i \in 5 .. n : i - 4 \in 1 .. n - 4 /\ 4 + (i - 4) = i
    BY <1>1
  <2> HIDE DEF body
  <2>4. \A i \in 5 .. n : body[i] = K[i]
    <3>1. SUFFICES ASSUME NEW i \in 5 .. n PROVE body[i] = K[i]
      OBVIOUS
    <3>2. PICK j : j = i - 4 /\ j \in 1 .. n - 4 /\ 4 + j = i
      BY <2>3
    <3>3. body[4 + j] = R[j] /\ R[j] = K[4 + j]
      BY <1>11, <2>2, <3>2
    <3>4. QED
      BY <3>2, <3>3
  <2>5. 4 + (n - 4) = n
    BY <1>1
  <2>6. QED
    BY <2>1, <2>2, <2>4, <2>5
<1> HIDE DEF body
<1>13. wire \in Bytes /\ Len(wire) = c + n
  BY <1>10, <1>12, JoinTwo
<1>14. SubSeq(wire, 1, c) = head /\ Rest(wire, c) = body
  <2>1. Rest(wire, 0) = Join(head, body)
    BY <1>13, WholeRest
  <2>2. 0 \in 0 .. Len(wire)
    BY <1>1, <1>10, <1>13
  <2> HIDE DEF wire
  <2>6. PICK o : o = 0
    OBVIOUS
  <2>7. wire \in Bytes /\ head \in Bytes /\ body \in Bytes /\ o \in 0 .. Len(wire) /\ Rest(wire, o) = Join(head, body)
    BY <1>10, <1>12, <1>13, <2>1, <2>2, <2>6
  <2>3. Rest(wire, o + Len(head)) = body /\ SubSeq(wire, o + 1, o + Len(head)) = head
    BY <2>7, Ahead
  <2>4. o + Len(head) = c /\ o + 1 = 1
    BY <1>10, <2>6
  <2>5. QED
    BY <2>3, <2>4
<1>15. SubSeq(wire, c + 1, c + 4) = check
  <2>1. Rest(wire, c) = Join(check, R)
    BY <1>14 DEF body
  <2>2. c \in 0 .. Len(wire)
    BY <1>1, <1>10, <1>13
  <2> HIDE DEF wire
  <2>3. SubSeq(wire, c + 1, c + Len(check)) = check
    <3>1. check \in Bytes /\ R \in Bytes /\ wire \in Bytes
      BY <1>7, <1>11, <1>13
    <3>2. QED
      BY <2>1, <2>2, <3>1, Ahead
  <2>4. QED
    BY <1>7, <2>3
<1> HIDE DEF wire
<1> DEFINE data == Keyed(body, n, check)
<1>16. data \in Bytes /\ Len(data) = n /\ \A i \in 1 .. n : i <= 4 => data[i] = body[i]
  BY <1>12, KeyedType, SMTT(30)
<1>17. \A i \in 5 .. n : data[i] = in[i]
  BY <1>12, KeyedTwice, SMTT(30) DEF K
<1> HIDE DEF data
<1>18. data = Join(check, Rest(in, 4))
  <2> DEFINE t == Rest(in, 4)
  <2>1. t \in Bytes /\ Len(t) = n - 4 /\ \A i \in 1 .. n - 4 : t[i] = in[4 + i]
    <3>1. 4 \in Nat /\ 4 <= Len(in)
      BY <1>1
    <3>2. QED
      BY <3>1, RestIs
  <2> HIDE DEF t
  <2> DEFINE s == Join(check, t)
  <2>2. s \in Bytes /\ Len(s) = 4 + (n - 4) /\ (\A i \in 1 .. 4 : s[i] = check[i]) /\ \A i \in 1 .. n - 4 : s[4 + i] = t[i]
    <3>1. check \in Bytes /\ t \in Bytes
      BY <1>7, <2>1
    <3>2. s \in Bytes /\ Len(s) = Len(check) + Len(t)
      BY <3>1, JoinTwo
    <3>3. (\A i \in 1 .. Len(check) : s[i] = check[i]) /\ \A i \in 1 .. Len(t) : s[Len(check) + i] = t[i]
      BY <3>1, JoinAt
    <3> HIDE DEF s
    <3>4. QED
      BY <1>7, <2>1, <3>2, <3>3
  <2> HIDE DEF s
  <2>3. Len(data) = Len(s)
    BY <1>1, <1>16, <2>2
  <2>4. \A i \in 1 .. n : data[i] = s[i]
    <3>1. SUFFICES ASSUME NEW i \in 1 .. n PROVE data[i] = s[i]
      OBVIOUS
    <3>2. CASE i <= 4
      <4>1. i \in 1 .. 4
        BY <3>2
      <4>2. QED
        BY <1>12, <1>16, <2>2, <3>2, <4>1
    <3>3. CASE ~(i <= 4)
      <4>1. PICK j : i \in 5 .. n /\ j \in 1 .. n - 4 /\ 4 + j = i
        <5>1. i \in 5 .. n /\ i - 4 \in 1 .. n - 4 /\ 4 + (i - 4) = i
          BY <1>1, <3>3
        <5>2. QED
          BY <5>1
      <4>2. s[4 + j] = t[j] /\ t[j] = in[4 + j] /\ data[i] = in[i]
        BY <1>17, <2>1, <2>2, <4>1
      <4>3. QED
        BY <4>1, <4>2
    <3>4. QED
      BY <3>2, <3>3
  <2>5. data = s
    BY <1>16, <2>2, <2>3, <2>4, SeqEqual DEF Bytes
  <2>6. QED
    BY <2>5 DEF s, t
<1>19. data[5] = in[5] /\ data[7] = in[7] /\ data[m1 + 1] = in[m1 + 1]
  BY <1>2, <1>3, <1>17
<1> DEFINE b1 == Check(data, check[4], check[3], check[2], check[1])
<1>20. b1[4] = m1 /\ b1[3] = x1 /\ b1[2] = x2 /\ b1[1] = x3
  BY <1>7, <1>19 DEF Opens
<1> HIDE DEF b1
<1>21. Len(wire) - c = n
  BY <1>1, <1>10, <1>13
<1>22. SubSeq(wire, c + 1, Len(wire)) = body
  BY <1>14 DEF Rest
<1>23. out = [packet |-> SubSeq(wire, 1, c) \o data,
              ok |-> /\ b1[4] \in 10 .. n - 1
                     /\ b1[3] = data[b1[4] + 1] ^^ 255
                     /\ b1[2] < 220 => b1[1] = CheckData(b1[2]) ^^ 255]
  BY <1>15, <1>21, <1>22, ZenonT(60) DEF Decrypt, data, b1, c
<1>24. /\ m1 \in 10 .. n - 1
       /\ x1 = data[m1 + 1] ^^ 255
       /\ x2 < 220 => x3 = CheckData(x2) ^^ 255
  BY <1>19 DEF x1, x3
<1> HIDE DEF out
<1>25. out.ok = TRUE /\ out.packet = Join(head, data)
  BY <1>14, <1>20, <1>23, <1>24 DEF Join
<1>26. Deciphers(out, in, v)
  BY <1>7, <1>18, <1>25 DEF Deciphers, head
<1>27. QED
  BY <1>8, <1>26 DEF out

-----------------------------------------------------------------------------
(* A packet between clients, from its bytes.                                  *)

LEMMA AtStart ==
    ASSUME NEW d \in Bytes
    PROVE  At(Reader(d), d, "big", <<>>, NoSubtype, d)
<1>1. Reader(d) = Rd(d, 0, "big", <<>>, NoSubtype)
  BY DEF Reader, Rd
<1>2. Rest(d, 0) = d
  BY WholeRest
<1>3. 0 \in 0 .. Len(d)
  BY BytesType
<1>4. QED
  BY <1>1, <1>2, <1>3 DEF At

WithSeq(ist, seq) == [ist EXCEPT !.seq = seq]

LEMMA Zeroes == Zeros(4) \in Bytes /\ Len(Zeros(4)) = 4 /\ Zeros(12) \in Bytes /\ Len(Zeros(12)) = 12
<1>1. 0 \in Byte
  BY DEF Byte
<1>2. Zeros(4) \in Seq(Byte) /\ Len(Zeros(4)) = 4
  BY <1>1, SMT DEF Zeros
<1>3. Zeros(12) \in Seq(Byte) /\ Len(Zeros(12)) = 12
  BY <1>1, SMT DEF Zeros
<1>4. QED
  BY <1>2, <1>3 DEF Bytes

\* The bytes of a packet after its head and its check.
PacketTail(command, q, o) == Join(LE(command, 2), Join(LE(14, 2), Join(LE(q, 2), Join(Zeros(12), o))))

LEMMA PacketIs ==
    ASSUME NEW command \in Word2, NEW x, x.seq \in Word2, Output(x) \in Bytes
    PROVE  /\ Packet(command, x) \in Bytes /\ Rest(Packet(command, x), 4) = PacketTail(command, x.seq, Output(x))
           /\ PacketTail(command, x.seq, Output(x)) \in Bytes
           /\ Len(Packet(command, x)) = 22 + Len(Output(x))
<1> DEFINE Z == Zeros(4)
           A == LE(command, 2)
           B == LE(14, 2)
           C == LE(x.seq, 2)
           Y == Zeros(12)
           o == Output(x)
           tail == Join(A, Join(B, Join(C, Join(Y, o))))
           in == Packet(command, x)
<1>1. 14 \in Word2
  BY SMT DEF Word2
<1>2. /\ Z \in Bytes /\ Len(Z) = 4 /\ A \in Bytes /\ Len(A) = 2 /\ B \in Bytes /\ Len(B) = 2
      /\ C \in Bytes /\ Len(C) = 2 /\ Y \in Bytes /\ Len(Y) = 12
  BY <1>1, Zeroes, Integers2
<1>3. in = (((((Z \o A) \o B) \o C) \o Y) \o o)
  BY DEF Packet
<1> HIDE DEF Z, A, B, C, Y, o, in
<1>4. in = Join(Join(Join(Join(Join(Z, A), B), C), Y), o)
  BY <1>3 DEF Join
<1>5. Z \in Bytes /\ A \in Bytes /\ B \in Bytes /\ C \in Bytes /\ Y \in Bytes /\ o \in Bytes
  BY <1>2 DEF o
<1>6. in = Join(Z, tail)
  BY <1>4, <1>5, Flat5
<1>7. tail \in Bytes /\ Len(tail) = Len(A) + (Len(B) + (Len(C) + (Len(Y) + Len(o))))
  BY <1>5, Lens5
<1> HIDE DEF tail
<1>8. in \in Bytes /\ Len(in) = Len(Z) + Len(tail)
  BY <1>5, <1>6, <1>7, JoinTwo
<1>9. Rest(in, 0) = Join(Z, tail)
  BY <1>6, <1>8, WholeRest
<1>10. PICK n : n = 0 /\ n \in 0 .. Len(in) /\ n + Len(Z) = 4
  <2>1. Len(in) \in Nat
    BY <1>8, BytesType
  <2>2. QED
    BY <1>2, <2>1
<1>11. Rest(in, n + Len(Z)) = tail
  <2>1. in \in Bytes /\ Z \in Bytes /\ tail \in Bytes /\ Rest(in, n) = Join(Z, tail)
    BY <1>5, <1>7, <1>8, <1>9, <1>10
  <2>2. QED
    BY <1>10, <2>1, Ahead
<1>12. Len(in) = 4 + (2 + (2 + (2 + (12 + Len(o)))))
  BY <1>2, <1>7, <1>8
<1>13. Len(o) \in Nat
  BY <1>5, BytesType
<1>14. Len(in) = 22 + Len(o)
  BY <1>12, <1>13
<1>15. QED
  BY <1>7, <1>8, <1>10, <1>11, <1>14 DEF in, o, tail, A, B, C, Y, PacketTail

\* Layouts put together.
LEMMA Layout1 ==
    ASSUME NEW a, NEW b, NEW c
    PROVE  <<a, b>> \o <<c>> = <<a, b, c>>
<1> DEFINE S == {a, b, c}
           s == <<a, b>> \o <<c>>
<1>1. <<a, b>> \in Seq(S) /\ <<c>> \in Seq(S) /\ <<a, b, c>> \in Seq(S)
  OBVIOUS
<1>2. /\ s \in Seq(S) /\ Len(s) = Len(<<a, b>>) + Len(<<c>>)
      /\ \A i \in 1 .. Len(<<a, b>>) + Len(<<c>>) :
             s[i] = IF i <= Len(<<a, b>>) THEN <<a, b>>[i] ELSE <<c>>[i - Len(<<a, b>>)]
  BY <1>1, ConcatProperties, ZenonT(20)
<1> HIDE DEF S, s
<1>3. Len(s) = 3 /\ s[1] = a /\ s[2] = b /\ s[3] = c
  BY <1>2
<1>4. s = <<a, b, c>>
  BY <1>1, <1>2, <1>3, SeqEqual
<1>5. QED
  BY <1>4 DEF s

LEMMA Layout2 ==
    ASSUME NEW a, NEW b, NEW e, NEW f
    PROVE  <<a, b>> \o <<e, b, b, b, f>> = <<a, b, e, b, b, b, f>>
<1> DEFINE S == {a, b, e, f}
           s == <<a, b>> \o <<e, b, b, b, f>>
<1>1. <<a, b>> \in Seq(S) /\ <<e, b, b, b, f>> \in Seq(S) /\ <<a, b, e, b, b, b, f>> \in Seq(S)
  OBVIOUS
<1>2. /\ s \in Seq(S) /\ Len(s) = Len(<<a, b>>) + Len(<<e, b, b, b, f>>)
      /\ \A i \in 1 .. Len(<<a, b>>) + Len(<<e, b, b, b, f>>) :
             s[i] = IF i <= Len(<<a, b>>) THEN <<a, b>>[i] ELSE <<e, b, b, b, f>>[i - Len(<<a, b>>)]
  BY <1>1, ConcatProperties, ZenonT(20)
<1> HIDE DEF S, s
<1>3. Len(s) = 7 /\ s[1] = a /\ s[2] = b /\ s[3] = e /\ s[4] = b /\ s[5] = b /\ s[6] = b /\ s[7] = f
  BY <1>2
<1>4. s = <<a, b, e, b, b, b, f>>
  BY <1>1, <1>2, <1>3, SeqEqual
<1>5. QED
  BY <1>4 DEF s

LEMMA Layout3 ==
    ASSUME NEW a, NEW b, NEW c, NEW e, NEW f
    PROVE  <<a, b, c>> \o <<e, b, b, b, f>> = <<a, b, c, e, b, b, b, f>>
<1> DEFINE S == {a, b, c, e, f}
           s == <<a, b, c>> \o <<e, b, b, b, f>>
<1>1. <<a, b, c>> \in Seq(S) /\ <<e, b, b, b, f>> \in Seq(S) /\ <<a, b, c, e, b, b, b, f>> \in Seq(S)
  OBVIOUS
<1>2. /\ s \in Seq(S) /\ Len(s) = Len(<<a, b, c>>) + Len(<<e, b, b, b, f>>)
      /\ \A i \in 1 .. Len(<<a, b, c>>) + Len(<<e, b, b, b, f>>) :
             s[i] = IF i <= Len(<<a, b, c>>) THEN <<a, b, c>>[i] ELSE <<e, b, b, b, f>>[i - Len(<<a, b, c>>)]
  BY <1>1, ConcatProperties, ZenonT(20)
<1> HIDE DEF S, s
<1>3. Len(s) = 8 /\ s[1] = a /\ s[2] = b /\ s[3] = c /\ s[4] = e /\ s[5] = b /\ s[6] = b /\ s[7] = b /\ s[8] = f
  BY <1>2
<1>4. s = <<a, b, c, e, b, b, b, f>>
  BY <1>1, <1>2, <1>3, SeqEqual
<1>5. QED
  BY <1>4 DEF s

LEMMA LayoutsJoined ==
    ASSUME NEW a, NEW b, NEW c, NEW e, NEW f
    PROVE  /\ <<a, b>> \o <<c>> \o <<e, b, b, b, f>> = <<a, b, c, e, b, b, b, f>>
           /\ <<a, b>> \o <<>> \o <<e, b, b, b, f>> = <<a, b, e, b, b, b, f>>
<1>1. <<a, b>> \o <<>> = <<a, b>>
  <2> DEFINE S == {a, b}
  <2>1. <<a, b>> \in Seq(S)
    OBVIOUS
  <2>2. QED
    BY <2>1, ConcatEmptySeq
<1>2. <<a, b>> \o <<c>> = <<a, b, c>>
  BY Layout1, Zenon
<1>3. <<a, b>> \o <<e, b, b, b, f>> = <<a, b, e, b, b, b, f>>
  BY Layout2, Zenon
<1>4. <<a, b, c>> \o <<e, b, b, b, f>> = <<a, b, c, e, b, b, b, f>>
  BY Layout3, Zenon
<1>5. QED
  BY <1>1, <1>2, <1>3, <1>4, Zenon

\* What ParsePacket reads before the subtype: the values, and the number of the last.
PacketSeen(d, v, command, q, o) ==
    LET start == IF v = 7 THEN <<U8>> ELSE <<>>
        r == Read(Reader(d), <<Little, U16>> \o start \o <<Skip(4), U16, U16, U16, Skip(12)>>)
        k == 4 + Len(start)
    IN  /\ \E w : At(r, d, "little", w, NoSubtype, o)
        /\ r.v[k - 2] = command /\ r.v[k - 1] = 14 /\ r.v[k] = q
        /\ v = 7 => r.v[2] = 2
LEMMA PacketHead ==
    ASSUME NEW d, NEW v \in {6, 7}, NEW n \in Nat, n + 1 \in Word2, NEW check \in Bytes, Len(check) = 4,
           NEW command \in Word2, NEW q \in Word2, NEW o \in Bytes,
           d = Join(Hdr(n, v), Join(check, PacketTail(command, q, o)))
    PROVE  PacketSeen(d, v, command, q, o)
<1> DEFINE t == PacketTail(command, q, o)
           start == IF v = 7 THEN <<U8>> ELSE <<>>
           r == Read(Reader(d), <<Little, U16>> \o start \o <<Skip(4), U16, U16, U16, Skip(12)>>)
           k == 4 + Len(start)
<1>1. PICK f, two : f = 14 /\ f \in Word2 /\ two = 2 /\ two \in Byte
  BY SMT DEF Word2, Byte
<1>2. n \in Word2
  BY SMT DEF Word2
<1> DEFINE tt == Join(LE(command, 2), Join(LE(f, 2), Join(LE(q, 2), Join(Zeros(12), o))))
<1>3. tt \in Bytes
  <2>1. LE(command, 2) \in Bytes /\ LE(f, 2) \in Bytes /\ LE(q, 2) \in Bytes /\ Zeros(12) \in Bytes
    BY <1>1, Written, Zeroes
  <2>2. QED
    BY <2>1, Lens5
<1>4. t = tt
  BY <1>1 DEF PacketTail
<1>5. CASE v = 7
  <2>1. Hdr(n, v) = Join(LE(n + 1, 2), One(two)) /\ LE(n + 1, 2) \in Bytes /\ One(two) \in Bytes
    BY <1>1, <1>5, Written DEF Hdr
  <2>2. Join(check, tt) \in Bytes
    BY <1>3, Written
  <2>3. d = Join(LE(n + 1, 2), Join(One(two), Join(check, tt)))
    BY <1>4, <2>1, <2>2, JoinAssoc
  <2>4. d \in Bytes
    BY <2>1, <2>2, <2>3, Written
  <2>5. At(Reader(d), d, "big", <<>>, NoSubtype, d)
    BY <2>4, AtStart
  <2>6. At(Reader(d), d, "big", <<>>, NoSubtype, Join(LE(n + 1, 2), Join(One(two), Join(check, tt))))
    BY <2>3, <2>5
  <2>7. PICK e : e = 12 /\ Len(Zeros(12)) = e /\ Zeros(12) \in Bytes
    BY Zeroes
  <2>8. PICK g : g = 4 /\ Len(check) = g
    OBVIOUS
  <2>9. At(Read(Reader(d), <<Little, U16, U8, Skip(g), U16, U16, U16, Skip(e)>>), d, "little",
           <<n + 1, two, command, f, q>>, NoSubtype, o)
    BY <1>1, <2>6, <2>7, <2>8, ReadsPacket7
  <2>10. <<Little, U16>> \o <<U8>> \o <<Skip(4), U16, U16, U16, Skip(12)>> =
             <<Little, U16, U8, Skip(4), U16, U16, U16, Skip(12)>>
    BY LayoutsJoined
  <2>11. r = Read(Reader(d), <<Little, U16, U8, Skip(g), U16, U16, U16, Skip(e)>>)
    BY <1>5, <2>7, <2>8, <2>10
  <2>12. k = 5 /\ k - 1 = 4 /\ k - 2 = 3
    BY <1>5
  <2> HIDE DEF r, k
  <2>13. r.v = <<n + 1, two, command, f, q>> /\ At(r, d, "little", <<n + 1, two, command, f, q>>, NoSubtype, o)
    BY <2>9, <2>11, Seen
  <2>14. r.v[3] = command /\ r.v[4] = 14 /\ r.v[5] = q /\ r.v[2] = 2
    BY <1>1, <2>13
  <2>15. QED
    BY <2>12, <2>13, <2>14 DEF r, k, PacketSeen
<1>6. CASE v # 7
  <2>1. Hdr(n, v) = LE(n, 2) /\ LE(n, 2) \in Bytes
    BY <1>2, <1>6, Written DEF Hdr
  <2>2. Join(check, tt) \in Bytes
    BY <1>3, Written
  <2>3. d = Join(LE(n, 2), Join(check, tt))
    BY <1>4, <2>1
  <2>4. d \in Bytes
    BY <2>1, <2>2, <2>3, Written
  <2>5. At(Reader(d), d, "big", <<>>, NoSubtype, d)
    BY <2>4, AtStart
  <2>6. At(Reader(d), d, "big", <<>>, NoSubtype, Join(LE(n, 2), Join(check, tt)))
    BY <2>3, <2>5
  <2>7. PICK e : e = 12 /\ Len(Zeros(12)) = e /\ Zeros(12) \in Bytes
    BY Zeroes
  <2>8. PICK g : g = 4 /\ Len(check) = g
    OBVIOUS
  <2>9. At(Read(Reader(d), <<Little, U16, Skip(g), U16, U16, U16, Skip(e)>>), d, "little",
           <<n, command, f, q>>, NoSubtype, o)
    BY <1>1, <1>2, <2>6, <2>7, <2>8, ReadsPacket6
  <2>10. <<Little, U16>> \o <<>> \o <<Skip(4), U16, U16, U16, Skip(12)>> =
             <<Little, U16, Skip(4), U16, U16, U16, Skip(12)>>
    BY LayoutsJoined
  <2>11. r = Read(Reader(d), <<Little, U16, Skip(g), U16, U16, U16, Skip(e)>>)
    BY <1>6, <2>7, <2>8, <2>10
  <2>12. k = 4 /\ k - 1 = 3 /\ k - 2 = 2
    BY <1>6
  <2> HIDE DEF r, k
  <2>13. r.v = <<n, command, f, q>> /\ At(r, d, "little", <<n, command, f, q>>, NoSubtype, o)
    BY <2>9, <2>11, Seen
  <2>14. r.v[2] = command /\ r.v[3] = 14 /\ r.v[4] = q
    BY <1>1, <2>13
  <2>15. QED
    BY <1>6, <2>12, <2>13, <2>14 DEF r, k, PacketSeen
<1>7. QED
  BY <1>5, <1>6

\* What ParsePacket says of a packet that was enciphered.
LEMMA PacketRead ==
    ASSUME NEW x, NEW j, NEW o \in Bytes, Output(x) = o, x.seq \in Word2, NEW command \in Word2, NEW adv, adv = TRUE,
           NEW ack, ack = (command = Command.ACK), Holds(o, adv, ack, j), j # NoSubtype,
           Len(o) + 23 \in Word2, NEW v \in {6, 7}, NEW m1 \in 10 .. Len(o) + 21, m1 \in Byte, NEW x2 \in 0 .. 219
    PROVE  ParsePacket(Encrypt(Packet(command, x), v, m1, x2), v) =
               [command |-> command, ist |-> WithSeq(j, x.seq)]
<1> DEFINE in == Packet(command, x)
           t == PacketTail(command, x.seq, o)
           bytes == Encrypt(in, v, m1, x2)
           out == Decrypt(bytes, v)
           start == IF v = 7 THEN <<U8>> ELSE <<>>
           r == Read(Reader(out.packet), <<Little, U16>> \o start \o <<Skip(4), U16, U16, U16, Skip(12)>>)
           k == 4 + Len(start)
           ist == ParseICQSubType(r, TRUE, r.v[k - 2] = Command.ACK).ist
<1>1. in \in Bytes /\ Rest(in, 4) = t /\ Len(in) = 22 + Len(o)
  BY PacketIs
<1>2. Len(o) \in Nat
  BY BytesType
<1>3. Len(in) + 1 \in Word2 /\ m1 \in 10 .. Len(in) - 1 /\ Len(in) \in Nat
  <2>1. Len(in) + 1 = Len(o) + 23 /\ Len(in) - 1 = Len(o) + 21 /\ Len(in) \in Nat
    BY <1>1, <1>2
  <2>2. QED
    BY <2>1
<1>4. Deciphers(out, in, v)
  <2> HIDE DEF in
  <2>1. QED
    BY <1>1, <1>3, Deciphered
<1>5. PICK check \in Bytes : Len(check) = 4 /\ out.packet = Join(Hdr(Len(in), v), Join(check, t))
  BY <1>1, <1>4 DEF Deciphers
<1>6. out.ok = TRUE
  BY <1>4 DEF Deciphers
<1> HIDE DEF in, t, out
<1>7. /\ \E w : At(r, out.packet, "little", w, NoSubtype, o)
      /\ r.v[k - 2] = command /\ r.v[k - 1] = 14 /\ r.v[k] = x.seq
      /\ v = 7 => r.v[2] = 2
  <2>1. out.packet = Join(Hdr(Len(in), v), Join(check, PacketTail(command, x.seq, o)))
    BY <1>5 DEF t
  <2>2. PacketSeen(out.packet, v, command, x.seq, o)
    BY <1>3, <1>5, <2>1, PacketHead
  <2>3. QED
    BY <2>2, Zenon DEF PacketSeen, r, k
<1> HIDE DEF r, k
<1>8. PICK w : At(r, out.packet, "little", w, NoSubtype, o)
  BY <1>7
<1>9. ist = j
  <2>1. o = Join(o, <<>>) /\ <<>> \in Bytes
    BY NoBytes, JoinIs
  <2>2. At(r, out.packet, "little", w, NoSubtype, Join(o, <<>>))
    BY <1>8, <2>1
  <2>3. PICK w2 : At(ParseICQSubType(r, adv, ack), out.packet, "little", w2, j, <<>>)
    BY <2>1, <2>2 DEF Holds
  <2>4. ParseICQSubType(r, adv, ack).ist = j
    <3> DEFINE f == ParseICQSubType(r, adv, ack)
    <3>1. At(f, out.packet, "little", w2, j, <<>>)
      BY <2>3
    <3> HIDE DEF f
    <3>2. f.ist = j
      BY <3>1, Seen
    <3>3. QED
      BY <3>2 DEF f
  <2>5. ack = (r.v[k - 2] = Command.ACK)
    BY <1>7
  <2>6. QED
    BY <2>4, <2>5
<1> HIDE DEF ist
<1>10. ParsePacket(bytes, v) = [command |-> command, ist |-> [ist EXCEPT !.seq = x.seq]]
  <2>1. ParsePacket(bytes, v) =
            IF ~out.ok THEN [command |-> 0, ist |-> NoSubtype]
            ELSE IF (v = 7 /\ r.v[2] # 2) \/ r.v[k - 1] # 14 THEN [command |-> 0, ist |-> NoSubtype]
            ELSE IF ist = NoSubtype THEN [command |-> 0, ist |-> NoSubtype]
            ELSE [command |-> r.v[k - 2], ist |-> [ist EXCEPT !.seq = r.v[k]]]
    BY Zenon DEF ParsePacket, out, r, k, ist
  <2>2. (v = 7 /\ r.v[2] # 2) = FALSE /\ r.v[k - 1] = 14 /\ ist # NoSubtype
    BY <1>7, <1>9
  <2>3. QED
    BY <1>6, <1>7, <2>1, <2>2
<1>11. QED
  BY <1>9, <1>10 DEF WithSeq, in

-----------------------------------------------------------------------------
(* Frames, and what is left of a stream of them.                              *)
Header(n) == Join(One(42), Join(One(2), Join(BE(0, 2), BE(n, 2))))
IsFrame(f) == f \in Bytes /\ \E n \in Word2, x \in Bytes : Len(x) = n /\ f = Join(Header(n), x)

LEMMA HeaderIs ==
    ASSUME NEW n \in Word2
    PROVE  /\ Header(n) \in Bytes /\ Len(Header(n)) = 6 /\ Header(n)[1] = 42
           /\ \A x \in Bytes : Join(Header(n), x) = Join(One(42), Join(One(2), Join(BE(0, 2), Join(BE(n, 2), x))))
<1>1. 42 \in Byte /\ 2 \in Byte /\ 0 \in Word2
  BY SMT DEF Byte, Word2
<1>2. /\ One(42) \in Bytes /\ One(2) \in Bytes /\ BE(0, 2) \in Bytes /\ BE(n, 2) \in Bytes
  BY <1>1, Written
<1>3. Len(One(42)) = 1 /\ Len(One(2)) = 1 /\ Len(BE(0, 2)) = 2 /\ Len(BE(n, 2)) = 2 /\ One(42)[1] = 42
  <2>1. Len(One(42)) = 1 /\ Len(One(2)) = 1 /\ One(42)[1] = 42
    BY <1>1, OneIs
  <2>2. Len(BE(0, 2)) = 2 /\ Len(BE(n, 2)) = 2
    BY <1>1, Integers2
  <2>3. QED
    BY <2>1, <2>2
<1> DEFINE a == One(42)
           b == One(2)
           c == BE(0, 2)
           e == BE(n, 2)
           h == Join(a, Join(b, Join(c, e)))
<1>4. a \in Bytes /\ b \in Bytes /\ c \in Bytes /\ e \in Bytes
  BY <1>2
<1>5. Len(a) = 1 /\ Len(b) = 1 /\ Len(c) = 2 /\ Len(e) = 2 /\ a[1] = 42
  BY <1>3
<1>6. h = Header(n)
  BY DEF Header
<1> HIDE DEF a, b, c, e
<1>7. h \in Bytes /\ Len(h) = Len(a) + (Len(b) + (Len(c) + Len(e)))
  BY <1>4, Lens4
<1>8. Len(h) = 6
  BY <1>5, <1>7
<1>9. h[1] = 42
  <2>1. Join(b, Join(c, e)) \in Bytes
    BY <1>4, Lens3
  <2>2. 1 \in 1 .. Len(a)
    BY <1>5
  <2>3. QED
    BY <1>4, <1>5, <2>1, <2>2, JoinAt, SMTT(30)
<1>10. ASSUME NEW x \in Bytes
       PROVE  Join(h, x) = Join(a, Join(b, Join(c, Join(e, x))))
  BY <1>4, <1>10, JoinAssoc, Written
<1>11. QED
  BY <1>6, <1>7, <1>8, <1>9, <1>10 DEF a, b, c, e

\* What the loop of Parse sees of the head of a frame.
LEMMA HeaderSeen ==
    ASSUME NEW n \in Word2, NEW x \in Bytes
    PROVE  Read(Reader(Join(Header(n), x)), <<U8, U8, U16, U16>>).v[4] = n
<1> DEFINE d == Join(Header(n), x)
<1>1. PICK a, b, c : a = 42 /\ b = 2 /\ c = 0 /\ a \in Byte /\ b \in Byte /\ c \in Word2
  BY SMT DEF Byte, Word2
<1>2. d = Join(One(a), Join(One(b), Join(BE(c, 2), Join(BE(n, 2), x))))
  BY <1>1, HeaderIs
<1>3. d \in Bytes
  BY HeaderIs, Written
<1>4. At(Reader(d), d, "big", <<>>, NoSubtype, d)
  BY <1>3, AtStart
<1> HIDE DEF d
<1>5. At(Reader(d), d, "big", <<>>, NoSubtype, Join(One(a), Join(One(b), Join(BE(c, 2), Join(BE(n, 2), x)))))
  BY <1>2, <1>4
<1>6. At(Read(Reader(d), <<U8, U8, U16, U16>>), d, "big", <<a, b, c, n>>, NoSubtype, x)
  BY <1>1, <1>5, ReadsFLAP
<1>7. Read(Reader(d), <<U8, U8, U16, U16>>).v = <<a, b, c, n>>
  BY <1>6, Seen
<1>8. QED
  BY <1>7 DEF d

Turn(rv, frames) == ParseFLAP([recv |-> rv, frames |-> frames])

LEMMA FrameTurn ==
    ASSUME NEW f, IsFrame(f), NEW x \in Bytes, NEW fs
    PROVE  /\ Turn(Join(f, x), fs) = [recv |-> x, frames |-> Append(fs, f)]
           /\ Join(f, x) \in Bytes /\ Len(f) >= 6
<1>1. PICK n \in Word2, y \in Bytes : Len(y) = n /\ f = Join(Header(n), y)
  BY DEF IsFrame
<1>2. Header(n) \in Bytes /\ Len(Header(n)) = 6 /\ Header(n)[1] = 42
  BY HeaderIs
<1>3. f \in Bytes /\ Len(f) = Len(Header(n)) + Len(y)
  BY <1>1, <1>2, JoinTwo
<1>4. n \in Nat
  BY SMT DEF Word2
<1>5. Len(f) = 6 + n
  BY <1>1, <1>2, <1>3
<1> DEFINE d == Join(f, x)
           size == Read(Reader(d), <<U8, U8, U16, U16>>).v[4] + 6
<1>6. d \in Bytes /\ Len(d) = Len(f) + Len(x)
  BY <1>3, JoinTwo
<1>7. d = Join(Header(n), Join(y, x)) /\ Join(y, x) \in Bytes
  BY <1>1, <1>2, JoinAssoc, Written
<1>8. size = n + 6
  BY <1>7, HeaderSeen
<1>9. d[1] = 42
  <2>1. 1 \in 1 .. Len(Header(n))
    BY <1>2
  <2>2. QED
    BY <1>2, <1>7, <2>1, JoinAt
<1>10. Len(x) \in Nat
  BY BytesType
<1> HIDE DEF d, size
<1>11. d # <<>> /\ ~(Len(d) < 6 \/ Len(d) < size)
  <2>1. Len(d) >= 6 /\ Len(d) >= size /\ Len(d) \in Nat
    BY <1>4, <1>5, <1>6, <1>8, <1>10
  <2>2. d # <<>>
    BY <2>1, NoBytes
  <2>3. QED
    BY <1>4, <1>8, <2>1, <2>2
<1>12. SubSeq(d, 1, size) = f /\ SubSeq(d, size + 1, Len(d)) = x
  <2>1. PICK p : p = 0 /\ p \in 0 .. Len(d) /\ p + Len(f) = size /\ p + 1 = 1
    BY <1>4, <1>5, <1>6, <1>8, <1>10
  <2>2. Rest(d, p) = Join(f, x)
    BY <1>6, <2>1, WholeRest DEF d
  <2>3. SubSeq(d, p + 1, p + Len(f)) = f /\ Rest(d, p + Len(f)) = x
    BY <1>3, <1>6, <2>1, <2>2, Ahead
  <2>4. QED
    BY <2>1, <2>3 DEF Rest
<1>13. ParseFLAP([recv |-> d, frames |-> fs]) = [recv |-> SubSeq(d, size + 1, Len(d)), frames |-> Append(fs,
          SubSeq(d, 1, size))]
  <2> DEFINE p == [recv |-> d, frames |-> fs]
  <2>1. p.recv = d /\ p.frames = fs
    OBVIOUS
  <2> HIDE DEF p
  <2>2. Read(Reader(p.recv), <<U8, U8, U16, U16>>).v[4] + 6 = size
    BY <2>1 DEF size
  <2>3. ParseFLAP(p) = [recv |-> SubSeq(p.recv, size + 1, Len(p.recv)), frames |-> Append(p.frames, SubSeq(p.recv, 1, size))]
    BY <1>9, <1>11, <2>1, <2>2, Zenon DEF ParseFLAP
  <2>4. QED
    BY <2>1, <2>3 DEF p
<1>14. Turn(d, fs) = [recv |-> x, frames |-> Append(fs, f)]
  BY <1>12, <1>13, Zenon DEF Turn
<1>15. Len(f) >= 6
  BY <1>4, <1>5
<1>16. QED
  BY <1>6, <1>14, <1>15 DEF d

\* What is not a whole frame stays.
Waits(p) == p \in Bytes /\ \A fs : Turn(p, fs) = [recv |-> p, frames |-> fs]

LEMMA NothingWaits == Waits(<<>>)
<1>1. ASSUME NEW fs
      PROVE  Turn(<<>>, fs) = [recv |-> <<>>, frames |-> fs]
  BY DEF Turn, ParseFLAP
<1>2. QED
  BY <1>1, NoBytes DEF Waits

LEMMA PrefixWaits ==
    ASSUME NEW p \in Bytes, NEW q \in Bytes, q # <<>>, IsFrame(Join(p, q))
    PROVE  Waits(p)
<1> DEFINE f == Join(p, q)
<1>1. PICK n \in Word2, y \in Bytes : Len(y) = n /\ f = Join(Header(n), y)
  BY DEF IsFrame
<1>2. Header(n) \in Bytes /\ Len(Header(n)) = 6 /\ Header(n)[1] = 42
  BY HeaderIs
<1>3. f \in Bytes /\ Len(f) = Len(Header(n)) + Len(y)
  BY <1>1, <1>2, JoinTwo, ZenonT(60)
<1>4. Len(f) = Len(p) + Len(q)
  BY JoinTwo
<1>5. Len(p) \in Nat /\ Len(q) \in Nat /\ n \in Nat
  BY BytesType, SMT DEF Word2
<1>6. Len(q) > 0
  <2>1. ASSUME Len(q) = 0
        PROVE  FALSE
    BY <2>1 DEF Bytes
  <2>2. QED
    BY <1>5, <2>1
<1> HIDE DEF f
<1>7. Len(p) < n + 6
  BY <1>1, <1>2, <1>3, <1>4, <1>5, <1>6
<1>8. ASSUME NEW fs, p # <<>>
      PROVE  Turn(p, fs) = [recv |-> p, frames |-> fs]
  <2> DEFINE t == [recv |-> p, frames |-> fs]
             size == Read(Reader(p), <<U8, U8, U16, U16>>).v[4] + 6
  <2>1. t.recv = p /\ t.frames = fs
    OBVIOUS
  <2>2. p[1] = 42
    <3>1. Len(p) # 0
      BY <1>8 DEF Bytes
    <3>2. 1 \in 1 .. Len(p) /\ 1 \in 1 .. Len(Header(n))
      BY <1>2, <1>5, <3>1
    <3>3. f[1] = p[1]
      BY <3>2, JoinAt DEF f
    <3>4. f[1] = Header(n)[1]
      BY <1>1, <1>2, <3>2, JoinAt
    <3>5. QED
      BY <1>2, <3>3, <3>4
  <2>3. Len(p) < 6 \/ Len(p) < size
    <3>1. CASE Len(p) >= 6
      <4> DEFINE z == Rest(p, 6)
      <4>1. z \in Bytes /\ Len(z) = Len(p) - 6 /\ \A i \in 1 .. Len(p) - 6 : z[i] = p[6 + i]
        BY <3>1, RestIs
      <4> HIDE DEF z
      <4>2. Join(Header(n), z) \in Bytes /\ Len(Join(Header(n), z)) = 6 + Len(z)
        BY <1>2, <4>1, JoinTwo, ZenonT(60)
      <4>3. ASSUME NEW i \in 1 .. Len(p)
            PROVE  p[i] = Join(Header(n), z)[i]
        <5>1. f[i] = p[i]
          BY JoinAt DEF f
        <5>2. CASE i <= 6
          <6>1. i \in 1 .. Len(Header(n))
            BY <1>2, <5>2
          <6>2. f[i] = Header(n)[i] /\ Join(Header(n), z)[i] = Header(n)[i]
            BY <1>1, <1>2, <4>1, <6>1, JoinAt
          <6>3. QED
            BY <5>1, <6>2
        <5>3. CASE i > 6
          <6>1. PICK j : j = i - 6 /\ j \in 1 .. Len(p) - 6 /\ i = 6 + j
            BY <1>5, <5>3
          <6>2. Join(Header(n), z)[Len(Header(n)) + j] = z[j]
            <7>1. j \in 1 .. Len(z) /\ Header(n) \in Bytes /\ z \in Bytes
              BY <1>2, <4>1, <6>1
            <7>2. QED
              BY <7>1, JoinAt, Zenon
          <6>3. z[j] = p[i]
            BY <4>1, <6>1
          <6>4. QED
            BY <1>2, <6>1, <6>2, <6>3
        <5>4. QED
          BY <5>2, <5>3
      <4>4. p = Join(Header(n), z)
        <5>1. Len(p) = Len(Join(Header(n), z))
          BY <1>5, <3>1, <4>1, <4>2
        <5>2. QED
          BY <4>2, <4>3, <5>1, SeqEqual DEF Bytes
      <4>5. size = n + 6
        BY <4>1, <4>4, HeaderSeen
      <4>6. QED
        BY <1>7, <4>5
    <3>2. QED
      BY <1>5, <3>1
  <2> HIDE DEF t, size
  <2>4. Read(Reader(t.recv), <<U8, U8, U16, U16>>).v[4] + 6 = size
    BY <2>1 DEF size
  <2>5. ParseFLAP(t) = t
    BY <1>8, <2>1, <2>2, <2>3, <2>4, Zenon DEF ParseFLAP
  <2>6. QED
    BY <2>5 DEF t, Turn
<1>9. QED
  BY <1>8, NothingWaits DEF Waits

LEMMA TurnsRun ==
    ASSUME NEW L \in Nat, NEW k \in 0 .. L, NEW ts, NEW u, u[0] = ts[0],
           \A n \in 1 .. k : ts[n] = ParseFLAP(ts[n - 1]), ParseFLAP(ts[k]) = ts[k],
           \A n \in 1 .. L : u[n] = ParseFLAP(u[n - 1])
    PROVE  u[L] = ts[k]
<1>1. \A n \in 1 .. k : u[n - 1] = ts[n - 1] => u[n] = ts[n]
  OBVIOUS
<1>2. \A n \in k + 1 .. L : u[n - 1] = ts[k] => u[n] = ts[k]
  OBVIOUS
<1>3. QED
  BY <1>1, <1>2, Runs

\* The turns ts[0] to ts[k] of the loop, after which nothing more is taken.
LEMMA ParseTurns ==
    ASSUME NEW rv \in Bytes, NEW ts, NEW k \in 0 .. Len(rv), ts[0] = [recv |-> rv, frames |-> <<>>],
           \A n \in 1 .. k : ts[n] = ParseFLAP(ts[n - 1]), ParseFLAP(ts[k]) = ts[k]
    PROVE  Parse(rv) = ts[k]
<1> DEFINE L == Len(rv)
           r == [recv |-> rv, frames |-> <<>>]
           w == [n \in 0 .. L |-> IF n <= k THEN ts[n] ELSE ts[k]]
           u == CHOOSE f : f = [n \in 0 .. L |-> IF n = 0 THEN r ELSE ParseFLAP(f[n - 1])]
<1>1. Parse(rv) = u[L]
  BY DEF Parse
<1>2. L \in Nat /\ k \in 0 .. L /\ ts[0] = r
  BY BytesType
<1> HIDE DEF L, r
<1>3. ASSUME NEW n \in 0 .. L PROVE w[n] = IF n = 0 THEN r ELSE ParseFLAP(w[n - 1])
  <2>1. CASE n = 0
    BY <1>2, <2>1
  <2>2. CASE n \in 1 .. k
    BY <1>2, <2>2
  <2>3. CASE n > k /\ n # 0
    <3>1. w[n] = ts[k] /\ w[n - 1] = ts[k]
      BY <1>2, <2>3
    <3>2. QED
      BY <1>2, <2>3, <3>1
  <2>4. QED
    BY <1>2, <2>1, <2>2, <2>3
<1>4. w = [n \in 0 .. L |-> IF n = 0 THEN r ELSE ParseFLAP(w[n - 1])]
  BY <1>3
<1>5. u = [n \in 0 .. L |-> IF n = 0 THEN r ELSE ParseFLAP(u[n - 1])]
  BY <1>4
<1> HIDE DEF u, w
<1>6. u[0] = r /\ \A n \in 1 .. L : u[n] = ParseFLAP(u[n - 1])
  BY <1>2, <1>5
<1>7. u[L] = ts[k]
  <2>1. u[0] = ts[0] /\ L \in Nat /\ k \in 0 .. L
    BY <1>2, <1>6
  <2>2. QED
    BY <1>6, <2>1, TurnsRun
<1>8. QED
  BY <1>1, <1>7

\* Nothing but a piece of a frame, or a frame and a piece, or two frames and a piece.
LEMMA ParseNone ==
    ASSUME NEW p, Waits(p)
    PROVE  Parse(p) = [recv |-> p, frames |-> <<>>]
<1> DEFINE t == [recv |-> p, frames |-> <<>>]
           ts == [n \in {0} |-> t]
<1>1. p \in Bytes /\ ParseFLAP(t) = t
  BY DEF Waits, Turn
<1>2. PICK k : k = 0 /\ k \in 0 .. Len(p)
  BY <1>1, BytesType
<1> HIDE DEF t
<1>3. ts[0] = t /\ ts[k] = t /\ \A n \in 1 .. k : ts[n] = ParseFLAP(ts[n - 1])
  BY <1>2
<1> HIDE DEF ts
<1>4. ts[0] = [recv |-> p, frames |-> <<>>] /\ ParseFLAP(ts[k]) = ts[k]
  BY <1>1, <1>3 DEF t
<1>5. Parse(p) = ts[k]
  BY <1>1, <1>2, <1>3, <1>4, ParseTurns
<1>6. QED
  BY <1>3, <1>5 DEF t

LEMMA ParseOne ==
    ASSUME NEW f, IsFrame(f), NEW p, Waits(p)
    PROVE  Parse(Join(f, p)) = [recv |-> p, frames |-> <<f>>]
<1> DEFINE d == Join(f, p)
           s == [recv |-> d, frames |-> <<>>]
           t == [recv |-> p, frames |-> <<f>>]
           ts == [n \in {0, 1} |-> IF n = 0 THEN s ELSE t]
<1>1. p \in Bytes /\ f \in Bytes
  BY DEF Waits, IsFrame
<1>2. d \in Bytes /\ Len(f) >= 6 /\ Len(d) = Len(f) + Len(p) /\ Len(p) \in Nat /\ Len(f) \in Nat
  BY <1>1, FrameTurn, JoinTwo, BytesType
<1>3. ParseFLAP(s) = t
  <2>1. ParseFLAP(s) = [recv |-> p, frames |-> Append(<<>>, f)]
    BY <1>1, FrameTurn DEF Turn
  <2>2. Append(<<>>, f) = <<f>>
    OBVIOUS
  <2>3. QED
    BY <2>1, <2>2
<1>4. ParseFLAP(t) = t
  BY DEF Waits, Turn
<1>5. PICK k : k = 1 /\ k \in 0 .. Len(d)
  BY <1>2
<1>6. s = [recv |-> d, frames |-> <<>>]
  OBVIOUS
<1> HIDE DEF s, t, d
<1>7. ts[0] = s /\ ts[k] = t /\ \A n \in 1 .. k : ts[n] = ParseFLAP(ts[n - 1])
  BY <1>3, <1>5
<1> HIDE DEF ts
<1>8. Parse(d) = ts[k]
  BY <1>2, <1>4, <1>5, <1>6, <1>7, ParseTurns
<1>9. QED
  BY <1>7, <1>8 DEF t, d

LEMMA ParseTwo ==
    ASSUME NEW f, IsFrame(f), NEW g, IsFrame(g), NEW p, Waits(p)
    PROVE  Parse(Join(f, Join(g, p))) = [recv |-> p, frames |-> <<f, g>>]
<1> DEFINE e == Join(g, p)
           d == Join(f, e)
           s == [recv |-> d, frames |-> <<>>]
           m == [recv |-> e, frames |-> <<f>>]
           t == [recv |-> p, frames |-> <<f, g>>]
           ts == [n \in {0, 1, 2} |-> IF n = 0 THEN s ELSE IF n = 1 THEN m ELSE t]
<1>1. p \in Bytes /\ f \in Bytes /\ g \in Bytes
  BY DEF Waits, IsFrame
<1>2. e \in Bytes /\ Len(e) \in Nat
  BY <1>1, Written, BytesType
<1>3. d \in Bytes /\ Len(f) >= 6 /\ Len(d) = Len(f) + Len(e) /\ Len(f) \in Nat
  BY <1>1, <1>2, FrameTurn, JoinTwo, BytesType
<1>4. ParseFLAP(s) = m
  <2>1. ParseFLAP(s) = [recv |-> e, frames |-> Append(<<>>, f)]
    BY <1>1, <1>2, FrameTurn DEF Turn
  <2>2. Append(<<>>, f) = <<f>>
    OBVIOUS
  <2>3. QED
    BY <2>1, <2>2
<1>5. ParseFLAP(m) = t
  <2>1. ParseFLAP(m) = [recv |-> p, frames |-> Append(<<f>>, g)]
    BY <1>1, <1>2, FrameTurn DEF Turn
  <2>2. Append(<<f>>, g) = <<f, g>>
    BY Adds, Zenon DEF Add
  <2>3. QED
    BY <2>1, <2>2
<1>6. ParseFLAP(t) = t
  BY DEF Waits, Turn
<1>7. PICK k : k = 2 /\ k \in 0 .. Len(d)
  BY <1>2, <1>3
<1>8. s = [recv |-> d, frames |-> <<>>]
  OBVIOUS
<1> HIDE DEF s, m, t, d
<1>9. ts[0] = s /\ ts[k] = t /\ \A n \in 1 .. k : ts[n] = ParseFLAP(ts[n - 1])
  BY <1>4, <1>5, <1>7
<1> HIDE DEF ts
<1>10. Parse(d) = ts[k]
  BY <1>3, <1>6, <1>7, <1>8, <1>9, ParseTurns
<1>11. QED
  BY <1>9, <1>10 DEF t, d, e

\* Strings cut in two.
LEMMA JoinCancel ==
    ASSUME NEW a \in Bytes, NEW b \in Bytes, NEW c \in Bytes, NEW e \in Bytes, Join(a, b) = Join(c, e), Len(a) = Len(c)
    PROVE  a = c /\ b = e
<1>1. /\ \A i \in 1 .. Len(a) : Join(a, b)[i] = a[i]
      /\ \A i \in 1 .. Len(b) : Join(a, b)[Len(a) + i] = b[i]
      /\ \A i \in 1 .. Len(c) : Join(c, e)[i] = c[i]
      /\ \A i \in 1 .. Len(e) : Join(c, e)[Len(c) + i] = e[i]
      /\ Len(Join(a, b)) = Len(a) + Len(b) /\ Len(Join(c, e)) = Len(c) + Len(e)
      /\ Len(a) \in Nat /\ Len(b) \in Nat /\ Len(e) \in Nat
  BY JoinAt, JoinTwo, BytesType
<1>2. a = c
  <2>1. \A i \in 1 .. Len(a) : a[i] = c[i]
    BY <1>1
  <2>2. QED
    BY <2>1, SeqEqual DEF Bytes
<1>3. b = e
  <2>1. Len(b) = Len(e)
    BY <1>1
  <2>2. \A i \in 1 .. Len(b) : b[i] = e[i]
    BY <1>1, <2>1
  <2>3. QED
    BY <2>1, <2>2, SeqEqual DEF Bytes
<1>4. QED
  BY <1>2, <1>3

LEMMA CutAt ==
    ASSUME NEW d \in Bytes, NEW n \in Nat, n <= Len(d)
    PROVE  /\ SubSeq(d, 1, n) \in Bytes /\ Len(SubSeq(d, 1, n)) = n
           /\ Rest(d, n) \in Bytes /\ Len(Rest(d, n)) = Len(d) - n /\ Join(SubSeq(d, 1, n), Rest(d, n)) = d
           /\ n < Len(d) => Rest(d, n) # <<>>
           /\ n = Len(d) => Rest(d, n) = <<>> /\ SubSeq(d, 1, n) = d
<1> DEFINE x == SubSeq(d, 1, n)
           y == Rest(d, n)
<1>1. d \in Seq(Byte) /\ Len(d) \in Nat
  BY BytesType
<1>2. x \in Seq(Byte) /\ Len(x) = n /\ \A i \in 1 .. n : x[i] = d[i]
  BY <1>1
<1>3. y \in Bytes /\ Len(y) = Len(d) - n /\ \A i \in 1 .. Len(d) - n : y[i] = d[n + i]
  BY RestIs
<1>4. x \in Bytes
  BY <1>2 DEF Bytes
<1> HIDE DEF x, y
<1> DEFINE z == Join(x, y)
<1>5. /\ z \in Bytes /\ Len(z) = Len(x) + Len(y)
      /\ \A i \in 1 .. Len(x) : z[i] = x[i]
      /\ \A i \in 1 .. Len(y) : z[Len(x) + i] = y[i]
  BY <1>3, <1>4, JoinAt, JoinTwo
<1> HIDE DEF z
<1>6. Len(z) = Len(d)
  BY <1>1, <1>2, <1>3, <1>5
<1>7. ASSUME NEW i \in 1 .. Len(d)
      PROVE  z[i] = d[i]
  <2>1. CASE i <= n
    BY <1>2, <1>5, <2>1
  <2>2. CASE i > n
    <3>1. PICK j : j = i - n /\ j \in 1 .. Len(d) - n /\ i = n + j
      BY <1>1, <2>2
    <3>2. z[Len(x) + j] = y[j]
      BY <1>3, <1>5, <3>1
    <3>3. QED
      BY <1>2, <1>3, <3>1, <3>2
  <2>3. QED
    BY <2>1, <2>2
<1>8. z = d
  BY <1>1, <1>5, <1>6, <1>7, SeqEqual DEF Bytes
<1>9. n < Len(d) => y # <<>>
  BY <1>1, <1>3, NoBytes
<1>10. ASSUME n = Len(d)
       PROVE  y = <<>> /\ x = d
  <2>1. Len(y) = 0
    BY <1>1, <1>3, <1>10
  <2>2. y = <<>>
    BY <1>3, <2>1 DEF Bytes
  <2>3. z = x
    BY <1>4, <2>2, JoinIs DEF z
  <2>4. QED
    BY <1>8, <2>2, <2>3
<1>11. QED
  BY <1>2, <1>3, <1>4, <1>8, <1>9, <1>10 DEF x, y, z

\* A stream of bytes, some of them read: the frames that are still to come out of it.
Stream(rv, tb, fs) ==
    /\ rv \in Bytes /\ tb \in Bytes
    /\ \/ fs = <<>> /\ rv = <<>> /\ tb = <<>>
       \/ \E f : IsFrame(f) /\ fs = <<f>> /\ Join(rv, tb) = f /\ tb # <<>>
       \/ \E f, g : IsFrame(f) /\ IsFrame(g) /\ fs = <<f, g>> /\ Join(rv, tb) = Join(f, g) /\ Len(rv) < Len(f)

LEMMA StreamEnds ==
    ASSUME NEW rv, NEW tb, NEW fs, Stream(rv, tb, fs)
    PROVE  /\ tb = <<>> <=> fs = <<>>
           /\ fs = <<>> => rv = <<>>
<1>1. CASE fs = <<>> /\ rv = <<>> /\ tb = <<>>
  BY <1>1
<1>2. ASSUME NEW f, IsFrame(f), fs = <<f>>, Join(rv, tb) = f, tb # <<>>
      PROVE  tb # <<>> /\ fs # <<>>
  BY <1>2
<1>3. ASSUME NEW f, NEW g, IsFrame(f), IsFrame(g), fs = <<f, g>>, Join(rv, tb) = Join(f, g), Len(rv) < Len(f)
      PROVE  tb # <<>> /\ fs # <<>>
  <2>1. rv \in Bytes /\ tb \in Bytes /\ f \in Bytes /\ g \in Bytes
    BY <1>3 DEF Stream, IsFrame
  <2>2. Len(rv) + Len(tb) = Len(f) + Len(g) /\ Len(f) \in Nat /\ Len(g) \in Nat /\ Len(rv) \in Nat /\ Len(tb) \in Nat
    <3>1. Len(Join(rv, tb)) = Len(rv) + Len(tb) /\ Len(Join(f, g)) = Len(f) + Len(g)
      BY <2>1, JoinTwo
    <3>2. Len(f) \in Nat /\ Len(g) \in Nat /\ Len(rv) \in Nat /\ Len(tb) \in Nat
      BY <2>1, BytesType
    <3>3. QED
      BY <1>3, <3>1, <3>2
  <2>3. Len(tb) # 0
    BY <1>3, <2>2
  <2>4. QED
    BY <1>3, <2>3, NoBytes
<1>4. QED
  BY <1>1, <1>2, <1>3 DEF Stream

\* It grows by a frame.
LEMMA StreamGrows ==
    ASSUME NEW rv, NEW tb, NEW fs, Stream(rv, tb, fs), NEW g, IsFrame(g)
    PROVE  /\ fs = <<>> => Stream(rv, tb \o g, <<g>>)
           /\ \A f : fs = <<f>> => Stream(rv, tb \o g, <<f, g>>)
<1>1. rv \in Bytes /\ tb \in Bytes /\ g \in Bytes /\ Join(tb, g) \in Bytes
  BY Written DEF Stream, IsFrame
<1>2. ASSUME fs = <<>>
      PROVE  Stream(rv, Join(tb, g), <<g>>)
  <2>1. rv = <<>> /\ tb = <<>>
    BY <1>2, StreamEnds
  <2>2. Join(tb, g) = g /\ Join(rv, g) = g /\ g # <<>>
    <3>1. Len(g) >= 6
      BY NoBytes, FrameTurn
    <3>2. QED
      BY <1>1, <2>1, <3>1, JoinIs, NoBytes
  <2>3. Join(rv, Join(tb, g)) = g /\ Join(tb, g) # <<>>
    BY <2>2
  <2>4. QED
    BY <1>1, <2>3 DEF Stream
<1>3. ASSUME NEW f, fs = <<f>>
      PROVE  Stream(rv, Join(tb, g), <<f, g>>)
  <2>1. IsFrame(f) /\ Join(rv, tb) = f /\ tb # <<>>
    <3>1. \A a : <<f>> = <<a>> => a = f
      OBVIOUS
    <3>2. <<f>> # <<>> /\ \A a, b : <<f>> # <<a, b>>
      OBVIOUS
    <3>3. QED
      BY <1>3, <3>1, <3>2 DEF Stream
  <2>2. Join(rv, Join(tb, g)) = Join(f, g)
    BY <1>1, <2>1, JoinAssoc
  <2>3. Len(rv) < Len(f)
    <3>1. Len(f) = Len(rv) + Len(tb) /\ Len(rv) \in Nat /\ Len(tb) \in Nat
      BY <1>1, <2>1, JoinTwo, BytesType
    <3>2. Len(tb) # 0
      BY <1>1, <2>1 DEF Bytes
    <3>3. QED
      BY <3>1, <3>2
  <2>4. QED
    BY <1>1, <2>1, <2>2, <2>3 DEF Stream
<1>4. Join(tb, g) = tb \o g
  BY DEF Join
<1>5. QED
  BY <1>2, <1>3, <1>4, Zenon

\* What a read takes out of it: no frame, all of them, or the first of two.
Splice(fs, a, b) ==
    \/ a = <<>> /\ b = fs
    \/ a = fs /\ b = <<>>
    \/ \E f, g : fs = <<f, g>> /\ a = <<f>> /\ b = <<g>>
Taken(p, tb, fs) == \E b : Stream(p.recv, tb, b) /\ Splice(fs, p.frames, b)

LEMMA ReadsAll ==
    ASSUME NEW rv, NEW tb, NEW fs, Stream(rv, tb, fs), tb # <<>>
    PROVE  Taken(Parse(Join(rv, tb)), <<>>, fs)
<1>1. Stream(<<>>, <<>>, <<>>)
  BY NoBytes DEF Stream
<1>2. ASSUME NEW p, p.recv = <<>>, p.frames = fs
      PROVE  Taken(p, <<>>, fs)
  BY <1>1, <1>2 DEF Taken, Splice
<1>3. ASSUME NEW f, IsFrame(f), fs = <<f>>, Join(rv, tb) = f
      PROVE  Parse(Join(rv, tb)) = [recv |-> <<>>, frames |-> fs]
  <2>1. f \in Bytes
    BY <1>3 DEF IsFrame
  <2>2. f = Join(f, <<>>)
    BY <2>1, JoinIs
  <2>3. Parse(Join(f, <<>>)) = [recv |-> <<>>, frames |-> <<f>>]
    BY <1>3, NothingWaits, ParseOne
  <2>4. QED
    BY <1>3, <2>2, <2>3, Zenon
<1>4. ASSUME NEW f, NEW g, IsFrame(f), IsFrame(g), fs = <<f, g>>, Join(rv, tb) = Join(f, g)
      PROVE  Parse(Join(rv, tb)) = [recv |-> <<>>, frames |-> fs]
  <2>1. g \in Bytes
    BY <1>4 DEF IsFrame
  <2>2. g = Join(g, <<>>)
    BY <2>1, JoinIs
  <2>3. Parse(Join(f, Join(g, <<>>))) = [recv |-> <<>>, frames |-> <<f, g>>]
    BY <1>4, NothingWaits, ParseTwo
  <2>4. QED
    BY <1>4, <2>2, <2>3, Zenon
<1>5. Parse(Join(rv, tb)) = [recv |-> <<>>, frames |-> fs]
  BY <1>3, <1>4 DEF Stream
<1>6. QED
  BY <1>2, <1>5

LEMMA ReadsSome ==
    ASSUME NEW tb, NEW fs, Stream(<<>>, tb, fs), NEW n \in Nat, n < Len(tb)
    PROVE  Taken(Parse(SubSeq(tb, 1, n)), Rest(tb, n), fs)
<1> DEFINE x == SubSeq(tb, 1, n)
           y == Rest(tb, n)
<1>1. tb \in Bytes /\ Len(tb) \in Nat
  BY BytesType DEF Stream
<1>2. x \in Bytes /\ Len(x) = n /\ y \in Bytes /\ Join(x, y) = tb /\ y # <<>> /\ Len(y) = Len(tb) - n
  BY <1>1, CutAt
<1> HIDE DEF x, y
<1>3. Join(<<>>, tb) = tb
  BY <1>1, JoinIs
\* The first frame is not there yet.
<1>4. ASSUME NEW f, IsFrame(f), NEW z \in Bytes, tb = Join(f, z), n < Len(f), Stream(x, y, fs)
      PROVE  Taken(Parse(x), y, fs)
  <2> DEFINE w == Rest(f, n)
  <2>1. f \in Bytes
    BY <1>4 DEF IsFrame
  <2>2. SubSeq(f, 1, n) \in Bytes /\ Len(SubSeq(f, 1, n)) = n /\ w \in Bytes /\ Join(SubSeq(f, 1, n), w) = f /\ w # <<>>
    <3>1. n <= Len(f)
      BY <1>4, <2>1, BytesType
    <3>2. QED
      BY <1>4, <2>1, <3>1, CutAt
  <2> HIDE DEF w
  <2>3. Join(SubSeq(f, 1, n), Join(w, z)) = Join(x, y) /\ Join(w, z) \in Bytes
    BY <1>2, <1>4, <2>2, JoinAssoc, Written
  <2>4. x = SubSeq(f, 1, n)
    <3> DEFINE h == SubSeq(f, 1, n)
    <3>1. h \in Bytes /\ Len(h) = Len(x) /\ Join(h, Join(w, z)) = Join(x, y)
      BY <1>2, <2>2, <2>3
    <3> HIDE DEF h
    <3>2. h = x
      BY <1>2, <2>3, <3>1, JoinCancel
    <3>3. QED
      BY <3>2 DEF h
  <2>5. Waits(x)
    BY <1>2, <1>4, <2>2, <2>4, PrefixWaits
  <2>6. Parse(x) = [recv |-> x, frames |-> <<>>]
    BY <2>5, ParseNone
  <2>7. QED
    BY <1>4, <2>6 DEF Taken, Splice
<1>5. ASSUME NEW f, IsFrame(f), fs = <<f>>, tb = f
      PROVE  Taken(Parse(x), y, fs)
  <2>1. Stream(x, y, fs)
    BY <1>2, <1>5 DEF Stream
  <2>2. <<>> \in Bytes /\ tb = Join(f, <<>>) /\ n < Len(f)
    BY <1>1, <1>5, JoinIs, NoBytes
  <2>3. QED
    BY <1>4, <1>5, <2>1, <2>2
<1>6. ASSUME NEW f, NEW g, IsFrame(f), IsFrame(g), fs = <<f, g>>, tb = Join(f, g)
      PROVE  Taken(Parse(x), y, fs)
  <2>1. f \in Bytes /\ g \in Bytes
    BY <1>6 DEF IsFrame
  <2>2. Len(tb) = Len(f) + Len(g) /\ Len(f) \in Nat /\ Len(g) \in Nat
    BY <1>6, <2>1, JoinTwo, BytesType
  <2>3. CASE n < Len(f)
    <3>1. Stream(x, y, fs)
      <4>1. Len(x) < Len(f)
        BY <1>2, <2>3
      <4>2. Join(x, y) = Join(f, g)
        BY <1>2, <1>6
      <4>3. QED
        BY <1>2, <1>6, <4>1, <4>2 DEF Stream
    <3>2. QED
      BY <1>4, <1>6, <2>1, <2>3, <3>1
  <2>4. CASE ~(n < Len(f))
    <3>1. PICK m \in Nat : m = n - Len(f) /\ m < Len(g) /\ m <= Len(g) /\ n = Len(f) + m
      <4>1. n - Len(f) \in Nat /\ n - Len(f) < Len(g) /\ n = Len(f) + (n - Len(f))
        BY <1>1, <2>2, <2>4
      <4>2. QED
        BY <2>2, <4>1
    <3> DEFINE a == SubSeq(g, 1, m)
               b == Rest(g, m)
    <3>2. a \in Bytes /\ Len(a) = m /\ b \in Bytes /\ Join(a, b) = g /\ b # <<>>
      BY <2>1, <3>1, CutAt
    <3> HIDE DEF a, b
    <3>3. Join(Join(f, a), b) = Join(x, y) /\ Join(f, a) \in Bytes
      BY <1>2, <1>6, <2>1, <3>2, JoinAssoc, Written
    <3>4. Len(Join(f, a)) = n
      <4>1. Len(Join(f, a)) = Len(f) + Len(a)
        BY <2>1, <3>2, JoinTwo
      <4>2. QED
        BY <3>1, <3>2, <4>1
    <3>5. x = Join(f, a) /\ y = b
      BY <1>2, <3>2, <3>3, <3>4, JoinCancel
    <3>6. Waits(a)
      BY <1>6, <3>2, PrefixWaits
    <3>7. Parse(x) = [recv |-> a, frames |-> <<f>>]
      BY <1>6, <3>5, <3>6, ParseOne
    <3>8. Stream(a, y, <<g>>)
      BY <1>6, <3>2, <3>5 DEF Stream
    <3>9. Splice(fs, <<f>>, <<g>>)
      BY <1>6 DEF Splice
    <3>10. QED
      BY <3>7, <3>8, <3>9 DEF Taken
  <2>5. QED
    BY <2>3, <2>4
<1>7. fs # <<>>
  <2>1. tb # <<>>
    BY <1>1, NoBytes
  <2>2. QED
    BY <2>1, StreamEnds
<1>8. QED
  BY <1>3, <1>5, <1>6, <1>7 DEF Stream, x, y

-----------------------------------------------------------------------------
(* SNACs in their frames.                                                     *)
Framed(f, family, subtype, body) ==
    /\ ParseSNAC(f).family = family /\ ParseSNAC(f).subtype = subtype
    /\ f \in Bytes /\ \E w : At(ParseSNAC(f).r, f, "big", w, NoSubtype, body)

LEMMA FLAPIs ==
    ASSUME NEW family \in Word2, NEW subtype \in Word2, NEW body \in Bytes, Len(body) + 10 \in Word2
    PROVE  IsFrame(FLAP(family, subtype, body)) /\ Framed(FLAP(family, subtype, body), family, subtype, body)
<1> DEFINE a == BE(family, 2)
           b == BE(subtype, 2)
           c == BE(0, 2)
           e == BE(0, 4)
           snac == Join(a, Join(b, Join(c, Join(e, body))))
           f == FLAP(family, subtype, body)
<1>1. PICK z : z = 0 /\ z \in Word2 /\ z \in Word4
  BY SMT DEF Word2, Word4
<1>2. /\ a \in Bytes /\ b \in Bytes /\ c \in Bytes /\ e \in Bytes
      /\ Len(a) = 2 /\ Len(b) = 2 /\ Len(c) = 2 /\ Len(e) = 4
  BY <1>1, Integers2, Integers4
<1>3. One(42) \in Bytes /\ One(2) \in Bytes
  <2>1. 42 \in Byte /\ 2 \in Byte
    BY SMT DEF Byte
  <2>2. QED
    BY <2>1, Written
<1>4. BESized(((((a \o b) \o c) \o e) \o body)) = BESized(snac)
  <2> HIDE DEF a, b, c, e
  <2>1. ((((a \o b) \o c) \o e) \o body) = Join(Join(Join(Join(a, b), c), e), body)
    BY DEF Join
  <2>2. Join(Join(Join(Join(a, b), c), e), body) = snac
    BY <1>2, Flat4
  <2>3. QED
    BY <2>1, <2>2
<1>5. f = (<<42, 2>> \o c) \o BESized(((((a \o b) \o c) \o e) \o body))
  BY DEF FLAP
<1>6. a \in Bytes /\ b \in Bytes /\ c \in Bytes /\ e \in Bytes
  BY <1>2
<1> HIDE DEF a, b, c, e
<1>6a. snac \in Bytes /\ Len(snac) = Len(a) + (Len(b) + (Len(c) + (Len(e) + Len(body))))
  BY <1>6, Lens5
<1> HIDE DEF snac
<1>7. Len(snac) = Len(body) + 10
  <2>1. Len(body) \in Nat
    BY BytesType
  <2>2. QED
    BY <1>2, <1>6a, <2>1
<1> DEFINE n == Len(snac)
<1>8. n \in Word2 /\ BESized(snac) = Join(BE(n, 2), snac) /\ BE(n, 2) \in Bytes
  BY <1>6a, <1>7, Sized, Written
<1> HIDE DEF n
<1>9. f = Join(Header(n), snac)
  <2>1. <<42, 2>> = Join(One(42), One(2))
    <3>1. 42 \in Byte /\ 2 \in Byte
      BY SMT DEF Byte
    <3>2. QED
      BY <3>1, Pair
  <2>2. f = Join(Join(<<42, 2>>, c), BESized(snac))
    BY <1>4, <1>5, Zenon DEF Join
  <2>3. f = Join(Join(Join(One(42), One(2)), c), Join(BE(n, 2), snac))
    BY <1>8, <2>1, <2>2
  <2>4. f = Join(One(42), Join(One(2), Join(c, Join(BE(n, 2), snac))))
    BY <1>2, <1>3, <1>6a, <1>8, <2>3, Flat3, Written
  <2>5. Join(Header(n), snac) = Join(One(42), Join(One(2), Join(c, Join(BE(n, 2), snac))))
    BY <1>6a, <1>8, HeaderIs DEF c
  <2>6. QED
    BY <2>4, <2>5
<1> HIDE DEF f
<1>10. IsFrame(f)
  <2>1. f \in Bytes
    BY <1>6a, <1>8, <1>9, HeaderIs, Written
  <2>2. QED
    BY <1>6a, <1>8, <1>9, <2>1 DEF IsFrame, n
<1>11. Framed(f, family, subtype, body)
  <2>1. f \in Bytes
    BY <1>10 DEF IsFrame
  <2>2. At(Reader(f), f, "big", <<>>, NoSubtype, Join(Header(n), snac))
    BY <1>9, <2>1, AtStart
  <2>3. PICK six : six = 6 /\ Len(Header(n)) = six /\ Header(n) \in Bytes
    BY <1>8, HeaderIs
  <2>4. At(After(Reader(f), six), f, "big", <<>>, NoSubtype, snac)
    <3>1. Passes(Reader(f), f, "big", <<>>, NoSubtype, Header(n), snac)
      BY <1>6a, <2>2, <2>3, Moved
    <3>2. At(After(Reader(f), Len(Header(n))), f, "big", <<>>, NoSubtype, snac)
      BY <3>1 DEF Passes
    <3>3. QED
      BY <2>3, <3>2
  <2>5. At(After(Reader(f), six), f, "big", <<>>, NoSubtype,
           Join(BE(family, 2), Join(BE(subtype, 2), Join(BE(z, 2), Join(BE(z, 4), body)))))
    BY <1>1, <2>4 DEF snac, a, b, c, e
  <2> DEFINE r == Read(After(Reader(f), six), <<U16, U16, U16, U32>>)
  <2>6. At(r, f, "big", <<family, subtype, z, z>>, NoSubtype, body)
    BY <1>1, <2>5, ReadsSNAC
  <2>7. ParseSNAC(f) = [family |-> r.v[1], subtype |-> r.v[2], r |-> r]
    BY <2>3, Zenon DEF ParseSNAC
  <2> HIDE DEF r
  <2>8. r.v[1] = family /\ r.v[2] = subtype
    <3>1. r.v = <<family, subtype, z, z>>
      BY <2>6, Seen
    <3>2. QED
      BY <3>1
  <2>9. QED
    BY <2>1, <2>6, <2>7, <2>8 DEF Framed
<1>12. QED
  BY <1>10, <1>11 DEF f

-----------------------------------------------------------------------------
(* The TLVs of messages.                                                     *)
More(r, d) == r.data = d /\ ~(r.pos >= Len(d))
Done(r, d) == r.data = d /\ r.pos >= Len(d)

LEMMA MoreOrDone ==
    ASSUME NEW r, NEW d, NEW o, NEW v, NEW i, NEW x, At(r, d, o, v, i, x)
    PROVE  /\ x # <<>> => More(r, d)
           /\ x = <<>> => Done(r, d)
           /\ Len(x) <= Len(d) /\ Len(d) \in Nat /\ Len(x) \in Nat
<1>1. r.data = d /\ x \in Bytes
  BY Seen
<1>2. /\ r.pos \in Nat /\ Len(d) \in Nat /\ Len(x) \in Nat /\ r.pos + Len(x) = Len(d)
      /\ r.pos >= Len(d) <=> Len(x) = 0
  BY <1>1, Left
<1>3. x = <<>> <=> Len(x) = 0
  BY <1>1, NoBytes DEF Bytes
<1>4. QED
  BY <1>1, <1>2, <1>3 DEF More, Done

LEMMA EndsOf ==
    ASSUME NEW r, NEW count \in Nat, NEW rs, NEW k \in Nat, NEW d, rs[0] = r, r.data = d, Len(d) \in Nat, k <= Len(d),
           k <= count, \A n \in 1 .. k : More(rs[n - 1], d), Done(rs[k], d)
    PROVE  Ends(r, count, rs, k)
<1>1. ASSUME NEW n \in 1 .. k
      PROVE  n <= count /\ ~(rs[n - 1].pos >= Len(r.data))
  <2>1. More(rs[n - 1], d)
    BY <1>1
  <2>2. n <= count
    BY <1>1
  <2>3. QED
    BY <2>1, <2>2 DEF More
<1>2. QED
  BY <1>1 DEF Ends, Done

LEMMA ManyTLVs == MaxTLVs \in Nat /\ 4 <= MaxTLVs
BY SMT DEF MaxTLVs

\* The numbers of the last TLVs, read in the other order.
LEMMA Twisted ==
    /\ BE(0, 2) = LE(0, 2) /\ BE(3, 2) = LE(768, 2) /\ BE(6, 2) = LE(1536, 2)
    /\ 768 \in Word2 /\ 1536 \in Word2
<1>1. /\ 0 \div 256 = 0 /\ 0 % 256 = 0 /\ 0 \div 1 = 0
      /\ 3 \div 256 = 0 /\ 3 \div 1 = 3 /\ 3 % 256 = 3
      /\ 6 \div 256 = 0 /\ 6 \div 1 = 6 /\ 6 % 256 = 6
      /\ 768 \div 1 = 768 /\ 768 % 256 = 0 /\ 768 \div 256 = 3
      /\ 1536 \div 1 = 1536 /\ 1536 % 256 = 0 /\ 1536 \div 256 = 6
  BY SMT
<1>2. Weight[1] = 1 /\ Weight[2] = 256
  BY DEF Weight
<1>3. /\ 2 + 1 - 1 = 2 /\ 2 + 1 - 2 = 1 /\ \A i \in 1 .. 2 : i = 1 \/ i = 2
  OBVIOUS
<1>4. ASSUME NEW m, NEW n, NEW p, NEW q, m \div 1 = m, n \div 1 = n, m % 256 = p, m \div 256 = q, q % 256 = q,
             n % 256 = q, n \div 256 = p, p % 256 = p
      PROVE  BE(m, 2) = LE(n, 2)
  BY <1>2, <1>3, <1>4, SMT DEF BE, LE
<1>5. 768 \in Word2 /\ 1536 \in Word2
  BY SMT DEF Word2
<1>6. QED
  BY <1>1, <1>4, <1>5

\* The two subsections: what comes before the number of the message, and that number again.
Preamble == LE(7, 2) \o Zeros(18) \o LE(3, 4) \o <<0>>

LEMMA PreambleIs == Preamble \in Bytes /\ Len(Preamble) = 25
<1>1. 7 \in Word2 /\ 3 \in Word4 /\ 0 \in Byte
  BY SMT DEF Word2, Word4, Byte
<1>2. LE(7, 2) \in Bytes /\ Len(LE(7, 2)) = 2 /\ LE(3, 4) \in Bytes /\ Len(LE(3, 4)) = 4
  BY <1>1, Integers2, Integers4
<1>3. Zeros(18) \in Bytes /\ Len(Zeros(18)) = 18
  <2>1. Zeros(18) \in Seq(Byte) /\ Len(Zeros(18)) = 18
    BY <1>1, SMT DEF Zeros
  <2>2. QED
    BY <2>1 DEF Bytes
<1>4. One(0) \in Bytes /\ Len(One(0)) = 1
  BY <1>1, OneIs
<1> DEFINE a == LE(7, 2)
           b == Zeros(18)
           c == LE(3, 4)
           e == One(0)
<1>5. a \in Bytes /\ b \in Bytes /\ c \in Bytes /\ e \in Bytes
  BY <1>2, <1>3, <1>4
<1>6. Len(a) = 2 /\ Len(b) = 18 /\ Len(c) = 4 /\ Len(e) = 1
  BY <1>2, <1>3, <1>4
<1>7. Preamble = (((a \o b) \o c) \o e)
  BY Zenon DEF Preamble, One
<1> HIDE DEF a, b, c, e
<1>8. Preamble = Join(Join(Join(a, b), c), e)
  BY <1>7 DEF Join
<1>9. Preamble = Join(a, Join(b, Join(c, e)))
  BY <1>5, <1>8, Flat3
<1>10. Preamble \in Bytes /\ Len(Preamble) = Len(a) + (Len(b) + (Len(c) + Len(e)))
  BY <1>5, <1>9, Lens4
<1>11. QED
  BY <1>6, <1>10

LEMMA SubsectionsAre ==
    ASSUME NEW q \in Word2
    PROVE  /\ Subsections(q) \in Bytes /\ Len(Subsections(q)) = 45
           /\ \A y \in Bytes : Join(Subsections(q), y) =
                  Join(LE(27, 2), Join(Preamble, Join(LE(q, 2), Join(LE(14, 2), Join(LE(q, 2), Join(Zeros(12), y))))))
<1> DEFINE p == Preamble
           s == LE(q, 2)
           z == Zeros(12)
           a == Join(p, s)
           b == Join(s, z)
<1>1. 27 \in Word2 /\ 14 \in Word2
  BY SMT DEF Word2
<1>2. /\ p \in Bytes /\ s \in Bytes /\ z \in Bytes /\ LE(27, 2) \in Bytes /\ LE(14, 2) \in Bytes
      /\ Len(p) = 25 /\ Len(s) = 2 /\ Len(z) = 12 /\ Len(LE(27, 2)) = 2 /\ Len(LE(14, 2)) = 2
  BY <1>1, Integers2, PreambleIs, Zeroes
<1>3. Subsections(q) = Join(LESized(a), LESized(b))
  BY Zenon DEF Subsections, Join, Preamble
<1>4. p \in Bytes /\ s \in Bytes /\ z \in Bytes
  BY <1>2
<1>5. Len(p) = 25 /\ Len(s) = 2 /\ Len(z) = 12
  BY <1>2
<1> HIDE DEF p, s, z
<1>6. a \in Bytes /\ b \in Bytes /\ Len(a) = Len(p) + Len(s) /\ Len(b) = Len(s) + Len(z)
  BY <1>4, JoinTwo
<1> HIDE DEF a, b
<1>7. Len(a) = 27 /\ Len(b) = 14
  BY <1>5, <1>6
<1>8. a \in Bytes /\ b \in Bytes /\ Len(a) \in Word2 /\ Len(b) \in Word2
  BY <1>1, <1>6, <1>7
<1>9. /\ LESized(a) = Join(LE(Len(a), 2), a) /\ LESized(b) = Join(LE(Len(b), 2), b)
      /\ LESized(a) \in Bytes /\ LESized(b) \in Bytes
      /\ Len(LESized(a)) = Len(a) + 2 /\ Len(LESized(b)) = Len(b) + 2
  BY <1>8, Sized
<1>10. Subsections(q) \in Bytes /\ Len(Subsections(q)) = 45
  <2>1. Subsections(q) \in Bytes /\ Len(Subsections(q)) = Len(LESized(a)) + Len(LESized(b))
    BY <1>3, <1>9, JoinTwo
  <2>2. QED
    BY <1>7, <1>9, <2>1
<1>11. ASSUME NEW y \in Bytes
       PROVE  Join(Subsections(q), y) = Join(LE(27, 2), Join(p, Join(s, Join(LE(14, 2), Join(s, Join(z, y))))))
  <2> DEFINE m == LE(27, 2)
             n == LE(14, 2)
  <2>1. Subsections(q) = Join(Join(m, Join(p, s)), Join(n, Join(s, z)))
    BY <1>3, <1>7, <1>9 DEF a, b
  <2>2. m \in Bytes /\ n \in Bytes
    BY <1>2
  <2> HIDE DEF m, n
  <2>3. Join(Join(n, Join(s, z)), y) = Join(n, Join(s, Join(z, y)))
    BY <1>4, <2>2, JoinAssoc, Written
  <2>4. \A t \in Bytes : Join(Join(m, Join(p, s)), t) = Join(m, Join(p, Join(s, t)))
    BY <1>4, <2>2, JoinAssoc, Written
  <2>5. /\ Join(m, Join(p, s)) \in Bytes /\ Join(n, Join(s, z)) \in Bytes
        /\ Join(n, Join(s, Join(z, y))) \in Bytes
    BY <1>4, <2>2, Written
  <2>6. Join(Subsections(q), y) = Join(Join(m, Join(p, s)), Join(Join(n, Join(s, z)), y))
    BY <2>1, <2>5, JoinAssoc
  <2>7. QED
    BY <2>3, <2>4, <2>5, <2>6 DEF m, n
<1>12. QED
  BY <1>10, <1>11 DEF p, s, z

LEMMA NumberedIs ==
    ASSUME NEW p, NEW d, NEW o, NEW w, NEW j, NEW y, At(p, d, o, w, j, y), j # NoSubtype, NEW q
    PROVE  At(Numbered(p, q), d, o, w, WithSeq(j, q), y)
<1>1. p.ist = j
  BY Seen
<1>2. Numbered(p, q) = [p EXCEPT !.ist.seq = q]
  BY <1>1, Zenon DEF Numbered
<1>3. [p EXCEPT !.ist.seq = q] = [p EXCEPT !.ist = [p.ist EXCEPT !.seq = q]]
  OBVIOUS
<1>4. At([p EXCEPT !.ist = WithSeq(j, q)], d, o, w, WithSeq(j, q), y)
  BY Finds
<1>5. [p EXCEPT !.ist = [p.ist EXCEPT !.seq = q]] = [p EXCEPT !.ist = WithSeq(j, q)]
  BY <1>1, Zenon DEF WithSeq
<1>6. QED
  BY <1>2, <1>3, <1>4, <1>5, Zenon

\* The bytes o hold j: an advanced message, an acknowledgement, or a message of another kind.
HoldsMessage(o, j) == Holds(o, TRUE, FALSE, j)
HoldsAnswer(o, j) == Holds(o, TRUE, TRUE, j)
HoldsNormal(o, j) == Holds(o, FALSE, FALSE, j)

\* The message of an advanced one, with its length before it.
LEMMA AdvBodyRead ==
    ASSUME NEW r, NEW d, NEW v, NEW n \in Word2, NEW q \in Word2, NEW o \in Bytes, NEW y \in Bytes,
           NEW j, HoldsMessage(o, j), j # NoSubtype,
           At(r, d, "big", v, NoSubtype, Join(BE(n, 2), Join(Join(Subsections(q), o), y)))
    PROVE  \E w : At(AdvMsgBodyTLV(r), d, "little", w, WithSeq(j, q), y)
<1>1. PICK f, m : f = 14 /\ m = 27 /\ f \in Word2 /\ m \in Word2
  BY SMT DEF Word2
<1>2. Subsections(q) \in Bytes /\ Join(o, y) \in Bytes
  BY SubsectionsAre, Written
<1>3. Join(Join(Subsections(q), o), y) = Join(Subsections(q), Join(o, y))
  BY <1>2, JoinAssoc
<1>4. Join(Subsections(q), Join(o, y)) =
          Join(LE(m, 2), Join(Preamble, Join(LE(q, 2), Join(LE(f, 2), Join(LE(q, 2), Join(Zeros(12), Join(o, y)))))))
  BY <1>1, <1>2, SubsectionsAre
<1> DEFINE tail == Join(LE(q, 2), Join(LE(f, 2), Join(LE(q, 2), Join(Zeros(12), Join(o, y)))))
           skipped == Join(LE(m, 2), Preamble)
<1>5. LE(m, 2) \in Bytes /\ Preamble \in Bytes /\ LE(q, 2) \in Bytes /\ LE(f, 2) \in Bytes /\ Zeros(12) \in Bytes
  BY <1>1, Written, PreambleIs, Zeroes
<1>6. tail \in Bytes
  BY <1>2, <1>5, Written
<1>7. skipped \in Bytes /\ Len(skipped) = Len(LE(m, 2)) + Len(Preamble)
  BY <1>5, JoinTwo
<1>8. Len(skipped) = 27
  <2>1. Len(LE(m, 2)) = 2 /\ Len(Preamble) = 25
    BY <1>1, Integers2, PreambleIs
  <2>2. Len(skipped) = 2 + 25
    BY <1>7, <2>1, Zenon
  <2>3. QED
    BY <2>2, 2 + 25 = 27, Zenon
<1>9. Join(LE(m, 2), Join(Preamble, tail)) = Join(skipped, tail)
  BY <1>5, <1>6, JoinAssoc
<1>10. At(r, d, "big", v, NoSubtype, Join(BE(n, 2), Join(skipped, tail)))
  BY <1>3, <1>4, <1>9
<1> HIDE DEF skipped
<1> DEFINE b == Read(r, <<U16, Skip(27), Little, U16, U16, U16, Skip(12)>>)
<1>11. At(b, d, "little", <<n, q, f, q>>, NoSubtype, Join(o, y))
  <2>1. PICK e, g : e = 12 /\ Len(Zeros(12)) = e /\ g = 27 /\ Len(skipped) = g
    BY <1>8, Zeroes
  <2>2. At(Read(r, <<U16, Skip(g), Little, U16, U16, U16, Skip(e)>>), d, "little", <<n, q, f, q>>, NoSubtype, Join(o, y))
    BY <1>1, <1>2, <1>5, <1>7, <1>10, <2>1, ReadsAdvBody
  <2>3. QED
    BY <2>1, <2>2
<1>12. AdvMsgBodyTLV(r) = AdvMsgBody(b)
  BY Zenon DEF AdvMsgBodyTLV
<1> HIDE DEF b
<1>13. b.v = <<n, q, f, q>>
  BY <1>11, Seen
<1>14. b.v[3] = 14 /\ b.v[4] = q
  BY <1>1, <1>13
<1> DEFINE p == ParseICQSubType(b, TRUE, FALSE)
<1>15. AdvMsgBody(b) = Numbered(p, q)
  BY <1>14, Zenon DEF AdvMsgBody
<1>16. PICK w : At(p, d, "little", w, j, y)
  BY <1>11 DEF Holds, HoldsMessage, p
<1> HIDE DEF p
<1>17. At(Numbered(p, q), d, "little", w, WithSeq(j, q), y)
  BY <1>16, NumberedIs
<1>18. QED
  BY <1>12, <1>15, <1>17

\* One TLV of the data of an advanced message that is not looked at, and the message itself.
LEMMA AdvSkips ==
    ASSUME NEW r, NEW d, NEW v, NEW i, NEW t \in Word2, t # 10001, NEW x \in Bytes, Len(x) \in Word2, NEW y \in Bytes,
           At(r, d, "big", v, i, Join(BE(t, 2), Join(BESized(x), y)))
    PROVE  \E w : At(InAdvMsgData(Read(r, <<U16>>)), d, "big", w, i, y)
<1>1. Read(r, <<U16>>).v[1] = t /\ At(RawTLV(Read(r, <<U16>>)), d, "big", <<Len(x)>>, i, y)
  BY RawStep
<1>2. InAdvMsgData(Read(r, <<U16>>)) = RawTLV(Read(r, <<U16>>))
  BY <1>1 DEF InAdvMsgData
<1>3. QED
  BY <1>1, <1>2

LEMMA AdvSkipsLittle ==
    ASSUME NEW r, NEW d, NEW v, NEW i, NEW t \in Word2, t # 10001, NEW y \in Bytes,
           At(r, d, "little", v, i, Join(LE(t, 2), Join(LE(0, 2), y)))
    PROVE  \E w : At(InAdvMsgData(Read(r, <<U16>>)), d, "little", w, i, y)
<1>1. Read(r, <<U16>>).v[1] = t /\ At(RawTLV(Read(r, <<U16>>)), d, "little", <<0>>, i, y)
  BY RawStepLittle
<1>2. InAdvMsgData(Read(r, <<U16>>)) = RawTLV(Read(r, <<U16>>))
  BY <1>1 DEF InAdvMsgData
<1>3. QED
  BY <1>1, <1>2

LEMMA AdvTakes ==
    ASSUME NEW r, NEW d, NEW v, NEW q \in Word2, NEW o \in Bytes, NEW y \in Bytes,
           NEW j, HoldsMessage(o, j), j # NoSubtype, NEW t \in Word2, t = 10001,
           Len(Join(Subsections(q), o)) \in Word2,
           At(r, d, "big", v, NoSubtype, Join(BE(t, 2), Join(BESized(Join(Subsections(q), o)), y)))
    PROVE  \E w : At(InAdvMsgData(Read(r, <<U16>>)), d, "little", w, WithSeq(j, q), y)
<1> DEFINE x == Join(Subsections(q), o)
           n == Len(x)
           h == Read(r, <<U16>>)
<1>1. x \in Bytes
  BY SubsectionsAre, Written
<1> HIDE DEF x
<1>2. n \in Word2 /\ Join(BESized(x), y) = Join(BE(n, 2), Join(x, y)) /\ Join(BESized(x), y) \in Bytes
  <2>1. Len(x) \in Word2
    BY DEF x
  <2>2. BESized(x) \in Bytes
    BY <1>1, <2>1, Sized
  <2>3. QED
    BY <1>1, <2>1, <2>2, Sized, Written
<1> HIDE DEF n
<1>3. At(r, d, "big", v, NoSubtype, Join(BE(t, 2), Join(BESized(x), y)))
  BY DEF x
<1>4. At(h, d, "big", <<t>>, NoSubtype, Join(BESized(x), y))
  BY <1>2, <1>3, ReadsBig
<1> HIDE DEF h
<1>5. h.v = <<t>>
  BY <1>4, Seen
<1>6. InAdvMsgData(h) = AdvMsgBodyTLV(h)
  <2>1. h.v[1] = 10001
    BY <1>5
  <2>2. QED
    BY <2>1 DEF InAdvMsgData
<1>7. At(h, d, "big", <<t>>, NoSubtype, Join(BE(n, 2), Join(Join(Subsections(q), o), y)))
  BY <1>2, <1>4 DEF x
<1>8. \E w : At(AdvMsgBodyTLV(h), d, "little", w, WithSeq(j, q), y)
  <2>1. PICK u : At(h, d, "big", u, NoSubtype, Join(BE(n, 2), Join(Join(Subsections(q), o), y)))
    BY <1>7
  <2>2. QED
    BY <1>2, <2>1, AdvBodyRead
<1>9. QED
  BY <1>6, <1>8 DEF h

\* The data of an advanced message, to the end of the SNAC.
Data(x, y) ==
    Join(BE(10, 2), Join(BESized(BE(1, 2)), Join(BE(15, 2), Join(BESized(<<>>), Join(BE(10001, 2),
        Join(BESized(x), y))))))

LEMMA DataRead ==
    ASSUME NEW r, NEW d, NEW v, NEW q \in Word2, NEW o \in Bytes,
           NEW j, HoldsMessage(o, j), j # NoSubtype, Len(Join(Subsections(q), o)) \in Word2,
           At(r, d, "big", v, NoSubtype, Data(Join(Subsections(q), o), Join(LE(768, 2), LE(0, 2))))
    PROVE  \E w : At(ListInAdvMsgData(r, MaxTLVs), d, "little", w, WithSeq(j, q), <<>>)
<1> DEFINE msg == Join(Subsections(q), o)
           Next4(s) == InAdvMsgData(Read(s, <<U16>>))
<1>1. PICK e, f, t, z, one, six : /\ e = 10 /\ f = 15 /\ t = 10001 /\ z = 768 /\ one = 1
                                  /\ e \in Word2 /\ f \in Word2 /\ t \in Word2 /\ z \in Word2 /\ one \in Word2
  BY SMT DEF Word2
<1>2. e # 10001 /\ f # 10001 /\ z # 10001
  BY <1>1
<1> DEFINE two == BE(one, 2)
           x4 == Join(LE(z, 2), Join(LE(0, 2), <<>>))
           x3 == Join(BE(t, 2), Join(BESized(msg), x4))
           x2 == Join(BE(f, 2), Join(BESized(<<>>), x3))
           x1 == Join(BE(e, 2), Join(BESized(two), x2))
<1>3. two \in Bytes /\ Len(two) \in Word2 /\ <<>> \in Bytes /\ Len(<<>>) \in Word2
  <2>1. Len(two) = 2 /\ two \in Bytes
    BY <1>1, Integers2
  <2>2. 2 \in Word2 /\ 0 \in Word2
    BY SMT DEF Word2
  <2>3. QED
    BY <2>1, <2>2, NoBytes
<1>4. LE(z, 2) \in Bytes /\ LE(0, 2) \in Bytes /\ BE(t, 2) \in Bytes /\ BE(f, 2) \in Bytes /\ BE(e, 2) \in Bytes
  BY <1>1, Written, Fixed
<1>5. msg \in Bytes
  BY SubsectionsAre, Written
<1> HIDE DEF msg, two
<1>6. BESized(msg) \in Bytes /\ BESized(two) \in Bytes /\ BESized(<<>>) \in Bytes
  <2>1. Len(msg) \in Word2
    BY DEF msg
  <2>2. QED
    BY <1>3, <1>5, <2>1, Sized
<1>7. x4 \in Bytes /\ x3 \in Bytes /\ x2 \in Bytes /\ x1 \in Bytes
  BY <1>3, <1>4, <1>6, Written
<1>8. At(r, d, "big", v, NoSubtype, x1)
  <2>1. Join(LE(0, 2), <<>>) = LE(0, 2)
    BY <1>4, JoinIs
  <2>2. Data(msg, Join(LE(768, 2), LE(0, 2))) = x1
    BY <1>1, <2>1 DEF Data, two
  <2>3. At(r, d, "big", v, NoSubtype, Data(msg, Join(LE(768, 2), LE(0, 2))))
    BY DEF msg
  <2>4. QED
    BY <2>2, <2>3
<1> DEFINE a1 == Next4(r)
           a2 == Next4(a1)
           a3 == Next4(a2)
           a4 == Next4(a3)
<1>9. PICK w1 : At(a1, d, "big", w1, NoSubtype, x2)
  <2>1. At(r, d, "big", v, NoSubtype, Join(BE(e, 2), Join(BESized(two), x2)))
    BY <1>8
  <2> HIDE DEF x2
  <2>2. QED
    BY <1>1, <1>2, <1>3, <1>7, <2>1, AdvSkips
<1> HIDE DEF a1
<1>10. PICK w2 : At(a2, d, "big", w2, NoSubtype, x3)
  <2>1. At(a1, d, "big", w1, NoSubtype, Join(BE(f, 2), Join(BESized(<<>>), x3)))
    BY <1>9
  <2> HIDE DEF x3
  <2>2. QED
    BY <1>1, <1>2, <1>3, <1>7, <2>1, AdvSkips
<1> HIDE DEF a2
<1>11. PICK w3 : At(a3, d, "little", w3, WithSeq(j, q), x4)
  <2>1. At(a2, d, "big", w2, NoSubtype, Join(BE(t, 2), Join(BESized(Join(Subsections(q), o)), x4)))
    BY <1>10 DEF msg
  <2> HIDE DEF x4
  <2>2. QED
    BY <1>1, <1>7, <2>1, AdvTakes
<1> HIDE DEF a3
<1>12. PICK w4 : At(a4, d, "little", w4, WithSeq(j, q), <<>>)
  <2>1. At(a3, d, "little", w3, WithSeq(j, q), Join(LE(z, 2), Join(LE(0, 2), <<>>)))
    BY <1>11
  <2>2. QED
    BY <1>1, <1>2, <1>3, <2>1, AdvSkipsLittle
<1> HIDE DEF a4
<1>13. x1 # <<>> /\ x2 # <<>> /\ x3 # <<>> /\ x4 # <<>> /\ 4 <= Len(x1)
  <2>1. ASSUME NEW a \in Bytes, Len(a) = 2, NEW y \in Bytes
        PROVE  Join(a, y) # <<>> /\ Len(Join(a, y)) >= 2 + Len(y) /\ Len(y) \in Nat
    <3>1. Join(a, y) \in Bytes /\ Len(Join(a, y)) = Len(a) + Len(y) /\ Len(y) \in Nat
      BY JoinTwo, BytesType
    <3>2. Len(Join(a, y)) = 2 + Len(y)
      BY <2>1, <3>1
    <3>3. Len(Join(a, y)) >= 2 + Len(y) /\ Len(Join(a, y)) # 0
      BY <3>1, <3>2
    <3>4. QED
      BY <3>1, <3>3, NoBytes
  <2>2. Len(LE(z, 2)) = 2 /\ Len(BE(t, 2)) = 2 /\ Len(BE(f, 2)) = 2 /\ Len(BE(e, 2)) = 2
    BY <1>1, Integers2
  <2>3. x1 # <<>> /\ x2 # <<>> /\ x3 # <<>> /\ x4 # <<>>
    BY <1>3, <1>4, <1>6, <1>7, <2>1, <2>2, Written
  <2>4. Len(BESized(two)) >= 2 /\ Len(x2) \in Nat
    <3>1. Len(BESized(two)) = Len(two) + 2 /\ Len(two) \in Nat
      BY <1>3, Sized, BytesType
    <3>2. QED
      BY <1>7, <3>1, BytesType
  <2> HIDE DEF x2
  <2>5. Len(Join(BESized(two), x2)) = Len(BESized(two)) + Len(x2) /\ Join(BESized(two), x2) \in Bytes
    BY <1>6, <1>7, JoinTwo
  <2>6. Len(x1) >= 2 + Len(Join(BESized(two), x2))
    BY <1>4, <2>1, <2>2, <2>5
  <2>7. Len(BESized(two)) \in Nat /\ Len(x1) \in Nat
    BY <1>6, <1>7, BytesType
  <2> HIDE DEF x1
  <2>8. QED
    BY <2>3, <2>4, <2>5, <2>6, <2>7
<1> HIDE DEF x1, x2, x3, x4
<1> DEFINE rs == [n \in 0 .. 4 |-> IF n = 0 THEN r ELSE IF n = 1 THEN a1 ELSE IF n = 2 THEN a2 ELSE IF n = 3 THEN a3 ELSE a4]
<1>14. PICK k \in Nat : k = 4
  OBVIOUS
<1>15. /\ rs[0] = r /\ rs[k] = a4
       /\ \A n \in 1 .. k : (n = 1 /\ rs[n - 1] = r /\ rs[n] = a1) \/ (n = 2 /\ rs[n - 1] = a1 /\ rs[n] = a2)
                             \/ (n = 3 /\ rs[n - 1] = a2 /\ rs[n] = a3) \/ (n = 4 /\ rs[n - 1] = a3 /\ rs[n] = a4)
  BY <1>14
<1> HIDE DEF rs
<1>16. More(r, d) /\ More(a1, d) /\ More(a2, d) /\ More(a3, d) /\ Done(a4, d)
  BY <1>8, <1>9, <1>10, <1>11, <1>12, <1>13, MoreOrDone
<1>17. r.data = d /\ Len(d) \in Nat /\ k <= Len(d)
  BY <1>8, <1>13, <1>14, <1>16, MoreOrDone DEF More
<1>18. Ends(r, MaxTLVs, rs, k)
  <2>1. \A n \in 1 .. k : More(rs[n - 1], d)
    BY <1>15, <1>16
  <2>2. Done(rs[k], d)
    BY <1>15, <1>16
  <2>3. MaxTLVs \in Nat /\ k <= MaxTLVs
    BY <1>14, ManyTLVs
  <2>4. QED
    BY <1>14, <1>15, <1>17, <2>1, <2>2, <2>3, EndsOf
<1>19. \A n \in 1 .. k : rs[n] = InAdvMsgData(Read(rs[n - 1], <<U16>>))
  BY <1>15, Zenon DEF a1, a2, a3, a4
<1>20. ListInAdvMsgData(r, MaxTLVs) = a4
  BY <1>15, <1>18, <1>19, ListOfInAdvMsgData
<1>21. QED
  BY <1>12, <1>20

\* The block of an advanced message, to the end of the SNAC.
AdvRest(n, c, x) ==
    Join(BE(5, 2), Join(BE(n, 2), Join(BE(0, 2), Join(c, Join(Capability, Data(x, Join(LE(768, 2), LE(0, 2))))))))

LEMMA CapabilityIs == Capability \in Bytes /\ Len(Capability) = 16
<1>1. 9 \in Byte
  BY SMT DEF Byte
<1>2. Capability \in Seq(Byte) /\ Len(Capability) = 16
  BY <1>1, SMT DEF Capability
<1>3. QED
  BY <1>2 DEF Bytes

LEMMA DataType ==
    ASSUME NEW x \in Bytes, Len(x) \in Word2, NEW y \in Bytes
    PROVE  Data(x, y) \in Bytes
<1>1. 10 \in Word2 /\ 1 \in Word2 /\ 15 \in Word2 /\ 10001 \in Word2
  BY SMT DEF Word2
<1>2. BE(10, 2) \in Bytes /\ BE(1, 2) \in Bytes /\ Len(BE(1, 2)) = 2 /\ BE(15, 2) \in Bytes /\ BE(10001, 2) \in Bytes
  BY <1>1, Integers2
<1>3. BESized(BE(1, 2)) \in Bytes /\ BESized(<<>>) \in Bytes /\ BESized(x) \in Bytes
  <2>1. 2 \in Word2 /\ 0 \in Word2
    BY SMT DEF Word2
  <2> DEFINE two == BE(1, 2)
  <2>2. two \in Bytes
    BY <1>2
  <2>5. Len(two) \in Word2
    <3>1. Len(two) = 2
      BY <1>2
    <3>2. QED
      BY <2>1, <3>1, Zenon
  <2>3. <<>> \in Bytes /\ Len(<<>>) \in Word2
    BY <2>1, NoBytes
  <2> HIDE DEF two
  <2>4. BESized(two) \in Bytes /\ BESized(<<>>) \in Bytes /\ BESized(x) \in Bytes
    BY <2>2, <2>3, <2>5, Sized
  <2>6. QED
    BY <2>4 DEF two
<1> DEFINE a == BE(10, 2)
           b == BESized(BE(1, 2))
           c == BE(15, 2)
           e == BESized(<<>>)
           f == BE(10001, 2)
           g == BESized(x)
<1>4. a \in Bytes /\ b \in Bytes /\ c \in Bytes /\ e \in Bytes /\ f \in Bytes /\ g \in Bytes
  BY <1>2, <1>3
<1>5. Data(x, y) = Join(a, Join(b, Join(c, Join(e, Join(f, Join(g, y))))))
  BY DEF Data
<1> HIDE DEF a, b, c, e, f, g
<1>6. QED
  BY <1>4, <1>5, Written

LEMMA AdvBlockRead ==
    ASSUME NEW r, NEW d, NEW v, NEW n \in Word2, NEW c \in Bytes, Len(c) = 8, NEW q \in Word2, NEW o \in Bytes,
           NEW j, HoldsMessage(o, j), j # NoSubtype, Len(Join(Subsections(q), o)) \in Word2,
           At(r, d, "big", v, NoSubtype, AdvRest(n, c, Join(Subsections(q), o)))
    PROVE  ListAdvMsgBlock(r, MaxTLVs).ist = WithSeq(j, q)
<1> DEFINE x == Join(Subsections(q), o)
           y == Data(x, Join(LE(768, 2), LE(0, 2)))
           h == Read(r, <<U16>>)
           b == Read(h, <<U16, U16, Skip(8), Skip(16)>>)
           a == AdvMsgBlock(h)
           y4 == Join(Capability, y)
           y3 == Join(c, y4)
           y2 == Join(BE(0, 2), y3)
           y1 == Join(BE(n, 2), y2)
<1>1. PICK five, z : five = 5 /\ five \in Word2 /\ z = 0 /\ z \in Word2
  BY SMT DEF Word2
<1>2. x \in Bytes /\ Len(x) \in Word2
  BY SubsectionsAre, Written
<1>3. y \in Bytes
  <2> HIDE DEF x
  <2>1. Join(LE(768, 2), LE(0, 2)) \in Bytes
    BY Twisted, Fixed, Written
  <2>2. QED
    BY <1>2, <2>1, DataType
<1> HIDE DEF x, y
<1>4. y4 \in Bytes /\ y3 \in Bytes /\ y2 \in Bytes /\ y1 \in Bytes /\ BE(n, 2) \in Bytes /\ BE(z, 2) \in Bytes
      /\ BE(five, 2) \in Bytes
  BY <1>1, <1>3, CapabilityIs, Written
<1>5. At(r, d, "big", v, NoSubtype, Join(BE(five, 2), y1))
  BY <1>1 DEF AdvRest, x, y
<1>6. At(h, d, "big", <<five>>, NoSubtype, y1)
  <2> HIDE DEF y1
  <2>1. QED
    BY <1>1, <1>4, <1>5, ReadsBig
<1> HIDE DEF h
<1>7. h.v[1] = 5
  <2>1. h.v = <<five>>
    BY <1>6, Seen
  <2>2. QED
    BY <1>1, <2>1
<1>8. a = ListInAdvMsgData(b, MaxTLVs)
  BY <1>7, Zenon DEF AdvMsgBlock, AdvMsgDataTLV, ListInAdvMsgData
<1>9. At(b, d, "big", <<n, z>>, NoSubtype, y)
  <2>1. PICK e, g : e = 8 /\ g = 16 /\ Len(c) = e /\ Len(Capability) = g
    BY CapabilityIs
  <2>2. At(h, d, "big", <<five>>, NoSubtype, Join(BE(n, 2), Join(BE(z, 2), Join(c, Join(Capability, y)))))
    BY <1>1, <1>6
  <2>3. At(Read(h, <<U16, U16, Skip(e), Skip(g)>>), d, "big", <<n, z>>, NoSubtype, y)
    BY <1>1, <1>3, <2>1, <2>2, CapabilityIs, ReadsAdvData
  <2>4. QED
    BY <2>1, <2>3
<1> HIDE DEF b, a
<1>10. PICK w : At(a, d, "little", w, WithSeq(j, q), <<>>)
  <2>1. PICK u : At(b, d, "big", u, NoSubtype, Data(Join(Subsections(q), o), Join(LE(768, 2), LE(0, 2))))
    BY <1>9 DEF x, y
  <2>2. QED
    BY <1>8, <2>1, DataRead
<1> DEFINE rs == [m \in 0 .. 1 |-> IF m = 0 THEN r ELSE a]
<1>11. PICK k \in Nat : k = 1
  OBVIOUS
<1>12. rs[0] = r /\ rs[k] = a /\ \A m \in 1 .. k : m = 1 /\ rs[m - 1] = r /\ rs[m] = a
  BY <1>11
<1> HIDE DEF rs
<1> DEFINE all == Join(BE(five, 2), y1)
<1>13. all # <<>> /\ 1 <= Len(all)
  <2>1. all \in Bytes /\ Len(all) = Len(BE(five, 2)) + Len(y1) /\ Len(y1) \in Nat
    BY <1>4, JoinTwo, BytesType
  <2>2. Len(BE(five, 2)) = 2
    BY <1>1, Integers2
  <2> HIDE DEF all, y1
  <2>3. Len(all) = 2 + Len(y1)
    BY <2>1, <2>2
  <2>4. Len(all) >= 1 /\ Len(all) # 0
    BY <2>1, <2>3
  <2>5. QED
    BY <2>4, NoBytes
<1>14. At(r, d, "big", v, NoSubtype, all)
  BY <1>5
<1> HIDE DEF all
<1>15. More(r, d) /\ Done(a, d) /\ Len(all) <= Len(d) /\ Len(d) \in Nat /\ Len(all) \in Nat
  BY <1>10, <1>13, <1>14, MoreOrDone
<1>16. Ends(r, MaxTLVs, rs, k)
  <2>1. \A m \in 1 .. k : More(rs[m - 1], d)
    BY <1>12, <1>15
  <2>2. Done(rs[k], d)
    BY <1>12, <1>15
  <2>3. MaxTLVs \in Nat /\ k <= MaxTLVs /\ k <= Len(d) /\ r.data = d
    BY <1>11, <1>13, <1>15, ManyTLVs DEF More
  <2>4. QED
    BY <1>11, <1>12, <1>15, <2>1, <2>2, <2>3, EndsOf
<1>17. \A m \in 1 .. k : rs[m] = AdvMsgBlock(Read(rs[m - 1], <<U16>>))
  BY <1>12, Zenon DEF a, h
<1>18. ListAdvMsgBlock(r, MaxTLVs) = a
  BY <1>12, <1>16, <1>17, ListOfAdvMsgBlock
<1>19. QED
  BY <1>10, <1>18, Seen

\* Strings of bytes, all of them.
AllBytes(s) == \A i \in 1 .. Len(s) : s[i] \in Bytes

LEMMA DataIs ==
    ASSUME NEW x \in Bytes, Len(x) \in Word2, NEW y \in Bytes
    PROVE  /\ Data(x, y) = Join(BE(10, 2), Join(BE(2, 2), Join(BE(1, 2), Join(BE(15, 2), Join(BE(0, 2),
                               Join(BE(10001, 2), Join(BESized(x), y)))))))
           /\ Len(Data(x, y)) = (Len(x) + Len(y)) + 14
<1> DEFINE a == BE(10, 2)
           b == BE(2, 2)
           c == BE(1, 2)
           e == BE(15, 2)
           f == BE(0, 2)
           g == BE(10001, 2)
           h == BESized(x)
           t == Join(g, Join(h, y))
           s == Join(e, Join(f, t))
<1>1. 10 \in Word2 /\ 2 \in Word2 /\ 1 \in Word2 /\ 15 \in Word2 /\ 0 \in Word2 /\ 10001 \in Word2
  BY SMT DEF Word2
<1>2. a \in Bytes /\ b \in Bytes /\ c \in Bytes /\ e \in Bytes /\ f \in Bytes /\ g \in Bytes
  BY <1>1, Written
<1>3. Len(a) = 2 /\ Len(b) = 2 /\ Len(c) = 2 /\ Len(e) = 2 /\ Len(f) = 2 /\ Len(g) = 2
  BY <1>1, Integers2
<1>4. h \in Bytes /\ Len(h) = Len(x) + 2
  BY Sized
<1>5. c \in Bytes /\ Len(c) \in Word2
  <2>1. Len(c) = 2
    BY <1>3
  <2>2. c \in Bytes
    BY <1>2
  <2>3. Len(c) \in Word2
    <3>1. PICK k : k = 2 /\ k \in Word2
      BY <1>1
    <3>2. QED
      BY <2>1, <3>1
  <2>4. QED
    BY <2>2, <2>3, Zenon
<1>6. <<>> \in Bytes /\ Len(<<>>) \in Word2
  BY <1>1, NoBytes
<1>7. BESized(c) = Join(b, c)
  <2>1. BESized(c) = Join(BE(Len(c), 2), c)
    BY <1>5, Sized
  <2>2. Len(c) = 2
    BY <1>3
  <2>3. QED
    BY <2>1, <2>2, Zenon
<1>8. BESized(<<>>) = f
  <2>1. BESized(<<>>) = Join(BE(Len(<<>>), 2), <<>>)
    BY <1>6, Sized
  <2>2. Len(<<>>) = 0
    BY NoBytes
  <2>3. Join(f, <<>>) = f
    BY <1>2, JoinIs
  <2>4. QED
    BY <2>1, <2>2, <2>3, Zenon
<1>9. Data(x, y) = Join(a, Join(Join(b, c), s))
  <2>1. Data(x, y) = Join(a, Join(BESized(c), Join(e, Join(BESized(<<>>), Join(g, Join(h, y))))))
    BY DEF Data
  <2> HIDE DEF a, b, c, e, f, g, h
  <2>2. QED
    BY <1>7, <1>8, <2>1, Zenon
<1> HIDE DEF a, b, c, e, f, g, h
<1>10. t \in Bytes /\ s \in Bytes
  BY <1>2, <1>4, Written
<1> HIDE DEF s
<1>11. Join(Join(b, c), s) = Join(b, Join(c, s))
  BY <1>2, <1>10, JoinAssoc
<1>12. Len(Join(h, y)) = Len(h) + Len(y) /\ Join(h, y) \in Bytes
  BY <1>4, JoinTwo
<1>12a. h \in Bytes /\ Join(h, y) \in Bytes
  BY <1>4, <1>12
<1>12b. e \in Bytes /\ f \in Bytes /\ g \in Bytes /\ Join(h, y) \in Bytes
  BY <1>2, <1>12a, Zenon
<1>12c. a \in Bytes /\ b \in Bytes /\ c \in Bytes /\ s \in Bytes
  BY <1>2, <1>10, Zenon
<1>13. Len(s) = Len(e) + (Len(f) + (Len(g) + Len(Join(h, y))))
  BY <1>12b, Lens4, SMTT(30) DEF s
<1>14. Len(Join(a, Join(b, Join(c, s)))) = Len(a) + (Len(b) + (Len(c) + Len(s)))
  BY <1>12c, Lens4, SMTT(30)
<1>15. Len(x) \in Nat /\ Len(y) \in Nat
  BY BytesType
<1>16. Len(Join(a, Join(b, Join(c, s)))) = (Len(x) + Len(y)) + 14
  BY <1>3, <1>4, <1>12, <1>13, <1>14, <1>15
<1>17. QED
  BY <1>9, <1>11, <1>16 DEF a, b, c, e, f, g, h, s

LEMMA FiveLong ==
    ASSUME NEW a, NEW b, NEW c, NEW e, NEW f, AllBytes(<<a, b, c, e, f>>)
    PROVE  /\ Join(a, Join(b, Join(c, Join(e, f)))) \in Bytes
           /\ Len(Join(a, Join(b, Join(c, Join(e, f))))) = Len(a) + (Len(b) + (Len(c) + (Len(e) + Len(f))))
<1>1. a \in Bytes /\ b \in Bytes /\ c \in Bytes /\ e \in Bytes /\ f \in Bytes
  BY DEF AllBytes
<1>2. QED
  BY <1>1, Lens5

LEMMA FourLong ==
    ASSUME NEW a, NEW b, NEW c, NEW e, AllBytes(<<a, b, c, e>>)
    PROVE  /\ Join(a, Join(b, Join(c, e))) \in Bytes
           /\ Len(Join(a, Join(b, Join(c, e)))) = Len(a) + (Len(b) + (Len(c) + Len(e)))
<1>1. a \in Bytes /\ b \in Bytes /\ c \in Bytes /\ e \in Bytes
  BY DEF AllBytes
<1>2. QED
  BY <1>1, Lens4

\* The cookie of a message.
IsCookie(c) == c \in Bytes /\ Len(c) = 8

LEMMA AdvRestIs ==
    ASSUME NEW n \in Word2, NEW c, IsCookie(c), NEW x \in Bytes, Len(x) \in Word2
    PROVE  AdvRest(n, c, x) \in Bytes /\ Len(AdvRest(n, c, x)) = Len(x) + 48
<1> DEFINE a == BE(5, 2)
           b == BE(n, 2)
           e == BE(0, 2)
           y == Join(LE(768, 2), LE(0, 2))
           z == Data(x, y)
           t == Join(Capability, z)
<1>c. c \in Bytes
  BY DEF IsCookie
<1>1. 5 \in Word2 /\ 0 \in Word2
  BY SMT DEF Word2
<1>2. a \in Bytes /\ b \in Bytes /\ e \in Bytes
  BY <1>1, Written
<1>2a. Len(a) = 2 /\ Len(b) = 2 /\ Len(e) = 2
  BY <1>1, Integers2
<1>3. y \in Bytes /\ Len(y) = 4
  <2>1. LE(768, 2) \in Bytes /\ Len(LE(768, 2)) = 2 /\ LE(0, 2) \in Bytes /\ Len(LE(0, 2)) = 2
    BY Twisted, Fixed, Integers2
  <2> DEFINE g == LE(768, 2)
             h == LE(0, 2)
  <2>2. g \in Bytes /\ h \in Bytes
    BY <2>1
  <2>3. Len(g) = 2 /\ Len(h) = 2
    BY <2>1
  <2> HIDE DEF g, h
  <2>4. Join(g, h) \in Bytes /\ Len(Join(g, h)) = Len(g) + Len(h)
    BY <2>2, JoinTwo
  <2>5. Len(Join(g, h)) = 4
    BY <2>3, <2>4
  <2>6. QED
    BY <2>4, <2>5 DEF g, h
<1>4. AdvRest(n, c, x) = Join(a, Join(b, Join(e, Join(c, t))))
  BY Zenon DEF AdvRest
<1> HIDE DEF a, b, e, y
<1>3a. y \in Bytes
  BY <1>3
<1>5. z \in Bytes /\ Len(z) = (Len(x) + Len(y)) + 14
  BY <1>3a, DataType, DataIs
<1> HIDE DEF z
<1>6. t \in Bytes /\ Len(t) = 16 + Len(z)
  BY <1>5, CapabilityIs, JoinTwo
<1> HIDE DEF t
<1>7. /\ Join(a, Join(b, Join(e, Join(c, t)))) \in Bytes
      /\ Len(Join(a, Join(b, Join(e, Join(c, t))))) = Len(a) + (Len(b) + (Len(e) + (Len(c) + Len(t))))
  <2>1. t \in Bytes
    BY <1>6
  <2>2. a \in Bytes /\ b \in Bytes /\ e \in Bytes /\ c \in Bytes /\ t \in Bytes
    BY <1>c, <1>2, <2>1
  <2>3. AllBytes(<<a, b, e, c, t>>)
    BY <2>2 DEF AllBytes
  <2>4. QED
    BY <2>3, FiveLong
<1>8. Len(x) \in Nat
  BY BytesType
<1>9. Len(Join(a, Join(b, Join(e, Join(c, t))))) = Len(x) + 48
  BY <1>2a, <1>3, <1>5, <1>6, <1>7, <1>8 DEF IsCookie
<1>10. QED
  BY <1>4, <1>7, <1>9

\* What MsgSend and the server write.
MsgBody(c, ch, u, rest) == Join(c, Join(BE(ch, 2), Join(ByteString(u), rest)))
RelayBody(c, ch, uin, rest) == Join(c, Join(BE(ch, 2), Join(UserInfo(uin), rest)))

\* The pieces of the data of an advanced message, with z behind them.
AdvFlat(p, c, k, a, b, e, f, g, h, z) ==
    LET joined == Join(Join(Join(Join(Join(Join(Join(Join(Join(p, c), k), a), b), e), f), p), g), h)
    IN  /\ joined \in Bytes
        /\ Join(joined, z) =
               Join(p, Join(c, Join(k, Join(a, Join(b, Join(e, Join(f, Join(p, Join(g, Join(h, z))))))))))

LEMMA AdvJoined ==
    ASSUME NEW p \in Bytes, NEW c \in Bytes, NEW k \in Bytes, NEW a \in Bytes, NEW b \in Bytes,
           NEW e \in Bytes, NEW f \in Bytes, NEW g \in Bytes, NEW h \in Bytes, NEW z \in Bytes
    PROVE  AdvFlat(p, c, k, a, b, e, f, g, h, z)
<1> DEFINE l1 == Join(Join(Join(p, c), k), a)
           l2 == Join(Join(Join(l1, b), e), f)
           z2 == Join(p, Join(g, Join(h, z)))
           z1 == Join(b, Join(e, Join(f, z2)))
<1>1. z1 \in Bytes /\ z2 \in Bytes
  BY Written
<1> HIDE DEF z1, z2
<1>2. l1 \in Bytes /\ Join(l1, z1) = Join(p, Join(c, Join(k, Join(a, z1))))
  BY <1>1, Flat4
<1> HIDE DEF l1
<1>3. l2 \in Bytes /\ Join(l2, z2) = Join(l1, Join(b, Join(e, Join(f, z2))))
  BY <1>1, <1>2, Flat4
<1> HIDE DEF l2
<1>4. /\ Join(Join(Join(l2, p), g), h) \in Bytes
      /\ Join(Join(Join(Join(l2, p), g), h), z) = Join(l2, Join(p, Join(g, Join(h, z))))
  BY <1>3, Flat4
<1>5. QED
  BY <1>2, <1>3, <1>4 DEF l1, l2, z1, z2, AdvFlat

LEMMA AdvDataIs ==
    ASSUME NEW c, IsCookie(c), NEW x, Within(x, 100)
    PROVE  /\ BESized(AdvData(c, x)) \in Bytes
           /\ \E n \in Word2 : Join(BE(5, 2), Join(BESized(AdvData(c, x)), Join(BE(3, 2), BE(0, 2)))) =
                                  AdvRest(n, c, x)
<1>1. /\ 10 \in Word2 /\ 2 \in Word2 /\ 1 \in Word2 /\ 15 \in Word2 /\ 0 \in Word2 /\ 10001 \in Word2
      /\ 5 \in Word2 /\ 3 \in Word2
  BY SMT DEF Word2
<1>0. c \in Bytes /\ x \in Bytes
  BY DEF IsCookie, Within
<1>2. Len(x) \in Word2 /\ Len(x) + 85 \in Word2 /\ Len(x) \in Nat
  <2>1. Len(x) \in Nat
    BY <1>0, BytesType
  <2>2. QED
    BY <2>1, SMT DEF Word2, Limit, Within
<1> DEFINE p == BE(0, 2)
           a == BE(10, 2)
           b == BE(2, 2)
           e == BE(1, 2)
           f == BE(15, 2)
           g == BE(10001, 2)
           h == BESized(x)
           k == Capability
           y == Join(BE(3, 2), p)
           s == Join(a, Join(b, Join(e, Join(f, Join(p, Join(g, Join(h, <<>>)))))))
           adv == AdvData(c, x)
           joined == Join(Join(Join(Join(Join(Join(Join(Join(Join(p, c), k), a), b), e), f), p), g), h)
<1>3. p \in Bytes /\ a \in Bytes /\ b \in Bytes /\ e \in Bytes /\ f \in Bytes /\ g \in Bytes
  BY <1>1, Written
<1>4. h \in Bytes
  BY <1>0, <1>2, Sized
<1>5. k \in Bytes /\ Len(k) = 16
  BY CapabilityIs
<1>6. adv = joined
  BY DEF Join, AdvData
<1>7. y \in Bytes /\ y = Join(LE(768, 2), LE(0, 2))
  <2>1. BE(3, 2) \in Bytes
    BY <1>1, Written
  <2>2. QED
    BY <1>3, <2>1, Written, Twisted
<1>8. \A z \in Bytes : Data(x, z) = Join(a, Join(b, Join(e, Join(f, Join(p, Join(g, Join(h, z)))))))
  BY <1>0, <1>2, DataIs
<1>9. Len(Data(x, <<>>)) = (Len(x) + 0) + 14 /\ Data(x, <<>>) \in Bytes
  BY <1>0, <1>2, NoBytes, DataIs, DataType
<1>10. p \in Bytes /\ Len(p) = 2
  BY <1>1, Integers2
<1> HIDE DEF p, a, b, e, f, g, h, k, y, adv
<1>10a. k \in Bytes /\ p \in Bytes /\ Data(x, <<>>) \in Bytes
  BY <1>5, <1>9, <1>10
<1>10b. /\ p \in Bytes /\ c \in Bytes /\ k \in Bytes /\ a \in Bytes /\ b \in Bytes /\ e \in Bytes
        /\ f \in Bytes /\ g \in Bytes /\ h \in Bytes
  BY <1>0, <1>3, <1>4, <1>5
<1>11. joined \in Bytes /\ \A z \in Bytes : Join(joined, z) =
           Join(p, Join(c, Join(k, Join(a, Join(b, Join(e, Join(f, Join(p, Join(g, Join(h, z))))))))))
  <2>1. \A z \in Bytes : AdvFlat(p, c, k, a, b, e, f, g, h, z)
    BY <1>10b, AdvJoined
  <2>2. QED
    BY <2>1, NoBytes DEF AdvFlat
<1>12. \A z \in Bytes : Join(joined, z) = Join(p, Join(c, Join(k, Data(x, z))))
  BY <1>8, <1>11
<1> HIDE DEF joined
<1>13. Len(joined) = Len(x) + 40
  <2>1. joined = Join(p, Join(c, Join(k, Data(x, <<>>))))
    BY <1>11, <1>12, NoBytes, JoinIs
  <2>2. Len(joined) = Len(p) + (Len(c) + (Len(k) + Len(Data(x, <<>>))))
    <3> DEFINE z == Data(x, <<>>)
    <3>1. p \in Bytes /\ c \in Bytes /\ k \in Bytes /\ z \in Bytes
      BY <1>0, <1>10a
    <3> HIDE DEF z
    <3>2. Len(Join(p, Join(c, Join(k, z)))) = Len(p) + (Len(c) + (Len(k) + Len(z)))
      <4>1. AllBytes(<<p, c, k, z>>)
        BY <3>1 DEF AllBytes
      <4>2. QED
        BY <4>1, FourLong
    <3>3. QED
      BY <2>1, <3>2 DEF z
  <2>3. QED
    BY <1>2, <1>5, <1>9, <1>10, <2>2 DEF IsCookie
<1>14. Len(joined) \in Word2
  BY <1>2, <1>13, SMT DEF Word2
<1> DEFINE n == Len(joined)
<1>15. Join(BESized(joined), y) = Join(BE(n, 2), Join(joined, y))
  BY <1>7, <1>11, <1>14, Sized
<1>16. Join(joined, y) = Join(p, Join(c, Join(k, Data(x, y))))
  BY <1>7, <1>12
<1> HIDE DEF n
<1>17. Join(BE(5, 2), Join(BESized(adv), y)) = AdvRest(n, c, x)
  <2>1. Join(BE(5, 2), Join(BESized(adv), y)) =
            Join(BE(5, 2), Join(BE(n, 2), Join(p, Join(c, Join(k, Data(x, y))))))
    BY <1>6, <1>15, <1>16, Zenon
  <2>2. QED
    BY <1>7, <2>1, ZenonT(60) DEF AdvRest, p, k
<1>18. BESized(adv) \in Bytes
  BY <1>6, <1>11, <1>14, Sized
<1>19. QED
  BY <1>14, <1>17, <1>18 DEF n, adv, y, p

\* Numbers of clients.
IsUIN(u) == u \in Nat /\ u < 100

LEMMA CookieIs ==
    ASSUME NEW n \in Word4
    PROVE  IsCookie(Cookie(n)) /\ Cookie(n) = Join(BE(n, 4), Zeros(4)) /\ BE(n, 4) \in Bytes
<1> DEFINE a == BE(n, 4)
           b == Zeros(4)
<1>1. a \in Bytes /\ b \in Bytes
  BY Integers4, Zeroes
<1>2. Len(a) = 4 /\ Len(b) = 4
  BY Integers4, Zeroes
<1>3. Cookie(n) = Join(a, b)
  BY Zenon DEF Cookie, Join
<1> HIDE DEF a, b
<1>4. Join(a, b) \in Bytes /\ Len(Join(a, b)) = Len(a) + Len(b)
  BY <1>1, JoinTwo
<1>5. Len(Join(a, b)) = 8
  BY <1>2, <1>4
<1>6. QED
  BY <1>1, <1>3, <1>4, <1>5 DEF IsCookie, a, b

LEMMA NameIs ==
    ASSUME NEW u, IsUIN(u)
    PROVE  /\ UINtoString(u) \in Bytes /\ Len(UINtoString(u)) < 256
           /\ ByteString(UINtoString(u)) \in Bytes /\ Len(ByteString(UINtoString(u))) \in {2, 3}
<1> DEFINE s == UINtoString(u)
<1>1. s \in Bytes /\ Len(s) \in {1, 2}
  BY UINs DEF IsUIN
<1> HIDE DEF s
<1>2. Len(s) < 256 /\ Len(s) \in Byte
  <2>1. PICK n : n = Len(s)
    OBVIOUS
  <2>2. n = 1 \/ n = 2
    BY <1>1, <2>1
  <2>3. n < 256 /\ n \in Byte
    BY <2>2, SMT DEF Byte
  <2>4. QED
    BY <2>1, <2>3, Zenon
<1>3. <<Len(s)>> = One(Len(s)) /\ One(Len(s)) \in Bytes /\ Len(One(Len(s))) = 1
  BY <1>2, OneIs DEF One
<1>4. ByteString(s) = Join(One(Len(s)), s)
  BY <1>3, Zenon DEF ByteString, Join
<1>5. Len(Join(One(Len(s)), s)) = Len(One(Len(s))) + Len(s)
  BY <1>1, <1>3, JoinTwo
<1>6. Len(ByteString(s)) \in {2, 3}
  BY <1>1, <1>3, <1>4, <1>5
<1>7. ByteString(s) \in Bytes
  BY <1>1, <1>2, Written
<1>8. QED
  BY <1>1, <1>2, <1>6, <1>7 DEF s

LEMMA UserInfoIs ==
    ASSUME NEW u, IsUIN(u)
    PROVE  UserInfo(u) \in Bytes /\ Len(UserInfo(u)) <= 15
<1> DEFINE a == ByteString(UINtoString(u))
           b == BE(0, 2)
           c == BE(1, 2)
           e == BE(6, 2)
           four == BE(0, 4)
           f == BESized(four)
<1>1. 0 \in Word2 /\ 1 \in Word2 /\ 6 \in Word2 /\ 0 \in Word4 /\ 4 \in Word2
  BY SMT DEF Word2, Word4
<1>2. four \in Bytes /\ Len(four) = 4 /\ Len(four) \in Word2
  BY <1>1, Integers4
<1>3. b \in Bytes /\ c \in Bytes /\ e \in Bytes /\ Len(b) = 2 /\ Len(c) = 2 /\ Len(e) = 2
  BY <1>1, Integers2
<1>4. f \in Bytes /\ Len(f) = 6
  <2> HIDE DEF four
  <2>1. f \in Bytes /\ Len(f) = Len(four) + 2
    BY <1>2, Sized
  <2>2. QED
    BY <1>2, <2>1
<1>5. a \in Bytes /\ Len(a) \in {2, 3}
  BY NameIs
<1>6. UserInfo(u) = Join(Join(Join(Join(a, b), c), e), f)
  BY Zenon DEF UserInfo, Join
<1> HIDE DEF a, b, c, e, f
<1>7. a \in Bytes /\ b \in Bytes /\ c \in Bytes /\ e \in Bytes /\ f \in Bytes
  BY <1>3, <1>4, <1>5
<1>8. AllBytes(<<a, b, c, e, f>>)
  BY <1>7 DEF AllBytes
<1>9. Join(Join(Join(Join(a, b), c), e), f) = Join(a, Join(b, Join(c, Join(e, f))))
  BY <1>7, Flat4
<1>10. UserInfo(u) \in Bytes /\ Len(UserInfo(u)) = Len(a) + (Len(b) + (Len(c) + (Len(e) + Len(f))))
  BY <1>6, <1>8, <1>9, FiveLong
<1>11. Len(b) = 2 /\ Len(c) = 2 /\ Len(e) = 2 /\ Len(f) = 6 /\ Len(a) \in {2, 3}
  BY <1>3, <1>4, <1>5
<1>12. Len(a) + (Len(b) + (Len(c) + (Len(e) + Len(f)))) <= 15
  <2>1. PICK p, q, r, t, w : p = Len(a) /\ q = Len(b) /\ r = Len(c) /\ t = Len(e) /\ w = Len(f)
    OBVIOUS
  <2>2. (p = 2 \/ p = 3) /\ q = 2 /\ r = 2 /\ t = 2 /\ w = 6
    BY <1>11, <2>1, Zenon
  <2>3. p + (q + (r + (t + w))) <= 15
    BY <2>2
  <2>4. QED
    BY <2>1, <2>3, Zenon
<1>13. QED
  BY <1>10, <1>12

LEMMA BodiesAre ==
    ASSUME NEW c, IsCookie(c), NEW ch \in Word2, NEW u, IsUIN(u), NEW rest \in Bytes
    PROVE  /\ MsgBody(c, ch, UINtoString(u), rest) \in Bytes
           /\ Len(MsgBody(c, ch, UINtoString(u), rest)) <= Len(rest) + 13
           /\ RelayBody(c, ch, u, rest) \in Bytes
           /\ Len(RelayBody(c, ch, u, rest)) <= Len(rest) + 25
<1> DEFINE a == BE(ch, 2)
           b == ByteString(UINtoString(u))
           e == UserInfo(u)
<1>1. a \in Bytes /\ Len(a) = 2
  BY Integers2
<1>2. b \in Bytes /\ Len(b) \in {2, 3}
  BY NameIs
<1>3. e \in Bytes /\ Len(e) <= 15 /\ Len(e) \in Nat
  BY UserInfoIs, BytesType
<1>4. c \in Bytes /\ Len(c) = 8 /\ Len(rest) \in Nat
  BY BytesType DEF IsCookie
<1>5. MsgBody(c, ch, UINtoString(u), rest) = Join(c, Join(a, Join(b, rest)))
  BY Zenon DEF MsgBody
<1>6. RelayBody(c, ch, u, rest) = Join(c, Join(a, Join(e, rest)))
  BY Zenon DEF RelayBody
<1> HIDE DEF a, b, e
<1>7. c \in Bytes /\ a \in Bytes /\ b \in Bytes /\ e \in Bytes
  BY <1>1, <1>2, <1>3, <1>4
<1>8. AllBytes(<<c, a, b, rest>>) /\ AllBytes(<<c, a, e, rest>>)
  BY <1>7 DEF AllBytes
<1>9. /\ Join(c, Join(a, Join(b, rest))) \in Bytes /\ Join(c, Join(a, Join(e, rest))) \in Bytes
      /\ Len(Join(c, Join(a, Join(b, rest)))) = Len(c) + (Len(a) + (Len(b) + Len(rest)))
      /\ Len(Join(c, Join(a, Join(e, rest)))) = Len(c) + (Len(a) + (Len(e) + Len(rest)))
  BY <1>8, FourLong
<1>10. Len(c) = 8 /\ Len(a) = 2 /\ Len(b) \in {2, 3} /\ Len(e) \in Nat /\ Len(e) <= 15 /\ Len(rest) \in Nat
  BY <1>1, <1>2, <1>3, <1>4
<1>11. /\ Len(c) + (Len(a) + (Len(b) + Len(rest))) <= Len(rest) + 13
       /\ Len(c) + (Len(a) + (Len(e) + Len(rest))) <= Len(rest) + 25
  <2>1. PICK p, q, r, t, w : p = Len(c) /\ q = Len(a) /\ r = Len(b) /\ t = Len(e) /\ w = Len(rest)
    OBVIOUS
  <2>2. p = 8 /\ q = 2 /\ (r = 2 \/ r = 3) /\ t \in Nat /\ t <= 15 /\ w \in Nat
    BY <1>10, <2>1, Zenon
  <2>3. p + (q + (r + w)) <= w + 13 /\ p + (q + (t + w)) <= w + 25
    BY <2>2
  <2>4. QED
    BY <2>1, <2>3, Zenon
<1>12. QED
  BY <1>5, <1>6, <1>9, <1>11

\* What goes to the server, and what the server reads of it.
Sends(body, c, ch, u, rest) == rest \in Bytes /\ body = MsgBody(c, ch, UINtoString(u), rest)

LEMMA AdvSent ==
    ASSUME NEW x, x.advanced = TRUE, x.seq \in Word2, Within(Output(x), 26), NEW n \in Word4, IsUIN(x.dest)
    PROVE  \E m \in Word2 : Sends(MsgSend(x, n), Cookie(n), 2, x.dest,
                                  AdvRest(m, Cookie(n), Join(Subsections(x.seq), Output(x))))
<1> DEFINE c == Cookie(n)
           o == Output(x)
           s == Subsections(x.seq)
           message == Join(s, o)
           adv == AdvData(c, message)
           name == ByteString(UINtoString(x.dest))
           a == BE(2, 2)
           b == BE(5, 2)
           e == BE(3, 2)
           f == BE(0, 2)
           y == Join(e, f)
           z == Join(BESized(adv), y)
<1>1. Within(message, 100)
  <2>1. s \in Bytes /\ Len(s) = 45 /\ o \in Bytes /\ Len(o) <= Limit + 26
    BY SubsectionsAre DEF Within
  <2> HIDE DEF s, o
  <2>2. s \in Bytes /\ o \in Bytes
    BY <2>1
  <2>3. Join(s, o) \in Bytes /\ Len(Join(s, o)) = Len(s) + Len(o) /\ Len(o) \in Nat
    BY <2>2, JoinTwo, BytesType
  <2>4. PICK p, q, t : p = Len(s) /\ q = Len(o) /\ t = Len(Join(s, o))
    OBVIOUS
  <2>5. p = 45 /\ q \in Nat /\ q <= Limit + 26 /\ t = p + q
    BY <2>1, <2>3, <2>4, Zenon
  <2>6. t <= Limit + 100
    BY <2>5 DEF Limit
  <2>7. QED
    BY <2>3, <2>4, <2>6, Zenon DEF Within
<1>2. IsCookie(c) /\ c \in Bytes
  BY CookieIs DEF IsCookie
<1> HIDE DEF message, c
<1>3. PICK m \in Word2 : Join(b, Join(BESized(adv), y)) = AdvRest(m, c, message)
  BY <1>1, <1>2, AdvDataIs
<1>4. message \in Bytes /\ Len(message) \in Word2
  <2>1. message \in Bytes
    BY <1>1 DEF Within
  <2>2. Len(message) \in Nat
    BY <2>1, BytesType
  <2>3. Len(message) <= Limit + 100
    BY <1>1 DEF Within
  <2>4. QED
    BY <2>1, <2>2, <2>3 DEF Word2, Limit
<1>5. AdvRest(m, c, message) \in Bytes
  BY <1>2, <1>4, AdvRestIs
<1>6. MsgSend(x, n) = c \o (a \o name \o b \o BESized(adv) \o e \o f)
  BY ZenonT(60) DEF MsgSend, Join, message, c
<1>7. a \in Bytes /\ name \in Bytes /\ b \in Bytes /\ e \in Bytes /\ f \in Bytes
  <2>1. 2 \in Word2 /\ 5 \in Word2 /\ 3 \in Word2 /\ 0 \in Word2
    BY SMT DEF Word2
  <2>2. QED
    BY <2>1, Written, NameIs
<1>8. BESized(adv) \in Bytes
  BY <1>1, <1>2, AdvDataIs
<1> DEFINE t == BESized(adv)
<1>9. t \in Bytes
  BY <1>8
<1> HIDE DEF t, a, name, b, e, f
<1>10. a \o name \o b \o t \o e \o f = Join(Join(Join(Join(Join(a, name), b), t), e), f)
  BY Zenon DEF Join
<1>11. Join(Join(Join(Join(Join(a, name), b), t), e), f) = Join(a, Join(name, Join(b, Join(t, y))))
  BY <1>7, <1>9, Flat5
<1>12. MsgSend(x, n) = Join(c, Join(a, Join(name, Join(b, Join(t, y)))))
  BY <1>6, <1>10, <1>11, Zenon DEF Join, t
<1>13. MsgSend(x, n) = MsgBody(c, 2, UINtoString(x.dest), AdvRest(m, c, message))
  BY <1>3, <1>12, Zenon DEF MsgBody, t, a, name
<1>14. QED
  BY <1>3, <1>5, <1>13, Zenon DEF Sends, message, c

LEMMA Relayed ==
    ASSUME NEW body, NEW c, IsCookie(c), NEW ch \in Word2, NEW u, IsUIN(u), NEW rest, Sends(body, c, ch, u, rest)
    PROVE  LET r == Read(Reader(body), <<Str(8), U16, ByteStr>>)
           IN  r.v[1] = c /\ r.v[2] = ch /\ SubSeq(body, r.pos + 1, Len(body)) = rest
<1> DEFINE r == Read(Reader(body), <<Str(8), U16, ByteStr>>)
           s == UINtoString(u)
<1>1. rest \in Bytes /\ body = MsgBody(c, ch, s, rest)
  BY DEF Sends
<1>2. body \in Bytes
  BY <1>1, BodiesAre
<1>3. s \in Bytes /\ Len(s) < 256
  BY NameIs
<1> HIDE DEF s
<1>4. PICK k : k = 8 /\ Len(c) = k /\ c \in Bytes
  BY DEF IsCookie
<1>5. At(Reader(body), body, "big", <<>>, NoSubtype, body)
  BY <1>2, AtStart
<1>6. At(Reader(body), body, "big", <<>>, NoSubtype, Join(c, Join(BE(ch, 2), Join(ByteString(s), rest))))
  BY <1>1, <1>5, Zenon DEF MsgBody
<1>7. At(Read(Reader(body), <<Str(k), U16, ByteStr>>), body, "big", <<c, ch, s>>, NoSubtype, rest)
  BY <1>1, <1>3, <1>4, <1>6, ReadsSent
<1>8. At(r, body, "big", <<c, ch, s>>, NoSubtype, rest)
  BY <1>4, <1>7
<1> HIDE DEF r
<1>9. r.v = <<c, ch, s>> /\ Rest(body, r.pos) = rest
  BY <1>8, Seen
<1>10. QED
  BY <1>9 DEF Rest, r

\* What is left for the parser of a message at its block.
BlockOf(f, n, ch, uin, rest) ==
    \E info : /\ At(info, f, "big", <<uin>>, NoSubtype, rest)
              /\ ParseMessage(ParseSNAC(f).r) =
                     [cookie |-> n, ist |-> From(IF ch = 2 THEN ListAdvMsgBlock(info, MaxTLVs).ist
                                                 ELSE ListMessageBlock(info, MaxTLVs).ist, uin)]

LEMMA MessageSeen ==
    ASSUME NEW f, NEW family, NEW subtype, NEW n \in Word4, NEW ch \in {1, 2, 4}, NEW uin, IsUIN(uin),
           NEW rest \in Bytes, Framed(f, family, subtype, RelayBody(Cookie(n), ch, uin, rest))
    PROVE  BlockOf(f, n, ch, uin, rest)
<1> DEFINE r == ParseSNAC(f).r
           h == Read(r, <<U32, Skip(4), U16>>)
           info == ParseUserInfo(h)
           y == Join(UserInfo(uin), rest)
           a == BE(n, 4)
           b == BE(ch, 2)
<1>1. ch \in Word2
  BY SMT DEF Word2
<1>2. Cookie(n) = Join(a, Zeros(4)) /\ a \in Bytes /\ b \in Bytes /\ y \in Bytes /\ Zeros(4) \in Bytes
  BY <1>1, CookieIs, UserInfoIs, Zeroes, Written
<1>3. PICK w : At(r, f, "big", w, NoSubtype, RelayBody(Cookie(n), ch, uin, rest))
  BY DEF Framed
<1>4. RelayBody(Cookie(n), ch, uin, rest) = Join(a, Join(Zeros(4), Join(b, y)))
  <2>1. RelayBody(Cookie(n), ch, uin, rest) = Join(Cookie(n), Join(b, y))
    BY Zenon DEF RelayBody
  <2> HIDE DEF a, b, y
  <2>2. Join(b, y) \in Bytes
    BY <1>2, Written
  <2>3. Join(Join(a, Zeros(4)), Join(b, y)) = Join(a, Join(Zeros(4), Join(b, y)))
    BY <1>2, <2>2, JoinAssoc
  <2>4. QED
    BY <1>2, <2>1, <2>3, Zenon
<1> HIDE DEF y, r
<1>5. At(h, f, "big", <<n, ch>>, NoSubtype, y)
  <2>1. PICK k : k = 4 /\ Len(Zeros(4)) = k
    BY Zeroes
  <2>2. At(r, f, "big", w, NoSubtype, Join(BE(n, 4), Join(Zeros(4), Join(BE(ch, 2), y))))
    BY <1>3, <1>4, Zenon
  <2>3. At(Read(r, <<U32, Skip(k), U16>>), f, "big", <<n, ch>>, NoSubtype, y)
    BY <1>1, <1>2, <2>1, <2>2, ReadsMessage
  <2>4. QED
    BY <2>1, <2>3
<1>6. h.v[1] = n /\ h.v[2] = ch
  <2> HIDE DEF h
  <2>1. h.v = <<n, ch>>
    BY <1>5, Seen
  <2>2. QED
    BY <2>1
<1>7. At(info, f, "big", <<uin>>, NoSubtype, rest)
  <2> HIDE DEF h
  <2>1. At(h, f, "big", <<n, ch>>, NoSubtype, Join(UserInfo(uin), rest))
    BY <1>5, Zenon DEF y
  <2>2. uin \in Nat /\ uin < 100
    BY DEF IsUIN
  <2>3. QED
    BY <2>1, <2>2, UserInfoRead
<1>8. info.v[1] = uin
  <2> HIDE DEF info
  <2>1. info.v = <<uin>>
    BY <1>7, Seen
  <2>2. QED
    BY <2>1
<1>9. ParseMessage(r) = [cookie |-> h.v[1],
             ist |-> IF h.v[2] \notin {1, 2, 4} THEN NoSubtype
                     ELSE From(IF h.v[2] = 2 THEN TLVs(AdvMsgBlock, info, MaxTLVs).ist
                               ELSE TLVs(MessageBlock, info, MaxTLVs).ist, info.v[1])]
  <2> HIDE DEF MaxTLVs
  <2>1. QED
    BY DEF ParseMessage
<1> HIDE DEF h, info
<1>10. ParseMessage(r) = [cookie |-> n, ist |-> From(IF ch = 2 THEN ListAdvMsgBlock(info, MaxTLVs).ist
                                                 ELSE ListMessageBlock(info, MaxTLVs).ist, uin)]
  <2> HIDE DEF MaxTLVs
  <2>1. h.v[2] \in {1, 2, 4}
    BY <1>6
  <2>2. QED
    BY <1>6, <1>8, <1>9, <2>1, Zenon DEF ListAdvMsgBlock, ListMessageBlock
<1>11. QED
  BY <1>7, <1>10 DEF BlockOf, r

\* The frame f brings the subtype ist, with this cookie.
Arrives(f, n, ist) ==
    /\ IsFrame(f) /\ ParseSNAC(f).family = 4 /\ ParseSNAC(f).subtype = 7
    /\ ParseMessage(ParseSNAC(f).r) = [cookie |-> n, ist |-> ist]

LEMMA FramedIs ==
    ASSUME NEW n \in Word4, NEW ch \in {1, 2, 4}, NEW uin, IsUIN(uin), NEW rest, Within(rest, 200)
    PROVE  LET f == FLAP(4, 7, RelayBody(Cookie(n), ch, uin, rest))
           IN  IsFrame(f) /\ Framed(f, 4, 7, RelayBody(Cookie(n), ch, uin, rest))
<1> DEFINE body == RelayBody(Cookie(n), ch, uin, rest)
<1>1. ch \in Word2 /\ 4 \in Word2 /\ 7 \in Word2
  BY SMT DEF Word2
<1>2. rest \in Bytes /\ Len(rest) <= Limit + 200
  BY DEF Within
<1>3. body \in Bytes /\ Len(body) <= Len(rest) + 25
  BY <1>1, <1>2, CookieIs, BodiesAre
<1> HIDE DEF body
<1>4. Len(body) \in Nat /\ Len(rest) \in Nat
  BY <1>2, <1>3, BytesType
<1>5. Len(body) + 10 \in Word2
  <2>1. PICK p, q : p = Len(body) /\ q = Len(rest)
    OBVIOUS
  <2>2. p \in Nat /\ q \in Nat /\ p <= q + 25 /\ q <= Limit + 200
    BY <1>2, <1>3, <1>4, <2>1, Zenon
  <2>3. p + 10 \in Word2
    BY <2>2 DEF Word2, Limit
  <2>4. QED
    BY <2>1, <2>3, Zenon
<1>6. QED
  BY <1>1, <1>3, <1>5, FLAPIs DEF body

\* An advanced message arrives as it was sent.
LEMMA AdvArrives ==
    ASSUME NEW n \in Word4, NEW uin, IsUIN(uin), NEW m \in Word2, NEW q \in Word2, NEW o, Within(o, 26),
           NEW j, HoldsMessage(o, j), j # NoSubtype,
           NEW f, f = FLAP(4, 7, RelayBody(Cookie(n), 2, uin, AdvRest(m, Cookie(n), Join(Subsections(q), o))))
    PROVE  Arrives(f, n, From(WithSeq(j, q), uin))
<1> DEFINE c == Cookie(n)
           message == Join(Subsections(q), o)
           rest == AdvRest(m, c, message)
<1>1. o \in Bytes /\ Len(o) <= Limit + 26 /\ Len(o) \in Nat
  BY BytesType DEF Within
<1>2. message \in Bytes /\ Len(message) = 45 + Len(o)
  <2>1. Subsections(q) \in Bytes /\ Len(Subsections(q)) = 45
    BY SubsectionsAre
  <2>2. message \in Bytes /\ Len(message) = Len(Subsections(q)) + Len(o)
    BY <1>1, <2>1, JoinTwo
  <2>3. QED
    BY <2>1, <2>2
<1>3. Len(message) \in Word2 /\ Len(message) + 48 <= Limit + 200
  <2>1. PICK p, t : p = Len(o) /\ t = Len(message)
    OBVIOUS
  <2>2. p \in Nat /\ p <= Limit + 26 /\ t = 45 + p
    BY <1>1, <1>2, <2>1, Zenon
  <2>3. t \in Word2 /\ t + 48 <= Limit + 200
    BY <2>2 DEF Word2, Limit
  <2>4. QED
    BY <2>1, <2>3, Zenon
<1>4. IsCookie(c) /\ c \in Bytes /\ Len(c) = 8
  BY CookieIs DEF IsCookie
<1> HIDE DEF c, message
<1>5. rest \in Bytes /\ Len(rest) = Len(message) + 48
  BY <1>2, <1>3, <1>4, AdvRestIs
<1> HIDE DEF rest
<1>6. Within(rest, 200)
  BY <1>3, <1>5, ZenonT(60) DEF Within
<1>7. PICK ch \in {1, 2, 4} : ch = 2
  OBVIOUS
<1>8. f = FLAP(4, 7, RelayBody(Cookie(n), ch, uin, rest))
  BY <1>7 DEF rest, message, c
<1>9. IsFrame(f) /\ Framed(f, 4, 7, RelayBody(Cookie(n), ch, uin, rest))
  BY <1>6, <1>8, FramedIs
<1>10. BlockOf(f, n, ch, uin, rest)
  BY <1>5, <1>9, MessageSeen
<1>11. PICK info : /\ At(info, f, "big", <<uin>>, NoSubtype, rest)
                   /\ ParseMessage(ParseSNAC(f).r) =
                         [cookie |-> n, ist |-> From(ListAdvMsgBlock(info, MaxTLVs).ist, uin)]
  BY <1>7, <1>10, Zenon DEF BlockOf
<1>12. ListAdvMsgBlock(info, MaxTLVs).ist = WithSeq(j, q)
  <2>1. At(info, f, "big", <<uin>>, NoSubtype, AdvRest(m, c, Join(Subsections(q), o)))
    BY <1>11 DEF rest, message
  <2>2. Len(Join(Subsections(q), o)) \in Word2
    BY <1>3 DEF message
  <2>3. QED
    BY <1>1, <1>4, <2>1, <2>2, AdvBlockRead
<1>13. ParseSNAC(f).family = 4 /\ ParseSNAC(f).subtype = 7
  BY <1>9 DEF Framed
<1>14. QED
  BY <1>9, <1>11, <1>12, <1>13 DEF Arrives

\* TLVs are never empty.
LEMMA LongTLV ==
    ASSUME NEW t \in Word2, NEW x \in Bytes, Len(x) \in Word2, NEW y \in Bytes
    PROVE  LET z == Join(BE(t, 2), Join(BESized(x), y))
           IN  z \in Bytes /\ z # <<>> /\ 4 <= Len(z) /\ BESized(x) \in Bytes /\ Join(BESized(x), y) \in Bytes
<1> DEFINE a == BE(t, 2)
           b == BESized(x)
           u == Join(b, y)
<1>1. a \in Bytes /\ Len(a) = 2
  BY Integers2
<1>2. b \in Bytes /\ Len(b) = Len(x) + 2
  BY Sized
<1>3. Len(x) \in Nat /\ Len(y) \in Nat
  BY BytesType
<1> HIDE DEF a, b
<1>4. b \in Bytes /\ a \in Bytes
  BY <1>1, <1>2
<1>5. u \in Bytes /\ Len(u) = Len(b) + Len(y)
  BY <1>4, JoinTwo
<1> HIDE DEF u
<1>6. u \in Bytes
  BY <1>5
<1>7. Join(a, u) \in Bytes /\ Len(Join(a, u)) = Len(a) + Len(u)
  BY <1>4, <1>6, JoinTwo
<1>8. Len(Join(a, u)) >= 4 /\ Len(Join(a, u)) # 0
  <2>1. Len(a) = 2 /\ Len(b) = Len(x) + 2 /\ Len(u) = Len(b) + Len(y) /\ Len(Join(a, u)) = Len(a) + Len(u)
    BY <1>1, <1>2, <1>5, <1>7
  <2>2. QED
    BY <1>3, <2>1
<1>9. Join(a, u) # <<>>
  BY <1>8, NoBytes
<1>10. QED
  BY <1>4, <1>6, <1>7, <1>8, <1>9 DEF a, b, u

\* Two zeroes and a message.
MessageText(msg) == Join(BE(0, 2), Join(BE(0, 2), msg))

LEMMA MessageTextIs ==
    ASSUME NEW msg, msg \in Short
    PROVE  /\ MessageText(msg) \in Bytes /\ Len(MessageText(msg)) = 4 + Len(msg)
           /\ Len(MessageText(msg)) \in Word2 /\ Len(msg) \in Nat /\ msg \in Bytes
<1>1. msg \in Bytes /\ Len(msg) \in Nat /\ Len(msg) <= Limit
  BY BytesType DEF Short
<1> DEFINE a == BE(0, 2)
<1>2. a \in Bytes /\ Len(a) = 2
  BY Twisted, Fixed
<1>3. MessageText(msg) = Join(a, Join(a, msg))
  BY DEF MessageText
<1> HIDE DEF a
<1>4. a \in Bytes /\ msg \in Bytes
  BY <1>1, <1>2
<1>5. Join(a, msg) \in Bytes /\ Len(Join(a, msg)) = Len(a) + Len(msg)
  BY <1>4, JoinTwo
<1>6. Join(a, Join(a, msg)) \in Bytes /\ Len(Join(a, Join(a, msg))) = Len(a) + Len(Join(a, msg))
  BY <1>4, <1>5, JoinTwo
<1>7. PICK p, q : p = Len(msg) /\ q = Len(MessageText(msg))
  OBVIOUS
<1>8. p \in Nat /\ p <= Limit /\ q = 2 + (2 + p)
  BY <1>1, <1>2, <1>3, <1>5, <1>6, <1>7, Zenon
<1>9. q = 4 + p /\ q \in Word2
  BY <1>8 DEF Word2, Limit
<1>10. QED
  BY <1>1, <1>3, <1>6, <1>7, <1>9, Zenon

LEMMA TextTLVRead ==
    ASSUME NEW r, NEW d, NEW v, NEW i, NEW msg, msg \in Short, NEW y \in Bytes,
           At(r, d, "big", v, i, Join(BESized(MessageText(msg)), y))
    PROVE  \E w : At(MessageTextTLV(r), d, "big", w, Subtype(Type.Normal, <<msg>>), y)
<1> DEFINE x == MessageText(msg)
           n == Len(x)
<1>1. msg \in Bytes /\ x \in Bytes /\ n \in Word2 /\ n = 4 + Len(msg) /\ Len(msg) \in Nat
  BY MessageTextIs
<1>2. PICK z : z = 0 /\ z \in Word2
  BY SMT DEF Word2
<1>3. Join(BESized(x), y) = Join(BE(n, 2), Join(x, y))
  BY <1>1, Sized
<1>4. Join(x, y) = Join(BE(z, 2), Join(BE(z, 2), Join(msg, y)))
  <2>1. BE(z, 2) \in Bytes
    BY <1>2, Written
  <2>2. x = Join(BE(z, 2), Join(BE(z, 2), msg))
    BY <1>2, Zenon DEF MessageText
  <2>3. Join(BE(z, 2), msg) \in Bytes /\ msg \in Bytes
    BY <1>1, <2>1, Written
  <2>4. QED
    BY <2>1, <2>2, <2>3, JoinAssoc
<1> DEFINE u == Join(x, y)
<1>5. u \in Bytes
  BY <1>1, Written
<1>6. At(r, d, "big", v, i, Join(BE(n, 2), u))
  BY <1>3
<1> HIDE DEF n, x, u
<1>7. At(Read(r, <<U16>>), d, "big", <<n>>, i, u)
  BY <1>1, <1>5, <1>6, ReadsBig
<1>8. Read(r, <<U16>>).v[1] - 4 = Len(msg)
  <2>1. Read(r, <<U16>>).v = <<n>>
    BY <1>7, Seen
  <2>2. Read(r, <<U16>>).v[1] = n
    BY <2>1
  <2>3. QED
    BY <1>1, <2>2
<1> DEFINE t == Read(r, <<U16, U16, U16, Str(Len(msg))>>)
<1>9. At(t, d, "big", <<n, z, z, msg>>, i, y)
  <2>1. At(r, d, "big", v, i, Join(BE(n, 2), Join(BE(z, 2), Join(BE(z, 2), Join(msg, y)))))
    BY <1>4, <1>6 DEF u
  <2>2. QED
    BY <1>1, <1>2, <2>1, ReadsMessageText
<1>10. MessageTextTLV(r) = [t EXCEPT !.ist = Subtype(Type.Normal, <<t.v[4]>>)]
  BY <1>8, Zenon DEF MessageTextTLV
<1> HIDE DEF t
<1>11. t.v[4] = msg
  <2>1. t.v = <<n, z, z, msg>>
    BY <1>9, Seen
  <2>2. QED
    BY <2>1
<1> DEFINE j == Subtype(Type.Normal, <<msg>>)
<1>12. MessageTextTLV(r) = [t EXCEPT !.ist = j]
  BY <1>10, <1>11, Zenon
<1> HIDE DEF j
<1>13. At([t EXCEPT !.ist = j], d, "big", <<n, z, z, msg>>, j, y)
  BY <1>9, Finds
<1>14. QED
  BY <1>12, <1>13 DEF j

\* The steps of the data of a message, and of its block.
LEMMA TextSteps ==
    ASSUME NEW r, NEW d, NEW v, NEW i, NEW t \in Word2, NEW x \in Bytes, Len(x) \in Word2, NEW y \in Bytes,
           At(r, d, "big", v, i, Join(BE(t, 2), Join(BESized(x), y)))
    PROVE  /\ t # 257 => \E w : At(InMessageData(Read(r, <<U16>>)), d, "big", w, i, y)
           /\ t \notin {2, 5} => \E w : At(MessageBlock(Read(r, <<U16>>)), d, "big", w, i, y)
<1>1. Read(r, <<U16>>).v[1] = t /\ At(RawTLV(Read(r, <<U16>>)), d, "big", <<Len(x)>>, i, y)
  BY RawStep
<1>2. t # 257 => InMessageData(Read(r, <<U16>>)) = RawTLV(Read(r, <<U16>>))
  BY <1>1 DEF InMessageData
<1>3. t \notin {2, 5} => MessageBlock(Read(r, <<U16>>)) = RawTLV(Read(r, <<U16>>))
  BY <1>1 DEF MessageBlock
<1>4. QED
  BY <1>1, <1>2, <1>3

\* The data of a message: a TLV, the text, and y, a TLV that is behind the data.
TextData(msg, y) ==
    Join(BE(1281, 2), Join(BESized(One(1)), Join(BE(257, 2), Join(BESized(MessageText(msg)), y))))
LastTLV == Join(BE(6, 2), Join(BESized(<<>>), <<>>))

LEMMA LastIs ==
    /\ One(1) \in Bytes /\ Len(One(1)) \in Word2 /\ <<>> \in Bytes /\ Len(<<>>) \in Word2
    /\ LastTLV \in Bytes /\ LastTLV # <<>> /\ LastTLV = Join(BE(6, 2), BE(0, 2))
<1>1. 1 \in Byte /\ 1 \in Word2 /\ 0 \in Word2 /\ 6 \in Word2
  BY SMT DEF Byte, Word2
<1>2. One(1) \in Bytes /\ Len(One(1)) \in Word2
  <2>1. One(1) \in Bytes /\ Len(One(1)) = 1
    BY <1>1, OneIs
  <2>2. QED
    BY <1>1, <2>1
<1>3. <<>> \in Bytes /\ Len(<<>>) \in Word2
  BY <1>1, NoBytes
<1>4. LastTLV \in Bytes /\ LastTLV # <<>>
  <2>1. PICK t \in Word2 : t = 6
    BY <1>1
  <2>2. Join(BE(t, 2), Join(BESized(<<>>), <<>>)) \in Bytes /\ Join(BE(t, 2), Join(BESized(<<>>), <<>>)) # <<>>
    BY <1>3, LongTLV
  <2>3. QED
    BY <2>1, <2>2 DEF LastTLV
<1>5. LastTLV = Join(BE(6, 2), BE(0, 2))
  <2>1. BESized(<<>>) = Join(BE(Len(<<>>), 2), <<>>) /\ Len(<<>>) = 0
    BY <1>3, Sized, NoBytes
  <2>2. BE(0, 2) \in Bytes
    BY <1>1, Written
  <2>3. Join(BE(0, 2), <<>>) = BE(0, 2)
    BY <2>2, JoinIs
  <2>4. QED
    BY <2>1, <2>3, Zenon DEF LastTLV
<1>6. QED
  BY <1>2, <1>3, <1>4, <1>5

LEMMA TextDataIs ==
    ASSUME NEW msg, msg \in Short, NEW y \in Bytes
    PROVE  /\ TextData(msg, y) \in Bytes /\ TextData(msg, y) # <<>> /\ 4 <= Len(TextData(msg, y))
           /\ Join(BE(257, 2), Join(BESized(MessageText(msg)), y)) \in Bytes
           /\ Join(BE(257, 2), Join(BESized(MessageText(msg)), y)) # <<>>
<1>1. PICK s, t : s = 1281 /\ s \in Word2 /\ t = 257 /\ t \in Word2
  BY SMT DEF Word2
<1> DEFINE z == Join(BE(t, 2), Join(BESized(MessageText(msg)), y))
<1>2. MessageText(msg) \in Bytes /\ Len(MessageText(msg)) \in Word2
  BY MessageTextIs
<1>3. z \in Bytes /\ z # <<>>
  BY <1>1, <1>2, LongTLV
<1>4. TextData(msg, y) = Join(BE(s, 2), Join(BESized(One(1)), z))
  BY <1>1 DEF TextData
<1> HIDE DEF z
<1>5. /\ Join(BE(s, 2), Join(BESized(One(1)), z)) \in Bytes
      /\ Join(BE(s, 2), Join(BESized(One(1)), z)) # <<>>
      /\ 4 <= Len(Join(BE(s, 2), Join(BESized(One(1)), z)))
  BY <1>1, <1>3, LastIs, LongTLV
<1>6. QED
  BY <1>1, <1>3, <1>4, <1>5 DEF z

LEMMA TextDataRead ==
    ASSUME NEW r, NEW d, NEW v, NEW msg, msg \in Short, At(r, d, "big", v, NoSubtype, TextData(msg, LastTLV))
    PROVE  \E w : At(ListInMessageData(r, MaxTLVs), d, "big", w, Subtype(Type.Normal, <<msg>>), <<>>)
<1> DEFINE Step(s) == InMessageData(Read(s, <<U16>>))
           a1 == Step(r)
           a2 == Step(a1)
           a3 == Step(a2)
           x1 == TextData(msg, LastTLV)
           x2 == Join(BE(257, 2), Join(BESized(MessageText(msg)), LastTLV))
           j == Subtype(Type.Normal, <<msg>>)
<1>1. PICK s, t, u : s = 1281 /\ s \in Word2 /\ s # 257 /\ t = 257 /\ t \in Word2 /\ u = 6 /\ u \in Word2 /\ u # 257
  BY SMT DEF Word2
<1>2. x1 \in Bytes /\ x2 \in Bytes /\ x1 # <<>> /\ x2 # <<>> /\ 4 <= Len(x1)
  BY LastIs, TextDataIs
<1>3. At(r, d, "big", v, NoSubtype, x1)
  OBVIOUS
<1>4. PICK w1 : At(a1, d, "big", w1, NoSubtype, x2)
  <2>1. At(r, d, "big", v, NoSubtype, Join(BE(s, 2), Join(BESized(One(1)), x2)))
    BY <1>1, <1>3 DEF TextData
  <2> HIDE DEF x2
  <2>2. QED
    BY <1>1, <1>2, <2>1, LastIs, TextSteps
<1> HIDE DEF a1
<1>5. PICK w2 : At(a2, d, "big", w2, j, LastTLV)
  <2>1. At(a1, d, "big", w1, NoSubtype, Join(BE(t, 2), Join(BESized(MessageText(msg)), LastTLV)))
    BY <1>1, <1>4
  <2>2. BESized(MessageText(msg)) \in Bytes /\ Join(BESized(MessageText(msg)), LastTLV) \in Bytes
    BY <1>1, LastIs, MessageTextIs, LongTLV
  <2> DEFINE h == Read(a1, <<U16>>)
             y == Join(BESized(MessageText(msg)), LastTLV)
  <2>3. At(h, d, "big", <<t>>, NoSubtype, y)
    <3> HIDE DEF y
    <3>1. At(a1, d, "big", w1, NoSubtype, Join(BE(t, 2), y))
      BY <2>1 DEF y
    <3>2. y \in Bytes
      BY <2>2 DEF y
    <3>3. QED
      BY <1>1, <3>1, <3>2, ReadsBig
  <2> HIDE DEF h
  <2>4. h.v = <<t>>
    BY <2>3, Seen
  <2>5. InMessageData(h) = MessageTextTLV(h)
    <3>1. h.v[1] = 257
      BY <1>1, <2>4
    <3>2. QED
      BY <3>1 DEF InMessageData
  <2>6. PICK w : At(MessageTextTLV(h), d, "big", w, Subtype(Type.Normal, <<msg>>), LastTLV)
    BY <2>3, LastIs, TextTLVRead
  <2>7. At(a2, d, "big", w, j, LastTLV)
    BY <2>5, <2>6 DEF h
  <2>8. QED
    BY <2>7
<1> HIDE DEF a2, j
<1>6. PICK w3 : At(a3, d, "big", w3, j, <<>>)
  <2>1. At(a2, d, "big", w2, j, Join(BE(u, 2), Join(BESized(<<>>), <<>>)))
    BY <1>1, <1>5 DEF LastTLV
  <2>2. QED
    BY <1>1, <2>1, LastIs, TextSteps
<1> HIDE DEF a3, x1, x2
<1> DEFINE rs == [n \in 0 .. 3 |-> IF n = 0 THEN r ELSE IF n = 1 THEN a1 ELSE IF n = 2 THEN a2 ELSE a3]
<1>7. PICK k \in Nat : k = 3
  OBVIOUS
<1>8. /\ rs[0] = r /\ rs[k] = a3
      /\ \A n \in 1 .. k : (n = 1 /\ rs[n - 1] = r /\ rs[n] = a1) \/ (n = 2 /\ rs[n - 1] = a1 /\ rs[n] = a2)
                            \/ (n = 3 /\ rs[n - 1] = a2 /\ rs[n] = a3)
  BY <1>7
<1> HIDE DEF rs
<1>9. More(r, d) /\ More(a1, d) /\ More(a2, d) /\ Done(a3, d)
  BY <1>2, <1>3, <1>4, <1>5, <1>6, LastIs, MoreOrDone
<1>10. r.data = d /\ Len(d) \in Nat /\ k <= Len(d)
  BY <1>2, <1>3, <1>7, <1>9, MoreOrDone DEF More
<1>11. Ends(r, MaxTLVs, rs, k)
  <2>1. \A n \in 1 .. k : More(rs[n - 1], d)
    BY <1>8, <1>9
  <2>2. Done(rs[k], d)
    BY <1>8, <1>9
  <2>3. MaxTLVs \in Nat /\ k <= MaxTLVs
    BY <1>7, ManyTLVs
  <2>4. QED
    BY <1>7, <1>8, <1>10, <2>1, <2>2, <2>3, EndsOf
<1>12. \A n \in 1 .. k : rs[n] = InMessageData(Read(rs[n - 1], <<U16>>))
  BY <1>8, Zenon DEF a1, a2, a3
<1>13. ListInMessageData(r, MaxTLVs) = a3
  BY <1>8, <1>11, <1>12, ListOfInMessageData
<1>14. QED
  BY <1>6, <1>13 DEF j

\* A block of one TLV, or of two.
LEMMA OneBlock ==
    ASSUME NEW r, NEW d, NEW a, a = MessageBlock(Read(r, <<U16>>)), More(r, d), Done(a, d), Len(d) \in Nat, 1 <= Len(d)
    PROVE  ListMessageBlock(r, MaxTLVs) = a
<1> DEFINE rs == [m \in 0 .. 1 |-> IF m = 0 THEN r ELSE a]
<1>1. PICK k \in Nat : k = 1
  OBVIOUS
<1>2. rs[0] = r /\ rs[k] = a /\ \A m \in 1 .. k : m = 1 /\ rs[m - 1] = r /\ rs[m] = a
  BY <1>1
<1> HIDE DEF rs
<1>3. Ends(r, MaxTLVs, rs, k)
  <2>1. \A m \in 1 .. k : More(rs[m - 1], d)
    BY <1>2
  <2>2. Done(rs[k], d)
    BY <1>2
  <2>3. MaxTLVs \in Nat /\ k <= MaxTLVs /\ k <= Len(d) /\ r.data = d
    BY <1>1, ManyTLVs DEF More
  <2>4. QED
    BY <1>1, <1>2, <2>1, <2>2, <2>3, EndsOf
<1>4. \A m \in 1 .. k : rs[m] = MessageBlock(Read(rs[m - 1], <<U16>>))
  BY <1>2, Zenon
<1>5. QED
  BY <1>2, <1>3, <1>4, ListOfMessageBlock

LEMMA TwoBlocks ==
    ASSUME NEW r, NEW d, NEW a, a = MessageBlock(Read(r, <<U16>>)), NEW b, b = MessageBlock(Read(a, <<U16>>)),
           More(r, d), More(a, d), Done(b, d), Len(d) \in Nat, 2 <= Len(d)
    PROVE  ListMessageBlock(r, MaxTLVs) = b
<1> DEFINE rs == [m \in 0 .. 2 |-> IF m = 0 THEN r ELSE IF m = 1 THEN a ELSE b]
<1>1. PICK k \in Nat : k = 2
  OBVIOUS
<1>2. /\ rs[0] = r /\ rs[k] = b
      /\ \A m \in 1 .. k : (m = 1 /\ rs[m - 1] = r /\ rs[m] = a) \/ (m = 2 /\ rs[m - 1] = a /\ rs[m] = b)
  BY <1>1
<1> HIDE DEF rs
<1>3. Ends(r, MaxTLVs, rs, k)
  <2>1. \A m \in 1 .. k : More(rs[m - 1], d)
    BY <1>2
  <2>2. Done(rs[k], d)
    BY <1>2
  <2>3. MaxTLVs \in Nat /\ k <= MaxTLVs /\ k <= Len(d) /\ r.data = d
    BY <1>1, ManyTLVs DEF More
  <2>4. QED
    BY <1>1, <1>2, <2>1, <2>2, <2>3, EndsOf
<1>4. \A m \in 1 .. k : rs[m] = MessageBlock(Read(rs[m - 1], <<U16>>))
  BY <1>2, Zenon
<1>5. QED
  BY <1>2, <1>3, <1>4, ListOfMessageBlock

\* The block of a text.
TextRest(n, msg) == Join(BE(2, 2), Join(BE(n, 2), TextData(msg, LastTLV)))

LEMMA TextBlockRead ==
    ASSUME NEW r, NEW d, NEW v, NEW n \in Word2, NEW msg, msg \in Short,
           At(r, d, "big", v, NoSubtype, TextRest(n, msg))
    PROVE  ListMessageBlock(r, MaxTLVs).ist = Subtype(Type.Normal, <<msg>>)
<1> DEFINE x == TextData(msg, LastTLV)
           y == Join(BE(n, 2), x)
           h == Read(r, <<U16>>)
           b == Read(h, <<U16>>)
           a == MessageBlock(h)
           j == Subtype(Type.Normal, <<msg>>)
<1>1. PICK t : t = 2 /\ t \in Word2
  BY SMT DEF Word2
<1>2. x \in Bytes /\ 4 <= Len(x)
  BY LastIs, TextDataIs
<1> HIDE DEF x
<1>3. y \in Bytes
  BY <1>2, Written
<1>4. At(r, d, "big", v, NoSubtype, Join(BE(t, 2), y))
  BY <1>1 DEF TextRest, x
<1>5. At(h, d, "big", <<t>>, NoSubtype, y)
  <2> HIDE DEF y
  <2>1. QED
    BY <1>1, <1>3, <1>4, ReadsBig
<1> HIDE DEF h
<1>6. At(b, d, "big", <<n>>, NoSubtype, x)
  BY <1>2, <1>5, ReadsBig
<1> HIDE DEF b
<1>7. h.v[1] = 2
  <2>1. h.v = <<t>>
    BY <1>5, Seen
  <2>2. QED
    BY <1>1, <2>1
<1>8. a = ListInMessageData(b, MaxTLVs)
  <2>1. a = MessageDataTLV(h)
    BY <1>7, Zenon DEF MessageBlock
  <2> HIDE DEF a, MaxTLVs
  <2>2. QED
    BY <2>1, Zenon DEF MessageDataTLV, ListInMessageData, b
<1> HIDE DEF a
<1>9. PICK w : At(a, d, "big", w, j, <<>>)
  <2>1. At(b, d, "big", <<n>>, NoSubtype, TextData(msg, LastTLV))
    BY <1>6 DEF x
  <2>2. PICK u : At(b, d, "big", u, NoSubtype, TextData(msg, LastTLV))
    BY <2>1
  <2>3. QED
    BY <1>8, <2>2, TextDataRead
<1> HIDE DEF j
<1>10. Done(a, d)
  BY <1>9, MoreOrDone
<1>11. More(b, d) /\ 1 <= Len(d) /\ Len(d) \in Nat
  <2>1. x # <<>>
    BY <1>2, NoBytes
  <2>2. More(b, d) /\ Len(x) <= Len(d) /\ Len(d) \in Nat /\ Len(x) \in Nat
    BY <1>6, <2>1, MoreOrDone
  <2>3. QED
    BY <1>2, <2>2
<1>12. More(r, d)
  <2>1. Len(BE(t, 2)) = 2 /\ BE(t, 2) \in Bytes
    BY <1>1, Integers2
  <2>2. Len(Join(BE(t, 2), y)) = Len(BE(t, 2)) + Len(y) /\ Len(y) \in Nat
    <3>1. BE(t, 2) \in Bytes
      BY <2>1
    <3> HIDE DEF y
    <3>2. QED
      BY <1>3, <3>1, JoinTwo, BytesType
  <2> HIDE DEF y
  <2>3. Len(Join(BE(t, 2), y)) # 0
    BY <2>1, <2>2
  <2>4. Join(BE(t, 2), y) # <<>>
    BY <2>3, NoBytes
  <2>5. QED
    BY <1>4, <2>4, MoreOrDone
<1>13. ListMessageBlock(r, MaxTLVs) = a
  BY <1>10, <1>11, <1>12, OneBlock DEF a, h
<1>14. a.ist = j
  BY <1>9, Seen
<1>15. QED
  BY <1>13, <1>14 DEF j

\* The block of a subtype that is not advanced, and y behind it.
DataRest(n, s, o, y) == Join(BE(5, 2), Join(BE(n, 2), Join(LE(s, 4), Join(o, y))))

LEMMA DataStep ==
    ASSUME NEW r, NEW d, NEW v, NEW n \in Word2, NEW s \in Word4, NEW o \in Bytes, NEW y \in Bytes,
           NEW j, HoldsNormal(o, j), At(r, d, "big", v, NoSubtype, DataRest(n, s, o, y))
    PROVE  More(r, d) /\ \E w : At(MessageBlock(Read(r, <<U16>>)), d, "little", w, j, y)
<1> DEFINE z == Join(BE(n, 2), Join(LE(s, 4), Join(o, y)))
           h == Read(r, <<U16>>)
           b == Read(h, <<U16, Little, U32>>)
<1>1. PICK t : t = 5 /\ t \in Word2
  BY SMT DEF Word2
<1>2. z \in Bytes /\ Join(o, y) \in Bytes
  BY Written
<1>3. At(r, d, "big", v, NoSubtype, Join(BE(t, 2), z))
  BY <1>1 DEF DataRest
<1>4. At(h, d, "big", <<t>>, NoSubtype, z)
  <2> HIDE DEF z
  <2>1. QED
    BY <1>1, <1>2, <1>3, ReadsBig
<1> HIDE DEF h
<1>5. h.v[1] = 5
  <2>1. h.v = <<t>>
    BY <1>4, Seen
  <2>2. QED
    BY <1>1, <2>1
<1>6. MessageBlock(h) = ParseICQSubType(b, FALSE, FALSE)
  <2>1. MessageBlock(h) = ICQDataTLV(h)
    BY <1>5 DEF MessageBlock
  <2>2. QED
    BY <2>1, Zenon DEF ICQDataTLV
<1>7. At(b, d, "little", <<n, s>>, NoSubtype, Join(o, y))
  <2>1. At(h, d, "big", <<t>>, NoSubtype, Join(BE(n, 2), Join(LE(s, 4), Join(o, y))))
    BY <1>4
  <2>2. QED
    BY <1>2, <2>1, ReadsData
<1> HIDE DEF b
<1>8. \E w : At(ParseICQSubType(b, FALSE, FALSE), d, "little", w, j, y)
  BY <1>7 DEF HoldsNormal, Holds
<1>9. More(r, d)
  <2>1. Len(BE(t, 2)) = 2 /\ BE(t, 2) \in Bytes
    BY <1>1, Integers2
  <2>2. Len(Join(BE(t, 2), z)) = Len(BE(t, 2)) + Len(z) /\ Len(z) \in Nat
    <3>1. BE(t, 2) \in Bytes
      BY <2>1
    <3> HIDE DEF z
    <3>2. QED
      BY <1>2, <3>1, JoinTwo, BytesType
  <2> HIDE DEF z
  <2>3. Len(Join(BE(t, 2), z)) # 0
    BY <2>1, <2>2, SMTT(30)
  <2>4. Join(BE(t, 2), z) # <<>>
    BY <2>3, NoBytes
  <2>5. QED
    BY <1>3, <2>4, MoreOrDone
<1>10. QED
  BY <1>6, <1>8, <1>9 DEF h

\* Nothing more, or the last TLV, is behind it.
LEMMA DataBlockRead ==
    ASSUME NEW r, NEW d, NEW v, NEW n \in Word2, NEW s \in Word4, NEW o \in Bytes, NEW y \in {<<>>, LastTLV},
           NEW j, HoldsNormal(o, j), At(r, d, "big", v, NoSubtype, DataRest(n, s, o, y))
    PROVE  ListMessageBlock(r, MaxTLVs).ist = j
<1> DEFINE a == MessageBlock(Read(r, <<U16>>))
           b == MessageBlock(Read(a, <<U16>>))
<1>1. y \in Bytes
  BY LastIs
<1>2. More(r, d)
  BY <1>1, DataStep
<1>3. PICK w : At(a, d, "little", w, j, y)
  BY <1>1, DataStep
<1> HIDE DEF a
<1>4. Len(d) \in Nat /\ 2 <= Len(d) /\ d \in Bytes
  <2>1. PICK u : At(r, d, "big", v, NoSubtype, Join(BE(5, 2), u)) /\ u \in Bytes
    <3>1. Join(BE(n, 2), Join(LE(s, 4), Join(o, y))) \in Bytes
      BY <1>1, Written
    <3>2. QED
      BY <3>1 DEF DataRest
  <2>2. PICK t : t = 5 /\ t \in Word2
    BY SMT DEF Word2
  <2>3. Len(BE(t, 2)) = 2 /\ BE(t, 2) \in Bytes
    BY <2>2, Integers2
  <2>4. BE(t, 2) \in Bytes /\ u \in Bytes
    BY <2>1, <2>3
  <2>5. Len(Join(BE(t, 2), u)) = Len(BE(t, 2)) + Len(u) /\ Len(u) \in Nat
    BY <2>4, JoinTwo, BytesType
  <2>6. Len(Join(BE(t, 2), u)) <= Len(d) /\ Len(d) \in Nat
    BY <2>1, <2>2, MoreOrDone
  <2>7. d \in Bytes
    BY <2>1, Seen
  <2>8. PICK p, q, l : p = Len(BE(t, 2)) /\ q = Len(u) /\ l = Len(d)
    OBVIOUS
  <2>9. p = 2 /\ q \in Nat /\ l \in Nat /\ p + q <= l
    BY <2>3, <2>5, <2>6, <2>8, Zenon
  <2>10. 2 <= l
    BY <2>9
  <2>11. QED
    BY <2>7, <2>8, <2>9, <2>10, Zenon
<1>5. CASE y = <<>>
  <2>1. Done(a, d)
    BY <1>3, <1>5, MoreOrDone
  <2>2. ListMessageBlock(r, MaxTLVs) = a
    <3>1. 1 <= Len(d)
      BY <1>4
    <3>2. QED
      BY <1>2, <1>4, <2>1, <3>1, OneBlock DEF a
  <2>3. QED
    BY <1>3, <2>2, Seen
<1>6. CASE y = LastTLV
  <2>1. More(a, d)
    BY <1>3, <1>6, LastIs, MoreOrDone
  <2>2. PICK t : t = 1536 /\ t \in Word2 /\ t \notin {2, 5} /\ BE(6, 2) = LE(t, 2)
    BY Twisted
  <2>3. LastTLV = Join(LE(t, 2), Join(LE(0, 2), <<>>))
    <3>1. LE(0, 2) \in Bytes
      BY Fixed
    <3>2. Join(LE(0, 2), <<>>) = LE(0, 2)
      BY <3>1, JoinIs
    <3>3. LastTLV = Join(BE(6, 2), BE(0, 2))
      BY LastIs
    <3>4. BE(0, 2) = LE(0, 2)
      BY Twisted
    <3>5. BE(6, 2) = LE(t, 2)
      BY <2>2
    <3>6. LastTLV = Join(LE(t, 2), LE(0, 2))
      BY <3>3, <3>4, <3>5, Zenon
    <3>7. QED
      BY <3>2, <3>6, Zenon
  <2>4. At(a, d, "little", w, j, Join(LE(t, 2), Join(LE(0, 2), <<>>)))
    BY <1>3, <1>6, <2>3, Zenon
  <2> DEFINE h == Read(a, <<U16>>)
  <2>5. h.v[1] = t /\ At(RawTLV(h), d, "little", <<0>>, j, <<>>)
    BY <2>2, <2>4, NoBytes, RawStepLittle
  <2>6. b = RawTLV(h)
    <3> HIDE DEF h
    <3>1. MessageBlock(h) = RawTLV(h)
      BY <2>2, <2>5 DEF MessageBlock
    <3>2. QED
      BY <3>1 DEF h
  <2> HIDE DEF h, b
  <2>7. Done(b, d) /\ b.ist = j
    BY <2>5, <2>6, MoreOrDone, Seen
  <2>8. ListMessageBlock(r, MaxTLVs) = b
    BY <1>2, <1>4, <2>1, <2>7, TwoBlocks DEF a, b
  <2>9. QED
    BY <2>7, <2>8
<1>7. QED
  BY <1>5, <1>6

LEMMA LastLong == LastTLV \in Bytes /\ Len(LastTLV) = 4
<1> DEFINE a == BE(6, 2)
           b == BE(0, 2)
<1>1. 6 \in Word2 /\ 0 \in Word2
  BY SMT DEF Word2
<1>2. a \in Bytes /\ b \in Bytes /\ Len(a) = 2 /\ Len(b) = 2
  BY <1>1, Integers2
<1>3. LastTLV = Join(a, b) /\ LastTLV \in Bytes
  BY LastIs
<1> HIDE DEF a, b
<1>4. Len(Join(a, b)) = Len(a) + Len(b)
  BY <1>2, JoinTwo
<1>5. Len(a) + Len(b) = 4
  BY <1>2
<1>6. QED
  BY <1>3, <1>4, <1>5, Zenon

\* The blocks have room in a frame.
LEMMA TextRestIs ==
    ASSUME NEW n \in Word2, NEW msg, msg \in Short
    PROVE  Within(TextRest(n, msg), 200)
<1> DEFINE a == BE(1281, 2)
           b == BESized(One(1))
           c == BE(257, 2)
           e == BESized(MessageText(msg))
           f == LastTLV
           g == BE(2, 2)
           h == BE(n, 2)
           data == TextData(msg, LastTLV)
<1>1. 1281 \in Word2 /\ 257 \in Word2 /\ 2 \in Word2 /\ 6 \in Word2 /\ 0 \in Word2
  BY SMT DEF Word2
<1>2. a \in Bytes /\ Len(a) = 2 /\ c \in Bytes /\ Len(c) = 2 /\ g \in Bytes /\ Len(g) = 2 /\ h \in Bytes /\ Len(h) = 2
  BY <1>1, Integers2
<1>3. b \in Bytes /\ Len(b) = 3
  <2>1. 1 \in Byte
    BY DEF Byte
  <2>2. Len(One(1)) = 1
    BY <2>1, OneIs
  <2>3. Len(BESized(One(1))) = Len(One(1)) + 2 /\ BESized(One(1)) \in Bytes
    BY LastIs, Sized
  <2>4. Len(BESized(One(1))) = 3
    <3>1. PICK p, q : p = Len(One(1)) /\ q = Len(BESized(One(1)))
      OBVIOUS
    <3>2. p = 1 /\ q = p + 2
      BY <2>2, <2>3, <3>1, Zenon
    <3>3. q = 3
      BY <3>2
    <3>4. QED
      BY <3>1, <3>3, Zenon
  <2>5. QED
    BY <2>3, <2>4
<1>4. e \in Bytes /\ Len(e) = Len(msg) + 6 /\ Len(msg) \in Nat
  <2> DEFINE t == MessageText(msg)
  <2>1. t \in Bytes /\ Len(t) = 4 + Len(msg) /\ Len(t) \in Word2 /\ Len(msg) \in Nat
    BY MessageTextIs
  <2> HIDE DEF t
  <2>2. BESized(t) \in Bytes /\ Len(BESized(t)) = Len(t) + 2
    BY <2>1, Sized
  <2>3. QED
    BY <2>1, <2>2 DEF t
<1>5. f \in Bytes /\ Len(f) = 4
  BY LastLong
<1>6. data = Join(a, Join(b, Join(c, Join(e, f))))
  BY Zenon DEF TextData
<1>7. TextRest(n, msg) = Join(g, Join(h, data))
  BY Zenon DEF TextRest
<1> HIDE DEF a, b, c, e, f, g, h, data
<1>8. AllBytes(<<a, b, c, e, f>>)
  BY <1>2, <1>3, <1>4, <1>5 DEF AllBytes
<1>9. data \in Bytes /\ Len(data) = Len(a) + (Len(b) + (Len(c) + (Len(e) + Len(f))))
  BY <1>6, <1>8, FiveLong
<1>10. g \in Bytes /\ h \in Bytes /\ data \in Bytes
  BY <1>2, <1>9
<1>11. Join(g, Join(h, data)) \in Bytes /\ Len(Join(g, Join(h, data))) = Len(g) + (Len(h) + Len(data))
  BY <1>10, Lens3
<1>12. Len(msg) <= Limit
  BY DEF Short
<1>13. Len(g) + (Len(h) + Len(data)) <= Limit + 200
  <2>1. PICK p, q, r, s, t, u, w, m : /\ p = Len(a) /\ q = Len(b) /\ r = Len(c) /\ s = Len(e) /\ t = Len(f)
                                     /\ u = Len(g) /\ w = Len(h) /\ m = Len(msg)
    OBVIOUS
  <2>2. p = 2 /\ q = 3 /\ r = 2 /\ s = m + 6 /\ t = 4 /\ u = 2 /\ w = 2 /\ m \in Nat /\ m <= Limit
    BY <1>2, <1>3, <1>4, <1>5, <1>12, <2>1, Zenon
  <2>3. u + (w + (p + (q + (r + (s + t))))) <= Limit + 200
    BY <2>2 DEF Limit
  <2>4. QED
    BY <1>9, <2>1, <2>3, Zenon
<1>14. QED
  BY <1>7, <1>11, <1>13, Zenon DEF Within

LEMMA DataRestIs ==
    ASSUME NEW n \in Word2, NEW s \in Word4, NEW o, Within(o, 17), NEW y, y = <<>> \/ y = LastTLV
    PROVE  Within(DataRest(n, s, o, y), 200) /\ o \in Bytes /\ y \in Bytes
<1> DEFINE a == BE(5, 2)
           b == BE(n, 2)
           c == LE(s, 4)
<1>1. 5 \in Word2 /\ 6 \in Word2 /\ 0 \in Word2
  BY SMT DEF Word2
<1>2. a \in Bytes /\ Len(a) = 2 /\ b \in Bytes /\ Len(b) = 2
  BY <1>1, Integers2
<1>3. c \in Bytes /\ Len(c) = 4
  BY Integers4
<1>4. y \in Bytes /\ Len(y) \in Nat /\ Len(y) <= 4
  <2>1. CASE y = <<>>
    BY <2>1, NoBytes
  <2>2. CASE y = LastTLV
    BY <2>2, LastLong
  <2>3. QED
    BY <2>1, <2>2
<1>5. o \in Bytes /\ Len(o) <= Limit + 17
  BY DEF Within
<1>6. Len(o) \in Nat
  BY <1>5, BytesType
<1>7. DataRest(n, s, o, y) = Join(a, Join(b, Join(c, Join(o, y))))
  BY Zenon DEF DataRest
<1> HIDE DEF a, b, c
<1>8. AllBytes(<<a, b, c, o, y>>)
  BY <1>2, <1>3, <1>4, <1>5 DEF AllBytes
<1>9. /\ Join(a, Join(b, Join(c, Join(o, y)))) \in Bytes
      /\ Len(Join(a, Join(b, Join(c, Join(o, y))))) = Len(a) + (Len(b) + (Len(c) + (Len(o) + Len(y))))
  BY <1>8, FiveLong
<1>10. Len(a) + (Len(b) + (Len(c) + (Len(o) + Len(y)))) <= Limit + 200
  <2>1. PICK p, q, r, t, u : p = Len(a) /\ q = Len(b) /\ r = Len(c) /\ t = Len(o) /\ u = Len(y)
    OBVIOUS
  <2>2. p = 2 /\ q = 2 /\ r = 4 /\ t \in Nat /\ t <= Limit + 17 /\ u \in Nat /\ u <= 4
    BY <1>2, <1>3, <1>4, <1>5, <1>6, <2>1, Zenon
  <2>3. p + (q + (r + (t + u))) <= Limit + 200
    BY <2>2 DEF Limit
  <2>4. QED
    BY <2>1, <2>3, Zenon
<1>11. QED
  BY <1>4, <1>5, <1>7, <1>9, <1>10, Zenon DEF Within

\* A text on channel 1 arrives, and a subtype on channel 4.
LEMMA TextArrives ==
    ASSUME NEW n \in Word4, NEW uin, IsUIN(uin), NEW m \in Word2, NEW msg, msg \in Short,
           NEW f, f = FLAP(4, 7, RelayBody(Cookie(n), 1, uin, TextRest(m, msg)))
    PROVE  Arrives(f, n, From(Subtype(Type.Normal, <<msg>>), uin))
<1> DEFINE rest == TextRest(m, msg)
<1>1. Within(rest, 200)
  BY TextRestIs
<1>2. rest \in Bytes
  BY <1>1 DEF Within
<1>3. PICK ch \in {1, 2, 4} : ch = 1
  OBVIOUS
<1>4. f = FLAP(4, 7, RelayBody(Cookie(n), ch, uin, rest))
  BY <1>3
<1> HIDE DEF rest
<1>5. IsFrame(f) /\ Framed(f, 4, 7, RelayBody(Cookie(n), ch, uin, rest))
  BY <1>1, <1>4, FramedIs
<1>6. BlockOf(f, n, ch, uin, rest)
  BY <1>2, <1>5, MessageSeen
<1>7. ch # 2
  BY <1>3
<1>8. PICK info : /\ At(info, f, "big", <<uin>>, NoSubtype, rest)
                  /\ ParseMessage(ParseSNAC(f).r) =
                        [cookie |-> n, ist |-> From(ListMessageBlock(info, MaxTLVs).ist, uin)]
  BY <1>6, <1>7, Zenon DEF BlockOf
<1>9. ListMessageBlock(info, MaxTLVs).ist = Subtype(Type.Normal, <<msg>>)
  BY <1>8, TextBlockRead DEF rest
<1>10. ParseSNAC(f).family = 4 /\ ParseSNAC(f).subtype = 7
  BY <1>5 DEF Framed
<1>11. QED
  BY <1>5, <1>8, <1>9, <1>10 DEF Arrives

LEMMA DataArrives ==
    ASSUME NEW n \in Word4, NEW uin, IsUIN(uin), NEW m \in Word2, NEW s \in Word4, NEW o, Within(o, 17),
           NEW y, y = <<>> \/ y = LastTLV, NEW j, HoldsNormal(o, j),
           NEW f, f = FLAP(4, 7, RelayBody(Cookie(n), 4, uin, DataRest(m, s, o, y)))
    PROVE  Arrives(f, n, From(j, uin))
<1> DEFINE rest == DataRest(m, s, o, y)
<1>1. Within(rest, 200) /\ o \in Bytes
  BY DataRestIs
<1>2. rest \in Bytes
  BY <1>1 DEF Within
<1>3. PICK ch \in {1, 2, 4} : ch = 4
  OBVIOUS
<1>4. f = FLAP(4, 7, RelayBody(Cookie(n), ch, uin, rest))
  BY <1>3
<1> HIDE DEF rest
<1>5. IsFrame(f) /\ Framed(f, 4, 7, RelayBody(Cookie(n), ch, uin, rest))
  BY <1>1, <1>4, FramedIs
<1>6. BlockOf(f, n, ch, uin, rest)
  BY <1>2, <1>5, MessageSeen
<1>7. ch # 2
  BY <1>3
<1>8. PICK info : /\ At(info, f, "big", <<uin>>, NoSubtype, rest)
                  /\ ParseMessage(ParseSNAC(f).r) =
                        [cookie |-> n, ist |-> From(ListMessageBlock(info, MaxTLVs).ist, uin)]
  BY <1>6, <1>7, Zenon DEF BlockOf
<1>9. ListMessageBlock(info, MaxTLVs).ist = j
  <2>1. PICK z \in {<<>>, LastTLV} : z = y
    OBVIOUS
  <2>2. At(info, f, "big", <<uin>>, NoSubtype, DataRest(m, s, o, z))
    BY <1>8, <2>1 DEF rest
  <2>3. QED
    BY <1>1, <2>2, DataBlockRead
<1>10. ParseSNAC(f).family = 4 /\ ParseSNAC(f).subtype = 7
  BY <1>5 DEF Framed
<1>11. QED
  BY <1>5, <1>8, <1>9, <1>10 DEF Arrives

\* What MsgSend writes of a subtype that is not advanced.
SentAs(c, ch, u, b, t) ==
    c \o (BE(ch, 2) \o ByteString(UINtoString(u)) \o b \o t \o BE(6, 2) \o BE(0, 2))

LEMMA SentAsBody ==
    ASSUME NEW c, IsCookie(c), NEW ch \in Word2, NEW u, IsUIN(u), NEW b \in Bytes, NEW t \in Bytes
    PROVE  /\ SentAs(c, ch, u, b, t) = MsgBody(c, ch, UINtoString(u), Join(b, Join(t, LastTLV)))
           /\ Join(b, Join(t, LastTLV)) \in Bytes
<1> DEFINE a == BE(ch, 2)
           name == ByteString(UINtoString(u))
           e == BE(6, 2)
           f == BE(0, 2)
<1>1. 6 \in Word2 /\ 0 \in Word2
  BY SMT DEF Word2
<1>2. a \in Bytes /\ name \in Bytes /\ e \in Bytes /\ f \in Bytes /\ c \in Bytes
  BY <1>1, Written, NameIs DEF IsCookie
<1>3. LastTLV = Join(e, f)
  BY LastIs
<1>4. SentAs(c, ch, u, b, t) = Join(c, Join(Join(Join(Join(Join(a, name), b), t), e), f))
  BY Zenon DEF SentAs, Join
<1>5. MsgBody(c, ch, UINtoString(u), Join(b, Join(t, LastTLV))) = Join(c, Join(a, Join(name, Join(b, Join(t, LastTLV)))))
  BY Zenon DEF MsgBody
<1> HIDE DEF a, name, e, f
<1>6. Join(Join(Join(Join(Join(a, name), b), t), e), f) = Join(a, Join(name, Join(b, Join(t, Join(e, f)))))
  BY <1>2, Flat5
<1>7. Join(b, Join(t, LastTLV)) \in Bytes
  BY LastIs, Written
<1>8. QED
  BY <1>3, <1>4, <1>5, <1>6, <1>7, Zenon

\* A text, as MsgSend writes it.
TextWritten(msg) ==
    BE(1281, 2) \o BE(1, 2) \o <<1>> \o (BE(257, 2) \o BESized(BE(0, 2) \o BE(0, 2) \o msg))

LEMMA TextWrittenIs ==
    ASSUME NEW msg, msg \in Short
    PROVE  /\ TextWritten(msg) \in Bytes /\ Len(TextWritten(msg)) \in Word2
           /\ Join(TextWritten(msg), LastTLV) = TextData(msg, LastTLV)
<1> DEFINE a == BE(1281, 2)
           b == BE(1, 2)
           c == One(1)
           e == BE(257, 2)
           p == BE(0, 2)
           f == BESized(MessageText(msg))
           w == TextWritten(msg)
<1>1. 1281 \in Word2 /\ 1 \in Word2 /\ 257 \in Word2 /\ 0 \in Word2
  BY SMT DEF Word2
<1>2. a \in Bytes /\ b \in Bytes /\ c \in Bytes /\ e \in Bytes /\ p \in Bytes
  BY <1>1, Written, LastIs
<1>3. MessageText(msg) \in Bytes /\ Len(MessageText(msg)) \in Word2 /\ msg \in Bytes
  BY MessageTextIs
<1>4. f \in Bytes
  BY <1>3, Sized
<1>5. BE(0, 2) \o BE(0, 2) \o msg = MessageText(msg)
  <2>1. BE(0, 2) \o BE(0, 2) \o msg = Join(Join(p, p), msg)
    BY Zenon DEF Join
  <2>2. MessageText(msg) = Join(p, Join(p, msg))
    BY Zenon DEF MessageText
  <2> HIDE DEF p
  <2>3. Join(Join(p, p), msg) = Join(p, Join(p, msg))
    BY <1>2, <1>3, JoinAssoc
  <2>4. QED
    BY <2>1, <2>2, <2>3, Zenon
<1>6. w = Join(Join(Join(a, b), c), Join(e, f))
  <2> DEFINE g == BE(0, 2) \o BE(0, 2) \o msg
  <2>1. w = a \o b \o c \o (e \o BESized(g))
    BY Zenon DEF TextWritten, One
  <2>2. w = a \o b \o c \o (e \o f)
    <3>1. g = MessageText(msg)
      BY <1>5
    <3> HIDE DEF a, b, c, e, g, w
    <3>2. QED
      BY <2>1, <3>1, Zenon
  <2>3. QED
    BY <2>2, ZenonT(60) DEF Join
<1>7. Join(BESized(c), Join(e, Join(f, LastTLV))) = Join(b, Join(c, Join(e, Join(f, LastTLV))))
  <2>1. Len(c) = 1 /\ Len(c) \in Word2
    <3>1. 1 \in Byte
      BY DEF Byte
    <3>2. QED
      BY <3>1, OneIs, LastIs
  <2>2. Join(e, Join(f, LastTLV)) \in Bytes
    BY <1>2, <1>4, LastIs, Written
  <2>3. Join(BESized(c), Join(e, Join(f, LastTLV))) = Join(BE(Len(c), 2), Join(c, Join(e, Join(f, LastTLV))))
    <3> DEFINE z == Join(e, Join(f, LastTLV))
    <3>1. z \in Bytes /\ c \in Bytes /\ Len(c) \in Word2
      BY <1>2, <2>1, <2>2
    <3> HIDE DEF c, z
    <3>2. Join(BESized(c), z) = Join(BE(Len(c), 2), Join(c, z))
      BY <3>1, Sized
    <3>3. QED
      BY <3>2 DEF z
  <2>4. BE(Len(c), 2) = b
    BY <2>1, Zenon
  <2>5. QED
    BY <2>3, <2>4, Zenon
<1>8. TextData(msg, LastTLV) = Join(a, Join(BESized(c), Join(e, Join(f, LastTLV))))
  BY Zenon DEF TextData
<1> HIDE DEF a, b, c, e, f, w
<1>9. Join(e, f) \in Bytes /\ w \in Bytes
  BY <1>2, <1>4, <1>6, Written
<1>10. Join(w, LastTLV) = TextData(msg, LastTLV)
  <2> DEFINE g == Join(e, f)
  <2>1. Join(g, LastTLV) = Join(e, Join(f, LastTLV))
    BY <1>2, <1>4, LastIs, JoinAssoc
  <2>2. g \in Bytes
    BY <1>9
  <2> HIDE DEF g
  <2>3. Join(Join(Join(Join(a, b), c), g), LastTLV) = Join(a, Join(b, Join(c, Join(g, LastTLV))))
    BY <1>2, <2>2, LastIs, Flat4
  <2>4. w = Join(Join(Join(a, b), c), g)
    BY <1>6 DEF g
  <2>5. QED
    BY <1>7, <1>8, <2>1, <2>3, <2>4, Zenon
<1>11. Len(w) \in Word2
  <2> DEFINE d == TextData(msg, LastTLV)
             h == BE(2, 2)
  <2>1. Within(TextRest(0, msg), 200)
    BY <1>1, TextRestIs
  <2>2. TextRest(0, msg) = Join(h, Join(p, d))
    BY Zenon DEF TextRest
  <2>3. h \in Bytes
    <3>1. 2 \in Word2
      BY SMT DEF Word2
    <3>2. QED
      BY <3>1, Written
  <2>4. d = Join(w, LastTLV)
    BY <1>10
  <2> HIDE DEF d, h, p
  <2>5. d \in Bytes /\ Len(d) = Len(w) + Len(LastTLV)
    BY <1>9, <2>4, LastIs, JoinTwo
  <2>6. Len(Join(h, Join(p, d))) = Len(h) + (Len(p) + Len(d))
    BY <1>2, <2>3, <2>5, Lens3, ZenonT(60)
  <2>7. Len(h) \in Nat /\ Len(p) \in Nat /\ Len(w) \in Nat /\ Len(LastTLV) \in Nat
    BY <1>2, <1>9, <2>3, LastIs, BytesType
  <2>8. Len(TextRest(0, msg)) <= Limit + 200
    BY <2>1 DEF Within
  <2>9. PICK i, j, k, l : i = Len(h) /\ j = Len(p) /\ k = Len(w) /\ l = Len(LastTLV)
    OBVIOUS
  <2>10. /\ i \in Nat /\ j \in Nat /\ k \in Nat /\ l \in Nat
         /\ i + (j + (k + l)) <= Limit + 200
    BY <2>2, <2>5, <2>6, <2>7, <2>8, <2>9, Zenon
  <2>11. k \in Word2
    BY <2>10 DEF Limit, Word2
  <2>12. QED
    BY <2>9, <2>11, Zenon
<1>12. QED
  BY <1>9, <1>10, <1>11 DEF w

\* The packets of each kind of message, behind the cookie.
AdvArm(x, n) ==
    BE(2, 2) \o ByteString(UINtoString(x.dest)) \o BE(5, 2)
    \o BESized(AdvData(Cookie(n), Subsections(x.seq) \o Output(x))) \o BE(3, 2) \o BE(0, 2)
TextArm(x) ==
    BE(1, 2) \o ByteString(UINtoString(x.dest)) \o BE(2, 2)
    \o BESized(BE(1281, 2) \o BE(1, 2) \o <<1>> \o (BE(257, 2) \o BESized(BE(0, 2) \o BE(0, 2) \o x.fields[1])))
    \o BE(6, 2) \o BE(0, 2)
DataArm(x) ==
    BE(4, 2) \o ByteString(UINtoString(x.dest)) \o BE(5, 2) \o BESized(LE(x.source, 4) \o Output(x))
    \o BE(6, 2) \o BE(0, 2)
EmptyArm == BE(6, 2) \o BE(0, 2)

LEMMA SendArms ==
    ASSUME NEW x, x.advanced = FALSE, NEW n
    PROVE  /\ x.type = Type.Normal => MsgSend(x, n) = Cookie(n) \o TextArm(x)
           /\ x.type \in OnChannel4 => MsgSend(x, n) = Cookie(n) \o DataArm(x)
           /\ x.type \notin OnChannel4 \cup {Type.Normal} => MsgSend(x, n) = Cookie(n) \o EmptyArm
<1> DEFINE arm == CASE x.advanced -> AdvArm(x, n)
                    [] ~x.advanced /\ x.type = Type.Normal -> TextArm(x)
                    [] ~x.advanced /\ x.type \in OnChannel4 -> DataArm(x)
                    [] OTHER -> EmptyArm
<1>1. MsgSend(x, n) = Cookie(n) \o arm
  BY Zenon DEF MsgSend, AdvArm, TextArm, DataArm, EmptyArm
<1>2. Type.Normal \notin OnChannel4
  BY KindsDiffer DEF OnChannel4
<1>3. ~x.advanced
  OBVIOUS
<1>4. /\ x.type = Type.Normal => arm = TextArm(x)
      /\ x.type \in OnChannel4 => arm = DataArm(x)
      /\ x.type \notin OnChannel4 \cup {Type.Normal} => arm = EmptyArm
  BY <1>2, <1>3
<1> HIDE DEF arm
<1>5. QED
  BY <1>1, <1>4, Zenon

LEMMA TextSent ==
    ASSUME NEW x, x.advanced = FALSE, x.type = Type.Normal, NEW msg, msg \in Short, x.fields = <<msg>>,
           NEW n \in Word4, IsUIN(x.dest)
    PROVE  \E m \in Word2 : Sends(MsgSend(x, n), Cookie(n), 1, x.dest, TextRest(m, msg))
<1> DEFINE c == Cookie(n)
           b == BE(2, 2)
           w == TextWritten(msg)
           m == Len(w)
<1>1. x.fields[1] = msg
  OBVIOUS
<1>2. MsgSend(x, n) = SentAs(c, 1, x.dest, b, BESized(w))
  <2>1. MsgSend(x, n) = Cookie(n) \o TextArm(x)
    BY SendArms
  <2>2. QED
    BY <1>1, <2>1, ZenonT(150) DEF TextArm, SentAs, TextWritten
<1>3. w \in Bytes /\ m \in Word2 /\ Join(w, LastTLV) = TextData(msg, LastTLV)
  BY TextWrittenIs
<1>4. IsCookie(c)
  BY CookieIs
<1> HIDE DEF c, w
<1>5. 1 \in Word2 /\ 2 \in Word2
  BY SMT DEF Word2
<1>6. b \in Bytes /\ BESized(w) \in Bytes
  BY <1>3, <1>5, Written, Sized
<1>7. Join(BESized(w), LastTLV) = Join(BE(m, 2), Join(w, LastTLV))
  BY <1>3, LastIs, Sized
<1>8. Join(b, Join(BESized(w), LastTLV)) = TextRest(m, msg)
  BY <1>3, <1>7, Zenon DEF TextRest
<1> HIDE DEF b
<1> DEFINE t == BESized(w)
<1>9. t \in Bytes
  BY <1>6
<1> HIDE DEF t
<1>10. /\ SentAs(c, 1, x.dest, b, t) = MsgBody(c, 1, UINtoString(x.dest), Join(b, Join(t, LastTLV)))
       /\ Join(b, Join(t, LastTLV)) \in Bytes
  BY <1>4, <1>5, <1>6, <1>9, SentAsBody
<1>11. Sends(MsgSend(x, n), c, 1, x.dest, TextRest(m, msg))
  BY <1>2, <1>8, <1>10, Zenon DEF Sends, t
<1>12. QED
  BY <1>3, <1>11 DEF c

LEMMA DataSent ==
    ASSUME NEW x, x.advanced = FALSE, x.type \in OnChannel4, Within(Output(x), 17), x.source \in Word4,
           NEW n \in Word4, IsUIN(x.dest)
    PROVE  \E m \in Word2 : /\ Sends(MsgSend(x, n), Cookie(n), 4, x.dest, DataRest(m, x.source, Output(x), LastTLV))
                            /\ m = Len(Output(x)) + 4
<1> DEFINE c == Cookie(n)
           b == BE(5, 2)
           e == LE(x.source, 4)
           o == Output(x)
           w == Join(e, o)
           t == BESized(w)
           m == Len(w)
<1>1. MsgSend(x, n) = SentAs(c, 4, x.dest, b, t)
  <2>1. MsgSend(x, n) = Cookie(n) \o DataArm(x)
    BY SendArms
  <2>2. QED
    BY <2>1, Zenon DEF DataArm, SentAs, Join
<1>2. IsCookie(c)
  BY CookieIs
<1>3. 4 \in Word2 /\ 5 \in Word2
  BY SMT DEF Word2
<1>4. b \in Bytes
  BY <1>3, Written
<1>5. e \in Bytes /\ Len(e) = 4
  BY Integers4
<1>6. o \in Bytes /\ Len(o) <= Limit + 17
  BY DEF Within
<1> HIDE DEF b, c, e, o, t
<1>7. e \in Bytes /\ o \in Bytes
  BY <1>5, <1>6
<1>8. w \in Bytes /\ Len(w) = Len(e) + Len(o) /\ Len(o) \in Nat
  BY <1>7, JoinTwo, BytesType
<1>9. Join(w, LastTLV) = Join(e, Join(o, LastTLV))
  BY <1>7, LastIs, JoinAssoc
<1> HIDE DEF w
<1>10. m \in Word2
  <2>1. PICK p, q, l : p = Len(e) /\ q = Len(o) /\ l = Len(w)
    OBVIOUS
  <2>2. p = 4 /\ q \in Nat /\ q <= Limit + 17 /\ l = p + q
    BY <1>5, <1>6, <1>8, <2>1, Zenon
  <2>3. l \in Word2
    BY <2>2 DEF Limit, Word2
  <2>4. QED
    BY <2>1, <2>3, Zenon
<1>11. t \in Bytes /\ Join(t, LastTLV) = Join(BE(m, 2), Join(w, LastTLV))
  BY <1>8, <1>10, LastIs, Sized DEF t
<1>12. /\ SentAs(c, 4, x.dest, b, t) = MsgBody(c, 4, UINtoString(x.dest), Join(b, Join(t, LastTLV)))
       /\ Join(b, Join(t, LastTLV)) \in Bytes
  BY <1>2, <1>3, <1>4, <1>11, SentAsBody
<1>13. Join(b, Join(t, LastTLV)) = DataRest(m, x.source, o, LastTLV)
  BY <1>9, <1>11, Zenon DEF DataRest, b, e
<1>14. Sends(MsgSend(x, n), c, 4, x.dest, DataRest(m, x.source, o, LastTLV))
  BY <1>1, <1>12, <1>13, Zenon DEF Sends
<1>15. m = Len(o) + 4
  <2>1. PICK p, q, l : p = Len(e) /\ q = Len(o) /\ l = Len(w)
    OBVIOUS
  <2>2. p = 4 /\ q \in Nat /\ l = p + q
    BY <1>5, <1>8, <2>1, Zenon
  <2>3. l = q + 4
    BY <2>2
  <2>4. QED
    BY <2>1, <2>3, Zenon
<1>16. QED
  BY <1>10, <1>14, <1>15 DEF c, o

\* Contacts have no channel: the server finds none that it knows.
LEMMA TwoZeroes == BE(0, 2) = Join(ByteString(<<>>), One(0))
<1>1. 0 \in Byte /\ 0 \in Word2
  BY SMT DEF Byte, Word2
<1>2. Weight[1] = 1 /\ Weight[2] = 256
  BY DEF Weight
<1>3. 0 \div 1 = 0 /\ 0 \div 256 = 0 /\ 0 % 256 = 0
  BY SMT
<1>4. 2 + 1 - 1 = 2 /\ 2 + 1 - 2 = 1 /\ \A i \in 1 .. 2 : i = 1 \/ i = 2
  OBVIOUS
<1>5. BE(0, 2) = [i \in 1 .. 2 |-> 0]
  BY <1>2, <1>3, <1>4, SMT DEF BE
<1>6. [i \in 1 .. 2 |-> 0] = <<0, 0>>
  OBVIOUS
<1>7. <<0, 0>> = Join(One(0), One(0))
  BY <1>1, Pair
<1>8. ByteString(<<>>) = One(0)
  <2>1. ByteString(<<>>) = Join(One(Len(<<>>)), <<>>)
    BY Zenon DEF ByteString, Join, One
  <2>2. Len(<<>>) = 0
    BY NoBytes
  <2>3. One(0) \in Bytes
    BY <1>1, OneIs
  <2>4. Join(One(0), <<>>) = One(0)
    BY <2>3, JoinIs
  <2>5. QED
    BY <2>1, <2>2, <2>4, Zenon
<1>9. QED
  BY <1>5, <1>6, <1>7, <1>8, Zenon

LEMMA EmptyRelayed ==
    ASSUME NEW c, IsCookie(c), NEW body, body = c \o EmptyArm
    PROVE  LET r == Read(Reader(body), <<Str(8), U16, ByteStr>>) IN r.v[2] = 6
<1> DEFINE r == Read(Reader(body), <<Str(8), U16, ByteStr>>)
           a == BE(6, 2)
           e == ByteString(<<>>)
           z == One(0)
<1>1. body = Join(c, Join(a, Join(e, z)))
  BY TwoZeroes, Zenon DEF EmptyArm, Join
<1>2. PICK t : t = 6 /\ t \in Word2
  BY SMT DEF Word2
<1>3. 0 \in Byte
  BY DEF Byte
<1>4. <<>> \in Bytes /\ Len(<<>>) < 256
  BY NoBytes
<1>5. PICK k : k = 8 /\ Len(c) = k /\ c \in Bytes
  BY DEF IsCookie
<1>6. z \in Bytes /\ e \in Bytes /\ BE(t, 2) \in Bytes
  BY <1>2, <1>3, <1>4, Written
<1>7. At(Reader(body), body, "big", <<>>, NoSubtype, Join(c, Join(BE(t, 2), Join(e, z))))
  <2>1. body = Join(c, Join(BE(t, 2), Join(e, z)))
    BY <1>1, <1>2
  <2>2. body \in Bytes
    <3> HIDE DEF e, z
    <3>1. QED
      BY <1>5, <1>6, <2>1, Written
  <2>3. At(Reader(body), body, "big", <<>>, NoSubtype, body)
    BY <2>2, AtStart
  <2>4. QED
    BY <2>1, <2>3, Zenon
<1> HIDE DEF z
<1>8. At(Read(Reader(body), <<Str(k), U16, ByteStr>>), body, "big", <<c, t, <<>>>>, NoSubtype, z)
  BY <1>2, <1>4, <1>5, <1>6, <1>7, ReadsSent
<1>9. At(r, body, "big", <<c, t, <<>>>>, NoSubtype, z)
  BY <1>5, <1>8
<1> HIDE DEF r
<1>10. r.v = <<c, t, <<>>>>
  BY <1>9, Seen
<1>11. r.v[2] = t
  BY <1>10
<1>12. QED
  BY <1>2, <1>11, Zenon DEF r

-----------------------------------------------------------------------------
(* Acknowledgements through the server.                                      *)
AckRest(q, o) == Join(BE(3, 2), Join(Subsections(q), o))

LEMMA AckRestIs ==
    ASSUME NEW q \in Word2, NEW o, Within(o, 26)
    PROVE  AckRest(q, o) \in Bytes /\ Within(AckRest(q, o), 100) /\ o \in Bytes
<1> DEFINE a == BE(3, 2)
           b == Subsections(q)
<1>1. 3 \in Word2
  BY SMT DEF Word2
<1>2. a \in Bytes /\ Len(a) = 2
  BY <1>1, Integers2
<1>3. b \in Bytes /\ Len(b) = 45
  BY SubsectionsAre
<1>4. o \in Bytes /\ Len(o) <= Limit + 26
  BY DEF Within
<1>5. Len(o) \in Nat
  BY <1>4, BytesType
<1>6. AckRest(q, o) = Join(a, Join(b, o))
  BY Zenon DEF AckRest
<1> HIDE DEF a, b
<1>7. a \in Bytes /\ b \in Bytes /\ o \in Bytes
  BY <1>2, <1>3, <1>4
<1>8. Join(a, Join(b, o)) \in Bytes /\ Len(Join(a, Join(b, o))) = Len(a) + (Len(b) + Len(o))
  BY <1>7, Lens3
<1>9. Len(Join(a, Join(b, o))) <= Limit + 100
  <2>1. PICK p, s, t, l : p = Len(a) /\ s = Len(b) /\ t = Len(o) /\ l = Len(Join(a, Join(b, o)))
    OBVIOUS
  <2>2. p = 2 /\ s = 45 /\ t \in Nat /\ t <= Limit + 26 /\ l = p + (s + t)
    BY <1>2, <1>3, <1>4, <1>5, <1>8, <2>1, Zenon
  <2>3. l <= Limit + 100
    BY <2>2 DEF Limit
  <2>4. QED
    BY <2>1, <2>3, Zenon
<1>10. QED
  BY <1>6, <1>7, <1>8, <1>9, Zenon DEF Within

LEMMA AckSent ==
    ASSUME NEW x, x.seq \in Word2, Output(x) \in Bytes, NEW n \in Word4, IsUIN(x.source)
    PROVE  MessageACK(x, n) = MsgBody(Cookie(n), 2, UINtoString(x.source), AckRest(x.seq, Output(x)))
<1> DEFINE c == Cookie(n)
           a == BE(2, 2)
           name == ByteString(UINtoString(x.source))
           b == BE(3, 2)
           s == Subsections(x.seq)
           o == Output(x)
<1>1. 2 \in Word2 /\ 3 \in Word2
  BY SMT DEF Word2
<1>2. c \in Bytes /\ a \in Bytes /\ name \in Bytes /\ b \in Bytes /\ s \in Bytes /\ o \in Bytes
  BY <1>1, Written, NameIs, CookieIs, SubsectionsAre DEF IsCookie
<1>3. MessageACK(x, n) = Join(Join(Join(Join(Join(c, a), name), b), s), o)
  BY Zenon DEF MessageACK, Join
<1>4. MsgBody(c, 2, UINtoString(x.source), AckRest(x.seq, o)) = Join(c, Join(a, Join(name, Join(b, Join(s, o)))))
  BY Zenon DEF MsgBody, AckRest
<1> HIDE DEF c, a, name, b, s, o
<1>5. Join(Join(Join(Join(Join(c, a), name), b), s), o) = Join(c, Join(a, Join(name, Join(b, Join(s, o)))))
  BY <1>2, Flat5
<1>6. QED
  BY <1>3, <1>4, <1>5, Zenon DEF c, o

\* The server puts another name into it.
Renamed(body, u) ==
    LET r == Read(Reader(body), <<Str(10), ByteStr>>)
    IN  r.v[1] \o ByteString(UINtoString(u)) \o SubSeq(body, r.pos + 1, Len(body))

LEMMA AckRelayed ==
    ASSUME NEW c, IsCookie(c), NEW u, IsUIN(u), NEW rest \in Bytes, NEW w, IsUIN(w), NEW body,
           body = MsgBody(c, 2, UINtoString(u), rest)
    PROVE  Renamed(body, w) = MsgBody(c, 2, UINtoString(w), rest)
<1> DEFINE r == Read(Reader(body), <<Str(10), ByteStr>>)
           s == UINtoString(u)
           a == BE(2, 2)
           h == Join(c, a)
           name == ByteString(UINtoString(w))
<1>1. 2 \in Word2
  BY SMT DEF Word2
<1>2. body \in Bytes
  BY <1>1, BodiesAre
<1>3. s \in Bytes /\ Len(s) < 256 /\ ByteString(s) \in Bytes /\ name \in Bytes
  BY NameIs
<1>4. a \in Bytes /\ Len(a) = 2 /\ c \in Bytes /\ Len(c) = 8
  BY <1>1, Integers2 DEF IsCookie
<1>5. body = Join(c, Join(a, Join(ByteString(s), rest)))
  BY Zenon DEF MsgBody
<1>6. MsgBody(c, 2, UINtoString(w), rest) = Join(c, Join(a, Join(name, rest)))
  BY Zenon DEF MsgBody
<1>7. h \in Bytes /\ Len(h) = 10
  <2> HIDE DEF a
  <2>1. a \in Bytes /\ c \in Bytes
    BY <1>4
  <2>2. Join(c, a) \in Bytes /\ Len(Join(c, a)) = Len(c) + Len(a)
    BY <2>1, JoinTwo
  <2>3. QED
    BY <1>4, <2>2
<1> HIDE DEF a, s, name
<1>8. Join(ByteString(s), rest) \in Bytes /\ Join(name, rest) \in Bytes
  BY <1>3, Written
<1>9. /\ Join(c, Join(a, Join(ByteString(s), rest))) = Join(h, Join(ByteString(s), rest))
      /\ Join(c, Join(a, Join(name, rest))) = Join(h, Join(name, rest))
  BY <1>4, <1>8, JoinAssoc
<1> HIDE DEF h
<1>10. PICK k : k = 10 /\ Len(h) = k /\ h \in Bytes
  BY <1>7
<1>11. At(Reader(body), body, "big", <<>>, NoSubtype, Join(h, Join(ByteString(s), rest)))
  <2>1. At(Reader(body), body, "big", <<>>, NoSubtype, body)
    BY <1>2, AtStart
  <2>2. QED
    BY <1>5, <1>9, <2>1, Zenon
<1>12. At(Read(Reader(body), <<Str(k), ByteStr>>), body, "big", <<h, s>>, NoSubtype, rest)
  BY <1>3, <1>10, <1>11, ReadsAckSent
<1>13. At(r, body, "big", <<h, s>>, NoSubtype, rest)
  BY <1>10, <1>12
<1> HIDE DEF r
<1>14. r.v = <<h, s>> /\ Rest(body, r.pos) = rest
  BY <1>13, Seen
<1>15. r.v[1] = h /\ SubSeq(body, r.pos + 1, Len(body)) = rest
  BY <1>14 DEF Rest
<1>16. Renamed(body, w) = Join(Join(r.v[1], name), SubSeq(body, r.pos + 1, Len(body)))
  BY Zenon DEF Renamed, Join, r, name
<1>17. Join(Join(h, name), rest) = Join(h, Join(name, rest))
  BY <1>3, <1>10, JoinAssoc
<1>18. QED
  BY <1>6, <1>9, <1>15, <1>16, <1>17, Zenon

\* An acknowledgement arrives as it was sent.
AckArrived(f, n, ist) ==
    /\ IsFrame(f)
    /\ ParseMessageACK(ParseSNAC(f).r) = [cookie |-> n, ist |-> ist]

\* The head of an acknowledgement, up to the two subsections.
LEMMA AckHead ==
    ASSUME NEW r, NEW d, NEW v, NEW n \in Word4, NEW u, IsUIN(u), NEW q \in Word2, NEW o \in Bytes,
           At(r, d, "big", v, NoSubtype, MsgBody(Cookie(n), 2, UINtoString(u), AckRest(q, o)))
    PROVE  LET h == Read(r, <<U32, Skip(4), U16, ByteStr, Skip(2), Little, U16>>)
           IN  /\ At(h, d, "little", h.v, NoSubtype,
                     Join(Preamble, Join(LE(q, 2), Join(LE(14, 2), Join(LE(q, 2), Join(Zeros(12), o))))))
               /\ h.v[1] = n /\ h.v[3] = UINtoString(u) /\ h.v[4] = 27
<1> DEFINE h == Read(r, <<U32, Skip(4), U16, ByteStr, Skip(2), Little, U16>>)
           s == UINtoString(u)
           a == BE(n, 4)
           b == Zeros(4)
           z == Join(Preamble, Join(LE(q, 2), Join(LE(14, 2), Join(LE(q, 2), Join(Zeros(12), o)))))
<1>1. PICK i, j, k, l : i = 4 /\ j = 2 /\ j \in Word2 /\ k = 3 /\ k \in Word2 /\ l = 27 /\ l \in Word2
  BY SMT DEF Word2
<1>2. b \in Bytes /\ Len(b) = i
  BY <1>1, Zeroes
<1>3. s \in Bytes /\ Len(s) < 256 /\ ByteString(s) \in Bytes
  BY NameIs
<1>4. a \in Bytes /\ Cookie(n) = Join(a, b)
  BY CookieIs
<1>5. BE(k, 2) \in Bytes /\ Len(BE(k, 2)) = j /\ BE(j, 2) \in Bytes
  BY <1>1, Integers2
<1>6. Join(Subsections(q), o) = Join(LE(l, 2), z)
  BY <1>1, SubsectionsAre
<1>7. z \in Bytes
  <2>1. 14 \in Word2
    BY SMT DEF Word2
  <2>2. QED
    BY <2>1, PreambleIs, Zeroes, Written
<1> HIDE DEF z
<1>8. LE(l, 2) \in Bytes
  BY <1>1, Written
<1>9. MsgBody(Cookie(n), 2, s, AckRest(q, o)) =
          Join(a, Join(b, Join(BE(j, 2), Join(ByteString(s), Join(BE(k, 2), Join(LE(l, 2), z))))))
  <2>1. MsgBody(Cookie(n), 2, s, AckRest(q, o)) =
            Join(Join(a, b), Join(BE(j, 2), Join(ByteString(s), Join(BE(k, 2), Join(LE(l, 2), z)))))
    BY <1>1, <1>4, <1>6, Zenon DEF MsgBody, AckRest
  <2>2. Join(BE(j, 2), Join(ByteString(s), Join(BE(k, 2), Join(LE(l, 2), z)))) \in Bytes
    BY <1>3, <1>5, <1>7, <1>8, Written
  <2> HIDE DEF a, b, s
  <2>3. QED
    BY <1>2, <1>4, <2>1, <2>2, JoinAssoc
<1> HIDE DEF s
<1>10. At(r, d, "big", v, NoSubtype,
          Join(a, Join(b, Join(BE(j, 2), Join(ByteString(s), Join(BE(k, 2), Join(LE(l, 2), z)))))))
  BY <1>9, Zenon DEF s
<1>11. At(Read(r, <<U32, Skip(i), U16, ByteStr, Skip(j), Little, U16>>), d, "little", <<n, j, s, l>>, NoSubtype, z)
  BY <1>1, <1>2, <1>3, <1>5, <1>7, <1>10, ReadsAck, ZenonT(60)
<1>12. At(h, d, "little", <<n, j, s, l>>, NoSubtype, z)
  BY <1>1, <1>11
<1> HIDE DEF h
<1>13. h.v = <<n, j, s, l>>
  BY <1>12, Seen
<1>14. h.v[1] = n /\ h.v[3] = s /\ h.v[4] = l
  BY <1>13
<1>15. At(h, d, "little", h.v, NoSubtype, z)
  BY <1>12, <1>13
<1>16. QED
  BY <1>1, <1>14, <1>15, Zenon DEF h, s, z

\* The subsections, and what is behind them.
LEMMA AckSections ==
    ASSUME NEW h, NEW d, NEW v, NEW q \in Word2, NEW o \in Bytes,
           At(h, d, "little", v, NoSubtype,
              Join(Preamble, Join(LE(q, 2), Join(LE(14, 2), Join(LE(q, 2), Join(Zeros(12), o))))))
    PROVE  LET g == Read(After(h, 27), <<U16, U16>>)
           IN  g.v[1] = 14 /\ g.v[2] = q /\ \E w : At(After(g, 12), d, "little", w, NoSubtype, o)
<1> DEFINE p == Join(Preamble, LE(q, 2))
           y == Join(LE(14, 2), Join(LE(q, 2), Join(Zeros(12), o)))
           z == Zeros(12)
           k == After(h, 27)
           g == Read(k, <<U16, U16>>)
<1>1. PICK t : t = 14 /\ t \in Word2
  BY SMT DEF Word2
<1>2. Preamble \in Bytes /\ Len(Preamble) = 25 /\ LE(q, 2) \in Bytes /\ Len(LE(q, 2)) = 2
  BY PreambleIs, Integers2
<1>3. z \in Bytes /\ Len(z) = 12
  BY Zeroes
<1>4. y \in Bytes /\ Join(z, o) \in Bytes
  BY <1>1, <1>2, <1>3, Written
<1>5. p \in Bytes /\ Len(p) = 27
  <2> DEFINE e == LE(q, 2)
  <2>1. Preamble \in Bytes /\ e \in Bytes
    BY <1>2
  <2>2. Len(Preamble) = 25 /\ Len(e) = 2
    BY <1>2
  <2> HIDE DEF e
  <2>3. Join(Preamble, e) \in Bytes /\ Len(Join(Preamble, e)) = Len(Preamble) + Len(e)
    BY <2>1, JoinTwo
  <2>4. Len(Preamble) + Len(e) = 27
    BY <2>2
  <2>5. QED
    BY <2>3, <2>4, Zenon DEF e
<1>6. Join(Preamble, Join(LE(q, 2), y)) = Join(p, y)
  <2> HIDE DEF y
  <2>1. QED
    BY <1>2, <1>4, JoinAssoc
<1>7. At(h, d, "little", v, NoSubtype, Join(p, y))
  BY <1>6
<1> HIDE DEF p, y, z
<1>8. Passes(h, d, "little", v, NoSubtype, p, y)
  BY <1>4, <1>5, <1>7, Moved
<1>9. At(After(h, Len(p)), d, "little", v, NoSubtype, y)
  BY <1>8 DEF Passes
<1>10. At(k, d, "little", v, NoSubtype, Join(LE(t, 2), Join(LE(q, 2), Join(z, o))))
  BY <1>1, <1>5, <1>9, Zenon DEF y, z
<1> HIDE DEF k
<1>11. At(g, d, "little", <<t, q>>, NoSubtype, Join(z, o))
  BY <1>1, <1>4, <1>10, ReadsTwo
<1> HIDE DEF g
<1>12. g.v = <<t, q>>
  BY <1>11, Seen
<1>13. g.v[1] = t /\ g.v[2] = q
  BY <1>12
<1>14. Passes(g, d, "little", <<t, q>>, NoSubtype, z, o)
  BY <1>3, <1>11, Moved
<1>15. At(After(g, Len(z)), d, "little", <<t, q>>, NoSubtype, o)
  BY <1>14 DEF Passes
<1>16. At(After(g, 12), d, "little", <<t, q>>, NoSubtype, o)
  BY <1>3, <1>15, Zenon
<1>17. QED
  BY <1>1, <1>13, <1>16, Zenon DEF g, k

LEMMA AckParsed ==
    ASSUME NEW r, NEW d, NEW v, NEW n \in Word4, NEW u, IsUIN(u), NEW q \in Word2, NEW o \in Bytes,
           At(r, d, "big", v, NoSubtype, MsgBody(Cookie(n), 2, UINtoString(u), AckRest(q, o))),
           NEW j, HoldsAnswer(o, j), j # NoSubtype
    PROVE  ParseMessageACK(r) = [cookie |-> n, ist |-> From(WithSeq(j, q), u)]
<1> DEFINE h == Read(r, <<U32, Skip(4), U16, ByteStr, Skip(2), Little, U16>>)
           g == Read(After(h, 27), <<U16, U16>>)
           x == Join(Preamble, Join(LE(q, 2), Join(LE(14, 2), Join(LE(q, 2), Join(Zeros(12), o)))))
           body == ParseICQSubType(After(g, 12), TRUE, TRUE)
<1>1. At(h, d, "little", h.v, NoSubtype, x) /\ h.v[1] = n /\ h.v[3] = UINtoString(u) /\ h.v[4] = 27
  BY AckHead
<1>2. g.v[1] = 14 /\ g.v[2] = q /\ \E w : At(After(g, 12), d, "little", w, NoSubtype, o)
  <2> HIDE DEF h
  <2>1. QED
    BY <1>1, AckSections
<1>3. PICK w : At(After(g, 12), d, "little", w, NoSubtype, o)
  BY <1>2
<1>4. PICK w1 : At(body, d, "little", w1, j, <<>>)
  <2> HIDE DEF g, h
  <2>1. Join(o, <<>>) = o /\ <<>> \in Bytes
    BY JoinIs, NoBytes
  <2>2. At(After(g, 12), d, "little", w, NoSubtype, Join(o, <<>>))
    BY <1>3, <2>1
  <2>3. QED
    BY <2>1, <2>2, Zenon DEF HoldsAnswer, Holds
<1>5. ParseMessageACK(r) =
          [cookie |-> h.v[1],
           ist |-> [Numbered(ParseICQSubType(After(g, g.v[1] - 2), TRUE, TRUE), g.v[2])
                       EXCEPT !.ist = From(@, StringtoUIN(h.v[3]))].ist]
  <2>1. After(h, h.v[4]) = After(h, 27)
    BY <1>1, Zenon
  <2>2. QED
    BY <2>1, Zenon DEF ParseMessageACK
<1> HIDE DEF h, g, x
<1>6. g.v[1] - 2 = 12
  BY <1>2
<1>7. ParseICQSubType(After(g, g.v[1] - 2), TRUE, TRUE) = body
  BY <1>6, Zenon
<1> HIDE DEF body
<1> DEFINE m == Numbered(body, q)
<1>8. At(m, d, "little", w1, WithSeq(j, q), <<>>)
  BY <1>4, NumberedIs
<1>9. m.ist = WithSeq(j, q) /\ m = Rd(d, m.pos, "little", w1, m.ist)
  <2> HIDE DEF m
  <2>1. m.ist = WithSeq(j, q) /\ m = Rd(d, m.pos, "little", w1, WithSeq(j, q))
    BY <1>8, Seen
  <2>2. QED
    BY <2>1, Zenon
<1>10. StringtoUIN(UINtoString(u)) = u
  BY UINs DEF IsUIN
<1>11. ParseMessageACK(r) = [cookie |-> n, ist |-> [m EXCEPT !.ist = From(@, u)].ist]
  BY <1>1, <1>2, <1>5, <1>7, <1>10, Zenon
<1> HIDE DEF m
<1>12. [m EXCEPT !.ist = From(@, u)].ist = From(m.ist, u)
  <2>1. PICK p : m = Rd(d, p, "little", w1, m.ist)
    BY <1>9
  <2> DEFINE s == From(m.ist, u)
             k == m.ist
  <2>2. m = Rd(d, p, "little", w1, k)
    BY <2>1
  <2> HIDE DEF s, k
  <2>3. [m EXCEPT !.ist = s].ist = s
    BY <2>2 DEF Rd
  <2>4. QED
    BY <2>3, Zenon DEF s
<1>13. QED
  BY <1>9, <1>11, <1>12, Zenon

LEMMA AckArrives ==
    ASSUME NEW n \in Word4, NEW u, IsUIN(u), NEW q \in Word2, NEW o, Within(o, 26), NEW j, HoldsAnswer(o, j), j # NoSubtype,
           NEW f, f = FLAP(4, 11, MsgBody(Cookie(n), 2, UINtoString(u), AckRest(q, o)))
    PROVE  AckArrived(f, n, From(WithSeq(j, q), u))
<1> DEFINE rest == AckRest(q, o)
           body == MsgBody(Cookie(n), 2, UINtoString(u), rest)
<1>1. 4 \in Word2 /\ 11 \in Word2 /\ 2 \in Word2
  BY SMT DEF Word2
<1>2. rest \in Bytes /\ Within(rest, 100) /\ o \in Bytes
  BY AckRestIs
<1>3. Len(rest) <= Limit + 100
  BY <1>2 DEF Within
<1> HIDE DEF rest
<1>4. body \in Bytes /\ Len(body) <= Len(rest) + 13
  BY <1>1, <1>2, CookieIs, BodiesAre
<1>5. f = FLAP(4, 11, body)
  BY DEF body, rest
<1> HIDE DEF body
<1>6. Len(body) + 10 \in Word2
  <2>1. Len(body) \in Nat /\ Len(rest) \in Nat
    BY <1>2, <1>4, BytesType
  <2>2. PICK p, t : p = Len(body) /\ t = Len(rest)
    OBVIOUS
  <2>3. p \in Nat /\ t \in Nat /\ p <= t + 13 /\ t <= Limit + 100
    BY <1>3, <1>4, <2>1, <2>2, Zenon
  <2>4. p + 10 \in Word2
    BY <2>3 DEF Limit, Word2
  <2>5. QED
    BY <2>2, <2>4, Zenon
<1>7. IsFrame(f) /\ Framed(f, 4, 11, body)
  BY <1>1, <1>4, <1>5, <1>6, FLAPIs
<1>8. PICK w : At(ParseSNAC(f).r, f, "big", w, NoSubtype, body)
  BY <1>7 DEF Framed
<1>9. ParseMessageACK(ParseSNAC(f).r) = [cookie |-> n, ist |-> From(WithSeq(j, q), u)]
  <2>1. At(ParseSNAC(f).r, f, "big", w, NoSubtype, MsgBody(Cookie(n), 2, UINtoString(u), AckRest(q, o)))
    BY <1>8 DEF body, rest
  <2>2. QED
    BY <1>2, <2>1, AckParsed
<1>10. QED
  BY <1>7, <1>9 DEF AckArrived

-----------------------------------------------------------------------------
(* What the server keeps of a message.                                       *)
StoredPart(from, o) ==
    LE(65, 2) \o LE(0, 2) \o LE(from, 4) \o LE(2001, 2) \o <<6, 15, 12, 30>> \o o \o LE(0, 2)

LEMMA FirstPart ==
    ASSUME NEW x \in Bytes, NEW y \in Bytes
    PROVE  SubSeq(Join(x, y), 1, Len(x)) = x
<1>1. Len(x) \in Nat /\ Join(x, y) \in Bytes /\ Len(Join(x, y)) = Len(x) + Len(y) /\ Len(y) \in Nat
  BY BytesType, JoinTwo
<1>2. \A i \in 1 .. Len(x) : Join(x, y)[i] = x[i]
  BY JoinAt
<1>3. PICK z : z = Join(x, y)
  OBVIOUS
<1>4. PICK n : n = Len(x)
  OBVIOUS
<1>5. 0 <= n /\ n <= Len(z) /\ Len(x) = n - 0 /\ \A i \in 1 .. Len(x) : z[0 + i] = x[i]
  <2>1. n \in Nat /\ Len(z) = n + Len(y) /\ Len(y) \in Nat
    BY <1>1, <1>3, <1>4
  <2>2. \A i \in 1 .. n : 0 + i = i
    BY <2>1
  <2>3. QED
    BY <1>2, <1>3, <1>4, <2>1, <2>2
<1>6. SubSeq(z, 0 + 1, n) = x
  BY <1>1, <1>3, <1>4, <1>5, IsSubSeq
<1>7. QED
  BY <1>3, <1>4, <1>6

\* The text of channel 1.
LEMMA KeptTextIs ==
    ASSUME NEW m \in Word2, NEW msg, msg \in Short, NEW rest, rest = TextRest(m, msg)
    PROVE  KeptText(rest) = msg
<1> DEFINE block == Read(Reader(rest), <<U16, Skip(2), Skip(5), U16, U16, Skip(4), Str(65535)>>)
           h == BE(m, 2)
           b == BESized(One(1))
           t == MessageText(msg)
           p == BE(0, 2)
           z == Join(msg, LastTLV)
<1>1. PICK i, j, k, l, n, q : /\ i = 2 /\ i \in Word2 /\ j = 5 /\ k = 4 /\ l = 257 /\ l \in Word2
                              /\ n = 65535 /\ n \in Nat /\ q = 1281 /\ q \in Word2
  BY SMT DEF Word2
<1>2. h \in Bytes /\ Len(h) = i /\ p \in Bytes /\ Len(p) = i /\ BE(q, 2) \in Bytes /\ Len(BE(q, 2)) = i
  <2>1. 0 \in Word2
    BY SMT DEF Word2
  <2>2. QED
    BY <1>1, <2>1, Integers2
<1>3. b \in Bytes /\ Len(b) = 3
  <2>1. 1 \in Byte
    BY DEF Byte
  <2>2. Len(One(1)) = 1
    BY <2>1, OneIs
  <2>3. Len(BESized(One(1))) = Len(One(1)) + 2 /\ BESized(One(1)) \in Bytes
    BY LastIs, Sized
  <2>4. PICK f, g : f = Len(One(1)) /\ g = Len(BESized(One(1)))
    OBVIOUS
  <2>5. f = 1 /\ g = f + 2
    BY <2>2, <2>3, <2>4, Zenon
  <2>6. g = 3
    BY <2>5
  <2>7. QED
    BY <2>3, <2>4, <2>6, Zenon
<1>4. t \in Bytes /\ Len(t) = 4 + Len(msg) /\ Len(t) \in Word2 /\ Len(msg) \in Nat /\ msg \in Bytes
  BY MessageTextIs
<1>5. t = Join(p, Join(p, msg))
  BY Zenon DEF MessageText
<1>6. rest = Join(BE(i, 2), Join(h, Join(BE(q, 2), Join(b, Join(BE(l, 2), Join(BESized(t), LastTLV))))))
  <2> DEFINE a1 == BE(2, 2)
             a2 == BE(1281, 2)
             a3 == BE(257, 2)
  <2>1. rest = Join(a1, Join(h, Join(a2, Join(b, Join(a3, Join(BESized(t), LastTLV))))))
    BY Zenon DEF TextRest, TextData
  <2>2. BE(i, 2) = a1 /\ BE(q, 2) = a2 /\ BE(l, 2) = a3
    BY <1>1
  <2> HIDE DEF h, b, t, a1, a2, a3
  <2>3. QED
    BY <2>1, <2>2, Zenon
<1> HIDE DEF h, b, t, p
<1> DEFINE e == BE(q, 2)
           x == Join(e, b)
           y == Join(p, p)
<1>7. e \in Bytes /\ Len(e) = i
  BY <1>2
<1> HIDE DEF e
<1>8. x \in Bytes /\ Len(x) = j
  <2>1. Join(e, b) \in Bytes /\ Len(Join(e, b)) = Len(e) + Len(b)
    BY <1>3, <1>7, JoinTwo
  <2>2. Len(e) + Len(b) = j
    BY <1>1, <1>3, <1>7
  <2>3. QED
    BY <2>1, <2>2, Zenon
<1>9. y \in Bytes /\ Len(y) = k
  <2>1. Join(p, p) \in Bytes /\ Len(Join(p, p)) = Len(p) + Len(p)
    BY <1>2, JoinTwo
  <2>2. Len(p) + Len(p) = k
    BY <1>1, <1>2
  <2>3. QED
    BY <2>1, <2>2, Zenon
<1>10. z \in Bytes
  BY <1>4, LastIs, Written
<1>11. Join(BESized(t), LastTLV) = Join(BE(Len(t), 2), Join(y, z))
  <2>1. Join(BESized(t), LastTLV) = Join(BE(Len(t), 2), Join(t, LastTLV))
    BY <1>4, LastIs, Sized
  <2>2. Join(Join(p, Join(p, msg)), LastTLV) = Join(p, Join(Join(p, msg), LastTLV))
    BY <1>2, <1>4, LastIs, Written, JoinAssoc
  <2>3. Join(Join(p, msg), LastTLV) = Join(p, z)
    BY <1>2, <1>4, LastIs, JoinAssoc
  <2>4. Join(y, z) = Join(p, Join(p, z))
    <3> HIDE DEF z
    <3>1. QED
      BY <1>2, <1>10, JoinAssoc
  <2>5. QED
    BY <1>5, <2>1, <2>2, <2>3, <2>4, Zenon
<1> HIDE DEF x, y, z
<1> DEFINE c == Len(t)
           s == Join(BE(l, 2), Join(BE(c, 2), Join(y, z)))
<1>12. c \in Word2 /\ BE(l, 2) \in Bytes /\ BE(c, 2) \in Bytes /\ s \in Bytes
  BY <1>1, <1>4, <1>9, <1>10, Written
<1>13. rest = Join(BE(i, 2), Join(h, Join(x, s)))
  <2>1. rest = Join(BE(i, 2), Join(h, Join(e, Join(b, s))))
    BY <1>6, <1>11, Zenon DEF e
  <2> HIDE DEF s
  <2>2. Join(e, Join(b, s)) = Join(x, s)
    BY <1>3, <1>7, <1>12, JoinAssoc DEF x
  <2>3. QED
    BY <2>1, <2>2, Zenon
<1> HIDE DEF c
<1>14. Len(z) <= n
  <2>1. Within(TextRest(m, msg), 200)
    BY TextRestIs
  <2>2. rest \in Bytes /\ Len(rest) <= Limit + 200
    BY <2>1 DEF Within
  <2>3. AllBytes(<<BE(i, 2), h, x, s>>) /\ s \in Bytes /\ BE(i, 2) \in Bytes
    BY <1>1, <1>2, <1>8, <1>12, Written DEF AllBytes
  <2>4. /\ AllBytes(<<BE(l, 2), BE(c, 2), y, z>>)
        /\ Len(s) = Len(BE(l, 2)) + (Len(BE(c, 2)) + (Len(y) + Len(z)))
    <3>1. AllBytes(<<BE(l, 2), BE(c, 2), y, z>>)
      BY <1>9, <1>10, <1>12 DEF AllBytes
    <3>2. QED
      BY <3>1, FourLong
  <2> HIDE DEF s
  <2>5. Len(rest) = Len(BE(i, 2)) + (Len(h) + (Len(x) + Len(s)))
    BY <1>13, <2>3, FourLong
  <2>6. /\ Len(BE(i, 2)) \in Nat /\ Len(h) \in Nat /\ Len(x) \in Nat /\ Len(BE(l, 2)) \in Nat /\ Len(BE(c, 2)) \in Nat
        /\ Len(y) \in Nat /\ Len(z) \in Nat
    <3>1. BE(i, 2) \in Bytes
      BY <2>3
    <3>2. QED
      BY <1>2, <1>8, <1>9, <1>10, <1>12, <3>1, BytesType
  <2>7. PICK n1, n2, n3, n4, n5, n6, n7, n8, n9 :
            /\ n1 = Len(BE(i, 2)) /\ n2 = Len(h) /\ n3 = Len(x) /\ n4 = Len(BE(l, 2)) /\ n5 = Len(BE(c, 2))
            /\ n6 = Len(y) /\ n7 = Len(z) /\ n8 = Len(s) /\ n9 = Len(rest)
    OBVIOUS
  <2>8. /\ n1 \in Nat /\ n2 \in Nat /\ n3 \in Nat /\ n4 \in Nat /\ n5 \in Nat /\ n6 \in Nat /\ n7 \in Nat
        /\ n9 = n1 + (n2 + (n3 + n8)) /\ n8 = n4 + (n5 + (n6 + n7)) /\ n9 <= Limit + 200
    BY <2>2, <2>4, <2>5, <2>6, <2>7, Zenon
  <2>9. n7 <= n
    BY <1>1, <2>8 DEF Limit
  <2>10. QED
    BY <2>7, <2>9, Zenon
<1>15. At(Reader(rest), rest, "big", <<>>, NoSubtype,
          Join(BE(i, 2), Join(h, Join(x, Join(BE(l, 2), Join(BE(c, 2), Join(y, z)))))))
  <2>1. rest \in Bytes
    BY <1>1, <1>2, <1>8, <1>12, <1>13, Written
  <2>2. At(Reader(rest), rest, "big", <<>>, NoSubtype, rest)
    BY <2>1, AtStart
  <2>3. QED
    BY <1>13, <2>2, Zenon
<1>16. At(Read(Reader(rest), <<U16, Skip(i), Skip(j), U16, U16, Skip(k), Str(n)>>), rest, "big", <<i, l, c,
          z>>, NoSubtype, <<>>)
  <2> HIDE DEF s
  <2>1. h \in Bytes /\ Len(h) = i /\ x \in Bytes /\ Len(x) = j /\ y \in Bytes /\ Len(y) = k
    BY <1>2, <1>8, <1>9
  <2>2. i \in Word2 /\ l \in Word2 /\ n \in Nat
    BY <1>1
  <2>3. c \in Word2
    BY <1>12
  <2>4. QED
    BY <1>10, <1>14, <1>15, <2>1, <2>2, <2>3, ReadsChannel1
<1>17. At(block, rest, "big", <<i, l, c, z>>, NoSubtype, <<>>)
  BY <1>1, <1>16
<1> HIDE DEF block
<1>18. block.v = <<i, l, c, z>>
  BY <1>17, Seen
<1>19. block.v[4] = z /\ block.v[3] = c
  BY <1>18
<1>20. c - 4 = Len(msg)
  BY <1>4 DEF c
<1>21. SubSeq(z, 1, Len(msg)) = msg
  BY <1>4, LastIs, FirstPart DEF z
<1>22. SubSeq(block.v[4], 1, block.v[3] - 4) = msg
  BY <1>19, <1>20, <1>21, Zenon
<1>23. QED
  BY <1>22 DEF block, KeptText

\* The subtype of channel 4.
LEMMA KeptDataIs ==
    ASSUME NEW m \in Word2, NEW s \in Word4, NEW o, Within(o, 17), m = Len(o) + 4,
           NEW rest, rest = DataRest(m, s, o, LastTLV)
    PROVE  KeptData(rest) = o
<1> DEFINE data == Read(Reader(rest), <<U16, U16, U32, Str(65535)>>)
           x == LE(s, 4)
           z == Join(o, LastTLV)
<1>1. PICK i, n : i = 5 /\ i \in Word2 /\ n = 65535 /\ n \in Nat
  BY SMT DEF Word2
<1>2. x \in Bytes /\ Len(x) = 4
  BY Integers4
<1>3. o \in Bytes /\ Len(o) <= Limit + 17 /\ Len(o) \in Nat
  BY BytesType DEF Within
<1>4. LastTLV \in Bytes /\ Len(LastTLV) = 4
  BY LastLong
<1>5. z \in Bytes /\ Len(z) = Len(o) + Len(LastTLV)
  BY <1>3, <1>4, JoinTwo
<1>6. Len(z) <= n
  <2> HIDE DEF z
  <2>1. PICK p, q, l : p = Len(o) /\ q = Len(LastTLV) /\ l = Len(z)
    OBVIOUS
  <2>2. p \in Nat /\ p <= Limit + 17 /\ q = 4 /\ l = p + q
    BY <1>3, <1>4, <1>5, <2>1, Zenon
  <2>3. l <= n
    BY <1>1, <2>2 DEF Limit
  <2>4. QED
    BY <2>1, <2>3, Zenon
<1>7. rest = Join(BE(i, 2), Join(BE(m, 2), Join(x, z)))
  <2> DEFINE a == BE(5, 2)
  <2>1. rest = Join(a, Join(BE(m, 2), Join(x, z)))
    BY Zenon DEF DataRest
  <2>2. BE(i, 2) = a
    BY <1>1
  <2> HIDE DEF a, x, z
  <2>3. QED
    BY <2>1, <2>2, Zenon
<1> HIDE DEF x, z
<1>8. At(Reader(rest), rest, "big", <<>>, NoSubtype, Join(BE(i, 2), Join(BE(m, 2), Join(x, z))))
  <2>1. rest \in Bytes
    BY <1>1, <1>2, <1>5, <1>7, Written
  <2>2. At(Reader(rest), rest, "big", <<>>, NoSubtype, rest)
    BY <2>1, AtStart
  <2>3. QED
    BY <1>7, <2>2, Zenon
<1>9. \E w : At(Read(Reader(rest), <<U16, U16, U32, Str(n)>>), rest, "big", <<i, m, w, z>>, NoSubtype, <<>>)
  <2>1. i \in Word2 /\ n \in Nat
    BY <1>1
  <2>2. QED
    BY <1>2, <1>5, <1>6, <1>8, <2>1, ReadsChannel4
<1>9a. PICK w : At(Read(Reader(rest), <<U16, U16, U32, Str(n)>>), rest, "big", <<i, m, w, z>>, NoSubtype, <<>>)
  BY <1>9
<1>10. At(data, rest, "big", <<i, m, w, z>>, NoSubtype, <<>>)
  BY <1>1, <1>9a
<1> HIDE DEF data
<1>11. data.v = <<i, m, w, z>>
  BY <1>10, Seen
<1>12. data.v[4] = z /\ data.v[2] = m
  BY <1>11
<1>13. m - 4 = Len(o)
  BY <1>3
<1>14. SubSeq(z, 1, Len(o)) = o
  BY <1>3, <1>4, FirstPart DEF z
<1>15. SubSeq(data.v[4], 1, data.v[2] - 4) = o
  BY <1>12, <1>13, <1>14, Zenon
<1>16. QED
  BY <1>15 DEF data, KeptData

LEMMA OfflineIs ==
    ASSUME NEW from, NEW rest
    PROVE  /\ Offline(from, 1, rest) = StoredPart(from, Output(Subtype(Type.Normal, <<KeptText(rest)>>)))
           /\ Offline(from, 4, rest) = StoredPart(from, KeptData(rest))
<1> DEFINE head == LE(65, 2) \o LE(0, 2) \o LE(from, 4) \o LE(2001, 2) \o <<6, 15, 12, 30>>
           end == LE(0, 2)
           text == Output(Subtype(Type.Normal, <<KeptText(rest)>>))
           kept(ch) == IF ch = 1 THEN text ELSE KeptData(rest)
<1>1. \A ch : Offline(from, ch, rest) = head \o kept(ch) \o end
  BY Zenon DEF Offline
<1>2. \A o : StoredPart(from, o) = head \o o \o end
  BY Zenon DEF StoredPart
<1>3. kept(1) = text /\ kept(4) = KeptData(rest)
  <2> HIDE DEF text
  <2>1. 4 # 1
    OBVIOUS
  <2>2. QED
    BY <2>1, Zenon
<1> HIDE DEF head, end, text, kept
<1>4. Offline(from, 1, rest) = StoredPart(from, text)
  BY <1>1, <1>2, <1>3, Zenon
<1>5. Offline(from, 4, rest) = StoredPart(from, KeptData(rest))
  BY <1>1, <1>2, <1>3, Zenon
<1>6. QED
  BY <1>4, <1>5, Zenon DEF text

\* What the server sends of the messages it keeps.
LEMMA Quad ==
    ASSUME NEW a \in Byte, NEW b \in Byte, NEW c \in Byte, NEW e \in Byte
    PROVE  <<a, b, c, e>> = Join(One(a), Join(One(b), Join(One(c), One(e))))
<1> DEFINE x == <<a, b, c, e>>
           y == Join(One(a), One(b))
           z == Join(One(c), One(e))
           w == Join(y, z)
<1>1. x \in Bytes /\ Len(x) = 4 /\ x[1] = a /\ x[2] = b /\ x[3] = c /\ x[4] = e
  BY Tuples
<1>2. y = <<a, b>> /\ z = <<c, e>>
  BY Pair
<1>3. y \in Bytes /\ z \in Bytes /\ Len(y) = 2 /\ Len(z) = 2
  BY <1>2, Tuples
<1>4. y[1] = a /\ y[2] = b /\ z[1] = c /\ z[2] = e
  BY <1>2
<1>5. One(a) \in Bytes /\ One(b) \in Bytes
  BY OneIs
<1>6. Join(One(a), Join(One(b), z)) = w
  <2> HIDE DEF z
  <2>1. QED
    BY <1>3, <1>5, JoinAssoc
<1> HIDE DEF x, y, z
<1>7. w \in Bytes /\ Len(w) = 4
  <2>1. w \in Bytes /\ Len(w) = Len(y) + Len(z)
    BY <1>3, JoinTwo
  <2> HIDE DEF w
  <2>2. QED
    BY <1>3, <2>1
<1>8. w[1] = a /\ w[2] = b /\ w[3] = c /\ w[4] = e
  <2>1. \A i \in 1 .. Len(y) : w[i] = y[i]
    BY <1>3, JoinAt
  <2>2. \A i \in 1 .. Len(z) : w[Len(y) + i] = z[i]
    BY <1>3, JoinAt
  <2> HIDE DEF w
  <2>3. QED
    BY <1>3, <1>4, <2>1, <2>2
<1> HIDE DEF w
<1>9. SubSeq(x, 0 + 1, 4) = w
  <2>1. \A i \in 1 .. Len(w) : x[0 + i] = w[i]
    <3>1. \A i \in 1 .. 4 : (i = 1 \/ i = 2 \/ i = 3 \/ i = 4) /\ 0 + i = i
      OBVIOUS
    <3>2. QED
      BY <1>1, <1>7, <1>8, <3>1
  <2>2. 0 \in Nat /\ 4 \in Nat /\ 0 <= 4 /\ 4 <= Len(x) /\ Len(w) = 4 - 0
    BY <1>1, <1>7
  <2>3. QED
    BY <1>1, <1>7, <2>1, <2>2, IsSubSeq
<1>10. SubSeq(x, 0 + 1, 4) = x
  <2>1. Rest(x, 0) = x
    BY <1>1, WholeRest
  <2>2. QED
    BY <1>1, <2>1 DEF Rest
<1>11. x = Join(One(a), Join(One(b), z))
  BY <1>6, <1>9, <1>10, Zenon
<1>12. QED
  BY <1>11 DEF x, z

LEMMA StoredIs ==
    ASSUME NEW from, IsUIN(from), NEW o, Within(o, 17)
    PROVE  /\ StoredPart(from, o) =
                  Join(LE(65, 2), Join(LE(0, 2), Join(LE(from, 4), Join(LE(2001, 2), Join(One(6), Join(One(15),
                      Join(One(12), Join(One(30), Join(o, LE(0, 2))))))))))
           /\ Within(StoredPart(from, o), 100) /\ o \in Bytes /\ from \in Word4
<1> DEFINE a == LE(65, 2)
           b == LE(0, 2)
           c == LE(from, 4)
           e == LE(2001, 2)
           f == <<6, 15, 12, 30>>
           g == One(6)
           h == One(15)
           i == One(12)
           j == One(30)
           y == Join(o, b)
<1>1. 65 \in Word2 /\ 0 \in Word2 /\ 2001 \in Word2
  BY SMT DEF Word2
<1>2. from \in Word4
  BY SMT DEF Word4, IsUIN
<1>3. a \in Bytes /\ Len(a) = 2 /\ b \in Bytes /\ Len(b) = 2 /\ e \in Bytes /\ Len(e) = 2
  BY <1>1, Integers2
<1>4. c \in Bytes /\ Len(c) = 4
  BY <1>2, Integers4
<1>5. 6 \in Byte /\ 15 \in Byte /\ 12 \in Byte /\ 30 \in Byte
  BY DEF Byte
<1>6. f \in Bytes /\ Len(f) = 4
  BY <1>5, Tuples
<1>7. f = Join(g, Join(h, Join(i, j)))
  BY <1>5, Quad
<1>8. g \in Bytes /\ h \in Bytes /\ i \in Bytes /\ j \in Bytes
  BY <1>5, OneIs
<1>9. o \in Bytes /\ Len(o) <= Limit + 17 /\ Len(o) \in Nat
  BY BytesType DEF Within
<1>10. StoredPart(from, o) = Join(Join(Join(Join(Join(Join(a, b), c), e), f), o), b)
  BY Zenon DEF StoredPart, Join
<1> HIDE DEF a, b, c, e, f, g, h, i, j
<1>11. y \in Bytes
  BY <1>3, <1>9, Written
<1> HIDE DEF y
<1>12. Join(f, y) = Join(g, Join(h, Join(i, Join(j, y))))
  <2>1. Join(i, j) \in Bytes /\ Join(h, Join(i, j)) \in Bytes
    BY <1>8, Written
  <2>2. Join(Join(g, Join(h, Join(i, j))), y) = Join(g, Join(Join(h, Join(i, j)), y))
    BY <1>8, <1>11, <2>1, JoinAssoc
  <2>3. Join(Join(h, Join(i, j)), y) = Join(h, Join(Join(i, j), y))
    BY <1>8, <1>11, <2>1, JoinAssoc
  <2>4. Join(Join(i, j), y) = Join(i, Join(j, y))
    BY <1>8, <1>11, JoinAssoc
  <2>5. QED
    BY <1>7, <2>2, <2>3, <2>4, Zenon
<1>13. Join(Join(Join(Join(Join(Join(a, b), c), e), f), o), b) = Join(a, Join(b, Join(c, Join(e, Join(f, y)))))
  BY <1>3, <1>4, <1>6, <1>9, Flat6 DEF y
<1>14. AllBytes(<<a, b, c, e, Join(f, y)>>) /\ Join(f, y) \in Bytes
  <2>1. Join(f, y) \in Bytes
    BY <1>6, <1>11, Written
  <2> DEFINE z == Join(f, y)
  <2>2. z \in Bytes
    BY <2>1
  <2> HIDE DEF z
  <2>3. AllBytes(<<a, b, c, e, z>>)
    BY <1>3, <1>4, <2>2 DEF AllBytes
  <2>4. QED
    BY <2>1, <2>3 DEF z
<1>15. /\ StoredPart(from, o) \in Bytes
       /\ Len(StoredPart(from, o)) = Len(a) + (Len(b) + (Len(c) + (Len(e) + Len(Join(f, y)))))
  BY <1>10, <1>13, <1>14, FiveLong
<1>16. Len(Join(f, y)) = Len(f) + Len(y)
  BY <1>6, <1>11, JoinTwo
<1>17. Len(y) = Len(o) + Len(b)
  BY <1>3, <1>9, JoinTwo DEF y
<1>18. Len(StoredPart(from, o)) <= Limit + 100
  <2>1. PICK n1, n2, n3, n4, n5, n6, n7, n8, n9 :
            /\ n1 = Len(a) /\ n2 = Len(b) /\ n3 = Len(c) /\ n4 = Len(e) /\ n5 = Len(f) /\ n6 = Len(y) /\ n7 = Len(o)
            /\ n8 = Len(Join(f, y)) /\ n9 = Len(StoredPart(from, o))
    OBVIOUS
  <2>2. /\ n1 = 2 /\ n2 = 2 /\ n3 = 4 /\ n4 = 2 /\ n5 = 4 /\ n6 = n7 + n2 /\ n7 \in Nat /\ n7 <= Limit + 17
        /\ n8 = n5 + n6 /\ n9 = n1 + (n2 + (n3 + (n4 + n8)))
    BY <1>3, <1>4, <1>6, <1>9, <1>15, <1>16, <1>17, <2>1, Zenon
  <2>3. n9 <= Limit + 100
    BY <2>2 DEF Limit
  <2>4. QED
    BY <2>1, <2>3, Zenon
<1>19. Within(StoredPart(from, o), 100)
  BY <1>15, <1>18, Zenon DEF Within
<1>20. StoredPart(from, o) = Join(a, Join(b, Join(c, Join(e, Join(g, Join(h, Join(i, Join(j, y))))))))
  BY <1>10, <1>12, <1>13, Zenon
<1>21. QED
  BY <1>2, <1>9, <1>19, <1>20 DEF a, b, c, e, g, h, i, j, y

LEMMA ResponseIs ==
    ASSUME NEW part, Within(part, 100)
    PROVE  /\ Within(SrvResponse(part), 200) /\ part \in Bytes
           /\ \E m \in Word2, n \in Word2 :
                  SrvResponse(part) = Join(BE(1, 2), Join(BE(m, 2), Join(LE(n, 2), Join(LE(23, 4), part))))
<1> DEFINE a == BE(1, 2)
           b == LE(23, 4)
           x == Join(b, part)
           y == LESized(x)
           z == BESized(y)
<1>1. 1 \in Word2 /\ 23 \in Word4
  BY SMT DEF Word2, Word4
<1>2. a \in Bytes /\ Len(a) = 2
  BY <1>1, Integers2
<1>3. b \in Bytes /\ Len(b) = 4
  BY <1>1, Integers4
<1>4. part \in Bytes /\ Len(part) <= Limit + 100 /\ Len(part) \in Nat
  BY BytesType DEF Within
<1>5. SrvResponse(part) = Join(a, z)
  BY Zenon DEF SrvResponse, Join, UIN
<1> HIDE DEF a, b
<1>6. x \in Bytes /\ Len(x) = Len(b) + Len(part)
  BY <1>3, <1>4, JoinTwo
<1> HIDE DEF x
<1>7. Len(x) \in Word2 /\ Len(x) + 4 <= Limit + 200 /\ Len(x) \in Nat /\ Len(x) + 2 \in Word2
  <2>1. PICK p, q, l : p = Len(b) /\ q = Len(part) /\ l = Len(x)
    OBVIOUS
  <2>2. p = 4 /\ q \in Nat /\ q <= Limit + 100 /\ l = p + q
    BY <1>3, <1>4, <1>6, <2>1, Zenon
  <2>3. l \in Word2 /\ l + 4 <= Limit + 200 /\ l \in Nat /\ l + 2 \in Word2
    BY <2>2 DEF Limit, Word2
  <2>4. QED
    BY <2>1, <2>3, Zenon
<1>8. y = Join(LE(Len(x), 2), x) /\ y \in Bytes /\ Len(y) = Len(x) + 2
  BY <1>6, <1>7, Sized
<1> HIDE DEF y
<1>9. Len(y) \in Word2
  BY <1>7, <1>8, Zenon
<1>10. z = Join(BE(Len(y), 2), y) /\ z \in Bytes /\ Len(z) = Len(y) + 2
  BY <1>8, <1>9, Sized
<1> HIDE DEF z
<1>11. Join(a, z) \in Bytes /\ Len(Join(a, z)) = Len(a) + Len(z)
  BY <1>2, <1>10, JoinTwo
<1>12. Len(Join(a, z)) <= Limit + 200
  <2>1. PICK p, q, l, k, w : p = Len(a) /\ q = Len(x) /\ l = Len(z) /\ k = Len(y) /\ w = Len(part)
    OBVIOUS
  <2>2. p = 2 /\ q \in Nat /\ k = q + 2 /\ l = k + 2 /\ w \in Nat /\ w <= Limit + 100 /\ q = 4 + w
    BY <1>2, <1>3, <1>4, <1>6, <1>7, <1>8, <1>10, <2>1, Zenon
  <2>3. p + l <= Limit + 200
    BY <2>2 DEF Limit
  <2>4. QED
    BY <1>11, <2>1, <2>3, Zenon
<1>13. SrvResponse(part) = Join(a, Join(BE(Len(y), 2), Join(LE(Len(x), 2), x)))
  BY <1>5, <1>8, <1>10, Zenon
<1>14. Within(SrvResponse(part), 200)
  BY <1>5, <1>11, <1>12, Zenon DEF Within
<1>15. SrvResponse(part) = Join(BE(1, 2), Join(BE(Len(y), 2), Join(LE(Len(x), 2), Join(LE(23, 4), part))))
  BY <1>13, Zenon DEF a, b, x
<1>16. QED
  BY <1>4, <1>7, <1>9, <1>14, <1>15

\* The head of it: a command, and 0.
LEMMA ResponseHead ==
    ASSUME NEW r, NEW d, NEW v, NEW g \in Word2, NEW x \in Bytes, NEW part, Within(part, 100),
           part = Join(LE(g, 2), Join(LE(0, 2), x)), At(r, d, "big", v, NoSubtype, SrvResponse(part))
    PROVE  LET h == Read(r, <<U16, U16, Little, U16, U32, U16, U16>>)
           IN  h.v[5] = g /\ At(h, d, "little", h.v, NoSubtype, x)
<1> DEFINE h == Read(r, <<U16, U16, Little, U16, U32, U16, U16>>)
<1>1. PICK a, e, i : a = 1 /\ a \in Word2 /\ e = 23 /\ e \in Word4 /\ i = 0 /\ i \in Word2
  BY SMT DEF Word2, Word4
<1>2. PICK m \in Word2, n \in Word2 :
          SrvResponse(part) = Join(BE(1, 2), Join(BE(m, 2), Join(LE(n, 2), Join(LE(23, 4), part))))
  BY ResponseIs
<1>3. SrvResponse(part) = Join(BE(a, 2), Join(BE(m, 2), Join(LE(n, 2), Join(LE(e, 4), Join(LE(g, 2), Join(LE(i, 2), x))))))
  <2>1. BE(a, 2) = BE(1, 2) /\ LE(e, 4) = LE(23, 4) /\ LE(i, 2) = LE(0, 2)
    BY <1>1
  <2>2. QED
    BY <1>2, <2>1, Zenon
<1>4. At(r, d, "big", v, NoSubtype,
         Join(BE(a, 2), Join(BE(m, 2), Join(LE(n, 2), Join(LE(e, 4), Join(LE(g, 2), Join(LE(i, 2), x)))))))
  BY <1>3, Zenon
<1>5. At(h, d, "little", <<a, m, n, e, g, i>>, NoSubtype, x)
  <2>1. a \in Word2 /\ e \in Word4 /\ i \in Word2
    BY <1>1
  <2>2. QED
    BY <1>4, <2>1, ReadsResponse
<1> HIDE DEF h
<1>6. h.v = <<a, m, n, e, g, i>>
  BY <1>5, Seen
<1>7. h.v[5] = g
  BY <1>6
<1>8. At(h, d, "little", h.v, NoSubtype, x)
  BY <1>5, <1>6
<1>9. QED
  BY <1>7, <1>8 DEF h

\* The frame f brings a stored message, or says that there are no more.
Stored(f, command, ist) ==
    /\ IsFrame(f) /\ ParseSNAC(f).family = 21 /\ ParseSNAC(f).subtype = 3
    /\ ParseSrvResponse(ParseSNAC(f).r) = [command |-> command, ist |-> ist]

LEMMA ResponseFramed ==
    ASSUME NEW part, Within(part, 100), NEW f, f = FLAP(21, 3, SrvResponse(part))
    PROVE  /\ IsFrame(f) /\ ParseSNAC(f).family = 21 /\ ParseSNAC(f).subtype = 3
           /\ \E w : At(ParseSNAC(f).r, f, "big", w, NoSubtype, SrvResponse(part))
<1> DEFINE body == SrvResponse(part)
<1>1. Within(body, 200)
  BY ResponseIs
<1> HIDE DEF body
<1>2. body \in Bytes /\ Len(body) <= Limit + 200
  BY <1>1 DEF Within
<1>3. Len(body) \in Nat
  BY <1>2, BytesType
<1>4. Len(body) + 10 \in Word2
  BY <1>2, <1>3 DEF Limit, Word2
<1>5. 21 \in Word2 /\ 3 \in Word2
  BY SMT DEF Word2
<1>6. f = FLAP(21, 3, body)
  BY DEF body
<1>7. IsFrame(f) /\ Framed(f, 21, 3, body)
  BY <1>2, <1>4, <1>5, <1>6, FLAPIs
<1>8. QED
  BY <1>7 DEF Framed, body

LEMMA StoredParsed ==
    ASSUME NEW r, NEW d, NEW v, NEW from, IsUIN(from), NEW o, Within(o, 17), NEW j, HoldsNormal(o, j),
           At(r, d, "big", v, NoSubtype, SrvResponse(StoredPart(from, o)))
    PROVE  ParseSrvResponse(r) = [command |-> 65, ist |-> From(j, from)]
<1> DEFINE h == Read(r, <<U16, U16, Little, U16, U32, U16, U16>>)
           g == Read(h, <<U32, U16, U8, U8, U8, U8>>)
           part == StoredPart(from, o)
           body == ParseICQSubType(g, FALSE, FALSE)
           y == Join(o, LE(0, 2))
           x == Join(LE(from, 4), Join(LE(2001, 2), Join(One(6), Join(One(15), Join(One(12), Join(One(30), y))))))
<1>1. PICK a, b, i1, i2, i3, i4 : /\ a = 65 /\ a \in Word2 /\ b = 2001 /\ b \in Word2 /\ i1 = 6 /\ i1 \in Byte
                                  /\ i2 = 15 /\ i2 \in Byte /\ i3 = 12 /\ i3 \in Byte /\ i4 = 30 /\ i4 \in Byte
  BY SMT DEF Word2, Byte
<1>2. /\ part = Join(LE(65, 2), Join(LE(0, 2), x))
      /\ Within(part, 100) /\ o \in Bytes /\ from \in Word4
  BY StoredIs
<1>3. LE(0, 2) \in Bytes
  BY Fixed
<1>4. y \in Bytes
  BY <1>2, <1>3, Written
<1> HIDE DEF y
<1>5. x = Join(LE(from, 4), Join(LE(b, 2), Join(One(i1), Join(One(i2), Join(One(i3), Join(One(i4), y))))))
  <2> DEFINE a2 == LE(2001, 2)
             o1 == One(6)
             o2 == One(15)
             o3 == One(12)
             o4 == One(30)
  <2>1. x = Join(LE(from, 4), Join(a2, Join(o1, Join(o2, Join(o3, Join(o4, y))))))
    BY Zenon DEF x
  <2>2. LE(b, 2) = a2 /\ One(i1) = o1 /\ One(i2) = o2 /\ One(i3) = o3 /\ One(i4) = o4
    BY <1>1
  <2> HIDE DEF a2, o1, o2, o3, o4, x
  <2>3. QED
    BY <2>1, <2>2, Zenon
<1> HIDE DEF x, part
<1>6. x \in Bytes
  <2>1. /\ LE(from, 4) \in Bytes /\ LE(b, 2) \in Bytes /\ One(i1) \in Bytes /\ One(i2) \in Bytes /\ One(i3) \in Bytes
        /\ One(i4) \in Bytes
    BY <1>1, <1>2, Written
  <2>2. QED
    BY <1>4, <1>5, <2>1, Written
<1>7. part = Join(LE(a, 2), Join(LE(0, 2), x))
  <2>1. LE(a, 2) = LE(65, 2)
    BY <1>1
  <2>2. QED
    BY <1>2, <2>1, Zenon
<1>8. h.v[5] = a /\ At(h, d, "little", h.v, NoSubtype, x)
  <2>1. At(r, d, "big", v, NoSubtype, SrvResponse(part))
    BY DEF part
  <2>2. a \in Word2
    BY <1>1
  <2>3. QED
    BY <1>2, <1>6, <1>7, <2>1, <2>2, ResponseHead
<1> HIDE DEF h
<1>9. At(g, d, "little", <<from, b, i1, i2, i3, i4>>, NoSubtype, y)
  <2>1. b \in Word2 /\ i1 \in Byte /\ i2 \in Byte /\ i3 \in Byte /\ i4 \in Byte
    BY <1>1
  <2>2. At(h, d, "little", h.v, NoSubtype,
           Join(LE(from, 4), Join(LE(b, 2), Join(One(i1), Join(One(i2), Join(One(i3), Join(One(i4), y)))))))
    BY <1>5, <1>8
  <2>3. QED
    BY <1>2, <1>4, <2>1, <2>2, ReadsStored
<1> HIDE DEF g
<1>10. g.v[1] = from
  <2>1. g.v = <<from, b, i1, i2, i3, i4>>
    BY <1>9, Seen
  <2>2. QED
    BY <2>1
<1>11. \E w : At(body, d, "little", w, j, LE(0, 2))
  BY <1>3, <1>9, Zenon DEF HoldsNormal, Holds, y
<1>12. body.ist = j
  <2> HIDE DEF body
  <2>1. PICK w : At(body, d, "little", w, j, LE(0, 2))
    BY <1>11
  <2>2. QED
    BY <2>1, Seen
<1>13. h.v[5] = 65
  BY <1>1, <1>8
<1>14. ParseSrvResponse(r) = [command |-> h.v[5], ist |-> IF h.v[5] # 65 THEN NoSubtype ELSE From(body.ist, g.v[1])]
  BY Zenon DEF ParseSrvResponse, h, g
<1> HIDE DEF body
<1>15. QED
  BY <1>10, <1>12, <1>13, <1>14, Zenon

LEMMA StoredArrives ==
    ASSUME NEW from, IsUIN(from), NEW o, Within(o, 17), NEW j, HoldsNormal(o, j),
           NEW f, f = FLAP(21, 3, SrvResponse(StoredPart(from, o)))
    PROVE  Stored(f, 65, From(j, from))
<1> DEFINE part == StoredPart(from, o)
<1>1. Within(part, 100)
  BY StoredIs
<1>2. f = FLAP(21, 3, SrvResponse(part))
  OBVIOUS
<1> HIDE DEF part
<1>3. /\ IsFrame(f) /\ ParseSNAC(f).family = 21 /\ ParseSNAC(f).subtype = 3
      /\ \E w : At(ParseSNAC(f).r, f, "big", w, NoSubtype, SrvResponse(part))
  BY <1>1, <1>2, ResponseFramed
<1>4. PICK w : At(ParseSNAC(f).r, f, "big", w, NoSubtype, SrvResponse(StoredPart(from, o)))
  BY <1>3 DEF part
<1>5. ParseSrvResponse(ParseSNAC(f).r) = [command |-> 65, ist |-> From(j, from)]
  BY <1>4, StoredParsed
<1>6. QED
  BY <1>3, <1>5, Zenon DEF Stored

\* What LogIn sends behind the stored messages.
EndPart == LE(66, 2) \o LE(0, 2) \o <<0>>

LEMMA EndArrives ==
    ASSUME NEW f, f = FLAP(21, 3, SrvResponse(EndPart))
    PROVE  Stored(f, 66, NoSubtype)
<1> DEFINE b == LE(0, 2)
           c == One(0)
<1>1. PICK g : g = 66 /\ g \in Word2
  BY SMT DEF Word2
<1>2. b \in Bytes /\ Len(b) = 2
  BY Fixed
<1>3. c \in Bytes /\ Len(c) = 1
  <2>1. 0 \in Byte
    BY DEF Byte
  <2>2. QED
    BY <2>1, OneIs
<1> DEFINE a == LE(g, 2)
<1>4. a \in Bytes /\ Len(a) = 2
  BY <1>1, Integers2
<1>5. EndPart = Join(Join(a, b), c)
  <2>1. EndPart = Join(Join(LE(66, 2), b), c)
    BY Zenon DEF EndPart, Join, One
  <2>2. LE(66, 2) = a
    BY <1>1
  <2> HIDE DEF a, b, c
  <2>3. QED
    BY <2>1, <2>2, Zenon
<1> HIDE DEF a, b, c
<1>6. Join(Join(a, b), c) = Join(a, Join(b, c)) /\ a \in Bytes /\ b \in Bytes /\ c \in Bytes
  BY <1>2, <1>3, <1>4, JoinAssoc
<1>7. Within(EndPart, 100)
  <2>1. Join(a, Join(b, c)) \in Bytes /\ Len(Join(a, Join(b, c))) = Len(a) + (Len(b) + Len(c))
    BY <1>6, Lens3
  <2>2. PICK p, q, l, k : p = Len(a) /\ q = Len(b) /\ l = Len(c) /\ k = Len(Join(a, Join(b, c)))
    OBVIOUS
  <2>3. p = 2 /\ q = 2 /\ l = 1 /\ k = p + (q + l)
    BY <1>2, <1>3, <1>4, <2>1, <2>2, Zenon
  <2>4. k <= Limit + 100
    BY <2>3 DEF Limit
  <2>5. QED
    BY <1>5, <1>6, <2>1, <2>2, <2>4, Zenon DEF Within
<1>8. /\ IsFrame(f) /\ ParseSNAC(f).family = 21 /\ ParseSNAC(f).subtype = 3
      /\ \E w : At(ParseSNAC(f).r, f, "big", w, NoSubtype, SrvResponse(EndPart))
  BY <1>7, ResponseFramed
<1>9. PICK w : At(ParseSNAC(f).r, f, "big", w, NoSubtype, SrvResponse(EndPart))
  BY <1>8
<1> DEFINE r == ParseSNAC(f).r
           h == Read(r, <<U16, U16, Little, U16, U32, U16, U16>>)
<1>10. EndPart = Join(LE(g, 2), Join(LE(0, 2), c))
  BY <1>5, <1>6, Zenon DEF a, b
<1>11. h.v[5] = g
  <2>1. g \in Word2
    BY <1>1
  <2>2. QED
    BY <1>3, <1>7, <1>9, <1>10, <2>1, ResponseHead
<1>12. ParseSrvResponse(r) =
           [command |-> h.v[5],
            ist |-> IF h.v[5] # 65 THEN NoSubtype
                    ELSE From(ParseICQSubType(Read(h, <<U32, U16, U8, U8, U8, U8>>), FALSE, FALSE).ist,
                              Read(h, <<U32, U16, U8, U8, U8, U8>>).v[1])]
  BY Zenon DEF ParseSrvResponse
<1>13. h.v[5] = 66 /\ 66 # 65
  BY <1>1, <1>11
<1> HIDE DEF h
<1>14. ParseSrvResponse(r) = [command |-> 66, ist |-> NoSubtype]
  BY <1>12, <1>13, Zenon
<1>15. QED
  BY <1>8, <1>14, Zenon DEF Stored, r
=============================================================================
