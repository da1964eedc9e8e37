--------------------------- MODULE DirectPeersProofs ---------------------------
(* Theorems about DirectPeers, for any events, any of them sent by the       *)
(* caller or left by earlier connections, and any versions published: also   *)
(* past the wrap of the numbers.                                             *)
EXTENDS DirectPeers, SequenceTheorems, FiniteSetTheorems, NaturalsInduction, TLAPS

-----------------------------------------------------------------------------
(* Natural numbers: the least of a set, and induction over a set of them.    *)

LEMMA LeastOf ==
    ASSUME NEW C, C \subseteq Nat, C # {}
    PROVE  \E n \in C : \A m \in C : n <= m
<1> DEFINE T == {1 .. n : n \in C}
<1>1. IsWellFoundedOn(StrictSubsetOrdering(Nat), FiniteSubsetsOf(Nat))
  BY FS_StrictSubsetOrderingWellFounded
<1>2. T \subseteq FiniteSubsetsOf(Nat)
  <2>1. \A n \in C : IsFiniteSet(1 .. n)
    <3>1. SUFFICES ASSUME NEW n \in C PROVE IsFiniteSet(1 .. n)
      OBVIOUS
    <3>2. 1 \in Int /\ n \in Int
      OBVIOUS
    <3>3. QED
      BY <3>2, FS_Interval
  <2>2. \A n \in C : 1 .. n \in SUBSET Nat
    OBVIOUS
  <2>3. QED
    BY <2>1, <2>2 DEF FiniteSubsetsOf
<1>3. T # {}
  OBVIOUS
<1> HIDE DEF T
<1>4. PICK x \in T : \A y \in T : ~ (<<y, x>> \in StrictSubsetOrdering(Nat))
  BY <1>1, <1>2, <1>3, WFMin
<1>5. PICK n \in C : x = 1 .. n
  BY <1>4 DEF T
<1>6. ASSUME NEW m \in C, ~(n <= m) PROVE FALSE
  <2>1. 1 .. m \in T /\ 1 .. m \subseteq 1 .. n /\ n \in 1 .. n /\ n \notin 1 .. m
    BY <1>6 DEF T
  <2>2. 1 .. m \in SUBSET Nat /\ 1 .. n \in SUBSET Nat
    OBVIOUS
  <2>3. <<1 .. m, 1 .. n>> \in (SUBSET Nat) \X (SUBSET Nat) /\ 1 .. m # 1 .. n
    BY <2>1, <2>2
  <2>4. <<1 .. m, 1 .. n>> \in StrictSubsetOrdering(Nat)
    BY <2>1, <2>3 DEF StrictSubsetOrdering
  <2>5. QED
    BY <1>4, <1>5, <2>1, <2>4
<1>7. QED
  BY <1>6

LEMMA SetInduction ==
    ASSUME NEW S, 0 \in S, \A n \in Nat : n \in S => n + 1 \in S
    PROVE  Nat \subseteq S
<1> DEFINE C == Nat \ S
<1>1. SUFFICES ASSUME C # {} PROVE FALSE
  OBVIOUS
<1>2. PICK n \in C : \A m \in C : n <= m
  BY <1>1, LeastOf
<1>3. n \in Nat /\ n # 0
  BY <1>2
<1>4. n - 1 \in Nat /\ n - 1 \in S /\ (n - 1) + 1 = n
  BY <1>2, <1>3
<1>5. QED
  BY <1>2, <1>4

-----------------------------------------------------------------------------
(* Sequences, their elements, and the ones that keep an event once.          *)

Distinct(q) == \A i, j \in DOMAIN q : q[i].ev = q[j].ev => i = j

LEMMA Elements ==
    ASSUME NEW X, NEW q \in Seq(X)
    PROVE  /\ Len(q) \in Nat /\ DOMAIN q = 1 .. Len(q)
           /\ \A i \in 1 .. Len(q) : q[i] \in X
           /\ ToSet(q) \subseteq X
           /\ \A x : x \in ToSet(q) <=> \E i \in 1 .. Len(q) : q[i] = x
  BY LenProperties, ElementOfSeq DEF ToSet

LEMMA ConcatElements ==
    ASSUME NEW X, NEW p \in Seq(X), NEW q \in Seq(X)
    PROVE  /\ p \o q \in Seq(X) /\ Len(p \o q) = Len(p) + Len(q)
           /\ \A i \in 1 .. Len(p) : (p \o q)[i] = p[i]
           /\ \A i \in 1 .. Len(q) : (p \o q)[Len(p) + i] = q[i]
           /\ ToSet(p \o q) = ToSet(p) \cup ToSet(q)
<1> DEFINE w == p \o q
<1>1. /\ w \in Seq(X) /\ Len(w) = Len(p) + Len(q)
      /\ \A i \in 1 .. Len(p) + Len(q) : w[i] = IF i <= Len(p) THEN p[i] ELSE q[i - Len(p)]
  BY ConcatProperties
<1>2. Len(p) \in Nat /\ Len(q) \in Nat
  BY LenProperties
<1> HIDE DEF w
<1>3. \A i \in 1 .. Len(p) : w[i] = p[i]
  BY <1>1, <1>2
<1>4. \A i \in 1 .. Len(q) : w[Len(p) + i] = q[i]
  <2>1. SUFFICES ASSUME NEW i \in 1 .. Len(q) PROVE w[Len(p) + i] = q[i]
    OBVIOUS
  <2>2. Len(p) + i \in 1 .. Len(p) + Len(q) /\ ~(Len(p) + i <= Len(p)) /\ (Len(p) + i) - Len(p) = i
    BY <1>2
  <2>3. QED
    BY <1>1, <2>2
<1>5. ToSet(w) = ToSet(p) \cup ToSet(q)
  <2>1. ASSUME NEW x, x \in ToSet(w) PROVE x \in ToSet(p) \cup ToSet(q)
    <3>1. PICK i \in 1 .. Len(p) + Len(q) : w[i] = x
      BY <1>1, <2>1, Elements
    <3>2. CASE i <= Len(p)
      BY <1>1, <1>2, <3>1, <3>2, Elements
    <3>3. CASE ~(i <= Len(p))
      <4>1. i - Len(p) \in 1 .. Len(q)
        BY <1>2, <3>3
      <4>2. QED
        BY <1>1, <3>1, <3>3, <4>1, Elements
    <3>4. QED
      BY <3>2, <3>3
  <2>2. ASSUME NEW x, x \in ToSet(p) PROVE x \in ToSet(w)
    <3>1. PICK i \in 1 .. Len(p) : p[i] = x
      BY <2>2, Elements
    <3>2. i \in 1 .. Len(w) /\ w[i] = x
      BY <1>1, <1>2, <1>3, <3>1
    <3>3. QED
      BY <1>1, <3>2, Elements
  <2>3. ASSUME NEW x, x \in ToSet(q) PROVE x \in ToSet(w)
    <3>1. PICK i \in 1 .. Len(q) : q[i] = x
      BY <2>3, Elements
    <3>2. Len(p) + i \in 1 .. Len(w) /\ w[Len(p) + i] = x
      BY <1>1, <1>2, <1>4, <3>1
    <3>3. QED
      BY <1>1, <3>2, Elements
  <2>4. QED
    BY <2>1, <2>2, <2>3
<1>6. QED
  BY <1>1, <1>3, <1>4, <1>5 DEF w

LEMMA NoElements == ToSet(<<>>) = {} /\ Len(<<>>) = 0
  BY DEF ToSet

LEMMA AppendElements ==
    ASSUME NEW X, NEW q \in Seq(X), NEW x \in X
    PROVE  /\ Append(q, x) \in Seq(X) /\ Len(Append(q, x)) = Len(q) + 1
           /\ \A i \in 1 .. Len(q) : Append(q, x)[i] = q[i]
           /\ Append(q, x)[Len(q) + 1] = x
           /\ ToSet(Append(q, x)) = ToSet(q) \cup {x}
<1> DEFINE w == Append(q, x)
<1>1. /\ w \in Seq(X) /\ Len(w) = Len(q) + 1
      /\ \A i \in 1 .. Len(q) : w[i] = q[i]
      /\ w[Len(q) + 1] = x
  BY AppendProperties
<1>2. Len(q) \in Nat
  BY LenProperties
<1> HIDE DEF w
<1>3. 1 .. Len(w) = (1 .. Len(q)) \cup {Len(q) + 1}
  BY <1>1, <1>2
<1>4. ToSet(w) = ToSet(q) \cup {x}
  BY <1>1, <1>3, Elements
<1>5. QED
  BY <1>1, <1>4 DEF w

LEMMA TailElements ==
    ASSUME NEW X, NEW q \in Seq(X), q # <<>>
    PROVE  /\ Tail(q) \in Seq(X) /\ Len(Tail(q)) = Len(q) - 1 /\ Len(q) >= 1
           /\ Head(q) = q[1] /\ Head(q) \in X
           /\ \A i \in 1 .. Len(q) - 1 : Tail(q)[i] = q[i + 1]
           /\ ToSet(q) = ToSet(Tail(q)) \cup {Head(q)}
<1> DEFINE w == Tail(q)
<1>1. Len(q) \in Nat /\ Len(q) # 0
  BY EmptySeq, LenProperties
<1>2. /\ w \in Seq(X) /\ Len(w) = Len(q) - 1 /\ Head(q) = q[1] /\ Head(q) \in X
      /\ \A i \in 1 .. Len(q) - 1 : w[i] = q[i + 1]
  BY HeadTailProperties
<1> HIDE DEF w
<1>3. ASSUME NEW x, x \in ToSet(q) PROVE x \in ToSet(w) \cup {Head(q)}
  <2>1. PICK i \in 1 .. Len(q) : q[i] = x
    BY <1>3, Elements
  <2>2. CASE i = 1
    BY <1>2, <2>1, <2>2
  <2>3. CASE i # 1
    <3>1. i - 1 \in 1 .. Len(w) /\ w[i - 1] = x
      BY <1>1, <1>2, <2>1, <2>3
    <3>2. QED
      BY <1>2, <3>1, Elements
  <2>4. QED
    BY <2>2, <2>3
<1>4. ASSUME NEW x, x \in ToSet(w) PROVE x \in ToSet(q)
  <2>1. PICK i \in 1 .. Len(w) : w[i] = x
    BY <1>2, <1>4, Elements
  <2>2. i + 1 \in 1 .. Len(q) /\ q[i + 1] = x
    BY <1>1, <1>2, <2>1
  <2>3. QED
    BY <2>2, Elements
<1>5. Head(q) \in ToSet(q)
  <2>1. 1 \in 1 .. Len(q)
    BY <1>1
  <2>2. QED
    BY <1>2, <2>1, Elements
<1>6. QED
  BY <1>1, <1>2, <1>3, <1>4, <1>5 DEF w

LEMMA RemoveAtProperties ==
    ASSUME NEW S, NEW c \in Seq(S), NEW i \in 1 .. Len(c)
    PROVE  /\ RemoveAt(c, i) \in Seq(S)
           /\ Len(RemoveAt(c, i)) = Len(c) - 1
           /\ \A j \in 1 .. Len(c) - 1 : RemoveAt(c, i)[j] = IF j < i THEN c[j] ELSE c[j + 1]
<1> DEFINE n == Len(c)
           front == SubSeq(c, 1, i - 1)
           back == SubSeq(c, i + 1, n)
<1>1. n \in Nat /\ \A j \in 1 .. n : c[j] \in S
  BY ElementOfSeq, LenProperties
<1>2. /\ front \in Seq(S) /\ Len(front) = i - 1
      /\ \A j \in 1 .. i - 1 : front[j] = c[j]
  <2>1. \A j \in 1 .. i - 1 : c[j] \in S
    BY <1>1
  <2>2. /\ front \in Seq(S)
        /\ Len(front) = IF 1 <= i - 1 THEN (i - 1) - 1 + 1 ELSE 0
        /\ \A j \in 1 .. (i - 1) - 1 + 1 : front[j] = c[1 + j - 1]
    BY <1>1, <2>1, SubSeqProperties
  <2>3. QED
    BY <1>1, <2>2
<1>3. /\ back \in Seq(S) /\ Len(back) = n - i
      /\ \A j \in 1 .. n - i : back[j] = c[i + j]
  <2>1. \A j \in i + 1 .. n : c[j] \in S
    BY <1>1
  <2>2. i + 1 \in Int /\ n \in Int
    BY <1>1
  <2>3. /\ back \in Seq(S)
        /\ Len(back) = IF i + 1 <= n THEN n - (i + 1) + 1 ELSE 0
        /\ \A j \in 1 .. n - (i + 1) + 1 : back[j] = c[(i + 1) + j - 1]
    BY <2>1, <2>2, SubSeqProperties
  <2>4. QED
    BY <1>1, <2>3
<1> DEFINE whole == front \o back
<1>4. /\ whole \in Seq(S) /\ Len(whole) = n - 1
      /\ \A j \in 1 .. n - 1 : whole[j] = IF j <= i - 1 THEN front[j] ELSE back[j - (i - 1)]
  <2> HIDE DEF front, back
  <2>1. /\ whole \in Seq(S) /\ Len(whole) = Len(front) + Len(back)
        /\ \A j \in 1 .. Len(front) + Len(back) :
             whole[j] = IF j <= Len(front) THEN front[j] ELSE back[j - Len(front)]
    BY <1>2, <1>3, ConcatProperties
  <2> HIDE DEF whole
  <2>2. QED
    BY <1>1, <1>2, <1>3, <2>1
<1>5. RemoveAt(c, i) = whole
  BY DEF RemoveAt
<1>6. ASSUME NEW j \in 1 .. n - 1
      PROVE  whole[j] = IF j < i THEN c[j] ELSE c[j + 1]
  <2> HIDE DEF front, back, whole
  <2>1. CASE j < i
    BY <1>1, <1>2, <1>4, <2>1
  <2>2. CASE ~(j < i)
    <3>1. j - (i - 1) \in 1 .. n - i /\ ~(j <= i - 1)
      BY <1>1, <2>2
    <3>2. QED
      BY <1>1, <1>3, <1>4, <2>2, <3>1
  <2>3. QED
    BY <2>1, <2>2
<1>7. QED
  BY <1>4, <1>5, <1>6

-----------------------------------------------------------------------------
(* What leaves a list of entries.                                            *)

LEMMA RemoveAtElements ==
    ASSUME NEW X, NEW q \in Seq(X), NEW i \in 1 .. Len(q), Distinct(q)
    PROVE  /\ RemoveAt(q, i) \in Seq(X) /\ Distinct(RemoveAt(q, i))
           /\ ToSet(RemoveAt(q, i)) = {x \in ToSet(q) : x.ev # q[i].ev}
<1> DEFINE w == RemoveAt(q, i)
           n == Len(q)
<1>1. /\ w \in Seq(X) /\ Len(w) = n - 1
      /\ \A j \in 1 .. n - 1 : w[j] = IF j < i THEN q[j] ELSE q[j + 1]
  BY RemoveAtProperties
<1>2. n \in Nat /\ DOMAIN q = 1 .. n
  BY Elements
<1>3. DOMAIN w = 1 .. n - 1
  BY <1>1, Elements
<1> HIDE DEF w, n
<1>4. \A j \in 1 .. n - 1 : \E k \in 1 .. n : k # i /\ w[j] = q[k] /\ k = IF j < i THEN j ELSE j + 1
  BY <1>1, <1>2 DEF n
<1>5. \A k \in 1 .. n : k # i => \E j \in 1 .. n - 1 : w[j] = q[k]
  <2>1. SUFFICES ASSUME NEW k \in 1 .. n, k # i PROVE \E j \in 1 .. n - 1 : w[j] = q[k]
    OBVIOUS
  <2>2. CASE k < i
    <3>1. k \in 1 .. n - 1 /\ w[k] = q[k]
      BY <1>1, <1>2, <2>2 DEF n
    <3>2. QED
      BY <3>1
  <2>3. CASE ~(k < i)
    <3>1. k - 1 \in 1 .. n - 1 /\ w[k - 1] = q[k]
      BY <1>1, <1>2, <2>1, <2>3 DEF n
    <3>2. QED
      BY <3>1
  <2>4. QED
    BY <2>2, <2>3
<1>6. Distinct(w)
  <2>1. SUFFICES ASSUME NEW a \in 1 .. n - 1, NEW b \in 1 .. n - 1, w[a].ev = w[b].ev PROVE a = b
    BY <1>3 DEF Distinct
  <2>2. PICK k \in 1 .. n : w[a] = q[k] /\ k = IF a < i THEN a ELSE a + 1
    BY <1>4
  <2>3. PICK l \in 1 .. n : w[b] = q[l] /\ l = IF b < i THEN b ELSE b + 1
    BY <1>4
  <2>4. k = l
    BY <1>2, <2>1, <2>2, <2>3 DEF Distinct
  <2>5. QED
    BY <1>2, <2>2, <2>3, <2>4 DEF n
<1>7. ASSUME NEW x, x \in ToSet(w) PROVE x \in ToSet(q) /\ x.ev # q[i].ev
  <2>1. PICK j \in 1 .. n - 1 : w[j] = x
    BY <1>3, <1>7 DEF ToSet
  <2>2. PICK k \in 1 .. n : k # i /\ w[j] = q[k]
    BY <1>4
  <2>3. q[k].ev # q[i].ev
    BY <1>2, <2>2 DEF Distinct, n
  <2>4. QED
    BY <1>2, <2>1, <2>2, <2>3 DEF ToSet
<1>8. ASSUME NEW x, x \in ToSet(q), x.ev # q[i].ev PROVE x \in ToSet(w)
  <2>1. PICK k \in 1 .. n : q[k] = x
    BY <1>2, <1>8 DEF ToSet
  <2>2. PICK j \in 1 .. n - 1 : w[j] = q[k]
    BY <1>5, <1>8, <2>1
  <2>3. QED
    BY <1>3, <2>1, <2>2 DEF ToSet
<1>9. QED
  BY <1>1, <1>6, <1>7, <1>8 DEF w

LEMMA TailDistinct ==
    ASSUME NEW X, NEW q \in Seq(X), q # <<>>, Distinct(q)
    PROVE  Distinct(Tail(q)) /\ ToSet(Tail(q)) = {x \in ToSet(q) : x.ev # Head(q).ev}
<1>1. 1 \in 1 .. Len(q) /\ Head(q) = q[1] /\ Len(q) \in Nat
  <2>1. Len(q) \in Nat /\ Len(q) >= 1 /\ Head(q) = q[1]
    BY Elements, TailElements
  <2>2. QED
    BY <2>1
<1>2. /\ RemoveAt(q, 1) \in Seq(X) /\ Len(RemoveAt(q, 1)) = Len(q) - 1
      /\ \A j \in 1 .. Len(q) - 1 : RemoveAt(q, 1)[j] = q[j + 1]
  <2>1. /\ RemoveAt(q, 1) \in Seq(X) /\ Len(RemoveAt(q, 1)) = Len(q) - 1
        /\ \A j \in 1 .. Len(q) - 1 : RemoveAt(q, 1)[j] = IF j < 1 THEN q[j] ELSE q[j + 1]
    BY <1>1, RemoveAtProperties
  <2>2. QED
    BY <1>1, <2>1
<1>3. Tail(q) \in Seq(X) /\ Len(Tail(q)) = Len(q) - 1 /\ \A j \in 1 .. Len(q) - 1 : Tail(q)[j] = q[j + 1]
  BY TailElements
<1>4. Tail(q) = RemoveAt(q, 1)
  BY <1>2, <1>3, SeqEqual
<1>5. /\ Distinct(RemoveAt(q, 1))
      /\ ToSet(RemoveAt(q, 1)) = {x \in ToSet(q) : x.ev # q[1].ev}
  BY <1>1, RemoveAtElements
<1>6. QED
  BY <1>1, <1>4, <1>5

LEMMA ConcatDistinct ==
    ASSUME NEW X, NEW p \in Seq(X), NEW q \in Seq(X), Distinct(p), Distinct(q),
           \A x \in ToSet(p), y \in ToSet(q) : x.ev # y.ev
    PROVE  Distinct(p \o q)
<1> DEFINE w == p \o q
           n == Len(p) + Len(q)
<1>1. /\ w \in Seq(X) /\ Len(w) = n
      /\ \A i \in 1 .. n : w[i] = IF i <= Len(p) THEN p[i] ELSE q[i - Len(p)]
  BY ConcatProperties
<1>2. Len(p) \in Nat /\ Len(q) \in Nat /\ DOMAIN p = 1 .. Len(p) /\ DOMAIN q = 1 .. Len(q) /\ DOMAIN w = 1 .. n
  BY <1>1, Elements
<1> HIDE DEF w
<1>3. SUFFICES ASSUME NEW i \in 1 .. n, NEW j \in 1 .. n, w[i].ev = w[j].ev PROVE i = j
  BY <1>2 DEF Distinct, w
<1>4. \A k \in 1 .. n : /\ k <= Len(p) => k \in DOMAIN p /\ w[k] = p[k] /\ w[k] \in ToSet(p)
                        /\ ~(k <= Len(p)) => k - Len(p) \in DOMAIN q /\ w[k] = q[k - Len(p)] /\ w[k] \in ToSet(q)
  <2>1. SUFFICES ASSUME NEW k \in 1 .. n
                 PROVE  /\ k <= Len(p) => k \in DOMAIN p /\ w[k] = p[k] /\ w[k] \in ToSet(p)
                        /\ ~(k <= Len(p)) => k - Len(p) \in DOMAIN q /\ w[k] = q[k - Len(p)] /\ w[k] \in ToSet(q)
    OBVIOUS
  <2>2. k <= Len(p) => k \in DOMAIN p /\ w[k] = p[k]
    BY <1>1, <1>2
  <2>3. ~(k <= Len(p)) => k - Len(p) \in DOMAIN q /\ w[k] = q[k - Len(p)]
    BY <1>1, <1>2
  <2>4. /\ \A m \in DOMAIN p : p[m] \in ToSet(p)
        /\ \A m \in DOMAIN q : q[m] \in ToSet(q)
    BY DEF ToSet
  <2>5. QED
    BY <2>2, <2>3, <2>4
<1>5. CASE i <= Len(p) /\ j <= Len(p)
  BY <1>3, <1>4, <1>5 DEF Distinct
<1>6. CASE ~(i <= Len(p)) /\ ~(j <= Len(p))
  <2>1. i - Len(p) = j - Len(p)
    BY <1>3, <1>4, <1>6 DEF Distinct
  <2>2. QED
    BY <1>2, <2>1
<1>7. CASE (i <= Len(p)) # (j <= Len(p))
  BY <1>3, <1>4, <1>7
<1>8. QED
  BY <1>5, <1>6, <1>7

\* What the recursion of Without means.
LEMMA WithoutIsKept ==
    ASSUME NEW X, NEW q \in Seq(X), NEW n
    PROVE  \E kept :
             /\ Without(q, n) = kept[Len(q)]
             /\ kept[0] = <<>>
             /\ \A i \in 1 .. Len(q) :
                  kept[i] = IF q[i].seqnum = n THEN kept[i - 1] ELSE Append(kept[i - 1], q[i])
<1> DEFINE Step(i, f) == IF i = 0 THEN <<>>
             ELSE IF q[i].seqnum = n THEN f[i - 1] ELSE Append(f[i - 1], q[i])
           N == 0 .. Len(q)
           Good(k, f) == f \in [0 .. k -> Seq(X)] /\ \A i \in 0 .. k : f[i] = Step(i, f)
           S == {k \in Nat : k <= Len(q) => \E f : Good(k, f)}
<1>1. 0 \in S
  <2>1. Good(0, [i \in 0 .. 0 |-> <<>>])
    OBVIOUS
  <2> HIDE DEF Good
  <2>2. QED
    BY <2>1
<1>2. ASSUME NEW k \in Nat, k + 1 <= Len(q), NEW f, Good(k, f)
      PROVE  \E g : Good(k + 1, g)
  <2> DEFINE new == Step(k + 1, f)
             g == [i \in 0 .. k + 1 |-> IF i <= k THEN f[i] ELSE new]
  <2>1. k \in 0 .. k /\ f[k] \in Seq(X) /\ q[k + 1] \in X
    BY <1>2
  <2>2. new \in Seq(X)
    BY <2>1
  <2>3. g \in [0 .. k + 1 -> Seq(X)]
    <3> HIDE DEF new
    <3>1. QED
      BY <1>2, <2>2
  <2>4. ASSUME NEW i \in 0 .. k PROVE g[i] = Step(i, g)
    <3>1. g[i] = f[i] /\ f[i] = Step(i, f)
      BY <1>2, <2>4
    <3>2. i # 0 => i - 1 \in 0 .. k /\ g[i - 1] = f[i - 1]
      BY <2>4
    <3> HIDE DEF g
    <3>3. QED
      BY <3>1, <3>2
  <2>5. g[k + 1] = Step(k + 1, g)
    <3>1. g[k + 1] = Step(k + 1, f)
      OBVIOUS
    <3>2. g[(k + 1) - 1] = f[(k + 1) - 1]
      OBVIOUS
    <3> HIDE DEF g
    <3>3. QED
      BY <3>1, <3>2
  <2>6. \A i \in 0 .. k + 1 : i \in 0 .. k \/ i = k + 1
    OBVIOUS
  <2> HIDE DEF g
  <2>7. \A i \in 0 .. k + 1 : g[i] = Step(i, g)
    BY <2>4, <2>5, <2>6
  <2>8. QED
    BY <2>3, <2>7
<1>3. Len(q) \in S
  <2>1. \A k \in Nat : k \in S => k + 1 \in S
    <3> HIDE DEF Good
    <3>1. QED
      BY <1>2
  <2>2. Len(q) \in Nat
    OBVIOUS
  <2> HIDE DEF S
  <2>3. QED
    BY <1>1, <2>1, <2>2, SetInduction
<1>4. PICK f : Good(Len(q), f)
  <2> HIDE DEF Good
  <2>1. QED
    BY <1>3
<1>5. f = [i \in N |-> Step(i, f)]
  BY <1>4
<1> DEFINE kept[i \in N] == Step(i, kept)
<1>6. kept = [i \in N |-> Step(i, kept)]
  <2> DEFINE Solves(g) == g = [i \in N |-> Step(i, g)]
  <2>1. Solves(f)
    BY <1>5
  <2>2. kept = CHOOSE g : Solves(g)
    BY DEF kept
  <2> HIDE DEF Solves, kept
  <2>3. Solves(kept)
    BY <2>1, <2>2, Zenon
  <2>4. QED
    BY <2>3 DEF Solves
<1>7. Without(q, n) = kept[Len(q)]
  BY DEF Without
<1> HIDE DEF kept
<1>8. \A i \in N : kept[i] = Step(i, kept)
  <2> HIDE DEF Step
  <2>1. QED
    BY <1>6
<1>9. /\ kept[0] = <<>>
      /\ \A i \in 1 .. Len(q) :
           kept[i] = IF q[i].seqnum = n THEN kept[i - 1] ELSE Append(kept[i - 1], q[i])
  BY <1>8, Elements
<1>10. QED
  BY <1>7, <1>9

\* What SendFTACK leaves: the entries with another number, each of them once.
LEMMA WithoutElements ==
    ASSUME NEW X, NEW q \in Seq(X), NEW n, Distinct(q)
    PROVE  /\ Without(q, n) \in Seq(X) /\ Distinct(Without(q, n))
           /\ ToSet(Without(q, n)) = {x \in ToSet(q) : x.seqnum # n}
<1>1. PICK kept : /\ Without(q, n) = kept[Len(q)]
                  /\ kept[0] = <<>>
                  /\ \A i \in 1 .. Len(q) :
                       kept[i] = IF q[i].seqnum = n THEN kept[i - 1] ELSE Append(kept[i - 1], q[i])
  BY WithoutIsKept
<1> DEFINE Upto(k) == {x \in X : x.seqnum # n /\ \E i \in 1 .. k : q[i] = x}
           Right(k) == kept[k] \in Seq(X) /\ Distinct(kept[k]) /\ ToSet(kept[k]) = Upto(k)
           S == {k \in Nat : k <= Len(q) => Right(k)}
<1>2. Len(q) \in Nat /\ DOMAIN q = 1 .. Len(q) /\ \A i \in 1 .. Len(q) : q[i] \in X
  BY Elements
<1>3. 0 \in S
  <2>1. <<>> \in Seq(X) /\ Distinct(<<>>) /\ ToSet(<<>>) = {}
    BY NoElements DEF Distinct
  <2>2. Upto(0) = {}
    OBVIOUS
  <2> HIDE DEF Upto
  <2>3. QED
    BY <1>1, <2>1, <2>2
<1>4. ASSUME NEW k \in Nat, k + 1 <= Len(q), Right(k) PROVE Right(k + 1)
  <2>1. k + 1 \in 1 .. Len(q) /\ (k + 1) - 1 = k /\ q[k + 1] \in X
    BY <1>2, <1>4
  <2>2. \A i : i \in 1 .. k + 1 <=> i \in 1 .. k \/ i = k + 1
    OBVIOUS
  <2>3. CASE q[k + 1].seqnum = n
    <3>1. Upto(k + 1) = Upto(k)
      BY <2>2, <2>3
    <3>2. kept[k + 1] = kept[k]
      BY <1>1, <2>1, <2>3
    <3> HIDE DEF Upto
    <3>3. QED
      BY <1>4, <3>1, <3>2
  <2>4. CASE q[k + 1].seqnum # n
    <3> DEFINE last == <<q[k + 1]>>
    <3>1. Upto(k + 1) = Upto(k) \cup {q[k + 1]}
      BY <2>1, <2>2, <2>4
    <3>2. kept[k + 1] = Append(kept[k], q[k + 1])
      BY <1>1, <2>1, <2>4
    <3>3. last \in Seq(X) /\ Distinct(last) /\ ToSet(last) = {q[k + 1]} /\ Len(last) = 1
      BY <2>1 DEF Distinct, ToSet
    <3>4. kept[k + 1] = kept[k] \o last
      BY <1>4, <2>1, <3>2, AppendIsConcat
    <3>5. \A x \in Upto(k) : x.ev # q[k + 1].ev
      <4>1. SUFFICES ASSUME NEW i \in 1 .. k PROVE q[i].ev # q[k + 1].ev
        OBVIOUS
      <4>2. i \in DOMAIN q /\ k + 1 \in DOMAIN q /\ i # k + 1
        BY <1>2, <2>1
      <4>3. QED
        BY <4>2 DEF Distinct
    <3> HIDE DEF Upto, last
    <3>6. Distinct(kept[k] \o last)
      BY <1>4, <3>3, <3>5, ConcatDistinct
    <3>7. kept[k] \o last \in Seq(X) /\ ToSet(kept[k] \o last) = Upto(k) \cup {q[k + 1]}
      BY <1>4, <3>3, ConcatElements
    <3>8. QED
      BY <3>1, <3>4, <3>6, <3>7
  <2>5. QED
    BY <2>3, <2>4
<1>5. Right(Len(q))
  <2>1. \A k \in Nat : k \in S => k + 1 \in S
    <3>1. SUFFICES ASSUME NEW k \in Nat, k \in S PROVE k + 1 \in S
      OBVIOUS
    <3> HIDE DEF Right
    <3>2. k + 1 <= Len(q) => Right(k + 1)
      BY <1>2, <1>4, <3>1
    <3>3. QED
      BY <3>2
  <2> HIDE DEF Right
  <2>2. Len(q) \in S
    <3> HIDE DEF S
    <3>1. QED
      BY <1>2, <1>3, <2>1, SetInduction
  <2>3. QED
    BY <1>2, <2>2
<1>6. Upto(Len(q)) = {x \in ToSet(q) : x.seqnum # n}
  BY <1>2 DEF ToSet
<1> HIDE DEF Upto
<1>7. QED
  BY <1>1, <1>5, <1>6

-----------------------------------------------------------------------------
(* The operators of the model.                                               *)

\* Numbers wrap at 16 bits.
LEMMA Modulo ==
    /\ \A x \in Int : Wrap(x) \in Number
    /\ \A x, y \in Int : Wrap(Wrap(x) - y) = Wrap(x - y)
  BY Z3 DEF Number, Wrap

LEMMA OtherSide ==
    /\ Other("caller") = "called" /\ Other("called") = "caller"
    /\ \A s \in Sides : /\ Other(s) \in Sides /\ Other(s) # s /\ Other(Other(s)) = s
                        /\ \A t \in Sides : t = s \/ t = Other(s)
<1>1. Other("caller") = "called"
  BY DEF Other, Sides
<1>2. Other("called") = "caller"
  BY DEF Other, Sides
<1>3. QED
  BY <1>1, <1>2 DEF Sides

LEMMA SenderSide == \A e : Sender(e) \in Sides
  BY DEF Sender, Sides

\* The first entry with a number, if there is one.
LEMMA LookupFinds ==
    ASSUME TypeOK, NEW s \in Sides, NEW n, exists(s, n)
    PROVE  /\ Lookup(s, n) \in 1 .. Len(m_msgcache[s])
           /\ m_msgcache[s][Lookup(s, n)].seqnum = n
           /\ m_msgcache[s][Lookup(s, n)] \in ToSet(m_msgcache[s])
<1>1. m_msgcache[s] \in Seq(Entry)
  BY DEF TypeOK
<1>2. /\ DOMAIN m_msgcache[s] = 1 .. Len(m_msgcache[s]) /\ Len(m_msgcache[s]) \in Nat
      /\ \A x : x \in ToSet(m_msgcache[s]) <=> \E i \in 1 .. Len(m_msgcache[s]) : m_msgcache[s][i] = x
  BY <1>1, Elements
<1>3. Entries(s, n) \subseteq Nat /\ Entries(s, n) # {}
  BY <1>2 DEF Entries, exists
<1>4. \E i \in Entries(s, n) : \A j \in Entries(s, n) : i <= j
  <2> HIDE DEF Entries
  <2>1. QED
    BY <1>3, LeastOf
<1>5. Lookup(s, n) \in Entries(s, n)
  BY <1>4 DEF Lookup
<1>6. QED
  BY <1>2, <1>5 DEF Entries

LEMMA RemovedType ==
    ASSUME TypeOK, NEW s \in Sides, NEW n, exists(s, n)
    PROVE  Removed(s, n) \in Seq(Entry)
<1>1. m_msgcache[s] \in Seq(Entry)
  BY DEF TypeOK
<1>2. Lookup(s, n) \in 1 .. Len(m_msgcache[s])
  BY LookupFinds
<1>3. QED
  BY <1>1, <1>2, RemoveAtProperties DEF Removed

\* What remove leaves, if each event has one entry.
LEMMA RemovedElements ==
    ASSUME TypeOK, NEW s \in Sides, NEW n, exists(s, n), Distinct(m_msgcache[s])
    PROVE  /\ Distinct(Removed(s, n))
           /\ ToSet(Removed(s, n)) =
                {x \in ToSet(m_msgcache[s]) : x.ev # m_msgcache[s][Lookup(s, n)].ev}
<1>1. m_msgcache[s] \in Seq(Entry)
  BY DEF TypeOK
<1>2. Lookup(s, n) \in 1 .. Len(m_msgcache[s])
  BY LookupFinds
<1>3. QED
  BY <1>1, <1>2, RemoveAtElements DEF Removed

LEMMA PacketTypes ==
    /\ \A v \in Nat : InitPacket(v) \in Packet /\ InitPacket(v).type = "INIT"
    /\ Ack \in Packet /\ Ack.type = "INIT_ACK"
    /\ \A s : Init2(s) \in Packet /\ Init2(s).type = "INIT2"
    /\ \A n \in Number, e \in Events, t \in {"START", "ACK", "CANCEL"} :
         [type |-> t, seqnum |-> n, ev |-> e] \in Packet
<1>1. \A v \in Nat : InitPacket(v) \in Packet
  BY DEF InitPacket, Packet
<1>2. Ack \in Packet
  BY DEF Ack, Packet
<1>3. \A s : Init2(s) \in Packet
  BY DEF Init2, Packet
<1>4. \A n \in Number, e \in Events, t \in {"START", "ACK", "CANCEL"} :
         [type |-> t, seqnum |-> n, ev |-> e] \in Packet
  BY DEF Packet
<1>5. QED
  BY <1>1, <1>2, <1>3, <1>4 DEF InitPacket, Ack, Init2

\* A packet of the dialogue has a number and an event.
LEMMA DialogueType ==
    ASSUME NEW p \in Packet
    PROVE  /\ p.type \in {"START", "ACK", "CANCEL"} => p.seqnum \in Number /\ p.ev \in Events
           /\ p.type = "INIT" => p.version \in Nat
  BY DEF Packet

LEMMA SendToType ==
    ASSUME NEW t \in Sides, NEW w \in [Sides -> Seq(Packet)], NEW ps \in Seq(Packet)
    PROVE  SendTo(t, w, ps) \in [Sides -> Seq(Packet)]
<1>1. w[t] \o ps \in Seq(Packet)
  BY ConcatElements
<1>2. QED
  BY <1>1 DEF SendTo

LEMMA ReceiveType ==
    ASSUME TypeOK, NEW s \in Sides, wire[s] # <<>>
    PROVE  Receive(s) \in [Sides -> Seq(Packet)] /\ Head(wire[s]) \in Packet
<1>1. wire[s] \in Seq(Packet)
  BY DEF TypeOK
<1>2. Tail(wire[s]) \in Seq(Packet) /\ Head(wire[s]) \in Packet
  BY <1>1, TailElements
<1>3. QED
  BY <1>2 DEF Receive, TypeOK

\* The numbers a list of events is sent under, and the packets.
LEMMA NumberedElements ==
    ASSUME TypeOK, NEW s \in Sides, NEW list \in Seq(Events)
    PROVE  /\ Numbered(s, list) \in Seq(Entry) /\ Len(Numbered(s, list)) = Len(list)
           /\ \A i \in 1 .. Len(list) :
                Numbered(s, list)[i] = [seqnum |-> Wrap(m_seqnum[s] - (i - 1)), ev |-> list[i]]
           /\ Starts(Numbered(s, list)) \in Seq(Packet) /\ Len(Starts(Numbered(s, list))) = Len(list)
           /\ \A i \in 1 .. Len(list) :
                Starts(Numbered(s, list))[i] =
                  [type |-> "START", seqnum |-> Wrap(m_seqnum[s] - (i - 1)), ev |-> list[i]]
<1> DEFINE n == Len(list)
           num(i) == Wrap(m_seqnum[s] - (i - 1))
           entries == Numbered(s, list)
           packets == Starts(entries)
<1>1. n \in Nat /\ DOMAIN list = 1 .. n /\ \A i \in 1 .. n : list[i] \in Events
  BY Elements
<1>2. m_seqnum[s] \in Number
  BY DEF TypeOK
<1>3. \A i \in 1 .. n : num(i) \in Number
  <2>1. SUFFICES ASSUME NEW i \in 1 .. n PROVE num(i) \in Number
    OBVIOUS
  <2>2. i \in Int
    BY <1>1
  <2>3. m_seqnum[s] \in Int
    BY <1>2 DEF Number
  <2>4. m_seqnum[s] - (i - 1) \in Int
    BY <2>2, <2>3
  <2>5. QED
    BY <2>4, Modulo
<1>4. entries = [i \in 1 .. n |-> [seqnum |-> num(i), ev |-> list[i]]]
  BY <1>1 DEF Numbered
<1> HIDE DEF num
<1>5. \A i \in 1 .. n : [seqnum |-> num(i), ev |-> list[i]] \in Entry
  BY <1>1, <1>3 DEF Entry
<1> HIDE DEF entries
<1>6. entries \in Seq(Entry) /\ Len(entries) = n /\ DOMAIN entries = 1 .. n
  <2>1. entries \in [1 .. n -> Entry]
    BY <1>4, <1>5
  <2>2. QED
    BY <1>1, <2>1, SeqDef, LenProperties
<1>7. \A i \in 1 .. n : entries[i] = [seqnum |-> num(i), ev |-> list[i]]
  BY <1>4
<1>8. packets = [i \in 1 .. n |-> [type |-> "START", seqnum |-> entries[i].seqnum, ev |-> entries[i].ev]]
  BY <1>6 DEF Starts
<1>9. \A i \in 1 .. n : entries[i].seqnum = num(i) /\ entries[i].ev = list[i]
  <2>1. SUFFICES ASSUME NEW i \in 1 .. n PROVE entries[i].seqnum = num(i) /\ entries[i].ev = list[i]
    OBVIOUS
  <2>2. entries[i] = [seqnum |-> num(i), ev |-> list[i]]
    BY <1>7
  <2>3. QED
    BY <2>2
<1> HIDE DEF packets
<1>10. \A i \in 1 .. n : packets[i] = [type |-> "START", seqnum |-> num(i), ev |-> list[i]]
  BY <1>8, <1>9
<1>11. packets \in Seq(Packet) /\ Len(packets) = n
  <2>1. \A i \in 1 .. n : [type |-> "START", seqnum |-> num(i), ev |-> list[i]] \in Packet
    BY <1>1, <1>3, PacketTypes
  <2>2. packets \in [1 .. n -> Packet]
    BY <1>8, <1>9, <2>1
  <2>3. QED
    BY <1>1, <2>2, SeqDef, LenProperties
<1>12. QED
  BY <1>6, <1>7, <1>10, <1>11 DEF entries, packets, num

\* What SendPacketEvent of each event of a list does.
LEMMA SendPacketEventsEffect ==
    ASSUME TypeOK, NEW s \in Sides, NEW list \in Seq(Events), NEW w \in [Sides -> Seq(Packet)],
           SendPacketEvents(s, list, w)
    PROVE  /\ m_seqnum' = [m_seqnum EXCEPT ![s] = Wrap(@ - Len(list))]
           /\ m_msgcache' = [m_msgcache EXCEPT ![s] = @ \o Numbered(s, list)]
           /\ wire' = SendTo(Other(s), w, Starts(Numbered(s, list)))
           /\ \A e \in Events : e \notin ToSet(list) => number'[e] = number[e]
           /\ \A e \in ToSet(list) :
                \E i \in 1 .. Len(list) : list[i] = e /\ number'[e] = Numbered(s, list)[i].seqnum
           /\ number' \in [Events -> Number \cup {-1}]
           /\ sent' = [e \in Events |-> IF e \in ToSet(list) /\ sent[e] # "withdrawn" THEN "pending" ELSE sent[e]]
<1> DEFINE entries == Numbered(s, list)
           At(e) == CHOOSE i \in DOMAIN list : list[i] = e
<1>1. /\ DOMAIN list = 1 .. Len(list)
      /\ \A x : x \in ToSet(list) <=> \E i \in 1 .. Len(list) : list[i] = x
  BY Elements
<1>2. \A i \in 1 .. Len(list) : entries[i] \in Entry
  BY NumberedElements, Elements
<1>3. number' = [e \in Events |-> IF e \in ToSet(list) THEN entries[At(e)].seqnum ELSE number[e]]
  BY DEF SendPacketEvents
<1> HIDE DEF entries
<1>4. \A e \in ToSet(list) : At(e) \in 1 .. Len(list) /\ list[At(e)] = e
  BY <1>1
<1> HIDE DEF At
<1>5. \A i \in 1 .. Len(list) : entries[i].seqnum \in Number
  BY <1>2 DEF Entry
<1>6. number \in [Events -> Number \cup {-1}]
  BY DEF TypeOK
<1>7. number' \in [Events -> Number \cup {-1}]
  BY <1>3, <1>4, <1>5, <1>6
<1>8. ToSet(list) \subseteq Events
  BY Elements
<1>9. \A e \in ToSet(list) : \E i \in 1 .. Len(list) : list[i] = e /\ number'[e] = entries[i].seqnum
  BY <1>3, <1>4, <1>8
<1>10. \A e \in Events : e \notin ToSet(list) => number'[e] = number[e]
  BY <1>3
<1>11. /\ m_seqnum' = [m_seqnum EXCEPT ![s] = Wrap(@ - Len(list))]
       /\ m_msgcache' = [m_msgcache EXCEPT ![s] = @ \o Numbered(s, list)]
       /\ wire' = SendTo(Other(s), w, Starts(Numbered(s, list)))
       /\ sent' = [e \in Events |-> IF e \in ToSet(list) /\ sent[e] # "withdrawn" THEN "pending" ELSE sent[e]]
  BY DEF SendPacketEvents
<1>12. QED
  BY <1>7, <1>9, <1>10, <1>11, Zenon DEF entries

LEMMA SendPacketEventsType ==
    ASSUME TypeOK, NEW s \in Sides, NEW list \in Seq(Events), NEW w \in [Sides -> Seq(Packet)],
           SendPacketEvents(s, list, w)
    PROVE  /\ m_seqnum' \in [Sides -> Number]
           /\ m_msgcache' \in [Sides -> Seq(Entry)]
           /\ wire' \in [Sides -> Seq(Packet)]
           /\ number' \in [Events -> Number \cup {-1}]
           /\ sent' \in [Events -> Fates]
<1>1. Len(list) \in Nat
  BY Elements
<1>2. m_seqnum[s] \in Number /\ m_msgcache[s] \in Seq(Entry)
  BY DEF TypeOK
<1>3. m_seqnum[s] - Len(list) \in Int
  BY <1>1, <1>2 DEF Number
<1>4. Wrap(m_seqnum[s] - Len(list)) \in Number
  BY <1>3, Modulo
<1>5. m_seqnum' = [m_seqnum EXCEPT ![s] = Wrap(@ - Len(list))]
  BY SendPacketEventsEffect
<1>6. m_seqnum' \in [Sides -> Number]
  BY <1>4, <1>5 DEF TypeOK
<1>7. Numbered(s, list) \in Seq(Entry) /\ Starts(Numbered(s, list)) \in Seq(Packet)
  BY NumberedElements
<1>8. m_msgcache[s] \o Numbered(s, list) \in Seq(Entry)
  BY <1>2, <1>7, ConcatElements
<1>9. m_msgcache' = [m_msgcache EXCEPT ![s] = @ \o Numbered(s, list)]
  BY SendPacketEventsEffect
<1>10. m_msgcache' \in [Sides -> Seq(Entry)]
  BY <1>8, <1>9 DEF TypeOK
<1>11. wire' = SendTo(Other(s), w, Starts(Numbered(s, list))) /\ Other(s) \in Sides
  BY SendPacketEventsEffect, OtherSide
<1>12. wire' \in [Sides -> Seq(Packet)]
  BY <1>7, <1>11, SendToType
<1>13. sent' = [e \in Events |-> IF e \in ToSet(list) /\ sent[e] # "withdrawn" THEN "pending" ELSE sent[e]]
  BY SendPacketEventsEffect
<1>14. sent' \in [Events -> Fates]
  BY <1>13 DEF TypeOK, Fates
<1>15. QED
  BY <1>6, <1>10, <1>12, <1>14, SendPacketEventsEffect

\* Side s ends: its events expire, or the cancellation that ends it settles one of them.
Ends(s) ==
    /\ m_state[s] # "NOT_CONNECTED"
    /\ \/ Destroy(s, Expired(s))
       \/ \E r \in Requests : /\ Sender(r) = s /\ sent[r] \in {"queued", "pending"}
                             /\ Destroy(s, [Expired(s) EXCEPT ![r] = "cancelled"])

\* What that does to event e: it expires if side s holds it and sends it.
Holds(s, e) == (\E i \in DOMAIN m_msgcache[s] : m_msgcache[s][i].ev = e) \/ e \in ToSet(m_msgqueue[s])
EndsFate(s, e) ==
    \/ sent'[e] = sent[e] /\ (Holds(s, e) /\ Sender(e) = s => sent'[e] = "expired")
    \/ /\ Sender(e) = s /\ sent'[e] \in {"expired", "cancelled"}
       /\ Holds(s, e) \/ sent[e] \in {"queued", "pending"}

LEMMA EndsEffect ==
    ASSUME TypeOK, NEW s \in Sides, Ends(s)
    PROVE  /\ m_state[s] # "NOT_CONNECTED" /\ \E fates : Destroy(s, fates)
           /\ sent' \in [Events -> Fates]
           /\ \A e \in Events : EndsFate(s, e)
<1> DEFINE held == {m_msgcache[s][i].ev : i \in DOMAIN m_msgcache[s]}
<1>1. \A e : e \in held \cup ToSet(m_msgqueue[s]) <=> Holds(s, e)
  BY DEF Holds
<1>2. /\ Expired(s) \in [Events -> Fates]
      /\ \A e \in Events : Expired(s)[e] = IF e \in held \cup ToSet(m_msgqueue[s]) /\ Sender(e) = s
                                          THEN "expired" ELSE sent[e]
  BY DEF Expired, TypeOK, Fates
<1> HIDE DEF held
<1>3. \A e \in Events : Expired(s)[e] = IF Holds(s, e) /\ Sender(e) = s THEN "expired" ELSE sent[e]
  BY <1>1, <1>2
<1>4. ASSUME Destroy(s, Expired(s))
      PROVE  sent' \in [Events -> Fates] /\ \A e \in Events : EndsFate(s, e)
  <2>1. sent' = Expired(s)
    BY <1>4 DEF Destroy
  <2>2. QED
    BY <1>2, <1>3, <2>1 DEF EndsFate
<1>5. ASSUME NEW r \in Requests, Sender(r) = s, sent[r] \in {"queued", "pending"},
             Destroy(s, [Expired(s) EXCEPT ![r] = "cancelled"])
      PROVE  sent' \in [Events -> Fates] /\ \A e \in Events : EndsFate(s, e)
  <2>1. sent' = [Expired(s) EXCEPT ![r] = "cancelled"] /\ r \in Events
    BY <1>5 DEF Destroy, Events
  <2>2. sent' \in [Events -> Fates]
    BY <1>2, <2>1 DEF Fates
  <2>3. sent'[r] = "cancelled" /\ \A e \in Events : e # r => sent'[e] = Expired(s)[e]
    BY <1>2, <2>1
  <2>4. EndsFate(s, r)
    BY <1>5, <2>3 DEF EndsFate
  <2>5. \A e \in Events : e # r => EndsFate(s, e)
    BY <1>3, <2>3 DEF EndsFate
  <2>6. QED
    BY <2>2, <2>4, <2>5
<1>6. \/ Destroy(s, Expired(s))
      \/ \E r \in Requests : /\ Sender(r) = s /\ sent[r] \in {"queued", "pending"}
                            /\ Destroy(s, [Expired(s) EXCEPT ![r] = "cancelled"])
  BY DEF Ends
<1>7. \E fates : Destroy(s, fates)
  BY <1>6
<1>8. sent' \in [Events -> Fates] /\ \A e \in Events : EndsFate(s, e)
  BY <1>4, <1>5, <1>6
<1>9. QED
  BY <1>7, <1>8 DEF Ends

LEMMA EndsType ==
    ASSUME TypeOK, NEW s \in Sides, Ends(s)
    PROVE  TypeOK'
<1>1. PICK fates : Destroy(s, fates)
  BY EndsEffect
<1>2. sent' \in [Events -> Fates]
  BY EndsEffect
<1>3. asked' \in [Requests -> Askings]
  BY <1>1 DEF TypeOK, Destroy, Askings
<1>4. m_state' \in [Sides -> States]
  BY <1>1 DEF TypeOK, Destroy, States
<1>5. <<>> \in Seq(Events) /\ <<>> \in Seq(Entry) /\ <<>> \in Seq(Packet)
  OBVIOUS
<1>6. /\ m_msgqueue' \in [Sides -> Seq(Events)] /\ m_msgcache' \in [Sides -> Seq(Entry)]
      /\ wire' \in [Sides -> Seq(Packet)]
  BY <1>1, <1>5 DEF TypeOK, Destroy
<1>7. QED
  BY <1>1, <1>2, <1>3, <1>4, <1>6 DEF TypeOK, Destroy

-----------------------------------------------------------------------------
(* Type correctness. An entry for each event is what Without needs to know.  *)

\* No event has two entries in one cache.
OneEntry == \A s \in Sides : Distinct(m_msgcache[s])

\* An event that waits for an answer, here or at the peer, was sent under a number.
HasNumber ==
    \A e \in Events :
        sent[e] = "pending" \/ (e \in Requests /\ asked[e] # "new") => number[e] \in Number

LEMMA TypeInit == Init => TypeOK
<1> SUFFICES ASSUME Init PROVE TypeOK
  OBVIOUS
<1>1. <<>> \in Seq(Events) /\ <<>> \in Seq(Entry) /\ <<>> \in Seq(Packet)
  OBVIOUS
<1>2. Wrap(-1) \in Number
  BY Modulo
<1>3. m_seqnum \in [Sides -> Number]
  BY <1>2 DEF Init
<1>4. /\ m_state \in [Sides -> States] /\ remote_version \in [Sides -> Nat]
      /\ number \in [Events -> Number \cup {-1}] /\ sent \in [Events -> Fates]
      /\ asked \in [Requests -> Askings] /\ undefined \in BOOLEAN
  <2>1. /\ m_state = [s \in Sides |-> "NOT_CONNECTED"] /\ remote_version = [s \in Sides |-> 0]
        /\ sent = [e \in Events |-> IF e \in Earlier THEN "expired" ELSE "new"]
        /\ asked = [e \in Requests |-> IF e \in Earlier THEN "expired" ELSE "new"]
        /\ undefined = FALSE
    BY DEF Init
  <2>2. PICK foreign \in [Earlier -> Foreign] :
               number = [e \in Events |-> IF e \in Earlier THEN foreign[e] ELSE -1]
    BY DEF Init
  <2>3. \A e \in Earlier : foreign[e] \in Number
    BY EarlierOnes
  <2>4. number \in [Events -> Number \cup {-1}]
    BY <2>2, <2>3
  <2>5. QED
    BY <2>1, <2>4 DEF States, Fates, Askings
<1>5. /\ m_msgqueue \in [Sides -> Seq(Events)] /\ m_msgcache \in [Sides -> Seq(Entry)]
      /\ wire \in [Sides -> Seq(Packet)] /\ handled \in [Sides -> Seq(Events)]
  BY <1>1 DEF Init
<1>6. QED
  BY <1>3, <1>4, <1>5 DEF TypeOK, Init

\* The packet of the dialogue that is read next.
LEMMA FirstPacket ==
    ASSUME TypeOK, NEW s \in Sides, wire[s] # <<>>
    PROVE  /\ Head(wire[s]) \in Packet /\ Head(wire[s]) \in ToSet(wire[s])
           /\ Head(wire[s]).type \in {"START", "ACK", "CANCEL"} =>
                Head(wire[s]).seqnum \in Number /\ Head(wire[s]).ev \in Events
<1>1. wire[s] \in Seq(Packet)
  BY DEF TypeOK
<1>2. Head(wire[s]) \in Packet /\ Head(wire[s]) \in ToSet(wire[s])
  BY <1>1, TailElements
<1>3. QED
  BY <1>2, DialogueType

\* The entry an acknowledge or a cancellation meets.
LEMMA FoundType ==
    ASSUME TypeOK, NEW s \in Sides, NEW n, exists(s, n)
    PROVE  m_msgcache[s][Lookup(s, n)] \in Entry /\ m_msgcache[s][Lookup(s, n)].ev \in Events
<1>1. m_msgcache[s] \in Seq(Entry)
  BY DEF TypeOK
<1>2. m_msgcache[s][Lookup(s, n)] \in Entry
  BY <1>1, LookupFinds, Elements
<1>3. QED
  BY <1>2 DEF Entry

LEMMA ConnectType ==
    ASSUME TypeOK, NEW version \in Published, Connect(version)
    PROVE  TypeOK'
<1>1. version \in Nat
  BY Versions
<1>2. m_state' \in [Sides -> States] /\ remote_version' \in [Sides -> Nat]
  BY <1>1 DEF TypeOK, Connect, States, Sides
<1>3. QED
  BY <1>2 DEF TypeOK, Connect

LEMMA FinishType ==
    ASSUME TypeOK, FinishNonBlockingConnect
    PROVE  TypeOK'
<1>1. remote_version["caller"] \in Nat
  BY DEF TypeOK, Sides
<1>2. InitPacket(remote_version["caller"]) \in Packet
  BY <1>1, PacketTypes
<1>3. <<InitPacket(remote_version["caller"])>> \in Seq(Packet)
  BY <1>2
<1>4. wire' \in [Sides -> Seq(Packet)]
  BY <1>3 DEF TypeOK, FinishNonBlockingConnect
<1>5. m_state' \in [Sides -> States]
  BY DEF TypeOK, FinishNonBlockingConnect, States, Sides
<1>6. QED
  BY <1>4, <1>5 DEF TypeOK, FinishNonBlockingConnect

LEMMA ParseInitPacketType ==
    ASSUME TypeOK, NEW s \in Sides, ParseInitPacket(s)
    PROVE  TypeOK'
<1> DEFINE p == Head(wire[s])
           version == IF s = "called" THEN p.version ELSE remote_version[s]
<1>1. p \in Packet /\ Receive(s) \in [Sides -> Seq(Packet)] /\ p.type = "INIT"
  BY FirstPacket, ReceiveType DEF ParseInitPacket, Expected
<1>2. version \in Nat
  BY <1>1, DialogueType DEF TypeOK
<1> HIDE DEF version
<1>3. <<Ack, InitPacket(version)>> \in Seq(Packet) /\ <<Ack, Init2(s)>> \in Seq(Packet)
  BY <1>2, PacketTypes
<1> DEFINE answer == IF s = "called" THEN <<Ack, InitPacket(version)>> ELSE <<Ack, Init2(s)>>
<1>4. answer \in Seq(Packet) /\ Other(s) \in Sides
  BY <1>3, OtherSide
<1>5. wire' = SendTo(Other(s), Receive(s), answer)
  BY DEF ParseInitPacket, version
<1> HIDE DEF answer
<1>6. wire' \in [Sides -> Seq(Packet)]
  BY <1>1, <1>4, <1>5, SendToType
<1>7. remote_version' \in [Sides -> Nat]
  BY <1>2 DEF TypeOK, ParseInitPacket, version
<1>8. m_state' \in [Sides -> States]
  BY DEF TypeOK, ParseInitPacket, States
<1>9. QED
  BY <1>6, <1>7, <1>8 DEF TypeOK, ParseInitPacket

LEMMA ParseInitAckType ==
    ASSUME TypeOK, NEW s \in Sides, ParseInitAck(s)
    PROVE  TypeOK'
<1>1. wire' \in [Sides -> Seq(Packet)]
  BY ReceiveType DEF ParseInitAck
<1>2. m_state' \in [Sides -> States]
  BY DEF TypeOK, ParseInitAck, States
<1>3. QED
  BY <1>1, <1>2 DEF TypeOK, ParseInitAck

LEMMA ParseInit2Type ==
    ASSUME TypeOK, NEW s \in Sides, ParseInit2(s)
    PROVE  TypeOK'
<1> DEFINE w == IF s = "called" THEN SendTo(Other(s), Receive(s), <<Init2(s)>>) ELSE Receive(s)
<1>1. Receive(s) \in [Sides -> Seq(Packet)] /\ Other(s) \in Sides
  BY ReceiveType, OtherSide DEF ParseInit2
<1>2. <<Init2(s)>> \in Seq(Packet)
  BY PacketTypes
<1>3. w \in [Sides -> Seq(Packet)]
  BY <1>1, <1>2, SendToType
<1>4. SendPacketEvents(s, m_msgqueue[s], w)
  BY DEF ParseInit2
<1> HIDE DEF w
<1>5. m_msgqueue[s] \in Seq(Events)
  BY DEF TypeOK
<1>6. /\ m_seqnum' \in [Sides -> Number] /\ m_msgcache' \in [Sides -> Seq(Entry)]
      /\ wire' \in [Sides -> Seq(Packet)] /\ number' \in [Events -> Number \cup {-1}]
      /\ sent' \in [Events -> Fates]
  BY <1>3, <1>4, <1>5, SendPacketEventsType
<1>7. m_state' \in [Sides -> States]
  BY DEF TypeOK, ParseInit2, States
<1>8. m_msgqueue' \in [Sides -> Seq(Events)]
  BY DEF TypeOK, ParseInit2
<1>9. QED
  BY <1>6, <1>7, <1>8 DEF TypeOK, ParseInit2

LEMMA SendEventType ==
    ASSUME TypeOK, NEW e \in Events, SendEvent(e)
    PROVE  TypeOK'
<1> DEFINE s == Sender(e)
<1>1. s \in Sides /\ <<e>> \in Seq(Events)
  BY SenderSide
<1> HIDE DEF s
<1>2. CASE SendPacketEvents(s, <<e>>, wire) /\ UNCHANGED m_msgqueue
  <2>1. /\ m_seqnum' \in [Sides -> Number] /\ m_msgcache' \in [Sides -> Seq(Entry)]
        /\ wire' \in [Sides -> Seq(Packet)] /\ number' \in [Events -> Number \cup {-1}]
        /\ sent' \in [Events -> Fates]
    BY <1>1, <1>2, SendPacketEventsType DEF TypeOK
  <2>2. QED
    BY <1>2, <2>1 DEF TypeOK, SendEvent, linkVars
<1>3. CASE /\ m_msgqueue' = [m_msgqueue EXCEPT ![s] = Append(@, e)]
           /\ sent' = [sent EXCEPT ![e] = "queued"]
           /\ UNCHANGED <<m_seqnum, m_msgcache, wire, number>>
  <2>1. Append(m_msgqueue[s], e) \in Seq(Events)
    BY <1>1 DEF TypeOK
  <2>2. m_msgqueue' \in [Sides -> Seq(Events)]
    BY <1>3, <2>1 DEF TypeOK
  <2>3. sent' \in [Events -> Fates]
    BY <1>3 DEF TypeOK, Fates
  <2>4. QED
    BY <1>3, <2>2, <2>3 DEF TypeOK, SendEvent, linkVars
<1>4. QED
  BY <1>2, <1>3 DEF SendEvent, s

LEMMA ParseStartType ==
    ASSUME TypeOK, NEW s \in Sides, ParseStart(s)
    PROVE  TypeOK'
<1> DEFINE p == Head(wire[s])
           ack == [type |-> "ACK", seqnum |-> p.seqnum, ev |-> p.ev]
<1>1. p.seqnum \in Number /\ p.ev \in Events /\ Receive(s) \in [Sides -> Seq(Packet)] /\ Other(s) \in Sides
  BY FirstPacket, ReceiveType, OtherSide DEF ParseStart
<1>2. ack \in Packet
  BY <1>1, PacketTypes
<1>3. [seqnum |-> p.seqnum, ev |-> p.ev] \in Entry
  BY <1>1 DEF Entry
<1> HIDE DEF ack
<1>4. /\ Append(handled[s], p.ev) \in Seq(Events) /\ <<ack>> \in Seq(Packet)
      /\ Append(m_msgcache[s], [seqnum |-> p.seqnum, ev |-> p.ev]) \in Seq(Entry)
  BY <1>1, <1>2, <1>3 DEF TypeOK
<1>5. handled' \in [Sides -> Seq(Events)]
  BY <1>4 DEF TypeOK, ParseStart
<1>6. CASE p.ev \in Requests
  <2>1. asked' \in [Requests -> Askings]
    BY <1>6 DEF TypeOK, ParseStart, Askings
  <2>2. m_msgcache' \in [Sides -> Seq(Entry)] /\ wire' \in [Sides -> Seq(Packet)]
    BY <1>1, <1>4, <1>6 DEF TypeOK, ParseStart
  <2>3. QED
    BY <1>5, <2>1, <2>2 DEF TypeOK, ParseStart, linkVars
<1>7. CASE p.ev \notin Requests
  <2>1. wire' = SendTo(Other(s), Receive(s), <<ack>>) /\ UNCHANGED <<asked, m_msgcache>>
    BY <1>7 DEF ParseStart, ack
  <2>2. wire' \in [Sides -> Seq(Packet)]
    BY <1>1, <1>4, <2>1, SendToType
  <2>3. QED
    BY <1>5, <2>1, <2>2 DEF TypeOK, ParseStart, linkVars
<1>8. QED
  BY <1>6, <1>7

LEMMA ParseAckType ==
    ASSUME TypeOK, NEW s \in Sides, ParseAck(s)
    PROVE  TypeOK'
<1> DEFINE p == Head(wire[s])
           found == m_msgcache[s][Lookup(s, p.seqnum)].ev
<1>1. wire' \in [Sides -> Seq(Packet)]
  BY ReceiveType DEF ParseAck
<1>2. CASE exists(s, p.seqnum)
  <2>1. Removed(s, p.seqnum) \in Seq(Entry) /\ found \in Events
    BY <1>2, RemovedType, FoundType
  <2>2. m_msgcache' \in [Sides -> Seq(Entry)]
    BY <1>2, <2>1 DEF TypeOK, ParseAck
  <2>3. sent' \in [Events -> Fates]
    <3>1. sent' = [sent EXCEPT ![found] = IF Sender(found) = s THEN "acked" ELSE @]
      BY <1>2 DEF ParseAck
    <3> HIDE DEF found
    <3>2. QED
      BY <2>1, <3>1 DEF TypeOK, Fates
  <2>4. undefined' \in BOOLEAN
    BY <1>2 DEF ParseAck
  <2>5. QED
    BY <1>1, <2>2, <2>3, <2>4 DEF TypeOK, ParseAck, linkVars
<1>3. CASE ~exists(s, p.seqnum)
  BY <1>1, <1>3 DEF TypeOK, ParseAck, linkVars
<1>4. QED
  BY <1>2, <1>3

LEMMA ParseCancelType ==
    ASSUME TypeOK, NEW s \in Sides, ParseCancel(s)
    PROVE  TypeOK'
<1> DEFINE p == Head(wire[s])
           found == m_msgcache[s][Lookup(s, p.seqnum)].ev
<1>1. wire' \in [Sides -> Seq(Packet)]
  BY ReceiveType DEF ParseCancel
<1>2. CASE exists(s, p.seqnum) /\ found \in Requests
  <2>1. Removed(s, p.seqnum) \in Seq(Entry) /\ found \in Events
    BY <1>2, RemovedType, FoundType
  <2>2. m_msgcache' \in [Sides -> Seq(Entry)]
    BY <1>2, <2>1 DEF TypeOK, ParseCancel
  <2>3. /\ asked' = IF Sender(found) # s THEN [asked EXCEPT ![found] = "cancelled"] ELSE asked
        /\ sent' = IF Sender(found) = s THEN [sent EXCEPT ![found] = "cancelled"] ELSE sent
    BY <1>2 DEF ParseCancel
  <2> HIDE DEF found
  <2>4. sent' \in [Events -> Fates] /\ asked' \in [Requests -> Askings]
    BY <2>1, <2>3 DEF TypeOK, Fates, Askings
  <2>5. QED
    BY <1>1, <2>2, <2>4 DEF TypeOK, ParseCancel, linkVars
<1>3. CASE ~(exists(s, p.seqnum) /\ found \in Requests)
  BY <1>1, <1>3 DEF TypeOK, ParseCancel, linkVars
<1>4. QED
  BY <1>2, <1>3

\* An answer or a cancellation that is sent, the connection being up.
Answers(r) == SendFTACK(r) /\ m_state[Other(Sender(r))] # "CONNECTING"
Cancels(r) == SendFTCancel(r) /\ m_state[Sender(r)] # "CONNECTING"

LEMMA AnswersEffect ==
    ASSUME TypeOK, HasNumber, NEW r \in Requests, Answers(r)
    PROVE  LET s == Other(Sender(r))
               ack == [type |-> "ACK", seqnum |-> number[r], ev |-> r] IN
           /\ r \in Events /\ s \in Sides /\ Other(s) = Sender(r) /\ number[r] \in Number
           /\ Usable(s) /\ m_state[s] # "CONNECTING" /\ asked[r] \in {"asked", "expired"}
           /\ Tells(s, ack) /\ ack \in Packet
           /\ asked' = [asked EXCEPT ![r] = "answered"]
           /\ m_msgcache' = [m_msgcache EXCEPT ![s] = Without(@, number[r])]
           /\ UNCHANGED <<m_seqnum, m_msgqueue, number, sent, handled, undefined>>
<1> DEFINE s == Other(Sender(r))
           ack == [type |-> "ACK", seqnum |-> number[r], ev |-> r]
<1>1. r \in Events /\ s \in Sides /\ Other(s) = Sender(r)
  BY SenderSide, OtherSide DEF Events
<1>2. /\ Usable(s) /\ m_state[s] # "CONNECTING" /\ asked[r] \in {"asked", "expired"}
      /\ Tells(s, ack)
      /\ asked' = [asked EXCEPT ![r] = "answered"]
      /\ m_msgcache' = [m_msgcache EXCEPT ![s] = Without(@, number[r])]
      /\ UNCHANGED <<m_seqnum, m_msgqueue, number, sent, handled, undefined>>
  BY Zenon DEF Answers, SendFTACK
<1>3. number[r] \in Number
  BY <1>1, <1>2 DEF HasNumber
<1>4. ack \in Packet
  BY <1>1, <1>3, PacketTypes
<1>5. QED
  BY <1>1, <1>2, <1>3, <1>4, Zenon

LEMMA CancelsEffect ==
    ASSUME TypeOK, HasNumber, NEW r \in Requests, Cancels(r)
    PROVE  LET s == Sender(r) IN
           /\ r \in Events /\ s \in Sides /\ Other(s) \in Sides
           /\ Usable(s) /\ m_state[s] # "CONNECTING" /\ sent[r] \in {"queued", "pending"}
           /\ \E n \in Number :
                /\ sent[r] = "pending" => n = number[r]
                /\ Tells(s, [type |-> "CANCEL", seqnum |-> n, ev |-> r])
                /\ [type |-> "CANCEL", seqnum |-> n, ev |-> r] \in Packet
                /\ m_msgcache' = [m_msgcache EXCEPT ![s] = IF exists(s, n) THEN Removed(s, n) ELSE @]
           /\ sent' = [sent EXCEPT ![r] = IF @ = "queued" THEN "withdrawn" ELSE "cancelled"]
           /\ UNCHANGED <<m_seqnum, m_msgqueue, number, asked, handled, undefined>>
<1> DEFINE s == Sender(r)
<1>1. r \in Events /\ s \in Sides /\ Other(s) \in Sides
  BY SenderSide, OtherSide DEF Events
<1>2. /\ Usable(s) /\ m_state[s] # "CONNECTING" /\ sent[r] \in {"queued", "pending"}
      /\ sent' = [sent EXCEPT ![r] = IF @ = "queued" THEN "withdrawn" ELSE "cancelled"]
      /\ UNCHANGED <<m_seqnum, m_msgqueue, number, asked, handled, undefined>>
  BY Zenon DEF Cancels, SendFTCancel
<1>3. PICK n \in IF sent[r] = "queued" THEN Foreign ELSE {number[r]} :
             /\ Tells(s, [type |-> "CANCEL", seqnum |-> n, ev |-> r])
             /\ m_msgcache' = [m_msgcache EXCEPT ![s] = IF exists(s, n) THEN Removed(s, n) ELSE @]
  BY Zenon DEF Cancels, SendFTCancel
<1>4. sent[r] = "pending" => n = number[r] /\ number[r] \in Number
  BY <1>1, <1>3 DEF HasNumber
<1>5. sent[r] = "queued" => n \in Foreign
  BY <1>3
<1>6. n \in Number
  BY <1>2, <1>4, <1>5, EarlierOnes
<1>7. [type |-> "CANCEL", seqnum |-> n, ev |-> r] \in Packet
  BY <1>1, <1>6, PacketTypes
<1>8. QED
  BY <1>1, <1>2, <1>3, <1>4, <1>6, <1>7, Zenon

LEMMA TellsType ==
    ASSUME TypeOK, NEW s \in Sides, NEW p \in Packet, Tells(s, p)
    PROVE  /\ wire' \in [Sides -> Seq(Packet)] /\ early' \in BOOLEAN
           /\ UNCHANGED <<m_state, remote_version>>
<1>1. Other(s) \in Sides /\ <<p>> \in Seq(Packet) /\ wire \in [Sides -> Seq(Packet)]
  BY OtherSide DEF TypeOK
<1>2. wire' = SendTo(Other(s), wire, <<p>>)
  BY DEF Tells
<1>3. wire' \in [Sides -> Seq(Packet)]
  BY <1>1, <1>2, SendToType
<1>4. early' \in BOOLEAN
  BY DEF Tells
<1>5. QED
  BY <1>3, <1>4 DEF Tells

LEMMA AnswersType ==
    ASSUME TypeOK, HasNumber, OneEntry, NEW r \in Requests, Answers(r)
    PROVE  TypeOK'
<1> DEFINE s == Other(Sender(r))
           ack == [type |-> "ACK", seqnum |-> number[r], ev |-> r]
<1>1. /\ s \in Sides /\ Tells(s, ack) /\ ack \in Packet
      /\ asked' = [asked EXCEPT ![r] = "answered"]
      /\ m_msgcache' = [m_msgcache EXCEPT ![s] = Without(@, number[r])]
      /\ UNCHANGED <<m_seqnum, m_msgqueue, number, sent, handled, undefined>>
  BY AnswersEffect, Zenon
<1> HIDE DEF s, ack
<1>2. wire' \in [Sides -> Seq(Packet)] /\ early' \in BOOLEAN /\ UNCHANGED <<m_state, remote_version>>
  BY <1>1, TellsType
<1>3. asked' \in [Requests -> Askings]
  BY <1>1 DEF TypeOK, Askings
<1>4. m_msgcache' \in [Sides -> Seq(Entry)]
  <2>1. m_msgcache[s] \in Seq(Entry) /\ Distinct(m_msgcache[s])
    BY <1>1 DEF TypeOK, OneEntry
  <2>2. Without(m_msgcache[s], number[r]) \in Seq(Entry)
    BY <2>1, WithoutElements
  <2>3. QED
    BY <1>1, <2>2 DEF TypeOK
<1>5. QED
  BY <1>1, <1>2, <1>3, <1>4 DEF TypeOK

LEMMA CancelsType ==
    ASSUME TypeOK, HasNumber, NEW r \in Requests, Cancels(r)
    PROVE  TypeOK'
<1> DEFINE s == Sender(r)
<1>1. /\ r \in Events /\ s \in Sides
      /\ sent' = [sent EXCEPT ![r] = IF @ = "queued" THEN "withdrawn" ELSE "cancelled"]
      /\ UNCHANGED <<m_seqnum, m_msgqueue, number, asked, handled, undefined>>
  BY CancelsEffect, Zenon
<1>2. PICK n \in Number :
             /\ Tells(s, [type |-> "CANCEL", seqnum |-> n, ev |-> r])
             /\ [type |-> "CANCEL", seqnum |-> n, ev |-> r] \in Packet
             /\ m_msgcache' = [m_msgcache EXCEPT ![s] = IF exists(s, n) THEN Removed(s, n) ELSE @]
  BY CancelsEffect, Zenon
<1> HIDE DEF s
<1>3. wire' \in [Sides -> Seq(Packet)] /\ early' \in BOOLEAN /\ UNCHANGED <<m_state, remote_version>>
  BY <1>1, <1>2, TellsType
<1>4. sent' \in [Events -> Fates]
  BY <1>1 DEF TypeOK, Fates
<1>5. exists(s, n) => Removed(s, n) \in Seq(Entry)
  BY <1>1, RemovedType
<1>6. m_msgcache' \in [Sides -> Seq(Entry)]
  BY <1>2, <1>5 DEF TypeOK
<1>7. QED
  BY <1>1, <1>3, <1>4, <1>6 DEF TypeOK

LEMMA ExpireType ==
    ASSUME TypeOK, NEW s \in Sides, Expire(s)
    PROVE  TypeOK'
<1>1. m_msgcache[s] \in Seq(Entry) /\ m_msgcache[s] # <<>>
  BY DEF TypeOK, Expire
<1>2. Tail(m_msgcache[s]) \in Seq(Entry)
  BY <1>1, TailElements
<1>3. m_msgcache' \in [Sides -> Seq(Entry)]
  BY <1>2 DEF TypeOK, Expire
<1>4. sent' \in [Events -> Fates] /\ asked' \in [Requests -> Askings]
  BY DEF TypeOK, Expire, Fates, Askings
<1>5. QED
  BY <1>3, <1>4 DEF TypeOK, Expire, linkVars

\* Next, one action at a time: what every proof that a step keeps something rests on.
LEMMA Steps ==
    ASSUME [Next]_vars, NEW P,
           \A version \in Published : Connect(version) => P,
           FinishNonBlockingConnect => P,
           \A s \in Sides : ParseInitPacket(s) \/ ParseInitAck(s) \/ ParseInit2(s) => P,
           \A s \in Sides : ParseStart(s) \/ ParseAck(s) \/ ParseCancel(s) => P,
           \A s \in Sides : Ends(s) => P,
           \A s \in Sides : Expire(s) => P,
           \A e \in Events : SendEvent(e) => P,
           \A r \in Requests : Answers(r) \/ Cancels(r) => P,
           UNCHANGED vars => P
    PROVE  P
<1>1. \A s \in Sides : Refuse(s) \/ Close(s) => P
  BY DEF Refuse, Close, Ends
<1>2. \A r \in Requests : SendFTACK(r) => P
  <2>1. SUFFICES ASSUME NEW r \in Requests, SendFTACK(r) PROVE P
    OBVIOUS
  <2>2. Other(Sender(r)) \in Sides
    BY SenderSide, OtherSide
  <2>3. CASE m_state[Other(Sender(r))] = "CONNECTING"
    <3>1. Destroy(Other(Sender(r)), Expired(Other(Sender(r))))
      BY <2>1, <2>3 DEF SendFTACK
    <3>2. Ends(Other(Sender(r)))
      BY <2>3, <3>1 DEF Ends
    <3>3. QED
      BY <2>2, <3>2
  <2>4. CASE m_state[Other(Sender(r))] # "CONNECTING"
    BY <2>1, <2>4 DEF Answers
  <2>5. QED
    BY <2>3, <2>4
<1>3. \A r \in Requests : SendFTCancel(r) => P
  <2>1. SUFFICES ASSUME NEW r \in Requests, SendFTCancel(r) PROVE P
    OBVIOUS
  <2>2. Sender(r) \in Sides
    BY SenderSide
  <2>3. CASE m_state[Sender(r)] = "CONNECTING"
    <3>1. /\ sent[r] \in {"queued", "pending"}
          /\ Destroy(Sender(r), [Expired(Sender(r)) EXCEPT ![r] = "cancelled"])
      BY <2>1, <2>3 DEF SendFTCancel
    <3>2. Ends(Sender(r))
      BY <2>3, <3>1 DEF Ends
    <3>3. QED
      BY <2>2, <3>2
  <2>4. CASE m_state[Sender(r)] # "CONNECTING"
    BY <2>1, <2>4 DEF Cancels
  <2>5. QED
    BY <2>3, <2>4
<1>4. QED
  BY <1>1, <1>2, <1>3 DEF Next, Parse

LEMMA TypeStep ==
    ASSUME TypeOK, HasNumber, OneEntry, [Next]_vars
    PROVE  TypeOK'
<1>1. \A version \in Published : Connect(version) => TypeOK'
  BY ConnectType
<1>2. FinishNonBlockingConnect => TypeOK'
  BY FinishType
<1>3. \A s \in Sides : ParseInitPacket(s) \/ ParseInitAck(s) \/ ParseInit2(s) => TypeOK'
  BY ParseInitPacketType, ParseInitAckType, ParseInit2Type
<1>4. \A s \in Sides : ParseStart(s) \/ ParseAck(s) \/ ParseCancel(s) => TypeOK'
  BY ParseStartType, ParseAckType, ParseCancelType
<1>5. \A s \in Sides : Ends(s) => TypeOK'
  BY EndsType
<1>6. \A s \in Sides : Expire(s) => TypeOK'
  BY ExpireType
<1>7. \A e \in Events : SendEvent(e) => TypeOK'
  BY SendEventType
<1>8. \A r \in Requests : Answers(r) \/ Cancels(r) => TypeOK'
  BY AnswersType, CancelsType
<1>9. UNCHANGED vars => TypeOK'
  BY DEF TypeOK, vars, linkVars
<1>10. QED
  BY <1>1, <1>2, <1>3, <1>4, <1>5, <1>6, <1>7, <1>8, <1>9, Steps

-----------------------------------------------------------------------------
(* The handshake. Each side gets three packets of it and then those of the   *)
(* dialogue: how many of the three a side has got, and how many it has sent, *)
(* is what its state says, and the packets between are under way. If the     *)
(* caller was early, the called side gets what it sent then after the first  *)
(* packet, and is doomed.                                                    *)

Got(s) ==
    IF m_state[s] \in {"NOT_CONNECTED", "CONNECTING"} THEN 0
    ELSE IF m_state[s] = "WAITING_FOR_INIT" THEN IF s = "called" THEN 0 ELSE 1
    ELSE IF m_state[s] = "WAITING_FOR_INIT_ACK" THEN IF s = "called" THEN 1 ELSE 0
    ELSE IF m_state[s] = "WAITING_FOR_INIT2" THEN 2
    ELSE 3

Given(s) ==
    IF m_state[s] \in {"NOT_CONNECTED", "CONNECTING"} THEN 0
    ELSE IF m_state[s] = "WAITING_FOR_INIT" THEN IF s = "called" THEN 0 ELSE 1
    ELSE IF m_state[s] = "WAITING_FOR_INIT_ACK" THEN IF s = "called" THEN 2 ELSE 1
    ELSE IF m_state[s] = "WAITING_FOR_INIT2" THEN IF s = "called" THEN 2 ELSE 3
    ELSE 3

\* What becomes of side s.
Part(s) == IF early /\ s = "called" THEN "doomed" ELSE s

\* The type of the k-th packet to a side with that part.
IsPacket(part, k, type) ==
    /\ k = 1 => type = IF part = "caller" THEN "INIT_ACK" ELSE "INIT"
    /\ k = 2 => IF part = "doomed" THEN type \in {"ACK", "CANCEL"}
                ELSE type = IF part = "caller" THEN "INIT" ELSE "INIT_ACK"
    /\ k = 3 /\ part # "doomed" => type = "INIT2"
    /\ k > 3 /\ part # "doomed" => type \in Dialogue

\* The packets q on their way to it, when it has got g of the handshake.
Ordered(part, g, q) == \A i \in 1 .. Len(q) : IsPacket(part, g + i, q[i].type)

\* They are all that the other side has given.
Balanced(part, g, given, q) ==
    /\ part = "doomed" => g + Len(q) >= 2
    /\ part # "doomed" /\ given = 3 => g + Len(q) >= 3
    /\ part # "doomed" /\ given # 3 => g + Len(q) = given

HandSide(s) ==
    /\ m_state[s] = "GONE" => wire[s] = <<>>
    /\ Ordered(Part(s), Got(s), wire[s])
    /\ m_state[s] # "GONE" /\ m_state[Other(s)] # "GONE" =>
         Balanced(Part(s), Got(s), Given(Other(s)), wire[s])

\* The caller connects first, and a called side that is doomed is never connected.
Phases ==
    /\ m_state["called"] = "NOT_CONNECTED" => m_state["caller"] \in {"NOT_CONNECTED", "CONNECTING", "GONE"}
    /\ m_state["caller"] \in {"NOT_CONNECTED", "CONNECTING"} => m_state["called"] = "NOT_CONNECTED"
    /\ m_state["called"] # "CONNECTING"
    /\ early => /\ m_state["called"] \in {"WAITING_FOR_INIT", "WAITING_FOR_INIT_ACK", "GONE"}
                /\ m_state["caller"] \in {"WAITING_FOR_INIT", "WAITING_FOR_INIT_ACK", "WAITING_FOR_INIT2", "GONE"}

\* A caller that has not given INIT2, or is early, does not get it either.
Slow ==
    \/ m_state["caller"] \in {"WAITING_FOR_INIT_ACK", "WAITING_FOR_INIT"}
    \/ m_state["caller"] = "WAITING_FOR_INIT2" /\ early
Behind == Got("caller") + Len(wire["caller"])

HandInv ==
    /\ Phases
    /\ Slow => Behind <= 2
    /\ \A s \in Sides : HandSide(s)

LEMMA Counts == \A s : Got(s) \in 0 .. 3 /\ Given(s) \in 0 .. 3
  BY DEF Got, Given

LEMMA OrderedTail ==
    ASSUME NEW part, NEW q \in Seq(Packet), q # <<>>, NEW g \in 0 .. 3, Ordered(part, g, q)
    PROVE  /\ IsPacket(part, g + 1, Head(q).type)
           /\ g < 3 => Ordered(part, g + 1, Tail(q))
           /\ g = 3 => Ordered(part, 3, Tail(q))
<1>1. /\ Len(Tail(q)) = Len(q) - 1 /\ Len(q) >= 1 /\ Len(q) \in Nat /\ Head(q) = q[1]
      /\ \A i \in 1 .. Len(q) - 1 : Tail(q)[i] = q[i + 1]
  BY TailElements, Elements
<1>2. IsPacket(part, g + 1, Head(q).type)
  BY <1>1 DEF Ordered
<1>3. \A i \in 1 .. Len(Tail(q)) : IsPacket(part, g + (i + 1), Tail(q)[i].type)
  BY <1>1 DEF Ordered
<1>4. ASSUME g < 3 PROVE Ordered(part, g + 1, Tail(q))
  <2>1. \A i \in 1 .. Len(Tail(q)) : g + (i + 1) = (g + 1) + i
    BY <1>1
  <2>2. QED
    BY <1>3, <2>1 DEF Ordered
<1>5. ASSUME g = 3 PROVE Ordered(part, 3, Tail(q))
  <2>1. SUFFICES ASSUME NEW i \in 1 .. Len(Tail(q)) PROVE IsPacket(part, 3 + i, Tail(q)[i].type)
    BY DEF Ordered
  <2>2. i \in Nat /\ i >= 1 /\ IsPacket(part, 3 + (i + 1), Tail(q)[i].type)
    BY <1>1, <1>3, <1>5
  <2>3. QED
    BY <2>2 DEF IsPacket
<1>6. QED
  BY <1>2, <1>4, <1>5

LEMMA OrderedConcat ==
    ASSUME NEW part, NEW q \in Seq(Packet), NEW p \in Seq(Packet), NEW g \in 0 .. 3, Ordered(part, g, q),
           \A i \in 1 .. Len(p) : IsPacket(part, g + Len(q) + i, p[i].type)
    PROVE  Ordered(part, g, q \o p)
<1>1. Len(q) \in Nat /\ Len(p) \in Nat
  BY Elements
<1>2. /\ Len(q \o p) = Len(q) + Len(p)
      /\ \A i \in 1 .. Len(q) : (q \o p)[i] = q[i]
      /\ \A i \in 1 .. Len(p) : (q \o p)[Len(q) + i] = p[i]
  BY ConcatElements
<1> DEFINE w == q \o p
<1>3. SUFFICES ASSUME NEW k \in 1 .. Len(q) + Len(p) PROVE IsPacket(part, g + k, w[k].type)
  BY <1>2 DEF Ordered
<1> HIDE DEF w
<1>4. CASE k <= Len(q)
  <2>1. k \in 1 .. Len(q) /\ w[k] = q[k]
    BY <1>1, <1>2, <1>4 DEF w
  <2>2. QED
    BY <2>1 DEF Ordered
<1>5. CASE ~(k <= Len(q))
  <2>1. k - Len(q) \in 1 .. Len(p) /\ Len(q) + (k - Len(q)) = k
    BY <1>1, <1>5
  <2>2. w[k] = p[k - Len(q)] /\ g + Len(q) + (k - Len(q)) = g + k
    BY <1>1, <1>2, <2>1 DEF w
  <2>3. QED
    BY <2>1, <2>2
<1>6. QED
  BY <1>4, <1>5

\* The parts of the two sides, and what being early means.
LEMMA Parts ==
    /\ Part("caller") = "caller" /\ (early => Part("called") = "doomed")
    /\ \A s \in Sides : ~early => Part(s) = s
    /\ \A s \in Sides : s # "called" => Part(s) = s
    /\ \A s \in Sides : Part(s) = s \/ (s = "called" /\ Part(s) = "doomed" /\ early)
    /\ \A s \in Sides : Part(s) = "doomed" <=> early /\ s = "called"
  BY DEF Part, Sides

LEMMA NotEarly ==
    ASSUME HandInv, NEW s \in Sides, m_state[s] = "CONNECTED"
    PROVE  ~early
  BY DEF HandInv, Phases, Sides

\* While the caller is slow, the called side has not got more than two packets.
LEMMA NotSlow ==
    ASSUME TypeOK, HandInv, m_state["called"] \in {"WAITING_FOR_INIT2", "CONNECTED"}
    PROVE  ~Slow
<1>1. /\ "caller" \in Sides /\ "called" \in Sides
      /\ Other("caller") = "called" /\ Other("called") = "caller"
      /\ wire["called"] \in Seq(Packet)
  BY OtherSide DEF Sides, TypeOK
<1>2. ~early /\ Part("called") = "called"
  BY <1>1, Parts DEF HandInv, Phases
<1>3. Got("called") \in {2, 3} /\ Len(wire["called"]) \in Nat
  BY <1>1, Elements DEF Got
<1>4. SUFFICES ASSUME m_state["caller"] \in {"WAITING_FOR_INIT_ACK", "WAITING_FOR_INIT"} PROVE FALSE
  BY <1>2 DEF Slow
<1>5. Given("caller") = 1 /\ m_state["caller"] # "GONE" /\ m_state["called"] # "GONE"
  BY <1>4 DEF Given
<1>6. Balanced("called", Got("called"), 1, wire["called"])
  BY <1>1, <1>2, <1>5 DEF HandInv, HandSide
<1>7. QED
  BY <1>3, <1>6 DEF Balanced

\* What SendTo does to the wires.
LEMMA SendToEffect ==
    ASSUME NEW s \in Sides, NEW w \in [Sides -> Seq(Packet)], NEW p \in Seq(Packet)
    PROVE  /\ SendTo(Other(s), w, p)[s] = w[s]
           /\ m_state[Other(s)] = "GONE" => SendTo(Other(s), w, p)[Other(s)] = w[Other(s)]
           /\ m_state[Other(s)] # "GONE" => SendTo(Other(s), w, p)[Other(s)] = w[Other(s)] \o p
           /\ SendTo(Other(s), w, p) \in [Sides -> Seq(Packet)]
<1>1. Other(s) \in Sides /\ Other(s) # s
  BY OtherSide
<1>2. SendTo(Other(s), w, p) \in [Sides -> Seq(Packet)]
  BY <1>1, SendToType
<1>3. QED
  BY <1>1, <1>2 DEF SendTo

LEMMA ReceiveEffect ==
    ASSUME TypeOK, NEW s \in Sides
    PROVE  Receive(s)[s] = Tail(wire[s]) /\ Receive(s)[Other(s)] = wire[Other(s)]
  BY OtherSide DEF Receive, TypeOK

LEMMA DialogueKeepsHand ==
    ASSUME TypeOK, HandInv, NEW s \in Sides, m_state[s] = "CONNECTED", UNCHANGED <<m_state, early>>,
           NEW p \in Seq(Packet), \A i \in 1 .. Len(p) : p[i].type \in Dialogue,
           wire'[s] = wire[s] \/ (wire[s] # <<>> /\ wire'[s] = Tail(wire[s])),
           \/ wire'[Other(s)] = wire[Other(s)]
           \/ m_state[Other(s)] # "GONE" /\ wire'[Other(s)] = wire[Other(s)] \o p
    PROVE  HandInv'
<1> DEFINE o == Other(s)
<1>1. /\ o \in Sides /\ o # s /\ Other(o) = s /\ \A t \in Sides : t = s \/ t = o
      /\ wire[s] \in Seq(Packet) /\ wire[o] \in Seq(Packet)
      /\ HandSide(s) /\ HandSide(o)
  BY OtherSide DEF TypeOK, HandInv
<1>2. \A t : Got(t)' = Got(t) /\ Given(t)' = Given(t)
  BY DEF Got, Given
<1>3. Got(s) = 3 /\ Given(s) = 3
  BY DEF Got, Given
<1>4. Got(o) \in 0 .. 3 /\ Given(o) \in 0 .. 3 /\ Len(wire[s]) \in Nat /\ Len(wire[o]) \in Nat
  BY <1>1, Counts, Elements
<1> HIDE DEF o
<1>0. /\ ~early /\ Part(s) = s /\ Part(o) = o /\ Part(s)' = s /\ Part(o)' = o
      /\ s # "doomed" /\ o # "doomed"
  BY <1>1, NotEarly, Parts DEF Part, Sides
<1>5. Ordered(s, 3, wire[s]) /\ Ordered(o, Got(o), wire[o])
  BY <1>0, <1>1, <1>3 DEF HandSide
<1>6. HandSide(s)'
  <2>1. Ordered(s, 3, wire'[s])
    BY <1>1, <1>5, OrderedTail
  <2>2. m_state[o] # "GONE" => Balanced(s, 3, Given(o), wire[s])
    BY <1>0, <1>1, <1>3 DEF HandSide, o
  <2>3. m_state[o] # "GONE" => Given(o) = 3
    BY <1>0, <1>4, <2>2 DEF Balanced
  <2>4. Len(wire'[s]) \in Nat
    <3>1. wire[s] # <<>> => Tail(wire[s]) \in Seq(Packet)
      BY <1>1, TailElements
    <3>2. wire'[s] \in Seq(Packet)
      BY <1>1, <3>1
    <3>3. QED
      BY <3>2, Elements
  <2>5. m_state[o] # "GONE" => Balanced(s, 3, Given(o), wire'[s])
    BY <1>0, <1>4, <2>3, <2>4 DEF Balanced
  <2>6. QED
    BY <1>0, <1>2, <1>3, <2>1, <2>5 DEF HandSide, o
<1>7. HandSide(o)'
  <2>1. CASE wire'[o] = wire[o]
    BY <1>0, <1>1, <1>2, <2>1 DEF HandSide
  <2>2. CASE m_state[o] # "GONE" /\ wire'[o] = wire[o] \o p
    <3>1. Balanced(o, Got(o), 3, wire[o])
      BY <1>0, <1>1, <1>3, <2>2 DEF HandSide
    <3>2. Got(o) + Len(wire[o]) >= 3
      BY <1>0, <3>1 DEF Balanced
    <3>3. \A i \in 1 .. Len(p) : IsPacket(o, Got(o) + Len(wire[o]) + i, p[i].type)
      BY <1>0, <1>4, <3>2 DEF IsPacket
    <3>4. Ordered(o, Got(o), wire'[o])
      BY <1>1, <1>4, <1>5, <2>2, <3>3, OrderedConcat
    <3>5. Len(wire'[o]) = Len(wire[o]) + Len(p) /\ Len(p) \in Nat
      BY <1>1, <2>2, ConcatElements, Elements
    <3>6. Balanced(o, Got(o), 3, wire'[o])
      BY <1>0, <1>4, <3>2, <3>5 DEF Balanced
    <3>7. QED
      BY <1>0, <1>1, <1>2, <1>3, <2>2, <3>4, <3>6 DEF HandSide
  <2>3. QED
    BY <2>1, <2>2 DEF o
<1>8. Phases'
  BY DEF HandInv, Phases
<1>9. Slow' => Behind' <= 2
  <2>1. Slow' <=> Slow
    BY DEF Slow
  <2>2. CASE s = "called"
    BY <2>1, <2>2, NotSlow
  <2>3. CASE s = "caller"
    BY <2>1, <2>3 DEF Slow
  <2>4. QED
    BY <2>2, <2>3 DEF Sides
<1>10. QED
  BY <1>1, <1>6, <1>7, <1>8, <1>9 DEF HandInv

LEMMA ConnectHand ==
    ASSUME TypeOK, HandInv, NEW version \in Published, Connect(version)
    PROVE  HandInv'
<1>1. /\ m_state["caller"] = "NOT_CONNECTED" /\ m_state["called"] = "NOT_CONNECTED"
      /\ m_state'["caller"] = "CONNECTING" /\ m_state'["called"] = "NOT_CONNECTED"
      /\ \A s \in Sides : s = "caller" \/ s = "called"
  BY DEF Connect, HandInv, Phases, Sides, TypeOK
<1>2. UNCHANGED <<wire, early>>
  BY DEF Connect
<1>3. \A s \in Sides : Got(s)' = Got(s) /\ Given(s)' = Given(s) /\ Part(s)' = Part(s)
  BY <1>1, <1>2 DEF Got, Given, Part
<1>4. ASSUME NEW s \in Sides PROVE HandSide(s)'
  <2>1. HandSide(s) /\ Other(s) \in Sides
    BY OtherSide DEF HandInv
  <2>2. Given(Other(s))' = Given(Other(s))
    BY <1>3, <2>1
  <2>3. QED
    BY <1>1, <1>2, <1>3, <2>1, <2>2 DEF HandSide
<1>5. Phases'
  BY <1>1, <1>2 DEF HandInv, Phases
<1>6. ~Slow'
  BY <1>1 DEF Slow
<1>7. QED
  BY <1>4, <1>5, <1>6 DEF HandInv

LEMMA FinishHand ==
    ASSUME TypeOK, HandInv, FinishNonBlockingConnect
    PROVE  HandInv'
<1> DEFINE init == InitPacket(remote_version["caller"])
<1>1. init.type = "INIT"
  BY PacketTypes DEF TypeOK, Sides
<1>2. /\ m_state["caller"] = "CONNECTING" /\ m_state["called"] = "NOT_CONNECTED" /\ ~early
      /\ "caller" \in Sides /\ "called" \in Sides
      /\ Other("caller") = "called" /\ Other("called") = "caller"
  BY OtherSide DEF FinishNonBlockingConnect, HandInv, Phases, Sides
<1>3. wire["caller"] = <<>>
  <2>1. Got("caller") = 0 /\ Given("called") = 0 /\ Part("caller") = "caller"
    BY <1>2, Parts DEF Got, Given
  <2>2. Balanced("caller", 0, 0, wire["caller"]) /\ wire["caller"] \in Seq(Packet)
    BY <1>2, <2>1 DEF HandInv, HandSide, TypeOK
  <2>3. Len(wire["caller"]) = 0
    BY <2>2, Elements DEF Balanced
  <2>4. QED
    BY <2>2, <2>3, EmptySeq
<1> HIDE DEF init
<1>4. wire'["called"] = <<init>> /\ wire'["caller"] = <<>> /\ early' = early
  BY <1>2, <1>3 DEF FinishNonBlockingConnect, TypeOK, init
<1>5. m_state'["caller"] = "WAITING_FOR_INIT_ACK" /\ m_state'["called"] = "WAITING_FOR_INIT"
  BY DEF FinishNonBlockingConnect
<1>6. /\ Got("caller")' = 0 /\ Got("called")' = 0 /\ Given("caller")' = 1 /\ Given("called")' = 0
      /\ Part("caller")' = "caller" /\ Part("called")' = "called"
  BY <1>2, <1>4, <1>5 DEF Got, Given, Part
<1>7. HandSide("caller")'
  <2>1. Ordered("caller", 0, wire'["caller"]) /\ Balanced("caller", 0, 0, wire'["caller"])
    BY <1>4 DEF Ordered, Balanced
  <2>2. QED
    BY <1>2, <1>5, <1>6, <2>1 DEF HandSide
<1>8. HandSide("called")'
  <2>1. Len(<<init>>) = 1 /\ <<init>>[1] = init
    OBVIOUS
  <2>2. IsPacket("called", 1, init.type)
    BY <1>1 DEF IsPacket
  <2>3. Ordered("called", 0, wire'["called"])
    BY <1>4, <2>1, <2>2 DEF Ordered
  <2>4. Balanced("called", 0, 1, wire'["called"])
    BY <1>4, <2>1 DEF Balanced
  <2>5. QED
    BY <1>2, <1>5, <1>6, <2>3, <2>4 DEF HandSide
<1>9. Behind' <= 2
  BY <1>4, <1>6 DEF Behind
<1>10. Phases'
  BY <1>2, <1>4, <1>5 DEF Phases
<1>11. QED
  BY <1>7, <1>8, <1>9, <1>10 DEF HandInv, Sides

\* The side that reads a packet of the handshake, and what it then expects.
LEMMA ReaderKeepsHand ==
    ASSUME TypeOK, HandInv, NEW s \in Sides, wire[s] # <<>>,
           m_state[s] # "GONE", m_state'[s] # "GONE", m_state'[Other(s)] = m_state[Other(s)],
           Got(s) < 3, Got(s)' = Got(s) + 1, wire'[s] = Tail(wire[s]), early' = early
    PROVE  HandSide(s)'
<1>1. Other(s) \in Sides /\ Other(s) # s /\ wire[s] \in Seq(Packet) /\ HandSide(s) /\ Got(s) \in 0 .. 3
  BY OtherSide, Counts DEF TypeOK, HandInv
<1>2. /\ Given(Other(s))' = Given(Other(s)) /\ Given(Other(s)) \in 0 .. 3
      /\ Part(s)' = Part(s)
  BY Counts DEF Given, Part
<1>3. Ordered(Part(s), Got(s) + 1, wire'[s])
  BY <1>1, OrderedTail DEF HandSide
<1>4. Len(wire'[s]) = Len(wire[s]) - 1 /\ Len(wire[s]) \in Nat
  BY <1>1, TailElements, Elements
<1>5. m_state[Other(s)] # "GONE" => Balanced(Part(s), Got(s) + 1, Given(Other(s)), wire'[s])
  <2>1. SUFFICES ASSUME m_state[Other(s)] # "GONE" PROVE Balanced(Part(s), Got(s) + 1, Given(Other(s)), wire'[s])
    OBVIOUS
  <2>2. Balanced(Part(s), Got(s), Given(Other(s)), wire[s])
    BY <1>1, <2>1 DEF HandSide
  <2>3. QED
    BY <1>1, <1>2, <1>4, <2>2 DEF Balanced
<1>6. QED
  BY <1>2, <1>3, <1>5 DEF HandSide

\* The side that is answered: it has what is now given to it.
LEMMA ListenerKeepsHand ==
    ASSUME TypeOK, HandInv, NEW s \in Sides, NEW p \in Seq(Packet),
           m_state[s] # "GONE", m_state'[s] # "GONE", m_state'[Other(s)] = m_state[Other(s)], early' = early,
           m_state[Other(s)] = "GONE" => wire'[Other(s)] = wire[Other(s)],
           m_state[Other(s)] # "GONE" => wire'[Other(s)] = wire[Other(s)] \o p,
           \/ Given(s)' = 3 /\ Given(s) + Len(p) >= 3
           \/ Given(s)' # 3 /\ Given(s)' = Given(s) + Len(p) /\ Given(s) # 3,
           \A i \in 1 .. Len(p) : IsPacket(Other(s), Given(s) + i, p[i].type)
    PROVE  HandSide(Other(s))'
<1> DEFINE o == Other(s)
<1>1. o \in Sides /\ Other(o) = s /\ wire[o] \in Seq(Packet) /\ HandSide(o)
  BY OtherSide DEF TypeOK, HandInv
<1>2. /\ Got(o)' = Got(o) /\ Part(o)' = Part(o) /\ o # "doomed"
      /\ Part(o) = "doomed" \/ Part(o) = o
  BY <1>1, Parts DEF Got, Part, Sides
<1>3. Got(o) \in 0 .. 3 /\ Given(s) \in 0 .. 3 /\ Len(wire[o]) \in Nat /\ Len(p) \in Nat
  BY <1>1, Counts, Elements
<1> HIDE DEF o
<1>4. CASE m_state[o] = "GONE"
  BY <1>1, <1>2, <1>4 DEF HandSide, o
<1>5. CASE m_state[o] # "GONE"
  <2>1. Balanced(Part(o), Got(o), Given(s), wire[o]) /\ Ordered(Part(o), Got(o), wire[o])
    BY <1>1, <1>5 DEF HandSide
  <2>2. wire'[o] = wire[o] \o p
    BY <1>5 DEF o
  <2>3. Len(wire'[o]) = Len(wire[o]) + Len(p)
    BY <1>1, <2>2, ConcatElements
  <2>4. \A i \in 1 .. Len(p) : IsPacket(Part(o), Got(o) + Len(wire[o]) + i, p[i].type)
    <3>1. SUFFICES ASSUME NEW i \in 1 .. Len(p)
                   PROVE  IsPacket(Part(o), Got(o) + Len(wire[o]) + i, p[i].type)
      OBVIOUS
    <3>2. IsPacket(o, Given(s) + i, p[i].type)
      BY DEF o
    <3>0. CASE Part(o) = "doomed"
      <4>1. Got(o) + Len(wire[o]) >= 2
        BY <2>1, <3>0 DEF Balanced
      <4>2. Got(o) + Len(wire[o]) + i > 2
        BY <1>3, <4>1
      <4>3. QED
        BY <1>3, <3>0, <4>2 DEF IsPacket
    <3>3. CASE Part(o) = o /\ Given(s) # 3
      <4>1. Got(o) + Len(wire[o]) = Given(s)
        BY <1>2, <2>1, <3>3 DEF Balanced
      <4>2. QED
        BY <3>2, <3>3, <4>1
    <3>4. CASE Part(o) = o /\ Given(s) = 3
      <4>1. Got(o) + Len(wire[o]) >= 3
        BY <1>2, <2>1, <3>4 DEF Balanced
      <4>2. Got(o) + Len(wire[o]) + i > 3 /\ Given(s) + i > 3
        BY <1>3, <3>4, <4>1
      <4>3. p[i].type \in Dialogue
        BY <1>2, <3>2, <4>2 DEF IsPacket
      <4>4. QED
        BY <1>2, <1>3, <3>4, <4>2, <4>3 DEF IsPacket
    <3>5. QED
      BY <1>2, <3>0, <3>3, <3>4
  <2>5. Ordered(Part(o), Got(o), wire'[o])
    BY <1>1, <1>3, <2>1, <2>2, <2>4, OrderedConcat
  <2>6. Balanced(Part(o), Got(o), Given(s)', wire'[o])
    BY <1>2, <1>3, <2>1, <2>3 DEF Balanced
  <2>7. QED
    BY <1>1, <1>2, <1>5, <2>5, <2>6 DEF HandSide, o
<1>6. QED
  BY <1>4, <1>5 DEF o

LEMMA ParseInitPacketHand ==
    ASSUME TypeOK, HandInv, NEW s \in Sides, ParseInitPacket(s)
    PROVE  HandInv'
<1> DEFINE o == Other(s)
           version == IF s = "called" THEN Head(wire[s]).version ELSE remote_version[s]
           p == IF s = "called" THEN <<Ack, InitPacket(version)>> ELSE <<Ack, Init2(s)>>
<1>1. /\ o \in Sides /\ o # s /\ Other(o) = s /\ \A t \in Sides : t = s \/ t = o
      /\ wire \in [Sides -> Seq(Packet)]
  BY OtherSide DEF TypeOK
<1>2. m_state[s] = "WAITING_FOR_INIT" /\ wire[s] # <<>>
  BY DEF ParseInitPacket
<1>3. /\ m_state'[s] = IF s = "called" THEN "WAITING_FOR_INIT_ACK" ELSE "WAITING_FOR_INIT2"
      /\ m_state'[o] = m_state[o]
      /\ early' = early
  BY <1>1 DEF ParseInitPacket, TypeOK
<1>4. version \in Nat
  <2>1. Head(wire[s]).type = "INIT"
    BY <1>2 DEF ParseInitPacket, Expected
  <2>2. QED
    BY <1>2, <2>1, FirstPacket, DialogueType DEF TypeOK
<1>5. wire' = SendTo(o, Receive(s), p)
  BY DEF ParseInitPacket
<1> HIDE DEF version
<1>6. /\ p \in Seq(Packet) /\ Len(p) = 2 /\ p[1].type = "INIT_ACK"
      /\ p[2].type = IF s = "called" THEN "INIT" ELSE "INIT2"
  BY <1>4, PacketTypes
<1> HIDE DEF p
<1>7. Receive(s) \in [Sides -> Seq(Packet)] /\ Receive(s)[s] = Tail(wire[s]) /\ Receive(s)[o] = wire[o]
  BY <1>2, ReceiveType, ReceiveEffect
<1>8. /\ wire'[s] = Tail(wire[s])
      /\ m_state[o] = "GONE" => wire'[o] = wire[o]
      /\ m_state[o] # "GONE" => wire'[o] = wire[o] \o p
  <2>1. /\ SendTo(o, Receive(s), p)[s] = Receive(s)[s]
        /\ m_state[o] = "GONE" => SendTo(o, Receive(s), p)[o] = Receive(s)[o]
        /\ m_state[o] # "GONE" => SendTo(o, Receive(s), p)[o] = Receive(s)[o] \o p
    BY <1>6, <1>7, SendToEffect
  <2>2. QED
    BY <1>5, <1>7, <2>1
<1>9. s = "called" => Got(s) = 0 /\ Got(s)' = 1 /\ Given(s) = 0 /\ Given(s)' = 2
  BY <1>2, <1>3 DEF Got, Given
<1>10. s # "called" => Got(s) = 1 /\ Got(s)' = 2 /\ Given(s) = 1 /\ Given(s)' = 3
  BY <1>2, <1>3 DEF Got, Given
<1>11. HandSide(s)'
  BY <1>2, <1>3, <1>8, <1>9, <1>10, ReaderKeepsHand
<1>12. HandSide(o)'
  <2>1. \A i \in 1 .. Len(p) : i = 1 \/ i = 2
    BY <1>6
  <2>2. s = "called" <=> o # "called"
    BY <1>1 DEF Sides
  <2>3. \A i \in 1 .. Len(p) : IsPacket(o, Given(s) + i, p[i].type)
    <3>1. CASE s = "called"
      <4>1. o = "caller" /\ Given(s) = 0 /\ p[1].type = "INIT_ACK" /\ p[2].type = "INIT"
        BY <1>1, <1>6, <1>9, <3>1 DEF Sides
      <4>2. IsPacket(o, Given(s) + 1, p[1].type) /\ IsPacket(o, Given(s) + 2, p[2].type)
        BY <4>1 DEF IsPacket
      <4>3. QED
        BY <2>1, <4>2
    <3>2. CASE s = "caller"
      <4>1. o = "called" /\ Given(s) = 1 /\ p[1].type = "INIT_ACK" /\ p[2].type = "INIT2"
        BY <1>1, <1>6, <1>10, <3>2 DEF Sides
      <4>2. IsPacket(o, Given(s) + 1, p[1].type) /\ IsPacket(o, Given(s) + 2, p[2].type)
        BY <4>1 DEF IsPacket
      <4>3. QED
        BY <2>1, <4>2
    <3>3. QED
      BY <3>1, <3>2 DEF Sides
  <2>4. \/ Given(s)' = 3 /\ Given(s) + Len(p) >= 3
        \/ Given(s)' # 3 /\ Given(s)' = Given(s) + Len(p) /\ Given(s) # 3
    BY <1>6, <1>9, <1>10
  <2>5. m_state[s] # "GONE" /\ m_state'[s] # "GONE" /\ p \in Seq(Packet)
    BY <1>2, <1>3, <1>6
  <2>6. QED
    BY <1>3, <1>8, <2>3, <2>4, <2>5, ListenerKeepsHand
<1>13. Phases'
  BY <1>1, <1>2, <1>3 DEF HandInv, Phases, Sides
<1>14. ASSUME Slow' PROVE Behind' <= 2
  <2>1. CASE s = "called"
    <3>1. o = "caller" /\ m_state[o] # "GONE" /\ Part(o) = "caller" /\ Got(o)' = Got(o)
      BY <1>1, <1>3, <1>14, <2>1, Parts DEF Sides, Slow, Got
    <3>2. HandSide(o) /\ m_state[s] # "GONE" /\ Given(s) = 0
      BY <1>1, <1>2, <1>9, <2>1 DEF HandInv
    <3>3. Balanced("caller", Got(o), 0, wire[o])
      BY <1>1, <3>1, <3>2 DEF HandSide
    <3>4. Got(o) + Len(wire[o]) = 0
      BY <3>3 DEF Balanced
    <3>5. Len(wire'[o]) = Len(wire[o]) + 2 /\ Len(wire[o]) \in Nat /\ Got(o) \in 0 .. 3
      <4>1. wire[o] \in Seq(Packet)
        BY <1>1
      <4>2. QED
        BY <1>6, <1>8, <3>1, <4>1, ConcatElements, Elements, Counts
    <3>6. QED
      BY <3>1, <3>4, <3>5 DEF Behind
  <2>2. CASE s = "caller"
    <3>1. Slow
      BY <1>2, <2>2 DEF Slow
    <3>2. Got(s) = 1 /\ Got(s)' = 2
      BY <1>10, <2>2
    <3>3. Len(wire'[s]) = Len(wire[s]) - 1 /\ Len(wire[s]) \in Nat
      <4>1. wire[s] \in Seq(Packet)
        BY <1>1
      <4>2. QED
        BY <1>2, <1>8, <4>1, TailElements, Elements
    <3>4. QED
      BY <2>2, <3>1, <3>2, <3>3 DEF Behind, HandInv
  <2>3. QED
    BY <2>1, <2>2 DEF Sides
<1>15. QED
  BY <1>1, <1>11, <1>12, <1>13, <1>14 DEF HandInv

LEMMA ParseInitAckHand ==
    ASSUME TypeOK, HandInv, NEW s \in Sides, ParseInitAck(s)
    PROVE  HandInv'
<1> DEFINE o == Other(s)
<1>1. /\ o \in Sides /\ o # s /\ Other(o) = s /\ \A t \in Sides : t = s \/ t = o
      /\ wire \in [Sides -> Seq(Packet)]
  BY OtherSide DEF TypeOK
<1>2. m_state[s] = "WAITING_FOR_INIT_ACK" /\ wire[s] # <<>>
  BY DEF ParseInitAck
<1>3. /\ m_state'[s] = IF s = "called" THEN "WAITING_FOR_INIT2" ELSE "WAITING_FOR_INIT"
      /\ m_state'[o] = m_state[o]
      /\ early' = early
  BY <1>1 DEF ParseInitAck, TypeOK
<1>4. wire'[s] = Tail(wire[s]) /\ wire'[o] = wire[o]
  BY <1>2, ReceiveEffect DEF ParseInitAck
<1>5. s = "called" => Got(s) = 1 /\ Got(s)' = 2 /\ Given(s) = 2 /\ Given(s)' = 2
  BY <1>2, <1>3 DEF Got, Given
<1>6. s # "called" => Got(s) = 0 /\ Got(s)' = 1 /\ Given(s) = 1 /\ Given(s)' = 1
  BY <1>2, <1>3 DEF Got, Given
<1>7. HandSide(s)'
  BY <1>2, <1>3, <1>4, <1>5, <1>6, ReaderKeepsHand
<1>8. HandSide(o)'
  <2>1. HandSide(o) /\ Got(o)' = Got(o) /\ Given(s)' = Given(s) /\ Part(o)' = Part(o)
    BY <1>1, <1>3, <1>5, <1>6 DEF HandInv, Got, Part
  <2>2. QED
    BY <1>1, <1>2, <1>3, <1>4, <2>1 DEF HandSide
<1>9. s = "called" => ~early
  <2>1. SUFFICES ASSUME s = "called", early PROVE FALSE
    OBVIOUS
  <2>2. Part(s) = "doomed" /\ Got(s) = 1 /\ Ordered(Part(s), Got(s), wire[s]) /\ wire[s] \in Seq(Packet)
    BY <1>1, <1>5, <2>1, Parts DEF HandInv, HandSide
  <2>3. IsPacket("doomed", 2, Head(wire[s]).type)
    <3>1. Ordered("doomed", 1, wire[s]) /\ 1 \in 0 .. 3 /\ 1 + 1 = 2
      BY <2>2
    <3>2. QED
      BY <1>2, <2>2, <3>1, OrderedTail
  <2>4. Head(wire[s]).type = "INIT_ACK"
    BY <1>2 DEF ParseInitAck, Expected
  <2>5. QED
    BY <2>3, <2>4 DEF IsPacket
<1>10. Phases'
  BY <1>1, <1>2, <1>3, <1>9 DEF HandInv, Phases, Sides
<1>11. ASSUME Slow' PROVE Behind' <= 2
  <2>1. CASE s = "called"
    <3>1. o = "caller" /\ Got(o)' = Got(o) /\ Slow
      BY <1>1, <1>3, <1>11, <2>1 DEF Sides, Slow, Got
    <3>2. QED
      BY <1>4, <3>1 DEF Behind, HandInv
  <2>2. CASE s = "caller"
    <3>1. Slow
      BY <1>2, <2>2 DEF Slow
    <3>2. Got(s) = 0 /\ Got(s)' = 1
      BY <1>6, <2>2
    <3>3. Len(wire'[s]) = Len(wire[s]) - 1 /\ Len(wire[s]) \in Nat
      <4>1. wire[s] \in Seq(Packet)
        BY <1>1
      <4>2. QED
        BY <1>2, <1>4, <4>1, TailElements, Elements
    <3>4. QED
      BY <2>2, <3>1, <3>2, <3>3 DEF Behind, HandInv
  <2>3. QED
    BY <2>1, <2>2 DEF Sides
<1>12. QED
  BY <1>1, <1>7, <1>8, <1>10, <1>11 DEF HandInv

\* The last packets that flush_queue and SendPacketEvent put on the wire.
LEMMA StartsAreDialogue ==
    ASSUME TypeOK, NEW s \in Sides, NEW list \in Seq(Events)
    PROVE  \A i \in 1 .. Len(Starts(Numbered(s, list))) :
             Starts(Numbered(s, list))[i].type \in Dialogue
<1> DEFINE q == Starts(Numbered(s, list))
<1>1. SUFFICES ASSUME NEW i \in 1 .. Len(list) PROVE q[i].type = "START"
  BY NumberedElements DEF Dialogue
<1>2. q[i] = [type |-> "START", seqnum |-> Wrap(m_seqnum[s] - (i - 1)), ev |-> list[i]]
  BY NumberedElements
<1> HIDE DEF q
<1>3. QED
  BY <1>2

LEMMA ParseInit2Hand ==
    ASSUME TypeOK, HandInv, NEW s \in Sides, ParseInit2(s)
    PROVE  HandInv'
<1> DEFINE o == Other(s)
           starts == Starts(Numbered(s, m_msgqueue[s]))
           init2 == <<Init2(s)>>
           w == IF s = "called" THEN SendTo(o, Receive(s), init2) ELSE Receive(s)
           p == IF s = "called" THEN init2 \o starts ELSE starts
<1>1. /\ o \in Sides /\ o # s /\ Other(o) = s /\ \A t \in Sides : t = s \/ t = o
      /\ wire \in [Sides -> Seq(Packet)] /\ m_msgqueue[s] \in Seq(Events)
      /\ wire[o] \in Seq(Packet)
  BY OtherSide DEF TypeOK
<1>2. m_state[s] = "WAITING_FOR_INIT2" /\ wire[s] # <<>>
  BY DEF ParseInit2
<1>3. m_state'[s] = "CONNECTED" /\ m_state'[o] = m_state[o] /\ early' = early
  BY <1>1 DEF ParseInit2, TypeOK
<1>4. starts \in Seq(Packet) /\ \A i \in 1 .. Len(starts) : starts[i].type \in Dialogue
  BY <1>1, NumberedElements, StartsAreDialogue
<1>5. init2 \in Seq(Packet) /\ Len(init2) = 1 /\ init2[1].type = "INIT2"
  BY PacketTypes
<1>6. SendPacketEvents(s, m_msgqueue[s], w)
  BY DEF ParseInit2
<1> HIDE DEF starts, init2
<1>7. Receive(s) \in [Sides -> Seq(Packet)] /\ Receive(s)[s] = Tail(wire[s]) /\ Receive(s)[o] = wire[o]
  BY <1>2, ReceiveType, ReceiveEffect
<1>8. /\ w \in [Sides -> Seq(Packet)] /\ w[s] = Tail(wire[s])
      /\ m_state[o] = "GONE" => w[o] = wire[o]
      /\ m_state[o] # "GONE" => w[o] = IF s = "called" THEN wire[o] \o init2 ELSE wire[o]
  <2>1. /\ SendTo(o, Receive(s), init2)[s] = Receive(s)[s]
        /\ m_state[o] = "GONE" => SendTo(o, Receive(s), init2)[o] = Receive(s)[o]
        /\ m_state[o] # "GONE" => SendTo(o, Receive(s), init2)[o] = Receive(s)[o] \o init2
        /\ SendTo(o, Receive(s), init2) \in [Sides -> Seq(Packet)]
    BY <1>5, <1>7, SendToEffect
  <2>2. QED
    BY <1>7, <2>1
<1> HIDE DEF w
<1>9. wire' = SendTo(o, w, starts)
  BY <1>1, <1>6, <1>8, SendPacketEventsEffect DEF starts
<1>10. /\ wire'[s] = w[s]
       /\ m_state[o] = "GONE" => wire'[o] = w[o]
       /\ m_state[o] # "GONE" => wire'[o] = w[o] \o starts
  BY <1>4, <1>8, <1>9, SendToEffect
<1>11. m_state[o] # "GONE" => wire'[o] = wire[o] \o p
  <2>1. (wire[o] \o init2) \o starts = wire[o] \o (init2 \o starts)
    BY <1>1, <1>4, <1>5, ConcatAssociative
  <2>2. QED
    BY <1>8, <1>10, <2>1
<1>12. p \in Seq(Packet) /\ Len(p) \in Nat
  BY <1>4, <1>5, ConcatElements, Elements
<1>13. s = "called" => Got(s) = 2 /\ Got(s)' = 3 /\ Given(s) = 2 /\ Given(s)' = 3
  BY <1>2, <1>3 DEF Got, Given
<1>14. s # "called" => Got(s) = 2 /\ Got(s)' = 3 /\ Given(s) = 3 /\ Given(s)' = 3
  BY <1>2, <1>3 DEF Got, Given
<1>15. HandSide(s)'
  BY <1>2, <1>3, <1>8, <1>10, <1>13, <1>14, ReaderKeepsHand
<1>16. HandSide(o)'
  <2>1. \A i \in 1 .. Len(p) : IsPacket(o, Given(s) + i, p[i].type)
    <3>1. CASE s = "called"
      <4>1. /\ Len(p) = 1 + Len(starts) /\ p[1].type = "INIT2" /\ Len(starts) \in Nat
            /\ \A i \in 1 .. Len(starts) : p[1 + i] = starts[i]
        <5>1. /\ Len(init2 \o starts) = Len(init2) + Len(starts) /\ Len(starts) \in Nat
              /\ \A i \in 1 .. Len(init2) : (init2 \o starts)[i] = init2[i]
              /\ \A i \in 1 .. Len(starts) : (init2 \o starts)[Len(init2) + i] = starts[i]
          BY <1>4, <1>5, ConcatElements, Elements
        <5>2. 1 \in 1 .. Len(init2)
          BY <1>5
        <5>3. QED
          BY <1>5, <3>1, <5>1, <5>2
      <4>2. \A i \in 1 .. Len(p) : i # 1 => i > 1 /\ p[i].type \in Dialogue
        <5>1. SUFFICES ASSUME NEW i \in 1 .. Len(p), i # 1 PROVE i > 1 /\ p[i].type \in Dialogue
          OBVIOUS
        <5> HIDE DEF p
        <5>2. i - 1 \in 1 .. Len(starts) /\ 1 + (i - 1) = i /\ i > 1
          BY <4>1, <5>1
        <5>3. p[i] = starts[i - 1]
          BY <4>1, <5>2
        <5>4. QED
          BY <1>4, <5>2, <5>3
      <4> HIDE DEF p
      <4>3. QED
        BY <1>13, <3>1, <4>1, <4>2 DEF IsPacket
    <3>2. CASE s # "called"
      BY <1>4, <1>14, <3>2 DEF IsPacket
    <3>3. QED
      BY <3>1, <3>2
  <2>2. s = "called" => Len(p) >= 1
    <3>1. Len(init2 \o starts) = Len(init2) + Len(starts)
      BY <1>4, <1>5, ConcatElements
    <3>2. Len(starts) \in Nat
      BY <1>4, Elements
    <3>3. QED
      BY <1>5, <3>1, <3>2
  <2> HIDE DEF p
  <2>3. Given(s)' = 3 /\ Given(s) + Len(p) >= 3
    BY <1>12, <1>13, <1>14, <2>2
  <2>4. m_state[o] = "GONE" => wire'[o] = wire[o]
    BY <1>8, <1>10
  <2>5. m_state[s] # "GONE" /\ m_state'[s] # "GONE"
    BY <1>2, <1>3
  <2>6. QED
    BY <1>3, <1>11, <1>12, <2>1, <2>3, <2>4, <2>5, ListenerKeepsHand
<1>17. ~early
  <2>1. CASE s = "called"
    BY <1>2, <2>1 DEF HandInv, Phases
  <2>2. CASE s = "caller"
    <3>1. SUFFICES ASSUME early PROVE FALSE
      OBVIOUS
    <3>2. Behind <= 2 /\ Got(s) = 2
      BY <1>2, <1>14, <2>2, <3>1 DEF HandInv, Slow
    <3>3. Len(wire[s]) \in Nat /\ Len(wire[s]) # 0
      <4>1. wire[s] \in Seq(Packet)
        BY <1>1
      <4>2. QED
        BY <1>2, <4>1, Elements, EmptySeq
    <3>4. QED
      BY <2>2, <3>2, <3>3 DEF Behind
  <2>3. QED
    BY <2>1, <2>2 DEF Sides
<1>18. Phases'
  BY <1>1, <1>2, <1>3, <1>17 DEF HandInv, Phases, Sides
<1>19. ~Slow'
  <2>1. CASE s = "called"
    <3>1. o = "caller" /\ ~Slow
      BY <1>1, <1>2, <2>1, NotSlow DEF Sides
    <3>2. QED
      BY <1>3, <3>1 DEF Slow
  <2>2. CASE s = "caller"
    BY <1>3, <2>2 DEF Slow
  <2>3. QED
    BY <2>1, <2>2 DEF Sides
<1>20. QED
  BY <1>1, <1>15, <1>16, <1>18, <1>19 DEF HandInv

LEMMA EndsHand ==
    ASSUME TypeOK, HandInv, NEW s \in Sides, Ends(s)
    PROVE  HandInv'
<1> DEFINE o == Other(s)
<1>1. o \in Sides /\ o # s /\ Other(o) = s /\ \A t \in Sides : t = s \/ t = o
  BY OtherSide
<1>2. PICK fates : Destroy(s, fates)
  BY EndsEffect
<1>3. /\ m_state[s] # "NOT_CONNECTED" /\ m_state'[s] = "GONE" /\ m_state'[o] = m_state[o]
      /\ wire'[s] = <<>> /\ wire'[o] = wire[o] /\ early' = early
  BY <1>1, <1>2 DEF Destroy, TypeOK, Ends
<1>4. Ordered(Part(s)', Got(s)', wire'[s])
  BY <1>3 DEF Ordered
<1>5. Got(o)' = Got(o) /\ Part(o)' = Part(o)
  BY <1>3 DEF Got, Part
<1>6. HandSide(s)'
  BY <1>1, <1>3, <1>4 DEF HandSide
<1>7. HandSide(o)'
  BY <1>1, <1>3, <1>5 DEF HandSide, HandInv
<1>8. Phases'
  BY <1>1, <1>3 DEF HandInv, Phases, Sides
<1>9. Slow' => Behind' <= 2
  <2>1. CASE s = "called"
    <3>1. o = "caller"
      BY <1>1, <2>1 DEF Sides
    <3>2. QED
      BY <1>3, <1>5, <3>1 DEF Slow, Behind, HandInv
  <2>2. CASE s = "caller"
    BY <1>3, <2>2 DEF Slow
  <2>3. QED
    BY <2>1, <2>2 DEF Sides
<1>10. QED
  BY <1>1, <1>6, <1>7, <1>8, <1>9 DEF HandInv

LEMMA UnchangedHand ==
    ASSUME HandInv, UNCHANGED <<m_state, early, wire>>
    PROVE  HandInv'
<1>1. \A s : Got(s)' = Got(s) /\ Given(s)' = Given(s) /\ Part(s)' = Part(s)
  BY DEF Got, Given, Part
<1>2. \A s \in Sides : HandSide(s)'
  BY <1>1 DEF HandInv, HandSide
<1>3. Phases' /\ (Slow' => Behind' <= 2)
  BY <1>1 DEF HandInv, Phases, Slow, Behind
<1>4. QED
  BY <1>2, <1>3 DEF HandInv

\* A packet of the dialogue is only taken by a side that is connected.
LEMMA ReadDialogueHand ==
    ASSUME TypeOK, HandInv, NEW s \in Sides, ParseStart(s) \/ ParseAck(s) \/ ParseCancel(s)
    PROVE  HandInv'
<1> DEFINE p == Head(wire[s])
           ack == [type |-> "ACK", seqnum |-> p.seqnum, ev |-> p.ev]
<1>1. m_state[s] = "CONNECTED" /\ wire[s] # <<>> /\ UNCHANGED <<m_state, early>>
      /\ p.type \in {"START", "ACK", "CANCEL"}
  BY DEF ParseStart, ParseAck, ParseCancel, linkVars
<1>2. ack \in Packet
  BY <1>1, FirstPacket, PacketTypes
<1>3. ack.type \in Dialogue
  BY DEF Dialogue
<1>4. wire' = Receive(s) \/ wire' = SendTo(Other(s), Receive(s), <<ack>>)
  BY DEF ParseStart, ParseAck, ParseCancel
<1> HIDE DEF ack
<1>5. <<ack>> \in Seq(Packet) /\ \A i \in 1 .. Len(<<ack>>) : <<ack>>[i].type \in Dialogue
  BY <1>2, <1>3
<1> DEFINE acks == <<ack>>
<1> HIDE DEF acks
<1>6. Receive(s) \in [Sides -> Seq(Packet)] /\ Receive(s)[s] = Tail(wire[s]) /\ Receive(s)[Other(s)] = wire[Other(s)]
  BY <1>1, ReceiveType, ReceiveEffect
<1>7. /\ SendTo(Other(s), Receive(s), acks)[s] = Receive(s)[s]
      /\ m_state[Other(s)] = "GONE" => SendTo(Other(s), Receive(s), acks)[Other(s)] = Receive(s)[Other(s)]
      /\ m_state[Other(s)] # "GONE" => SendTo(Other(s), Receive(s), acks)[Other(s)] = Receive(s)[Other(s)] \o acks
  BY <1>5, <1>6, SendToEffect DEF acks
<1>8. /\ wire'[s] = Tail(wire[s])
      /\ \/ wire'[Other(s)] = wire[Other(s)]
         \/ m_state[Other(s)] # "GONE" /\ wire'[Other(s)] = wire[Other(s)] \o acks
  BY <1>4, <1>6, <1>7 DEF acks
<1>9. QED
  BY <1>1, <1>5, <1>8, DialogueKeepsHand DEF acks

\* A side that is connected sends packets of the dialogue.
LEMMA SendDialogueHand ==
    ASSUME TypeOK, HandInv, NEW s \in Sides, m_state[s] = "CONNECTED", UNCHANGED <<m_state, early>>,
           NEW p \in Seq(Packet), \A i \in 1 .. Len(p) : p[i].type \in Dialogue,
           wire' = SendTo(Other(s), wire, p)
    PROVE  HandInv'
<1>1. wire \in [Sides -> Seq(Packet)]
  BY DEF TypeOK
<1>2. /\ SendTo(Other(s), wire, p)[s] = wire[s]
      /\ m_state[Other(s)] = "GONE" => SendTo(Other(s), wire, p)[Other(s)] = wire[Other(s)]
      /\ m_state[Other(s)] # "GONE" => SendTo(Other(s), wire, p)[Other(s)] = wire[Other(s)] \o p
  BY <1>1, SendToEffect
<1>3. QED
  BY <1>2, DialogueKeepsHand

LEMMA SendEventHand ==
    ASSUME TypeOK, HandInv, NEW e \in Events, SendEvent(e)
    PROVE  HandInv'
<1> DEFINE s == Sender(e)
           p == Starts(Numbered(s, <<e>>))
<1>1. s \in Sides /\ <<e>> \in Seq(Events) /\ wire \in [Sides -> Seq(Packet)] /\ UNCHANGED <<m_state, early>>
  BY SenderSide DEF TypeOK, SendEvent, linkVars
<1>2. CASE m_state[s] = "CONNECTED" /\ SendPacketEvents(s, <<e>>, wire)
  <2>1. wire' = SendTo(Other(s), wire, p)
    BY <1>1, <1>2, SendPacketEventsEffect
  <2>2. p \in Seq(Packet) /\ \A i \in 1 .. Len(p) : p[i].type \in Dialogue
    BY <1>1, NumberedElements, StartsAreDialogue
  <2> HIDE DEF p
  <2>3. QED
    BY <1>1, <1>2, <2>1, <2>2, SendDialogueHand
<1>3. CASE UNCHANGED wire
  BY <1>1, <1>3, UnchangedHand
<1>4. QED
  BY <1>2, <1>3 DEF SendEvent

LEMMA OneElement == ASSUME NEW X, NEW x \in X PROVE <<x>> \in Seq(X)
  OBVIOUS

\* What the caller says in the middle of its handshake comes second to the called side.
LEMMA EarlyHand ==
    ASSUME TypeOK, HandInv, NEW p \in Packet, p.type \in {"ACK", "CANCEL"}, Tells("caller", p),
           m_state["caller"] \in {"WAITING_FOR_INIT_ACK", "WAITING_FOR_INIT"}
    PROVE  HandInv'
<1> DEFINE s == "caller"
           o == "called"
<1>1. /\ s \in Sides /\ o \in Sides /\ Other(s) = o /\ Other(o) = s
      /\ wire \in [Sides -> Seq(Packet)] /\ wire[o] \in Seq(Packet)
      /\ HandSide(s) /\ HandSide(o) /\ \A t \in Sides : t = s \/ t = o
  BY OtherSide DEF Sides, TypeOK, HandInv
<1>0. PICK q : q = <<p>> /\ q \in Seq(Packet)
  BY OneElement
<1>2. Len(q) = 1 /\ q[1] = p
  BY <1>0
<1>3. wire' = SendTo(o, wire, q) /\ early' = TRUE /\ m_state' = m_state
  BY <1>0, <1>1, Zenon DEF Tells
<1>4. /\ wire'[s] = wire[s]
      /\ m_state[o] = "GONE" => wire'[o] = wire[o]
      /\ m_state[o] # "GONE" => wire'[o] = wire[o] \o q
  <2>1. ASSUME NEW t \in Sides
        PROVE  /\ SendTo(Other(t), wire, q)[t] = wire[t]
               /\ m_state[Other(t)] = "GONE" => SendTo(Other(t), wire, q)[Other(t)] = wire[Other(t)]
               /\ m_state[Other(t)] # "GONE" => SendTo(Other(t), wire, q)[Other(t)] = wire[Other(t)] \o q
    <3>1. wire \in [Sides -> Seq(Packet)]
      BY <1>1
    <3>2. QED
      BY ONLY <1>0, <3>1, t \in Sides, SendToEffect, Zenon
  <2>2. QED
    BY <1>1, <1>3, <2>1
<1>5. /\ \A t : Got(t)' = Got(t) /\ Given(t)' = Given(t)
      /\ Part(s)' = s /\ Part(s) = s /\ Part(o)' = "doomed"
  BY <1>3 DEF Got, Given, Part
<1>6. HandSide(s)'
  BY <1>1, <1>3, <1>4, <1>5 DEF HandSide
<1>7. Given(s) = 1 /\ Got(o) \in 0 .. 3 /\ Len(wire[o]) \in Nat
  BY <1>1, Counts, Elements DEF Given
<1>8. ASSUME m_state[o] # "GONE"
      PROVE  /\ early => Got(o) + Len(wire[o]) >= 2
             /\ ~early => Got(o) + Len(wire[o]) = 1
             /\ Ordered("doomed", Got(o), wire[o])
  <2>1. Ordered(Part(o), Got(o), wire[o]) /\ Balanced(Part(o), Got(o), 1, wire[o])
    BY <1>1, <1>7, <1>8 DEF HandSide
  <2>2. (early => Part(o) = "doomed") /\ (~early => Part(o) = o)
    BY <1>1, Parts
  <2>3. ~early => Got(o) + Len(wire[o]) = 1
    BY <2>1, <2>2 DEF Balanced
  <2>4. early => Got(o) + Len(wire[o]) >= 2
    BY <2>1, <2>2 DEF Balanced
  <2>5. ASSUME ~early PROVE Ordered("doomed", Got(o), wire[o])
    <3>1. SUFFICES ASSUME NEW i \in 1 .. Len(wire[o]) PROVE IsPacket("doomed", Got(o) + i, wire[o][i].type)
      BY DEF Ordered
    <3>2. IsPacket(o, Got(o) + i, wire[o][i].type)
      BY <2>1, <2>2, <2>5 DEF Ordered
    <3>3. Got(o) + i = 1
      BY <1>7, <2>3, <2>5
    <3>4. QED
      BY <3>2, <3>3 DEF IsPacket
  <2>6. QED
    BY <2>1, <2>2, <2>3, <2>4, <2>5
<1>9. HandSide(o)'
  <2>1. CASE m_state[o] = "GONE"
    <3>1. wire'[o] = <<>>
      BY <1>1, <1>4, <2>1 DEF HandSide
    <3>2. Ordered("doomed", Got(o), wire'[o])
      BY <3>1 DEF Ordered
    <3>3. QED
      BY <1>3, <1>5, <2>1, <3>1, <3>2 DEF HandSide
  <2>2. CASE m_state[o] # "GONE"
    <3>0. wire'[o] = wire[o] \o q
      BY <1>4, <2>2
    <3>1. wire'[o] = wire[o] \o q /\ Len(wire'[o]) = Len(wire[o]) + 1
      <4>1. Len(wire[o] \o q) = Len(wire[o]) + Len(q)
        BY <1>0, <1>1, <1>2, ConcatElements
      <4>2. QED
        BY <1>2, <3>0, <4>1
    <3>2. \A i \in 1 .. Len(q) : IsPacket("doomed", Got(o) + Len(wire[o]) + i, q[i].type)
      <4>1. SUFFICES ASSUME NEW i \in 1 .. Len(q)
                     PROVE  IsPacket("doomed", Got(o) + Len(wire[o]) + i, q[i].type)
        OBVIOUS
      <4>0. i = 1 /\ q[i] = p
        BY <1>2
      <4>2. i = 1 /\ q[i] = p /\ Got(o) + Len(wire[o]) >= 1
        <5>1. CASE early
          BY <1>7, <1>8, <2>2, <4>0, <5>1
        <5>2. CASE ~early
          BY <1>7, <1>8, <2>2, <4>0, <5>2
        <5>3. QED
          BY <5>1, <5>2
      <4>3. QED
        BY <1>7, <4>2 DEF IsPacket
    <3>3. Ordered("doomed", Got(o), wire'[o])
      <4>1. PICK d : d = "doomed"
        OBVIOUS
      <4>2. Ordered(d, Got(o), wire[o]) /\ \A i \in 1 .. Len(q) : IsPacket(d, Got(o) + Len(wire[o]) + i, q[i].type)
        BY <1>8, <2>2, <3>2, <4>1
      <4>3. Ordered(d, Got(o), wire[o] \o q)
        BY <1>0, <1>1, <1>7, <4>2, OrderedConcat
      <4>4. QED
        BY <3>0, <4>1, <4>3
    <3>4. Got(o) + Len(wire'[o]) >= 2
      BY <1>7, <1>8, <2>2, <3>1
    <3>5. Balanced("doomed", Got(o), Given(s), wire'[o])
      BY <3>4 DEF Balanced
    <3>6. QED
      BY <1>1, <1>3, <1>5, <2>2, <3>3, <3>5 DEF HandSide
  <2>3. QED
    BY <2>1, <2>2
<1>10. Phases'
  <2>1. m_state[o] \in {"WAITING_FOR_INIT", "WAITING_FOR_INIT_ACK", "GONE"}
    <3>1. m_state[o] # "GONE" /\ ~early => Got(o) <= 1
      BY <1>7, <1>8
    <3>2. m_state[o] \in States /\ m_state[o] \notin {"NOT_CONNECTED", "CONNECTING"}
      BY <1>1 DEF TypeOK, HandInv, Phases
    <3>3. QED
      BY <3>1, <3>2 DEF Got, States, HandInv, Phases
  <2>2. QED
    BY <1>3, <2>1 DEF Phases, HandInv
<1>11. Slow' => Behind' <= 2
  <2>1. Slow
    BY DEF Slow
  <2>2. Behind' = Behind
    BY <1>4, <1>5 DEF Behind
  <2>3. QED
    BY <2>1, <2>2 DEF HandInv
<1>12. QED
  BY <1>1, <1>6, <1>9, <1>10, <1>11 DEF HandInv

\* After INIT2 it comes in its place, but to a side that is doomed.
LEMMA LateHand ==
    ASSUME TypeOK, HandInv, NEW p \in Packet, p.type \in {"ACK", "CANCEL"}, Tells("caller", p),
           m_state["caller"] = "WAITING_FOR_INIT2"
    PROVE  HandInv'
<1> DEFINE s == "caller"
           o == "called"
<1>1. /\ s \in Sides /\ o \in Sides /\ Other(s) = o /\ Other(o) = s
      /\ wire \in [Sides -> Seq(Packet)] /\ HandSide(s) /\ \A t \in Sides : t = s \/ t = o
  BY OtherSide DEF Sides, TypeOK, HandInv
<1>0. PICK q : q = <<p>> /\ q \in Seq(Packet)
  BY OneElement
<1>2. Len(q) = 1 /\ q[1] = p
  BY <1>0
<1>3. wire' = SendTo(o, wire, q) /\ early' = early /\ m_state' = m_state
  BY <1>0, <1>1 DEF Tells, TypeOK
<1>4. /\ wire'[s] = wire[s]
      /\ m_state[o] = "GONE" => wire'[o] = wire[o]
      /\ m_state[o] # "GONE" => wire'[o] = wire[o] \o q
  <2>1. ASSUME NEW t \in Sides
        PROVE  /\ SendTo(Other(t), wire, q)[t] = wire[t]
               /\ m_state[Other(t)] = "GONE" => SendTo(Other(t), wire, q)[Other(t)] = wire[Other(t)]
               /\ m_state[Other(t)] # "GONE" => SendTo(Other(t), wire, q)[Other(t)] = wire[Other(t)] \o q
    <3>1. wire \in [Sides -> Seq(Packet)]
      BY <1>1
    <3>2. QED
      BY ONLY <1>0, <3>1, t \in Sides, SendToEffect, Zenon
  <2>2. QED
    BY <1>1, <1>3, <2>1
<1>5. \A t : Got(t)' = Got(t) /\ Given(t)' = Given(t) /\ Part(t)' = Part(t)
  BY <1>3 DEF Got, Given, Part
<1>6. HandSide(s)'
  BY <1>1, <1>3, <1>4, <1>5 DEF HandSide
<1>7. Given(s) = 3 /\ Given(s)' = 3
  BY <1>3 DEF Given
<1>8. HandSide(o)'
  <2>1. \A i \in 1 .. Len(q) : IsPacket(o, Given(s) + i, q[i].type)
    <3>1. SUFFICES ASSUME NEW i \in 1 .. Len(q) PROVE IsPacket(o, Given(s) + i, q[i].type)
      OBVIOUS
    <3>2. q[i] = p /\ Given(s) + i > 3
      BY <1>2, <1>7
    <3>3. QED
      BY <3>2 DEF IsPacket, Dialogue
  <2>2. m_state[s] # "GONE" /\ m_state'[s] # "GONE" /\ m_state'[Other(s)] = m_state[Other(s)]
    BY <1>3
  <2>3. Given(s)' = 3 /\ Given(s) + Len(q) >= 3
    BY <1>2, <1>7
  <2>4. HandSide(Other(s))'
    BY <1>0, <1>1, <1>2, <1>3, <1>4, <2>1, <2>2, <2>3, ListenerKeepsHand
  <2>5. QED
    BY <1>1, <2>4
<1>9. Phases'
  BY <1>3 DEF HandInv, Phases
<1>10. Slow' => Behind' <= 2
  BY <1>3, <1>4, <1>5 DEF HandInv, Slow, Behind
<1>11. QED
  BY <1>1, <1>6, <1>8, <1>9, <1>10 DEF HandInv

LEMMA TellsHand ==
    ASSUME TypeOK, HandInv, NEW s \in Sides, Usable(s), m_state[s] # "CONNECTING",
           NEW p \in Packet, p.type \in {"ACK", "CANCEL"}, Tells(s, p)
    PROVE  HandInv'
<1>1. CASE m_state[s] = "CONNECTED"
  <2>1. UNCHANGED <<m_state, early>> /\ wire' = SendTo(Other(s), wire, <<p>>)
    BY <1>1 DEF Tells, TypeOK
  <2>2. <<p>> \in Seq(Packet) /\ \A i \in 1 .. Len(<<p>>) : <<p>>[i].type \in Dialogue
    BY DEF Dialogue
  <2> DEFINE q == <<p>>
  <2> HIDE DEF q
  <2>3. QED
    BY <1>1, <2>1, <2>2, SendDialogueHand DEF q
<1>2. CASE m_state[s] # "CONNECTED"
  <2>1. s = "caller" /\ m_state[s] \in {"WAITING_FOR_INIT", "WAITING_FOR_INIT_ACK", "WAITING_FOR_INIT2"}
    BY <1>2 DEF Usable, TypeOK, States
  <2>2. QED
    BY <2>1, EarlyHand, LateHand
<1>3. QED
  BY <1>1, <1>2

LEMMA SendAboutRequestHand ==
    ASSUME TypeOK, HandInv, HasNumber, NEW r \in Requests, Answers(r) \/ Cancels(r)
    PROVE  HandInv'
<1>1. CASE Answers(r)
  <2> DEFINE s == Other(Sender(r))
             ack == [type |-> "ACK", seqnum |-> number[r], ev |-> r]
  <2>1. s \in Sides /\ Usable(s) /\ m_state[s] # "CONNECTING" /\ Tells(s, ack) /\ ack \in Packet
    BY <1>1, AnswersEffect, Zenon
  <2>2. ack.type = "ACK"
    OBVIOUS
  <2> HIDE DEF s, ack
  <2>3. QED
    BY <2>1, <2>2, TellsHand
<1>2. CASE Cancels(r)
  <2> DEFINE s == Sender(r)
             cancel(n) == [type |-> "CANCEL", seqnum |-> n, ev |-> r]
  <2>1. s \in Sides /\ Usable(s) /\ m_state[s] # "CONNECTING"
    BY <1>2, CancelsEffect, Zenon
  <2>2. PICK n \in Number : Tells(s, cancel(n)) /\ cancel(n) \in Packet
    BY <1>2, CancelsEffect, Zenon
  <2>3. cancel(n).type = "CANCEL"
    OBVIOUS
  <2> HIDE DEF s, cancel
  <2>4. QED
    BY <2>1, <2>2, <2>3, TellsHand
<1>3. QED
  BY <1>1, <1>2

LEMMA HandInit == Init => HandInv
<1> SUFFICES ASSUME Init PROVE HandInv
  OBVIOUS
<1>1. /\ ~early
      /\ \A s \in Sides : m_state[s] = "NOT_CONNECTED" /\ wire[s] = <<>> /\ Other(s) \in Sides
  BY OtherSide DEF Init
<1>2. \A s \in Sides : Got(s) = 0 /\ Given(s) = 0 /\ Part(s) = s /\ s # "doomed"
  BY <1>1, Parts DEF Got, Given, Sides
<1>3. \A s \in Sides : Ordered(s, 0, <<>>) /\ Balanced(s, 0, 0, <<>>)
  BY <1>2 DEF Ordered, Balanced
<1>4. \A s \in Sides : HandSide(s)
  BY <1>1, <1>2, <1>3 DEF HandSide
<1>5. "caller" \in Sides /\ "called" \in Sides
  BY DEF Sides
<1>6. Phases /\ ~Slow
  BY <1>1, <1>5 DEF Phases, Slow
<1>7. QED
  BY <1>4, <1>6 DEF HandInv

LEMMA HandStep ==
    ASSUME TypeOK, HasNumber, HandInv, [Next]_vars
    PROVE  HandInv'
<1>1. \A version \in Published : Connect(version) => HandInv'
  BY ConnectHand
<1>2. FinishNonBlockingConnect => HandInv'
  BY FinishHand
<1>3. \A s \in Sides : ParseInitPacket(s) \/ ParseInitAck(s) \/ ParseInit2(s) => HandInv'
  BY ParseInitPacketHand, ParseInitAckHand, ParseInit2Hand
<1>4. \A s \in Sides : ParseStart(s) \/ ParseAck(s) \/ ParseCancel(s) => HandInv'
  BY ReadDialogueHand
<1>5. \A s \in Sides : Ends(s) => HandInv'
  BY EndsHand
<1>6. \A s \in Sides : Expire(s) => HandInv'
  BY UnchangedHand DEF Expire, linkVars
<1>7. \A e \in Events : SendEvent(e) => HandInv'
  BY SendEventHand
<1>8. \A r \in Requests : Answers(r) \/ Cancels(r) => HandInv'
  BY SendAboutRequestHand
<1>9. UNCHANGED vars => HandInv'
  BY UnchangedHand DEF vars, linkVars
<1>10. QED
  BY <1>1, <1>2, <1>3, <1>4, <1>5, <1>6, <1>7, <1>8, <1>9, Steps

\* What the invariant says of the packet that is read next.
LEMMA HandImplies == TypeOK /\ HandInv => HandshakeAgrees
<1> SUFFICES ASSUME TypeOK, HandInv, NEW s \in Sides, wire[s] # <<>>,
                    ~(early /\ s = "called" /\ \A t \in Sides : m_state[t] # "CONNECTED")
             PROVE  Head(wire[s]).type \in Dialogue <=> m_state[s] = "CONNECTED"
  BY DEF HandshakeAgrees
<1>1. /\ wire[s] \in Seq(Packet) /\ Ordered(Part(s), Got(s), wire[s]) /\ Got(s) \in 0 .. 3
      /\ m_state[s] # "GONE" /\ m_state[s] \in States
  BY Counts DEF TypeOK, HandInv, HandSide
<1>2. Part(s) = s /\ s # "doomed"
  <2>1. early => \A t \in Sides : m_state[t] # "CONNECTED"
    BY NotEarly
  <2>2. QED
    BY <2>1, Parts DEF Sides
<1>3. IsPacket(s, Got(s) + 1, Head(wire[s]).type)
  BY <1>1, <1>2, OrderedTail
<1>4. Got(s) = 3 <=> m_state[s] = "CONNECTED"
  BY <1>1 DEF Got, States
<1>5. Got(s) = 3 => Head(wire[s]).type \in Dialogue
  BY <1>2, <1>3 DEF IsPacket
<1>6. Got(s) # 3 => Head(wire[s]).type \notin Dialogue
  BY <1>1, <1>2, <1>3 DEF IsPacket, Dialogue
<1>7. QED
  BY <1>4, <1>5, <1>6

-----------------------------------------------------------------------------
(* The fates of events: what is under way, kept in a cache or queued is      *)
(* what was sent under the number it carries, and is where its fate says.    *)

Told(s) == ToSet(handled[s])

\* What side s knows of: the requests of an earlier connection too.
Known(s) == Told(s) \cup Earlier

\* Packet p to side s is about an event that was sent, or was told, under its number.
PacketRight(s, p) ==
    /\ p.type = "START" =>
         /\ Sender(p.ev) = Other(s) /\ number[p.ev] = p.seqnum
         /\ p.ev \in Requests => asked[p.ev] = "new"
    /\ p.type = "ACK" =>
         /\ Sender(p.ev) = s /\ number[p.ev] = p.seqnum /\ p.ev \in Known(Other(s))
         /\ p.ev \in Requests => asked[p.ev] = "answered"

\* An event is started by one packet.
StartsOnce(q) ==
    \A i, j \in DOMAIN q :
        q[i].type = "START" /\ q[j].type = "START" /\ q[i].ev = q[j].ev => i = j

WireInv == \A s \in Sides : StartsOnce(wire[s]) /\ \A p \in ToSet(wire[s]) : PacketRight(s, p)

Once(q) == \A i, j \in DOMAIN q : q[i] = q[j] => i = j

QueueInv ==
    \A s \in Sides :
        /\ Once(m_msgqueue[s])
        /\ \A e \in ToSet(m_msgqueue[s]) : /\ sent[e] \in {"queued", "withdrawn"}
                                          /\ number[e] = -1 /\ Sender(e) = s

\* What was not sent has no number, and what was asked was told, or is of before.
NewInv ==
    \A e \in Events :
        /\ sent[e] \in {"new", "queued"} => number[e] = -1
        /\ e \in Requests /\ asked[e] # "new" => e \in Known(Other(Sender(e)))

EarlierInv == \A e \in Earlier : asked[e] # "new"

\* Entry x of the cache of side s is an event of its own that waits for its
\* acknowledge, or a request of the peer that waits for its answer.
EntryRight(s, x) ==
    /\ number[x.ev] = x.seqnum /\ x.ev \notin Earlier
    /\ Sender(x.ev) # s => x.ev \in Requests /\ asked[x.ev] = "asked"
    /\ Sender(x.ev) = s /\ ~Crossed(x.ev) => sent[x.ev] \in {"pending", "withdrawn"}

CacheInv == \A s \in Sides : \A x \in ToSet(m_msgcache[s]) : EntryRight(s, x)

FateRight(e) ==
    /\ sent[e] = "acked" /\ ~Crossed(e) =>
         e \in Told(Other(Sender(e))) /\ (e \in Requests => asked[e] = "answered")
    /\ sent[e] = "pending" /\ ~Crossed(e) => \E x \in ToSet(m_msgcache[Sender(e)]) : x.ev = e

FateInv == \A e \in Events : FateRight(e)

EventsInv == WireInv /\ QueueInv /\ NewInv /\ EarlierInv /\ HasNumber /\ CacheInv /\ OneEntry /\ FateInv

\* A side that is not connected keeps nothing in its cache, and what is queued
\* waits for the connection.
Quiet ==
    /\ \A s \in Sides : m_state[s] # "CONNECTED" => m_msgcache[s] = <<>>
    /\ \A e \in Events : sent[e] = "queued" =>
         m_state[Sender(e)] # "CONNECTED" /\ e \in ToSet(m_msgqueue[Sender(e)])

\* What no step takes back.
Grows ==
    /\ \A e \in Events : number[e] # -1 => number'[e] = number[e]
    /\ \A r \in Requests : /\ asked[r] # "new" => asked'[r] # "new"
                           /\ asked[r] = "answered" => asked'[r] = "answered"
    /\ \A s \in Sides : Told(s) \subseteq Told(s)'

LEMMA CrossedStays ==
    ASSUME Grows, NEW e \in Events, Crossed(e)
    PROVE  Crossed(e)'
<1>1. PICK f \in Events \ {e} :
         /\ number[f] = number[e] /\ number[e] # -1
         /\ Sender(f) = Sender(e) \/ (f \in Requests /\ asked[f] # "new")
  BY DEF Crossed
<1>2. number'[f] = number'[e] /\ number'[e] # -1
  BY <1>1 DEF Grows
<1>3. f \in Requests /\ asked[f] # "new" => asked'[f] # "new"
  BY DEF Grows
<1>4. QED
  BY <1>1, <1>2, <1>3 DEF Crossed

LEMMA NumberNotMinus == \A n \in Number : n # -1 /\ n \in Nat
  BY DEF Number

\* A packet that was under way stays right, if no request of it was asked in between.
LEMMA PacketStays ==
    ASSUME TypeOK, Grows, NEW s \in Sides, NEW p \in ToSet(wire[s]), PacketRight(s, p),
           p.type = "START" /\ p.ev \in Requests => asked'[p.ev] = asked[p.ev]
    PROVE  PacketRight(s, p)'
<1>1. p \in Packet
  BY Elements DEF TypeOK
<1>2. p.type \in {"START", "ACK"} => p.seqnum # -1 /\ p.ev \in Events
  BY <1>1, DialogueType, NumberNotMinus
<1>3. p.type \in {"START", "ACK"} => number'[p.ev] = p.seqnum
  BY <1>2 DEF PacketRight, Grows
<1>4. Known(Other(s)) \subseteq Known(Other(s))'
  BY OtherSide DEF Grows, Known
<1>5. QED
  BY <1>3, <1>4 DEF PacketRight, Grows

\* So does an entry, if its fate is not settled.
LEMMA EntryStays ==
    ASSUME TypeOK, Grows, NEW s \in Sides, NEW x \in ToSet(m_msgcache[s]), EntryRight(s, x),
           Sender(x.ev) # s => asked'[x.ev] = asked[x.ev],
           Sender(x.ev) = s /\ ~Crossed(x.ev)' => sent'[x.ev] = sent[x.ev]
    PROVE  EntryRight(s, x)'
<1>1. x \in Entry
  BY Elements DEF TypeOK
<1>2. x.ev \in Events /\ x.seqnum # -1
  BY <1>1, NumberNotMinus DEF Entry
<1>3. number'[x.ev] = x.seqnum
  BY <1>2 DEF EntryRight, Grows
<1>4. ~Crossed(x.ev)' => ~Crossed(x.ev)
  BY <1>2, CrossedStays
<1>5. QED
  BY <1>3, <1>4 DEF EntryRight

\* And a fate that is not changed, if the entry of an event that waits is kept.
LEMMA FateStays ==
    ASSUME TypeOK, Grows, NEW e \in Events, FateRight(e), sent'[e] = sent[e],
           \A x \in ToSet(m_msgcache[Sender(e)]) :
             x.ev = e /\ ~Crossed(e)' => x \in ToSet(m_msgcache'[Sender(e)])
    PROVE  FateRight(e)'
<1>1. ~Crossed(e)' => ~Crossed(e)
  BY CrossedStays
<1>2. Told(Other(Sender(e))) \subseteq Told(Other(Sender(e)))'
  BY SenderSide, OtherSide DEF Grows
<1>3. e \in Requests /\ asked[e] = "answered" => asked'[e] = "answered"
  BY DEF Grows
<1>4. QED
  BY <1>1, <1>2, <1>3 DEF FateRight

\* An event in a cache is not about to be sent.
LEMMA EntryIsSent ==
    ASSUME TypeOK, NewInv, NEW s \in Sides, NEW x \in ToSet(m_msgcache[s]), EntryRight(s, x)
    PROVE  /\ x \in Entry /\ x.ev \in Events /\ x.seqnum \in Number /\ sent[x.ev] \notin {"new", "queued"}
           /\ number[x.ev] # -1
<1>1. x \in Entry
  BY Elements DEF TypeOK
<1>2. x.ev \in Events /\ x.seqnum \in Number /\ x.seqnum # -1
  BY <1>1, NumberNotMinus DEF Entry
<1>3. number[x.ev] = x.seqnum
  BY DEF EntryRight
<1>4. QED
  BY <1>1, <1>2, <1>3 DEF NewInv

LEMMA StartsOnceConcat ==
    ASSUME NEW q \in Seq(Packet), NEW p \in Seq(Packet), StartsOnce(q), StartsOnce(p),
           \A a \in ToSet(q), b \in ToSet(p) : a.type = "START" /\ b.type = "START" => a.ev # b.ev
    PROVE  StartsOnce(q \o p)
<1> DEFINE w == q \o p
           n == Len(q) + Len(p)
<1>1. /\ w \in Seq(Packet) /\ Len(w) = n
      /\ \A i \in 1 .. n : w[i] = IF i <= Len(q) THEN q[i] ELSE p[i - Len(q)]
  BY ConcatProperties
<1>2. Len(q) \in Nat /\ Len(p) \in Nat /\ DOMAIN q = 1 .. Len(q) /\ DOMAIN p = 1 .. Len(p) /\ DOMAIN w = 1 .. n
  BY <1>1, Elements
<1> HIDE DEF w
<1>3. SUFFICES ASSUME NEW i \in 1 .. n, NEW j \in 1 .. n,
                      w[i].type = "START", w[j].type = "START", w[i].ev = w[j].ev
               PROVE  i = j
  BY <1>2 DEF StartsOnce, w
<1>4. ASSUME NEW k \in 1 .. n
      PROVE  /\ k <= Len(q) => k \in DOMAIN q /\ w[k] = q[k] /\ w[k] \in ToSet(q)
             /\ ~(k <= Len(q)) => k - Len(q) \in DOMAIN p /\ w[k] = p[k - Len(q)] /\ w[k] \in ToSet(p)
  <2>1. k <= Len(q) => k \in DOMAIN q /\ w[k] = q[k]
    BY <1>1, <1>2
  <2>2. ~(k <= Len(q)) => k - Len(q) \in DOMAIN p /\ w[k] = p[k - Len(q)]
    BY <1>1, <1>2
  <2>3. (\A m \in DOMAIN q : q[m] \in ToSet(q)) /\ (\A m \in DOMAIN p : p[m] \in ToSet(p))
    BY DEF ToSet
  <2>4. QED
    BY <2>1, <2>2, <2>3
<1>5. CASE i <= Len(q) /\ j <= Len(q)
  BY <1>3, <1>4, <1>5 DEF StartsOnce
<1>6. CASE ~(i <= Len(q)) /\ ~(j <= Len(q))
  <2>1. i - Len(q) = j - Len(q)
    BY <1>3, <1>4, <1>6 DEF StartsOnce
  <2>2. QED
    BY <1>2, <2>1
<1>7. CASE (i <= Len(q)) # (j <= Len(q))
  BY <1>3, <1>4, <1>7
<1>8. QED
  BY <1>5, <1>6, <1>7

LEMMA StartsOnceTail ==
    ASSUME NEW q \in Seq(Packet), q # <<>>, StartsOnce(q)
    PROVE  /\ StartsOnce(Tail(q))
           /\ \A p \in ToSet(Tail(q)) :
                Head(q).type = "START" /\ p.type = "START" => p.ev # Head(q).ev
<1> DEFINE t == Tail(q)
<1>1. /\ Len(q) \in Nat /\ Len(q) >= 1 /\ DOMAIN q = 1 .. Len(q) /\ Head(q) = q[1]
      /\ t \in Seq(Packet) /\ Len(t) = Len(q) - 1 /\ \A i \in 1 .. Len(q) - 1 : t[i] = q[i + 1]
  BY TailElements, Elements
<1>2. DOMAIN t = 1 .. Len(q) - 1
  BY <1>1, Elements
<1> HIDE DEF t
<1>3. \A i \in 1 .. Len(q) - 1 : i + 1 \in DOMAIN q /\ t[i] = q[i + 1] /\ i + 1 # 1 /\ 1 \in DOMAIN q
  BY <1>1
<1>4. ASSUME NEW i \in 1 .. Len(q) - 1, NEW j \in 1 .. Len(q) - 1,
             t[i].type = "START", t[j].type = "START", t[i].ev = t[j].ev
      PROVE  i = j
  <2>1. i + 1 = j + 1
    BY <1>3, <1>4 DEF StartsOnce
  <2>2. QED
    BY <1>1, <2>1
<1>5. ASSUME NEW p \in ToSet(t), Head(q).type = "START", p.type = "START" PROVE p.ev # Head(q).ev
  <2>1. PICK i \in 1 .. Len(q) - 1 : t[i] = p
    BY <1>2 DEF ToSet
  <2>2. QED
    BY <1>1, <1>3, <1>5, <2>1 DEF StartsOnce
<1>6. StartsOnce(t)
  BY <1>2, <1>4 DEF StartsOnce
<1>7. QED
  BY <1>5, <1>6 DEF t

\* The wires after a step of side s: what it reads is gone, and what it sends is p.
LEMMA WireStep ==
    ASSUME TypeOK, WireInv, Grows, NEW s \in Sides, NEW p \in Seq(Packet), StartsOnce(p),
           \A a \in ToSet(wire[Other(s)]), b \in ToSet(p) :
             a.type = "START" /\ b.type = "START" => a.ev # b.ev,
           \A b \in ToSet(p) : PacketRight(Other(s), b)',
           \/ wire'[s] = wire[s]
           \/ wire[s] # <<>> /\ wire'[s] = Tail(wire[s])
           \/ wire'[s] = <<>>,
           wire'[Other(s)] = wire[Other(s)] \/ wire'[Other(s)] = wire[Other(s)] \o p,
           \A t \in Sides : \A a \in ToSet(wire[t]) :
             a \in ToSet(wire'[t]) /\ a.type = "START" /\ a.ev \in Requests => asked'[a.ev] = asked[a.ev]
    PROVE  WireInv'
<1> DEFINE o == Other(s)
<1>1. /\ o \in Sides /\ o # s /\ \A t \in Sides : t = s \/ t = o
      /\ wire[s] \in Seq(Packet) /\ wire[o] \in Seq(Packet)
      /\ StartsOnce(wire[s]) /\ StartsOnce(wire[o])
  BY OtherSide DEF TypeOK, WireInv
<1>2. StartsOnce(wire'[s]) /\ ToSet(wire'[s]) \subseteq ToSet(wire[s])
  <2>1. StartsOnce(<<>>) /\ ToSet(<<>>) = {}
    BY NoElements DEF StartsOnce
  <2>2. wire[s] # <<>> => StartsOnce(Tail(wire[s])) /\ ToSet(Tail(wire[s])) \subseteq ToSet(wire[s])
    BY <1>1, StartsOnceTail, TailElements
  <2>3. QED
    BY <1>1, <2>1, <2>2
<1>3. StartsOnce(wire'[o]) /\ ToSet(wire'[o]) \subseteq ToSet(wire[o]) \cup ToSet(p)
  <2>1. StartsOnce(wire[o] \o p)
    BY <1>1, StartsOnceConcat
  <2>2. ToSet(wire[o] \o p) = ToSet(wire[o]) \cup ToSet(p)
    BY <1>1, ConcatElements
  <2>3. QED
    BY <1>1, <2>1, <2>2
<1>4. \A t \in Sides : \A a \in ToSet(wire[t]) : a \in ToSet(wire'[t]) => PacketRight(t, a)'
  <2>1. SUFFICES ASSUME NEW t \in Sides, NEW a \in ToSet(wire[t]), a \in ToSet(wire'[t])
                 PROVE  PacketRight(t, a)'
    OBVIOUS
  <2>2. PacketRight(t, a)
    BY DEF WireInv
  <2>3. QED
    BY <2>1, <2>2, PacketStays
<1>5. \A a \in ToSet(wire'[s]) : PacketRight(s, a)'
  BY <1>2, <1>4
<1>6. \A a \in ToSet(wire'[o]) : PacketRight(o, a)'
  BY <1>1, <1>3, <1>4
<1>7. QED
  BY <1>1, <1>2, <1>3, <1>5, <1>6 DEF WireInv

\* The same for a step that sends nothing.
LEMMA WireQuiet ==
    ASSUME TypeOK, WireInv, Grows, NEW s \in Sides,
           \/ wire'[s] = wire[s]
           \/ wire[s] # <<>> /\ wire'[s] = Tail(wire[s])
           \/ wire'[s] = <<>>,
           wire'[Other(s)] = wire[Other(s)],
           \A t \in Sides : \A a \in ToSet(wire[t]) :
             a \in ToSet(wire'[t]) /\ a.type = "START" /\ a.ev \in Requests => asked'[a.ev] = asked[a.ev]
    PROVE  WireInv'
<1>1. <<>> \in Seq(Packet) /\ StartsOnce(<<>>) /\ ToSet(<<>>) = {}
  BY NoElements DEF StartsOnce
<1>2. \A b \in ToSet(<<>>) : PacketRight(Other(s), b)'
  BY <1>1
<1> DEFINE p == <<>>
<1> HIDE DEF p
<1>3. QED
  BY <1>1, <1>2, WireStep DEF p

-----------------------------------------------------------------------------
(* The fates, one action at a time.                                          *)

\* The entries and packets of a list of events, each of which is in it once.
LEMMA NumberedRight ==
    ASSUME TypeOK, NEW s \in Sides, NEW list \in Seq(Events), Once(list), NEW w \in [Sides -> Seq(Packet)],
           SendPacketEvents(s, list, w)
    PROVE  /\ \A x \in ToSet(Numbered(s, list)) :
                x.ev \in ToSet(list) /\ x.seqnum = number'[x.ev] /\ x.seqnum \in Number
           /\ \A e \in ToSet(list) : \E x \in ToSet(Numbered(s, list)) : x.ev = e
           /\ Distinct(Numbered(s, list))
           /\ \A p \in ToSet(Starts(Numbered(s, list))) :
                p.type = "START" /\ p.ev \in ToSet(list) /\ p.seqnum = number'[p.ev]
           /\ StartsOnce(Starts(Numbered(s, list)))
<1> DEFINE n == Len(list)
           num(i) == Wrap(m_seqnum[s] - (i - 1))
           entries == Numbered(s, list)
           packets == Starts(entries)
<1>1. /\ n \in Nat /\ DOMAIN list = 1 .. n /\ \A i \in 1 .. n : list[i] \in Events
      /\ \A x : x \in ToSet(list) <=> \E i \in 1 .. n : list[i] = x
  BY Elements
<1>2. /\ entries \in Seq(Entry) /\ Len(entries) = n
      /\ \A i \in 1 .. n : entries[i] = [seqnum |-> num(i), ev |-> list[i]]
      /\ packets \in Seq(Packet) /\ Len(packets) = n
      /\ \A i \in 1 .. n : packets[i] = [type |-> "START", seqnum |-> num(i), ev |-> list[i]]
  BY NumberedElements
<1>3. \A e \in ToSet(list) : \E i \in 1 .. n : list[i] = e /\ number'[e] = entries[i].seqnum
  BY SendPacketEventsEffect
<1> HIDE DEF entries, packets, num
<1>4. DOMAIN entries = 1 .. n /\ DOMAIN packets = 1 .. n
  BY <1>2, Elements
<1>5. ASSUME NEW i \in 1 .. n
      PROVE  /\ entries[i].seqnum = num(i) /\ entries[i].ev = list[i] /\ entries[i].seqnum \in Number
             /\ packets[i].type = "START" /\ packets[i].seqnum = num(i) /\ packets[i].ev = list[i]
             /\ list[i] \in ToSet(list) /\ number'[list[i]] = num(i)
  <2>1. entries[i] = [seqnum |-> num(i), ev |-> list[i]] /\ entries[i] \in Entry
    BY <1>2, Elements
  <2>2. packets[i] = [type |-> "START", seqnum |-> num(i), ev |-> list[i]]
    BY <1>2
  <2>3. list[i] \in ToSet(list)
    BY <1>1
  <2>4. PICK j \in 1 .. n : list[j] = list[i] /\ number'[list[i]] = entries[j].seqnum
    BY <1>3, <2>3
  <2>5. j = i
    BY <1>1, <2>4 DEF Once
  <2>6. entries[i].seqnum = num(i) /\ entries[i].ev = list[i]
    BY <2>1
  <2>7. entries[i].seqnum \in Number
    BY <2>1 DEF Entry
  <2>8. QED
    BY <2>2, <2>3, <2>4, <2>5, <2>6, <2>7
<1>6. \A x \in ToSet(entries) : x.ev \in ToSet(list) /\ x.seqnum = number'[x.ev] /\ x.seqnum \in Number
  BY <1>4, <1>5 DEF ToSet
<1>7. \A e \in ToSet(list) : \E x \in ToSet(entries) : x.ev = e
  <2>1. \A i \in 1 .. n : entries[i] \in ToSet(entries)
    BY <1>4 DEF ToSet
  <2>2. QED
    BY <1>1, <1>5, <2>1
<1>8. Distinct(entries)
  BY <1>1, <1>4, <1>5 DEF Distinct, Once
<1>9. \A p \in ToSet(packets) : p.type = "START" /\ p.ev \in ToSet(list) /\ p.seqnum = number'[p.ev]
  BY <1>4, <1>5 DEF ToSet
<1>10. StartsOnce(packets)
  BY <1>1, <1>4, <1>5 DEF StartsOnce, Once
<1>11. QED
  BY <1>6, <1>7, <1>8, <1>9, <1>10 DEF entries, packets

\* What SendPacketEvent keeps, of a list of events that were not sent yet.
LEMMA SendKeepsEvents ==
    ASSUME TypeOK, EventsInv, NEW s \in Sides, NEW list \in Seq(Events), Once(list),
           \A e \in ToSet(list) : sent[e] \in {"new", "queued", "withdrawn"} /\ number[e] = -1 /\ Sender(e) = s,
           NEW w \in [Sides -> Seq(Packet)], SendPacketEvents(s, list, w), UNCHANGED <<asked, handled>>
    PROVE  /\ Grows /\ NewInv' /\ HasNumber' /\ CacheInv' /\ OneEntry' /\ FateInv'
           /\ \A p \in ToSet(Starts(Numbered(s, list))) : PacketRight(Other(s), p)'
           /\ \A a \in ToSet(wire[Other(s)]), b \in ToSet(Starts(Numbered(s, list))) :
                a.type = "START" => a.ev # b.ev
<1> DEFINE entries == Numbered(s, list)
           packets == Starts(entries)
           o == Other(s)
<1>1. /\ \A x \in ToSet(entries) : x.ev \in ToSet(list) /\ x.seqnum = number'[x.ev] /\ x.seqnum \in Number
      /\ \A e \in ToSet(list) : \E x \in ToSet(entries) : x.ev = e
      /\ Distinct(entries)
      /\ \A p \in ToSet(packets) : p.type = "START" /\ p.ev \in ToSet(list) /\ p.seqnum = number'[p.ev]
  BY NumberedRight
<1>2. entries \in Seq(Entry) /\ packets \in Seq(Packet)
  BY NumberedElements
<1> HIDE DEF entries, packets
<1>3. /\ m_msgcache' = [m_msgcache EXCEPT ![s] = @ \o entries]
      /\ \A e \in Events : e \notin ToSet(list) => number'[e] = number[e]
      /\ sent' = [e \in Events |-> IF e \in ToSet(list) /\ sent[e] # "withdrawn" THEN "pending" ELSE sent[e]]
      /\ ToSet(list) \subseteq Events
  BY SendPacketEventsEffect, Elements DEF entries
<1>4. \A e \in ToSet(list) : number[e] = -1 /\ number'[e] \in Number
  BY <1>1
<1>5. \A e \in ToSet(list) : (e \in Requests => asked[e] = "new") /\ e \notin Earlier
  <2>1. \A e \in ToSet(list) : e \in Requests => asked[e] = "new"
    BY <1>3, <1>4, NumberNotMinus DEF EventsInv, HasNumber
  <2>2. QED
    BY <2>1, EarlierOnes DEF EventsInv, EarlierInv
<1>6. Grows
  BY <1>3, <1>4 DEF Grows, Told
<1>7. /\ o \in Sides /\ o # s /\ Other(o) = s /\ \A t \in Sides : t = s \/ t = o
      /\ m_msgcache[s] \in Seq(Entry) /\ m_msgcache[o] \in Seq(Entry)
  BY OtherSide DEF TypeOK
<1>8. /\ m_msgcache'[s] = m_msgcache[s] \o entries /\ m_msgcache'[o] = m_msgcache[o]
      /\ ToSet(m_msgcache[s] \o entries) = ToSet(m_msgcache[s]) \cup ToSet(entries)
  <2>1. ToSet(m_msgcache[s] \o entries) = ToSet(m_msgcache[s]) \cup ToSet(entries)
    BY <1>2, <1>7, ConcatElements
  <2>2. QED
    BY <1>3, <1>7, <2>1 DEF TypeOK
<1>9. \A t \in Sides : \A x \in ToSet(m_msgcache[t]) :
        x.ev \in Events /\ x.ev \notin ToSet(list) /\ sent'[x.ev] = sent[x.ev] /\ EntryRight(t, x)
  <2>1. SUFFICES ASSUME NEW t \in Sides, NEW x \in ToSet(m_msgcache[t])
                 PROVE  x.ev \in Events /\ x.ev \notin ToSet(list) /\ sent'[x.ev] = sent[x.ev] /\ EntryRight(t, x)
    OBVIOUS
  <2>2. EntryRight(t, x)
    BY DEF EventsInv, CacheInv
  <2>3. x.ev \in Events /\ number[x.ev] # -1
    BY <2>2, EntryIsSent DEF EventsInv
  <2>4. x.ev \notin ToSet(list)
    BY <1>4, <2>3
  <2>5. QED
    BY <1>3, <2>2, <2>3, <2>4
<1>10. \A t \in Sides : \A x \in ToSet(m_msgcache[t]) : EntryRight(t, x)'
  BY <1>6, <1>9, EntryStays
<1>11. \A x \in ToSet(entries) : EntryRight(s, x)'
  BY <1>1, <1>3, <1>5 DEF EntryRight
<1>12. CacheInv'
  <2>1. \A x \in ToSet(m_msgcache'[s]) : EntryRight(s, x)'
    BY <1>8, <1>10, <1>11
  <2>2. \A x \in ToSet(m_msgcache'[o]) : EntryRight(o, x)'
    BY <1>7, <1>8, <1>10
  <2>3. QED
    BY <1>7, <2>1, <2>2 DEF CacheInv
<1>13. OneEntry'
  <2>1. \A x \in ToSet(m_msgcache[s]), y \in ToSet(entries) : x.ev # y.ev
    BY <1>1, <1>9
  <2>2. Distinct(m_msgcache[s]) /\ Distinct(m_msgcache[o])
    BY <1>7 DEF EventsInv, OneEntry
  <2>3. Distinct(m_msgcache[s] \o entries)
    BY <1>1, <1>2, <1>7, <2>1, <2>2, ConcatDistinct
  <2>4. QED
    BY <1>7, <1>8, <2>2, <2>3 DEF OneEntry
<1>14. FateInv'
  <2>1. SUFFICES ASSUME NEW e \in Events PROVE FateRight(e)'
    BY DEF FateInv
  <2>2. CASE e \in ToSet(list)
    <3>1. sent'[e] \in {"pending", "withdrawn"} /\ Sender(e) = s
      BY <1>3, <2>2
    <3>2. PICK x \in ToSet(entries) : x.ev = e
      BY <1>1, <2>2
    <3>3. x \in ToSet(m_msgcache'[s])
      BY <1>8
    <3>4. QED
      BY <3>1, <3>2, <3>3 DEF FateRight
  <2>3. CASE e \notin ToSet(list)
    <3>1. FateRight(e) /\ sent'[e] = sent[e] /\ Sender(e) \in Sides
      BY <1>3, <2>3, SenderSide DEF EventsInv, FateInv
    <3>2. ToSet(m_msgcache[Sender(e)]) \subseteq ToSet(m_msgcache'[Sender(e)])
      BY <1>7, <1>8, <3>1
    <3>3. QED
      BY <1>6, <3>1, <3>2, FateStays
  <2>4. QED
    BY <2>2, <2>3
<1>15. NewInv'
  BY <1>3 DEF EventsInv, NewInv, Known, Told
<1>16. HasNumber'
  BY <1>3, <1>4, <1>5 DEF EventsInv, HasNumber
<1>17. \A p \in ToSet(packets) : PacketRight(o, p)'
  BY <1>1, <1>5, <1>7 DEF PacketRight
<1>18. \A a \in ToSet(wire[o]), b \in ToSet(packets) : a.type = "START" => a.ev # b.ev
  <2>1. SUFFICES ASSUME NEW a \in ToSet(wire[o]), NEW b \in ToSet(packets), a.type = "START"
                 PROVE  a.ev # b.ev
    OBVIOUS
  <2>2. number[a.ev] = a.seqnum
    BY <1>7, <2>1 DEF EventsInv, WireInv, PacketRight
  <2>3. wire[o] \in Seq(Packet)
    BY <1>7 DEF TypeOK
  <2>4. a \in Packet
    BY <2>3, Elements
  <2>5. a.seqnum # -1
    BY <2>1, <2>4, DialogueType, NumberNotMinus
  <2>6. number[b.ev] = -1
    BY <1>1, <1>4
  <2>7. QED
    BY <2>2, <2>5, <2>6
<1>19. QED
  BY <1>6, <1>12, <1>13, <1>14, <1>15, <1>16, <1>17, <1>18 DEF packets, entries

\* A step that changes the wires and nothing else of the events.
LEMMA QuietEvents ==
    ASSUME EventsInv, UNCHANGED <<m_msgqueue, m_msgcache, number, sent, asked, handled>>
    PROVE  Grows /\ (WireInv' => EventsInv')
<1>1. Grows
  BY DEF Grows, Told
<1>2. QueueInv' /\ NewInv' /\ EarlierInv' /\ HasNumber' /\ OneEntry'
  BY DEF EventsInv, QueueInv, NewInv, EarlierInv, HasNumber, OneEntry, Known, Told
<1>3. \A e : Crossed(e)' <=> Crossed(e)
  BY DEF Crossed
<1>4. CacheInv'
  BY <1>3 DEF EventsInv, CacheInv, EntryRight
<1>5. FateInv'
  BY <1>3 DEF EventsInv, FateInv, FateRight, Told
<1>6. QED
  BY <1>1, <1>2, <1>4, <1>5 DEF EventsInv

\* Packets that are about no event, or that cancel one, are right.
LEMMA OtherPackets ==
    ASSUME NEW p \in Seq(Packet), \A b \in ToSet(p) : b.type \notin {"START", "ACK"}, NEW t
    PROVE  StartsOnce(p) /\ \A b \in ToSet(p) : PacketRight(t, b)'
<1>1. \A i \in DOMAIN p : p[i] \in ToSet(p)
  BY DEF ToSet
<1>2. QED
  BY <1>1 DEF StartsOnce, PacketRight

LEMMA ReadAndSend ==
    ASSUME TypeOK, NEW s \in Sides, wire[s] # <<>>, NEW p \in Seq(Packet),
           wire' = SendTo(Other(s), Receive(s), p)
    PROVE  /\ wire'[s] = Tail(wire[s])
           /\ wire'[Other(s)] = wire[Other(s)] \/ wire'[Other(s)] = wire[Other(s)] \o p
           /\ m_state[Other(s)] = "GONE" => wire'[Other(s)] = wire[Other(s)]
           /\ m_state[Other(s)] # "GONE" => wire'[Other(s)] = wire[Other(s)] \o p
<1> DEFINE w == Receive(s)
<1>1. w \in [Sides -> Seq(Packet)] /\ w[s] = Tail(wire[s]) /\ w[Other(s)] = wire[Other(s)]
  BY ReceiveType, ReceiveEffect
<1>2. wire' = SendTo(Other(s), w, p)
  OBVIOUS
<1> HIDE DEF w
<1>3. /\ SendTo(Other(s), w, p)[s] = w[s]
      /\ m_state[Other(s)] = "GONE" => SendTo(Other(s), w, p)[Other(s)] = w[Other(s)]
      /\ m_state[Other(s)] # "GONE" => SendTo(Other(s), w, p)[Other(s)] = w[Other(s)] \o p
  BY <1>1, SendToEffect
<1>4. QED
  BY <1>1, <1>2, <1>3

LEMMA JustSend ==
    ASSUME TypeOK, NEW s \in Sides, NEW p \in Seq(Packet), wire' = SendTo(Other(s), wire, p)
    PROVE  /\ wire'[s] = wire[s]
           /\ wire'[Other(s)] = wire[Other(s)] \/ wire'[Other(s)] = wire[Other(s)] \o p
           /\ m_state[Other(s)] = "GONE" => wire'[Other(s)] = wire[Other(s)]
           /\ m_state[Other(s)] # "GONE" => wire'[Other(s)] = wire[Other(s)] \o p
<1>1. wire \in [Sides -> Seq(Packet)]
  BY DEF TypeOK
<1>2. /\ SendTo(Other(s), wire, p)[s] = wire[s]
      /\ m_state[Other(s)] = "GONE" => SendTo(Other(s), wire, p)[Other(s)] = wire[Other(s)]
      /\ m_state[Other(s)] # "GONE" => SendTo(Other(s), wire, p)[Other(s)] = wire[Other(s)] \o p
  BY <1>1, SendToEffect
<1>3. QED
  BY <1>2

LEMMA TwoPackets ==
    ASSUME NEW a \in Packet, NEW b \in Packet
    PROVE  <<a, b>> \in Seq(Packet) /\ ToSet(<<a, b>>) = {a, b}
<1>1. DOMAIN <<a, b>> = {1, 2}
  OBVIOUS
<1>2. QED
  BY <1>1 DEF ToSet

LEMMA OnePacket ==
    ASSUME NEW X, NEW a \in X
    PROVE  <<a>> \in Seq(X) /\ ToSet(<<a>>) = {a}
<1>1. DOMAIN <<a>> = {1}
  OBVIOUS
<1>2. QED
  BY <1>1 DEF ToSet

LEMMA ConnectEvents ==
    ASSUME TypeOK, EventsInv, NEW version \in Published, Connect(version)
    PROVE  EventsInv' /\ Grows
<1>1. UNCHANGED <<m_msgqueue, m_msgcache, number, sent, asked, handled>> /\ UNCHANGED wire
  BY DEF Connect
<1>2. WireInv'
  BY <1>1 DEF EventsInv, WireInv, PacketRight, Known, Told
<1>3. QED
  BY <1>1, <1>2, QuietEvents

LEMMA FinishEvents ==
    ASSUME TypeOK, EventsInv, FinishNonBlockingConnect
    PROVE  EventsInv' /\ Grows
<1> DEFINE init == InitPacket(remote_version["caller"])
           p == <<init>>
<1>1. init \in Packet /\ init.type = "INIT"
  <2>1. remote_version["caller"] \in Nat
    BY DEF TypeOK, Sides
  <2>2. QED
    BY <2>1, PacketTypes
<1>2. wire'["called"] = p /\ wire'["caller"] = wire["caller"]
  BY DEF FinishNonBlockingConnect, TypeOK, Sides
<1> HIDE DEF init
<1>3. p \in Seq(Packet) /\ ToSet(p) = {init}
  BY <1>1, OnePacket
<1> HIDE DEF p
<1>4. UNCHANGED <<m_msgqueue, m_msgcache, number, sent, asked, handled>>
  BY DEF FinishNonBlockingConnect
<1>5. Grows
  BY <1>4, QuietEvents
<1>6. StartsOnce(p) /\ \A b \in ToSet(p) : PacketRight("called", b)'
  BY <1>1, <1>3, OtherPackets
<1>7. \A a \in ToSet(wire["caller"]) : PacketRight("caller", a)'
  <2>1. SUFFICES ASSUME NEW a \in ToSet(wire["caller"]) PROVE PacketRight("caller", a)'
    OBVIOUS
  <2>2. "caller" \in Sides /\ PacketRight("caller", a)
    BY DEF EventsInv, WireInv, Sides
  <2>3. QED
    BY <1>4, <1>5, <2>2, PacketStays
<1>8. StartsOnce(wire["caller"])
  BY DEF EventsInv, WireInv, Sides
<1>9. WireInv'
  BY <1>2, <1>6, <1>7, <1>8 DEF WireInv, Sides
<1>10. QED
  BY <1>4, <1>5, <1>9, QuietEvents

LEMMA ParseInitPacketEvents ==
    ASSUME TypeOK, EventsInv, NEW s \in Sides, ParseInitPacket(s)
    PROVE  EventsInv' /\ Grows
<1> DEFINE version == IF s = "called" THEN Head(wire[s]).version ELSE remote_version[s]
           second == IF s = "called" THEN InitPacket(version) ELSE Init2(s)
           p == <<Ack, second>>
<1>1. Head(wire[s]) \in Packet /\ wire[s] # <<>>
  BY FirstPacket DEF ParseInitPacket
<1>2. version \in Nat
  BY <1>1, DialogueType DEF TypeOK, ParseInitPacket, Expected
<1>3. wire' = SendTo(Other(s), Receive(s), p)
  BY DEF ParseInitPacket
<1> HIDE DEF version
<1>4. Ack \in Packet /\ second \in Packet /\ Ack.type = "INIT_ACK" /\ second.type \in {"INIT", "INIT2"}
  BY <1>2, PacketTypes
<1> HIDE DEF second
<1>5. p \in Seq(Packet) /\ ToSet(p) = {Ack, second}
  BY <1>4, TwoPackets
<1> HIDE DEF p
<1>6. \A b \in ToSet(p) : b.type \notin {"START", "ACK"}
  BY <1>4, <1>5
<1>7. UNCHANGED <<m_msgqueue, m_msgcache, number, sent, asked, handled>>
  BY DEF ParseInitPacket
<1>8. Grows
  BY <1>7, QuietEvents
<1>9. /\ wire'[s] = Tail(wire[s])
      /\ wire'[Other(s)] = wire[Other(s)] \/ wire'[Other(s)] = wire[Other(s)] \o p
  BY <1>1, <1>3, <1>5, ReadAndSend
<1>10. StartsOnce(p) /\ \A b \in ToSet(p) : PacketRight(Other(s), b)'
  BY <1>5, <1>6, OtherPackets
<1>11. WireInv
  BY DEF EventsInv
<1>12. WireInv'
  BY <1>1, <1>5, <1>6, <1>7, <1>8, <1>9, <1>10, <1>11, WireStep
<1>13. QED
  BY <1>7, <1>8, <1>12, QuietEvents

LEMMA ParseInitAckEvents ==
    ASSUME TypeOK, EventsInv, NEW s \in Sides, ParseInitAck(s)
    PROVE  EventsInv' /\ Grows
<1>1. UNCHANGED <<m_msgqueue, m_msgcache, number, sent, asked, handled>> /\ wire[s] # <<>> /\ WireInv
  BY DEF ParseInitAck, EventsInv
<1>2. Grows
  BY <1>1, QuietEvents
<1>3. wire'[s] = Tail(wire[s]) /\ wire'[Other(s)] = wire[Other(s)]
  BY ReceiveEffect DEF ParseInitAck
<1>4. WireInv'
  BY <1>1, <1>2, <1>3, WireQuiet
<1>5. QED
  BY <1>1, <1>2, <1>4, QuietEvents

LEMMA Associative ==
    \A a, b, c \in Seq(Packet) : (a \o b) \o c = a \o (b \o c)
  BY ConcatAssociative

\* Events are sent: after what it reads, and packets first of the handshake, a
\* side has one packet and one entry more for each of them.
LEMMA SendEvents ==
    ASSUME TypeOK, EventsInv, NEW s \in Sides, NEW list \in Seq(Events), Once(list),
           \A e \in ToSet(list) : sent[e] \in {"new", "queued", "withdrawn"} /\ number[e] = -1 /\ Sender(e) = s,
           NEW w \in [Sides -> Seq(Packet)], SendPacketEvents(s, list, w), UNCHANGED <<asked, handled>>,
           NEW first \in Seq(Packet), \A b \in ToSet(first) : b.type \notin {"START", "ACK"},
           \/ wire'[s] = wire[s]
           \/ wire[s] # <<>> /\ wire'[s] = Tail(wire[s]),
           \/ wire'[Other(s)] = wire[Other(s)]
           \/ wire'[Other(s)] = wire[Other(s)] \o (first \o Starts(Numbered(s, list))),
           \A t \in Sides : m_msgqueue'[t] = m_msgqueue[t] \/ m_msgqueue'[t] = <<>>,
           \A e \in ToSet(m_msgqueue'[s]) : e \notin ToSet(list)
    PROVE  EventsInv' /\ Grows
<1> DEFINE starts == Starts(Numbered(s, list))
           p == first \o starts
<1>1. /\ Grows /\ NewInv' /\ HasNumber' /\ CacheInv' /\ OneEntry' /\ FateInv'
      /\ \A b \in ToSet(starts) : PacketRight(Other(s), b)'
      /\ \A a \in ToSet(wire[Other(s)]), b \in ToSet(starts) : a.type = "START" => a.ev # b.ev
  BY SendKeepsEvents
<1>2. StartsOnce(starts) /\ \A b \in ToSet(starts) : b.ev \in ToSet(list)
  BY NumberedRight
<1>3. starts \in Seq(Packet)
  BY NumberedElements
<1>4. /\ sent' = [e \in Events |-> IF e \in ToSet(list) /\ sent[e] # "withdrawn" THEN "pending" ELSE sent[e]]
      /\ \A e \in Events : e \notin ToSet(list) => number'[e] = number[e]
  BY SendPacketEventsEffect
<1> HIDE DEF starts
<1>5. StartsOnce(first) /\ \A b \in ToSet(first) : PacketRight(Other(s), b)'
  BY OtherPackets
<1>6. p \in Seq(Packet) /\ ToSet(p) = ToSet(first) \cup ToSet(starts)
  BY <1>3, ConcatElements
<1>7. StartsOnce(p)
  BY <1>2, <1>3, <1>5, StartsOnceConcat
<1>8. wire'[Other(s)] = wire[Other(s)] \/ wire'[Other(s)] = wire[Other(s)] \o p
  BY DEF starts
<1> HIDE DEF p
<1>9. \A b \in ToSet(p) : PacketRight(Other(s), b)'
  BY <1>1, <1>5, <1>6
<1>10. \A a \in ToSet(wire[Other(s)]), b \in ToSet(p) :
         a.type = "START" /\ b.type = "START" => a.ev # b.ev
  BY <1>1, <1>6
<1>11. WireInv /\ QueueInv
  BY DEF EventsInv
<1>12. WireInv'
  BY <1>1, <1>6, <1>7, <1>8, <1>9, <1>10, <1>11, WireStep
<1>13. QueueInv'
  <2>1. SUFFICES ASSUME NEW t \in Sides
                 PROVE  /\ Once(m_msgqueue'[t])
                        /\ \A e \in ToSet(m_msgqueue'[t]) : /\ sent'[e] \in {"queued", "withdrawn"}
                                                            /\ number'[e] = -1 /\ Sender(e) = t
    BY DEF QueueInv
  <2>2. CASE m_msgqueue'[t] = <<>>
    BY <2>2, NoElements DEF Once
  <2>3. CASE m_msgqueue'[t] = m_msgqueue[t]
    <3>1. /\ Once(m_msgqueue[t])
          /\ \A e \in ToSet(m_msgqueue[t]) : /\ sent[e] \in {"queued", "withdrawn"}
                                              /\ number[e] = -1 /\ Sender(e) = t
      BY <1>11 DEF QueueInv
    <3>2. \A e \in ToSet(m_msgqueue[t]) : e \in Events /\ e \notin ToSet(list)
      <4>1. m_msgqueue[t] \in Seq(Events)
        BY DEF TypeOK
      <4>2. ToSet(m_msgqueue[t]) \subseteq Events
        BY <4>1, Elements
      <4>3. t # s => \A e \in ToSet(m_msgqueue[t]) : e \notin ToSet(list)
        BY <3>1
      <4>4. t = s => \A e \in ToSet(m_msgqueue[t]) : e \notin ToSet(list)
        BY <2>3
      <4>5. QED
        BY <4>2, <4>3, <4>4
    <3>3. QED
      BY <1>4, <2>3, <3>1, <3>2
  <2>4. QED
    BY <2>2, <2>3
<1>14. EarlierInv'
  BY DEF EventsInv, EarlierInv
<1>15. QED
  BY <1>1, <1>12, <1>13, <1>14 DEF EventsInv

\* What ParseInit2 reads and sends: an INIT2 of the called side first, then the queue.
LEMMA ParseInit2Wire ==
    ASSUME TypeOK, NEW s \in Sides, ParseInit2(s)
    PROVE  /\ \E w \in [Sides -> Seq(Packet)] : SendPacketEvents(s, m_msgqueue[s], w)
           /\ wire[s] # <<>> /\ wire'[s] = Tail(wire[s])
           /\ \E first \in Seq(Packet) :
                /\ \A b \in ToSet(first) : b.type \notin {"START", "ACK"}
                /\ m_state[Other(s)] = "GONE" => wire'[Other(s)] = wire[Other(s)]
                /\ m_state[Other(s)] # "GONE" =>
                     wire'[Other(s)] = wire[Other(s)] \o (first \o Starts(Numbered(s, m_msgqueue[s])))
<1> DEFINE o == Other(s)
           list == m_msgqueue[s]
           starts == Starts(Numbered(s, list))
           init2 == <<Init2(s)>>
           w == IF s = "called" THEN SendTo(o, Receive(s), init2) ELSE Receive(s)
           first == IF s = "called" THEN init2 ELSE <<>>
<1>1. /\ list \in Seq(Events) /\ wire[s] # <<>> /\ wire[o] \in Seq(Packet)
      /\ SendPacketEvents(s, list, w)
  BY OtherSide DEF ParseInit2, TypeOK
<1>2. starts \in Seq(Packet)
  BY <1>1, NumberedElements
<1>3. init2 \in Seq(Packet) /\ ToSet(init2) = {Init2(s)} /\ Init2(s).type = "INIT2"
  <2>1. Init2(s) \in Packet /\ Init2(s).type = "INIT2"
    BY PacketTypes
  <2>2. QED
    BY <2>1, OnePacket
<1> HIDE DEF starts, init2
<1>4. Receive(s) \in [Sides -> Seq(Packet)] /\ Receive(s)[s] = Tail(wire[s]) /\ Receive(s)[o] = wire[o]
  BY <1>1, ReceiveType, ReceiveEffect
<1>5. /\ first \in Seq(Packet) /\ \A b \in ToSet(first) : b.type \notin {"START", "ACK"}
  <2>1. <<>> \in Seq(Packet) /\ ToSet(<<>>) = {}
    BY NoElements
  <2>2. QED
    BY <1>3, <2>1
<1>6. /\ w \in [Sides -> Seq(Packet)] /\ w[s] = Tail(wire[s])
      /\ m_state[o] = "GONE" => w[o] = wire[o]
      /\ m_state[o] # "GONE" => w[o] = wire[o] \o first
  <2>1. /\ SendTo(o, Receive(s), init2)[s] = Receive(s)[s]
        /\ m_state[o] = "GONE" => SendTo(o, Receive(s), init2)[o] = Receive(s)[o]
        /\ m_state[o] # "GONE" => SendTo(o, Receive(s), init2)[o] = Receive(s)[o] \o init2
        /\ SendTo(o, Receive(s), init2) \in [Sides -> Seq(Packet)]
    BY <1>3, <1>4, SendToEffect
  <2>2. wire[o] \o <<>> = wire[o]
    BY <1>1, ConcatEmptySeq
  <2>3. QED
    BY <1>4, <2>1, <2>2
<1> HIDE DEF w, first
<1>7. wire' = SendTo(o, w, starts)
  BY <1>1, <1>6, SendPacketEventsEffect DEF starts
<1>8. /\ SendTo(o, w, starts)[s] = w[s]
      /\ m_state[o] = "GONE" => SendTo(o, w, starts)[o] = w[o]
      /\ m_state[o] # "GONE" => SendTo(o, w, starts)[o] = w[o] \o starts
  BY <1>2, <1>6, SendToEffect
<1>9. /\ m_state[o] = "GONE" => wire'[o] = wire[o]
      /\ m_state[o] # "GONE" => wire'[o] = wire[o] \o (first \o starts)
  <2>1. wire[o] \in Seq(Packet) /\ first \in Seq(Packet) /\ starts \in Seq(Packet)
    BY <1>1, <1>2, <1>5
  <2>2. (wire[o] \o first) \o starts = wire[o] \o (first \o starts)
    BY <2>1, Associative
  <2>3. QED
    BY <1>6, <1>7, <1>8, <2>2
<1>10. wire'[s] = Tail(wire[s])
  BY <1>6, <1>7, <1>8
<1>11. QED
  BY <1>1, <1>5, <1>6, <1>9, <1>10 DEF starts

LEMMA ParseInit2Events ==
    ASSUME TypeOK, EventsInv, NEW s \in Sides, ParseInit2(s)
    PROVE  EventsInv' /\ Grows
<1> DEFINE list == m_msgqueue[s]
<1>1. /\ list \in Seq(Events) /\ Once(list)
      /\ \A e \in ToSet(list) : sent[e] \in {"new", "queued", "withdrawn"} /\ number[e] = -1 /\ Sender(e) = s
      /\ m_msgqueue' = [m_msgqueue EXCEPT ![s] = <<>>] /\ UNCHANGED <<asked, handled>>
  BY DEF ParseInit2, TypeOK, EventsInv, QueueInv
<1>2. wire[s] # <<>> /\ wire'[s] = Tail(wire[s])
  BY ParseInit2Wire
<1>3. PICK w \in [Sides -> Seq(Packet)] : SendPacketEvents(s, list, w)
  BY ParseInit2Wire
<1>4. PICK first \in Seq(Packet) :
        /\ \A b \in ToSet(first) : b.type \notin {"START", "ACK"}
        /\ m_state[Other(s)] = "GONE" => wire'[Other(s)] = wire[Other(s)]
        /\ m_state[Other(s)] # "GONE" => wire'[Other(s)] = wire[Other(s)] \o (first \o Starts(Numbered(s, list)))
  BY ParseInit2Wire
<1>5. m_msgqueue'[s] = <<>> /\ \A t \in Sides : m_msgqueue'[t] = m_msgqueue[t] \/ m_msgqueue'[t] = <<>>
  BY <1>1 DEF TypeOK
<1>6. \A e \in ToSet(m_msgqueue'[s]) : e \notin ToSet(list)
  BY <1>5, NoElements
<1> HIDE DEF list
<1>7. QED
  BY <1>1, <1>2, <1>3, <1>4, <1>5, <1>6, SendEvents

LEMMA SendEventEvents ==
    ASSUME TypeOK, EventsInv, NEW e \in Events, SendEvent(e)
    PROVE  EventsInv' /\ Grows
<1> DEFINE s == Sender(e)
           list == <<e>>
           starts == Starts(Numbered(s, list))
<1>1. s \in Sides /\ sent[e] = "new" /\ UNCHANGED <<asked, handled>>
  BY SenderSide DEF SendEvent
<1>2. m_msgqueue[s] \in Seq(Events) /\ Once(m_msgqueue[s]) /\ e \notin ToSet(m_msgqueue[s]) /\ number[e] = -1
  BY <1>1 DEF TypeOK, EventsInv, QueueInv, NewInv
<1>3. CASE m_state[s] = "CONNECTED" /\ SendPacketEvents(s, <<e>>, wire) /\ UNCHANGED m_msgqueue
  <2>1. list \in Seq(Events) /\ ToSet(list) = {e} /\ Once(list)
    BY OnePacket DEF Once
  <2> HIDE DEF list
  <2>2. wire \in [Sides -> Seq(Packet)] /\ SendPacketEvents(s, list, wire)
    BY <1>3 DEF TypeOK, list
  <2>3. wire' = SendTo(Other(s), wire, starts)
    BY <1>1, <2>1, <2>2, SendPacketEventsEffect
  <2>4. starts \in Seq(Packet) /\ <<>> \in Seq(Packet) /\ ToSet(<<>>) = {}
    BY <1>1, <2>1, NumberedElements, NoElements
  <2>5. <<>> \o starts = starts
    BY <2>4, ConcatEmptySeq
  <2> HIDE DEF starts
  <2>6. /\ wire'[s] = wire[s]
        /\ wire'[Other(s)] = wire[Other(s)] \/ wire'[Other(s)] = wire[Other(s)] \o starts
    BY <1>1, <2>3, <2>4, JustSend
  <2>7. wire'[Other(s)] = wire[Other(s)] \/ wire'[Other(s)] = wire[Other(s)] \o (<<>> \o Starts(Numbered(s, list)))
    BY <2>5, <2>6 DEF starts
  <2>8. \A x \in ToSet(m_msgqueue'[s]) : x \notin ToSet(list)
    BY <1>2, <1>3, <2>1
  <2> HIDE DEF s
  <2> DEFINE first == <<>>
  <2> HIDE DEF first
  <2>9. first \in Seq(Packet) /\ \A b \in ToSet(first) : b.type \notin {"START", "ACK"}
    BY <2>4 DEF first
  <2>10. wire'[Other(s)] = wire[Other(s)] \/ wire'[Other(s)] = wire[Other(s)] \o (first \o Starts(Numbered(s, list)))
    BY <2>7 DEF first
  <2>11. \A x \in ToSet(list) : sent[x] \in {"new", "queued", "withdrawn"} /\ number[x] = -1 /\ Sender(x) = s
    BY <1>1, <1>2, <2>1 DEF s
  <2>12. QED
    BY <1>1, <1>3, <2>1, <2>2, <2>6, <2>8, <2>9, <2>10, <2>11, SendEvents
<1>4. CASE /\ m_msgqueue' = [m_msgqueue EXCEPT ![s] = Append(@, e)]
           /\ sent' = [sent EXCEPT ![e] = "queued"]
           /\ UNCHANGED <<m_seqnum, m_msgcache, wire, number>>
  <2>1. /\ Append(m_msgqueue[s], e) \in Seq(Events) /\ Len(Append(m_msgqueue[s], e)) = Len(m_msgqueue[s]) + 1
        /\ \A i \in 1 .. Len(m_msgqueue[s]) : Append(m_msgqueue[s], e)[i] = m_msgqueue[s][i]
        /\ Append(m_msgqueue[s], e)[Len(m_msgqueue[s]) + 1] = e
        /\ ToSet(Append(m_msgqueue[s], e)) = ToSet(m_msgqueue[s]) \cup {e}
    BY <1>2, AppendElements
  <2>2. /\ m_msgqueue'[s] = Append(m_msgqueue[s], e)
        /\ \A t \in Sides : t # s => m_msgqueue'[t] = m_msgqueue[t]
    BY <1>1, <1>4 DEF TypeOK
  <2>3. sent'[e] = "queued" /\ \A f \in Events : f # e => sent'[f] = sent[f]
    BY <1>4 DEF TypeOK
  <2>4. Once(Append(m_msgqueue[s], e))
    <3> DEFINE q == m_msgqueue[s]
               a == Append(q, e)
    <3>1. Len(q) \in Nat /\ DOMAIN q = 1 .. Len(q) /\ DOMAIN a = 1 .. Len(q) + 1
          /\ \A i \in 1 .. Len(q) : q[i] # e
      <4>1. Len(q) \in Nat /\ DOMAIN q = 1 .. Len(q) /\ \A i \in 1 .. Len(q) : q[i] # e
        BY <1>2, Elements
      <4>2. DOMAIN a = 1 .. Len(a)
        BY <2>1, Elements
      <4>3. QED
        BY <2>1, <4>1, <4>2
    <3>2. \A i \in 1 .. Len(q) : a[i] = q[i]
      BY <2>1
    <3>3. a[Len(q) + 1] = e /\ Once(q)
      BY <1>2, <2>1
    <3> HIDE DEF q, a
    <3>4. QED
      BY <3>1, <3>2, <3>3 DEF Once, a, q
  <2>5. QueueInv'
    <3>1. SUFFICES ASSUME NEW t \in Sides
                   PROVE  /\ Once(m_msgqueue'[t])
                          /\ \A f \in ToSet(m_msgqueue'[t]) : /\ sent'[f] \in {"queued", "withdrawn"}
                                                              /\ number[f] = -1 /\ Sender(f) = t
      BY <1>4 DEF QueueInv
    <3>2. /\ Once(m_msgqueue[t])
          /\ \A f \in ToSet(m_msgqueue[t]) : sent[f] \in {"queued", "withdrawn"} /\ number[f] = -1 /\ Sender(f) = t
          /\ ToSet(m_msgqueue[t]) \subseteq Events
      BY Elements DEF EventsInv, QueueInv, TypeOK
    <3>3. \A f \in ToSet(m_msgqueue[t]) : sent'[f] \in {"queued", "withdrawn"}
      BY <2>3, <3>2
    <3>4. CASE t # s
      BY <2>2, <3>2, <3>3, <3>4
    <3>5. CASE t = s
      <4>1. m_msgqueue'[t] = Append(m_msgqueue[s], e)
        BY <2>2, <3>5
      <4>2. \A f \in ToSet(m_msgqueue'[t]) : f \in ToSet(m_msgqueue[t]) \/ f = e
        BY <2>1, <3>5, <4>1
      <4>3. QED
        BY <1>2, <2>3, <2>4, <3>2, <3>3, <3>5, <4>1, <4>2
    <3>6. QED
      BY <3>4, <3>5
  <2>6. \A x : Crossed(x)' <=> Crossed(x)
    BY <1>1, <1>4 DEF Crossed
  <2>7. Grows
    BY <1>1, <1>4 DEF Grows, Told
  <2>8. WireInv' /\ EarlierInv' /\ HasNumber' /\ OneEntry'
    BY <1>1, <1>4 DEF EventsInv, WireInv, PacketRight, EarlierInv, HasNumber, OneEntry, Known, Told
  <2>9. number[e] = -1
    BY <1>1 DEF EventsInv, NewInv
  <2>10. NewInv'
    BY <1>1, <1>4, <2>3, <2>9 DEF EventsInv, NewInv, Known, Told
  <2>11. CacheInv'
    <3>1. SUFFICES ASSUME NEW t \in Sides, NEW x \in ToSet(m_msgcache[t]) PROVE EntryRight(t, x)'
      BY <1>4 DEF CacheInv
    <3>2. EntryRight(t, x)
      BY DEF EventsInv, CacheInv
    <3>3. x.ev \in Events /\ sent[x.ev] \notin {"new", "queued"}
      BY <3>2, EntryIsSent DEF EventsInv
    <3>4. sent'[x.ev] = sent[x.ev]
      BY <1>1, <2>3, <3>3
    <3>5. QED
      BY <1>1, <1>4, <2>7, <3>2, <3>4, EntryStays
  <2>12. FateInv'
    <3>1. SUFFICES ASSUME NEW f \in Events PROVE FateRight(f)'
      BY DEF FateInv
    <3>2. CASE f = e
      BY <2>3, <3>2 DEF FateRight
    <3>3. CASE f # e
      BY <1>4, <2>3, <2>7, <3>3, FateStays DEF EventsInv, FateInv
    <3>4. QED
      BY <3>2, <3>3
  <2>13. QED
    BY <2>5, <2>7, <2>8, <2>10, <2>11, <2>12 DEF EventsInv
<1>5. QED
  BY <1>3, <1>4 DEF SendEvent

\* Entries of the events G leave the cache of side s, and fates of them are
\* settled: those of its own as sent, those of the peer's requests as asked.
LEMMA EntriesGo ==
    ASSUME TypeOK, EventsInv, Grows, WireInv', QueueInv', HasNumber', NEW s \in Sides, NEW G,
           UNCHANGED number,
           Distinct(m_msgcache'[s]), m_msgcache'[Other(s)] = m_msgcache[Other(s)],
           \A x : x \in ToSet(m_msgcache'[s]) <=> x \in ToSet(m_msgcache[s]) /\ x.ev \notin G,
           \A e \in Events : sent'[e] # sent[e] =>
             /\ Sender(e) = s /\ sent'[e] \notin {"new", "queued", "pending"}
             /\ e \in G \/ Crossed(e)'
             /\ sent'[e] = "acked" /\ ~Crossed(e)' =>
                  e \in Told(Other(s))' /\ (e \in Requests => asked'[e] = "answered"),
           \A r \in Requests : asked'[r] # asked[r] => asked[r] # "new" /\ Sender(r) # s /\ r \in G,
           \A e \in Events : e \in G /\ Sender(e) = s /\ ~Crossed(e)' => sent'[e] # "pending"
    PROVE  EventsInv'
<1> DEFINE o == Other(s)
<1>1. /\ o \in Sides /\ o # s /\ \A t \in Sides : t = s \/ t = o
      /\ NewInv /\ CacheInv /\ OneEntry /\ FateInv
  BY OtherSide DEF EventsInv
<1>2. NewInv'
  <2>1. SUFFICES ASSUME NEW e \in Events
                 PROVE  /\ sent'[e] \in {"new", "queued"} => number'[e] = -1
                        /\ e \in Requests /\ asked'[e] # "new" => e \in Known(Other(Sender(e)))'
    BY DEF NewInv
  <2>2. sent'[e] \in {"new", "queued"} => number'[e] = -1
    BY <1>1 DEF NewInv
  <2>3. e \in Requests /\ asked'[e] # "new" => e \in Known(Other(Sender(e)))
    BY <1>1 DEF NewInv
  <2>4. Known(Other(Sender(e))) \subseteq Known(Other(Sender(e)))'
    BY SenderSide, OtherSide DEF Grows, Known
  <2>5. QED
    BY <2>2, <2>3, <2>4
<1>3. CacheInv'
  <2>1. SUFFICES ASSUME NEW t \in Sides, NEW x \in ToSet(m_msgcache'[t]) PROVE EntryRight(t, x)'
    BY DEF CacheInv
  <2>2. x \in ToSet(m_msgcache[t]) /\ (t = s => x.ev \notin G)
    BY <1>1
  <2>3. EntryRight(t, x)
    BY <1>1, <2>2 DEF CacheInv
  <2>4. x.ev \in Events /\ Sender(x.ev) \in Sides
    BY <1>1, <2>2, <2>3, EntryIsSent, SenderSide
  <2>5. Sender(x.ev) # t => asked'[x.ev] = asked[x.ev]
    BY <1>1, <2>2, <2>3, <2>4 DEF EntryRight
  <2>6. Sender(x.ev) = t /\ ~Crossed(x.ev)' => sent'[x.ev] = sent[x.ev]
    BY <1>1, <2>2, <2>4
  <2>7. QED
    BY <2>2, <2>3, <2>5, <2>6, EntryStays
<1>4. OneEntry'
  BY <1>1 DEF OneEntry
<1>5. FateInv'
  <2>1. SUFFICES ASSUME NEW e \in Events PROVE FateRight(e)'
    BY DEF FateInv
  <2>2. FateRight(e) /\ (~Crossed(e)' => ~Crossed(e)) /\ Sender(e) \in Sides
    BY <1>1, CrossedStays, SenderSide DEF FateInv
  <2>3. CASE sent'[e] # sent[e]
    BY <2>3 DEF FateRight
  <2>4. CASE sent'[e] = sent[e]
    <3>1. Told(Other(Sender(e))) \subseteq Told(Other(Sender(e)))'
      BY SenderSide, OtherSide DEF Grows
    <3>2. sent'[e] = "acked" /\ ~Crossed(e)' =>
            e \in Told(Other(Sender(e)))' /\ (e \in Requests => asked'[e] = "answered")
      BY <2>2, <2>4, <3>1 DEF FateRight, Grows
    <3>3. sent'[e] = "pending" /\ ~Crossed(e)' => \E x \in ToSet(m_msgcache'[Sender(e)]) : x.ev = e
      <4>1. SUFFICES ASSUME sent'[e] = "pending", ~Crossed(e)'
                     PROVE  \E x \in ToSet(m_msgcache'[Sender(e)]) : x.ev = e
        OBVIOUS
      <4>2. PICK x \in ToSet(m_msgcache[Sender(e)]) : x.ev = e
        BY <2>2, <2>4, <4>1 DEF FateRight
      <4>3. Sender(e) = s => e \notin G
        BY <4>1
      <4>4. QED
        BY <1>1, <2>2, <4>2, <4>3
    <3>4. QED
      BY <3>2, <3>3 DEF FateRight
  <2>5. QED
    BY <2>3, <2>4
<1>6. EarlierInv'
  BY EarlierOnes DEF EventsInv, EarlierInv, Grows
<1>7. QED
  BY <1>2, <1>3, <1>4, <1>5, <1>6 DEF EventsInv

\* The queues of a step that settles the fate of no event that is queued.
LEMMA QueueStays ==
    ASSUME TypeOK, EventsInv, UNCHANGED <<m_msgqueue, number>>,
           \A e \in Events : sent[e] \in {"queued", "withdrawn"} /\ number[e] = -1
                            => sent'[e] \in {"queued", "withdrawn"}
    PROVE  QueueInv'
<1>1. \A s \in Sides : ToSet(m_msgqueue[s]) \subseteq Events
  BY Elements DEF TypeOK
<1>2. QED
  BY <1>1 DEF EventsInv, QueueInv

\* A function after an assignment to one argument.
LEMMA Assigned ==
    ASSUME NEW D, NEW R, NEW g \in [D -> R], NEW a \in D, NEW v, NEW h, h = [g EXCEPT ![a] = v]
    PROVE  h[a] = v /\ \A e \in D : e # a => h[e] = g[e]
  OBVIOUS

\* The packet that is read next, and the entry that it is about.
LEMMA HeadRight ==
    ASSUME TypeOK, EventsInv, NEW s \in Sides, wire[s] # <<>>, Head(wire[s]).type \in Dialogue
    PROVE  /\ Head(wire[s]).seqnum \in Number /\ Head(wire[s]).ev \in Events
           /\ PacketRight(s, Head(wire[s]))
<1>1. Head(wire[s]) \in ToSet(wire[s]) /\ Head(wire[s]).seqnum \in Number /\ Head(wire[s]).ev \in Events
  BY FirstPacket DEF Dialogue
<1>2. QED
  BY <1>1 DEF EventsInv, WireInv

Found(s, n, f) ==
    /\ f \in Events \ Earlier /\ number[f] = n /\ n # -1 /\ sent[f] \notin {"new", "queued"}
    /\ Sender(f) # s => f \in Requests /\ asked[f] = "asked"
    /\ Distinct(Removed(s, n))
    /\ \A x : x \in ToSet(Removed(s, n)) <=> x \in ToSet(m_msgcache[s]) /\ x.ev # f

LEMMA FoundRight ==
    ASSUME TypeOK, EventsInv, NEW s \in Sides, NEW n, exists(s, n)
    PROVE  Found(s, n, m_msgcache[s][Lookup(s, n)].ev)
<1> DEFINE x == m_msgcache[s][Lookup(s, n)]
           f == x.ev
<1>1. x.seqnum = n /\ x \in ToSet(m_msgcache[s])
  BY LookupFinds
<1>2. Distinct(m_msgcache[s]) /\ NewInv
  BY DEF EventsInv, OneEntry
<1>3. Distinct(Removed(s, n)) /\ ToSet(Removed(s, n)) = {y \in ToSet(m_msgcache[s]) : y.ev # f}
  BY <1>2, RemovedElements
<1> HIDE DEF x
<1>4. EntryRight(s, x)
  BY <1>1 DEF EventsInv, CacheInv
<1>5. x.ev \in Events /\ x.seqnum \in Number /\ sent[x.ev] \notin {"new", "queued"}
  BY <1>1, <1>2, <1>4, EntryIsSent
<1>6. Found(s, n, f)
  BY <1>1, <1>3, <1>4, <1>5, NumberNotMinus DEF EntryRight, Found
<1>7. QED
  BY <1>6 DEF x

LEMMA ParseAckEvents ==
    ASSUME TypeOK, EventsInv, NEW s \in Sides, ParseAck(s)
    PROVE  EventsInv' /\ Grows
<1> DEFINE p == Head(wire[s])
           o == Other(s)
<1>1. /\ wire[s] # <<>> /\ p.type = "ACK" /\ wire' = Receive(s) /\ WireInv
      /\ UNCHANGED <<m_msgqueue, number, asked, handled>>
  BY DEF ParseAck, EventsInv
<1>2. p.seqnum \in Number /\ p.ev \in Events /\ PacketRight(s, p)
  BY <1>1, HeadRight DEF Dialogue
<1>3. Grows
  BY <1>1 DEF Grows, Told
<1>4. wire'[s] = Tail(wire[s]) /\ wire'[o] = wire[o]
  BY <1>1, ReceiveEffect
<1>5. WireInv'
  BY <1>1, <1>3, <1>4, WireQuiet
<1>6. CASE ~exists(s, p.seqnum)
  <2>1. UNCHANGED <<m_msgcache, sent>>
    BY <1>6 DEF ParseAck
  <2>2. QED
    BY <1>1, <1>3, <1>5, <2>1, QuietEvents
<1>7. CASE exists(s, p.seqnum)
  <2>num. PICK n : n = p.seqnum
    OBVIOUS
  <2>event. PICK f : f = m_msgcache[s][Lookup(s, n)].ev
    OBVIOUS
  <2>answered. PICK q : q = p.ev
    OBVIOUS
  <2>0. exists(s, n)
    BY <1>7, <2>num
  <2>1. /\ m_msgcache' = [m_msgcache EXCEPT ![s] = Removed(s, n)]
        /\ sent' = [sent EXCEPT ![f] = IF Sender(f) = s THEN "acked" ELSE @]
    BY <1>7, <2>num, <2>event DEF ParseAck
  <2>found. Found(s, n, f)
    BY <2>0, <2>event, FoundRight
  <2>2. /\ f \in Events \ Earlier /\ number[f] = n /\ n # -1 /\ sent[f] \notin {"new", "queued"}
        /\ Sender(f) # s => f \in Requests /\ asked[f] = "asked"
        /\ Distinct(Removed(s, n))
        /\ \A x : x \in ToSet(Removed(s, n)) <=> x \in ToSet(m_msgcache[s]) /\ x.ev # f
    BY <2>found DEF Found
  <2>3. /\ Sender(q) = s /\ number[q] = n /\ q \in Known(o) /\ q \in Events
        /\ q \in Requests => asked[q] = "answered"
    BY <1>1, <1>2, <2>num, <2>answered DEF PacketRight
  <2>4. o \in Sides /\ o # s
    BY OtherSide
  <2>5. m_msgcache'[s] = Removed(s, n) /\ m_msgcache'[o] = m_msgcache[o]
    BY <2>1, <2>4 DEF TypeOK
  <2>6. /\ Sender(f) = s => sent'[f] = "acked"
        /\ Sender(f) # s => sent'[f] = sent[f]
        /\ \A e \in Events : e # f => sent'[e] = sent[e]
    BY <2>1, <2>2 DEF TypeOK
  <2>8. ~Crossed(f)' /\ Sender(f) = s => f = q
    <3>1. q \in Events /\ number'[q] = number'[f] /\ number'[f] # -1 /\ Sender(q) = s
      BY <1>1, <2>2, <2>3
    <3>2. QED
      BY <3>1 DEF Crossed
  <2>9. (q = f => q \in Told(o)') /\ (q \in Requests => asked'[q] = "answered")
    BY <1>1, <2>2, <2>3 DEF Known, Told
  <2>10. QueueInv'
    BY <1>1, <2>2, <2>6, QueueStays
  <2>11. HasNumber'
    BY <1>1, <2>6 DEF EventsInv, HasNumber
  <2> HIDE DEF p
  <2> DEFINE G == {f}
  <2>12. \A x : x \in ToSet(m_msgcache'[s]) <=> x \in ToSet(m_msgcache[s]) /\ x.ev \notin G
    BY <2>2, <2>5
  <2>13. \A e \in Events : sent'[e] # sent[e] =>
             /\ Sender(e) = s /\ sent'[e] \notin {"new", "queued", "pending"}
             /\ e \in G \/ Crossed(e)'
             /\ sent'[e] = "acked" /\ ~Crossed(e)' =>
                  e \in Told(Other(s))' /\ (e \in Requests => asked'[e] = "answered")
    BY <2>6, <2>8, <2>9
  <2>14. \A r \in Requests : asked'[r] = asked[r]
    BY <1>1
  <2>15. \A e \in Events : e \in G /\ Sender(e) = s /\ ~Crossed(e)' => sent'[e] # "pending"
    BY <2>6
  <2> HIDE DEF G
  <2>16. QED
    BY <1>1, <1>3, <1>5, <2>2, <2>5, <2>10, <2>11, <2>12, <2>13, <2>14, <2>15, EntriesGo
<1>8. QED
  BY <1>6, <1>7

LEMMA ParseCancelEvents ==
    ASSUME TypeOK, EventsInv, NEW s \in Sides, ParseCancel(s)
    PROVE  EventsInv' /\ Grows
<1> DEFINE p == Head(wire[s])
           o == Other(s)
<1>num. PICK n : n = p.seqnum
  OBVIOUS
<1>event. PICK f : f = m_msgcache[s][Lookup(s, n)].ev
  OBVIOUS
<1>1. /\ wire[s] # <<>> /\ p.type = "CANCEL" /\ wire' = Receive(s) /\ WireInv
      /\ UNCHANGED <<m_msgqueue, number, handled>>
  BY DEF ParseCancel, EventsInv
<1>2. wire'[s] = Tail(wire[s]) /\ wire'[o] = wire[o]
  BY <1>1, ReceiveEffect
<1>3. CASE ~(exists(s, n) /\ f \in Requests)
  <2>1. UNCHANGED <<m_msgqueue, m_msgcache, number, sent, asked, handled>>
    BY <1>1, <1>3, <1>num, <1>event DEF ParseCancel
  <2>2. Grows
    BY <2>1, QuietEvents
  <2>3. WireInv'
    BY <1>1, <1>2, <2>1, <2>2, WireQuiet
  <2>4. QED
    BY <2>1, <2>2, <2>3, QuietEvents
<1>4. CASE exists(s, n) /\ f \in Requests
  <2>1. /\ m_msgcache' = [m_msgcache EXCEPT ![s] = Removed(s, n)]
        /\ asked' = IF Sender(f) # s THEN [asked EXCEPT ![f] = "cancelled"] ELSE asked
        /\ sent' = IF Sender(f) = s THEN [sent EXCEPT ![f] = "cancelled"] ELSE sent
    BY <1>4, <1>num, <1>event DEF ParseCancel
  <2>found. Found(s, n, f)
    BY <1>4, <1>event, FoundRight
  <2>2. /\ f \in Events \ Earlier /\ number[f] = n /\ n # -1 /\ sent[f] \notin {"new", "queued"}
        /\ Sender(f) # s => f \in Requests /\ asked[f] = "asked"
        /\ Distinct(Removed(s, n))
        /\ \A x : x \in ToSet(Removed(s, n)) <=> x \in ToSet(m_msgcache[s]) /\ x.ev # f
    BY <2>found DEF Found
  <2>3. o \in Sides /\ o # s
    BY OtherSide
  <2>4. m_msgcache'[s] = Removed(s, n) /\ m_msgcache'[o] = m_msgcache[o]
    BY <2>1, <2>3 DEF TypeOK
  <2>5. /\ Sender(f) = s => sent'[f] = "cancelled" /\ asked' = asked
        /\ Sender(f) # s => asked'[f] = "cancelled" /\ sent' = sent
        /\ \A e \in Events : e # f => sent'[e] = sent[e]
        /\ \A r \in Requests : r # f => asked'[r] = asked[r]
    BY <1>4, <2>1, <2>2 DEF TypeOK
  <2> HIDE DEF p
  <2>6. Grows
    BY <1>1, <2>2, <2>5 DEF Grows, Told
  <2>7. \A t \in Sides : \A a \in ToSet(wire[t]) :
          a.type = "START" /\ a.ev \in Requests => asked'[a.ev] = asked[a.ev]
    BY <1>1, <2>2, <2>5 DEF WireInv, PacketRight
  <2>8. WireInv'
    BY <1>1, <1>2, <2>6, <2>7, WireQuiet
  <2>9. QueueInv'
    BY <1>1, <2>2, <2>5, QueueStays
  <2>10. HasNumber'
    BY <1>1, <2>2, <2>5 DEF EventsInv, HasNumber
  <2> DEFINE G == {f}
  <2>11. \A x : x \in ToSet(m_msgcache'[s]) <=> x \in ToSet(m_msgcache[s]) /\ x.ev \notin G
    BY <2>2, <2>4
  <2>12. \A e \in Events : sent'[e] # sent[e] =>
             /\ Sender(e) = s /\ sent'[e] \notin {"new", "queued", "pending"}
             /\ e \in G \/ Crossed(e)'
             /\ sent'[e] = "acked" /\ ~Crossed(e)' =>
                  e \in Told(Other(s))' /\ (e \in Requests => asked'[e] = "answered")
    BY <2>5
  <2>13. \A r \in Requests : asked'[r] # asked[r] => asked[r] # "new" /\ Sender(r) # s /\ r \in G
    BY <2>2, <2>5
  <2>14. \A e \in Events : e \in G /\ Sender(e) = s /\ ~Crossed(e)' => sent'[e] # "pending"
    BY <2>5
  <2> HIDE DEF G
  <2>15. QED
    BY <1>1, <2>2, <2>4, <2>6, <2>8, <2>9, <2>10, <2>11, <2>12, <2>13, <2>14, EntriesGo
<1>5. QED
  BY <1>3, <1>4

LEMMA ExpireEvents ==
    ASSUME TypeOK, EventsInv, NEW s \in Sides, Expire(s)
    PROVE  EventsInv' /\ Grows
<1> DEFINE o == Other(s)
           q == m_msgcache[s]
           x == Head(q)
<1>event. PICK f : f = x.ev
  OBVIOUS
<1>1. /\ q # <<>> /\ WireInv /\ q \in Seq(Entry) /\ Distinct(q)
      /\ m_msgcache' = [m_msgcache EXCEPT ![s] = Tail(q)]
      /\ IF Sender(f) = s
         THEN sent' = [sent EXCEPT ![f] = "expired"] /\ UNCHANGED asked
         ELSE asked' = [asked EXCEPT ![f] = "expired"] /\ UNCHANGED sent
      /\ UNCHANGED <<m_msgqueue, wire, number, handled>>
  BY <1>event DEF Expire, EventsInv, OneEntry, TypeOK
<1>2. x \in ToSet(q)
  BY <1>1, TailElements
<1>3. EntryRight(s, x) /\ NewInv
  BY <1>2 DEF EventsInv, CacheInv
<1>4. f \in Events /\ sent[f] \notin {"new", "queued"} /\ number[f] \in Number
  BY <1>2, <1>3, <1>event, EntryIsSent DEF EntryRight
<1>5. Sender(f) # s => f \in Requests /\ asked[f] = "asked"
  BY <1>3, <1>event DEF EntryRight
<1>6. Distinct(Tail(q)) /\ ToSet(Tail(q)) = {y \in ToSet(q) : y.ev # f}
  BY <1>1, <1>event, TailDistinct
<1>7. o \in Sides /\ o # s
  BY OtherSide
<1>8. m_msgcache'[s] = Tail(q) /\ m_msgcache'[o] = m_msgcache[o]
  BY <1>1, <1>7 DEF TypeOK
<1>9. /\ Sender(f) = s => sent'[f] = "expired" /\ asked' = asked
      /\ Sender(f) # s => asked'[f] = "expired" /\ sent' = sent
      /\ \A e \in Events : e # f => sent'[e] = sent[e]
      /\ \A r \in Requests : r # f => asked'[r] = asked[r]
  BY <1>1, <1>4, <1>5 DEF TypeOK
<1> HIDE DEF x
<1>10. Grows
  BY <1>1, <1>5, <1>9 DEF Grows, Told
<1>11. \A t \in Sides : \A a \in ToSet(wire[t]) :
        a.type = "START" /\ a.ev \in Requests => asked'[a.ev] = asked[a.ev]
  BY <1>1, <1>5, <1>9 DEF WireInv, PacketRight
<1>12. WireInv'
  BY <1>1, <1>10, <1>11, WireQuiet
<1>13. QueueInv'
  <2>1. number[f] # -1
    BY <1>4, NumberNotMinus
  <2>2. QED
    BY <1>1, <2>1, <1>9, QueueStays
<1>14. HasNumber'
  BY <1>1, <1>4, <1>5, <1>9 DEF EventsInv, HasNumber
<1> DEFINE G == {f}
<1>15. \A y : y \in ToSet(m_msgcache'[s]) <=> y \in ToSet(m_msgcache[s]) /\ y.ev \notin G
  BY <1>6, <1>8
<1>16. \A e \in Events : sent'[e] # sent[e] =>
         /\ Sender(e) = s /\ sent'[e] \notin {"new", "queued", "pending"}
         /\ e \in G \/ Crossed(e)'
         /\ sent'[e] = "acked" /\ ~Crossed(e)' =>
              e \in Told(Other(s))' /\ (e \in Requests => asked'[e] = "answered")
  BY <1>9
<1>17. \A r \in Requests : asked'[r] # asked[r] => asked[r] # "new" /\ Sender(r) # s /\ r \in G
  BY <1>5, <1>9
<1>18. \A e \in Events : e \in G /\ Sender(e) = s /\ ~Crossed(e)' => sent'[e] # "pending"
  BY <1>9
<1>19. Distinct(m_msgcache'[s])
  BY <1>6, <1>8
<1> HIDE DEF G, q
<1>20. QED
  BY <1>1, <1>8, <1>10, <1>12, <1>13, <1>14, <1>15, <1>16, <1>17, <1>18, <1>19, EntriesGo

LEMMA ParseStartEvents ==
    ASSUME TypeOK, EventsInv, NEW s \in Sides, ParseStart(s)
    PROVE  EventsInv' /\ Grows
<1> DEFINE p == Head(wire[s])
           o == Other(s)
<1>1. PICK n, f : n = p.seqnum /\ f = p.ev
  OBVIOUS
<1>2. /\ wire[s] # <<>> /\ p.type = "START" /\ wire[s] \in Seq(Packet) /\ WireInv /\ NewInv
      /\ handled' = [handled EXCEPT ![s] = Append(@, f)]
      /\ UNCHANGED <<m_msgqueue, number, sent>>
  BY <1>1 DEF ParseStart, EventsInv, TypeOK
<1>3. n \in Number /\ f \in Events /\ PacketRight(s, p)
  BY <1>1, <1>2, HeadRight DEF Dialogue
<1>4. Sender(f) = o /\ number[f] = n /\ (f \in Requests => asked[f] = "new")
  BY <1>1, <1>2, <1>3 DEF PacketRight
<1>early. f \in Requests => f \notin Earlier
  BY <1>4 DEF EventsInv, EarlierInv
<1>5. o \in Sides /\ o # s /\ Other(o) = s /\ \A t \in Sides : t = s \/ t = o
  BY OtherSide
<1>6. Told(s)' = Told(s) \cup {f} /\ Told(o)' = Told(o)
  <2>1. handled[s] \in Seq(Events)
    BY DEF TypeOK
  <2>2. ToSet(Append(handled[s], f)) = ToSet(handled[s]) \cup {f}
    BY <1>3, <2>1, AppendElements
  <2>3. handled'[s] = Append(handled[s], f) /\ handled'[o] = handled[o]
    BY <1>2, <1>5 DEF TypeOK
  <2>4. QED
    BY <2>2, <2>3 DEF Told
<1>7. QueueInv'
  BY <1>2, QueueStays
<1>8. CASE f \in Requests
  <2> DEFINE x == [seqnum |-> n, ev |-> f]
  <2>1. /\ asked' = [asked EXCEPT ![f] = "asked"]
        /\ m_msgcache' = [m_msgcache EXCEPT ![s] = Append(@, x)]
        /\ wire' = Receive(s)
    BY <1>1, <1>8 DEF ParseStart
  <2>2. x \in Entry /\ x.ev = f /\ x.seqnum = n
    BY <1>3 DEF Entry
  <2> HIDE DEF p, x
  <2>3. asked'[f] = "asked" /\ \A r \in Requests : r # f => asked'[r] = asked[r]
    BY <1>8, <2>1 DEF TypeOK
  <2>4. Grows
    BY <1>2, <1>4, <1>5, <1>6, <2>3 DEF Grows
  <2>5. wire'[s] = Tail(wire[s]) /\ wire'[o] = wire[o]
    BY <2>1, ReceiveEffect
  <2>6. \A t \in Sides : \A a \in ToSet(wire[t]) :
          a \in ToSet(wire'[t]) /\ a.type = "START" /\ a.ev \in Requests => asked'[a.ev] = asked[a.ev]
    <3>1. \A a \in ToSet(Tail(wire[s])) : a.type = "START" => a.ev # f
      BY <1>1, <1>2, StartsOnceTail DEF WireInv, p
    <3>2. \A a \in ToSet(wire[o]) : a.type = "START" => a.ev # f
      BY <1>2, <1>4, <1>5 DEF WireInv, PacketRight
    <3>3. QED
      BY <1>5, <2>3, <2>5, <3>1, <3>2
  <2>7. WireInv'
    BY <1>2, <2>4, <2>5, <2>6, WireQuiet
  <2>8. m_msgcache'[s] = Append(m_msgcache[s], x) /\ m_msgcache'[o] = m_msgcache[o]
    BY <1>5, <2>1 DEF TypeOK
  <2>9. m_msgcache[s] \in Seq(Entry) /\ Distinct(m_msgcache[s]) /\ Distinct(m_msgcache[o])
    BY <1>5 DEF TypeOK, EventsInv, OneEntry
  <2>10. ToSet(m_msgcache'[s]) = ToSet(m_msgcache[s]) \cup {x}
    BY <2>2, <2>8, <2>9, AppendElements
  <2>11. \A y \in ToSet(m_msgcache[s]) : y.ev # f
    BY <1>4, <1>5, <1>8 DEF EventsInv, CacheInv, EntryRight
  <2>12. OneEntry'
    <3>1. <<x>> \in Seq(Entry) /\ ToSet(<<x>>) = {x} /\ Distinct(<<x>>)
      BY <2>2, OnePacket DEF Distinct
    <3>2. Append(m_msgcache[s], x) = m_msgcache[s] \o <<x>>
      BY <2>2, <2>9, AppendIsConcat
    <3> DEFINE one == <<x>>
    <3>3. \A y \in ToSet(m_msgcache[s]), z \in ToSet(one) : y.ev # z.ev
      BY <2>2, <2>11, <3>1
    <3> HIDE DEF one
    <3>4. Distinct(m_msgcache[s] \o one)
      BY <2>9, <3>1, <3>3, ConcatDistinct DEF one
    <3>5. QED
      BY <1>5, <2>8, <2>9, <3>2, <3>4 DEF OneEntry, one
  <2>13. CacheInv'
    <3>1. SUFFICES ASSUME NEW t \in Sides, NEW y \in ToSet(m_msgcache'[t]) PROVE EntryRight(t, y)'
      BY DEF CacheInv
    <3>2. CASE y \in ToSet(m_msgcache[t])
      <4>1. EntryRight(t, y)
        BY <3>2 DEF EventsInv, CacheInv
      <4>2. y.ev \in Events
        BY <1>2, <3>2, <4>1, EntryIsSent
      <4>3. Sender(y.ev) # t => asked'[y.ev] = asked[y.ev]
        BY <1>4, <1>8, <2>3, <4>1, <4>2 DEF EntryRight
      <4>4. QED
        BY <1>2, <2>4, <3>2, <4>1, <4>3, EntryStays
    <3>3. CASE t = s /\ y = x
      BY <1>2, <1>4, <1>5, <1>8, <1>early, <2>2, <2>3, <3>3 DEF EntryRight
    <3>4. CASE t = o
      BY <2>8, <3>2, <3>4
    <3>5. CASE t = s
      BY <2>10, <3>2, <3>3, <3>5
    <3>6. QED
      BY <1>5, <3>4, <3>5
  <2>14. FateInv'
    <3>1. SUFFICES ASSUME NEW e \in Events PROVE FateRight(e)'
      BY DEF FateInv
    <3>2. FateRight(e) /\ sent'[e] = sent[e] /\ Sender(e) \in Sides
      BY <1>2, SenderSide DEF EventsInv, FateInv
    <3>3. ToSet(m_msgcache[Sender(e)]) \subseteq ToSet(m_msgcache'[Sender(e)])
      BY <1>5, <2>8, <2>10, <3>2
    <3>4. QED
      BY <2>4, <3>2, <3>3, FateStays
  <2>15. NewInv' /\ HasNumber'
    <3>1. HasNumber'
      BY <1>2, <1>3, <1>4, <2>3 DEF HasNumber, EventsInv
    <3>2. SUFFICES ASSUME NEW e \in Events
                   PROVE  /\ sent'[e] \in {"new", "queued"} => number'[e] = -1
                          /\ e \in Requests /\ asked'[e] # "new" => e \in Known(Other(Sender(e)))'
      BY <3>1 DEF NewInv
    <3>3. sent'[e] \in {"new", "queued"} => number'[e] = -1
      BY <1>2 DEF NewInv
    <3>4. CASE e = f
      BY <1>4, <1>5, <1>6, <3>3, <3>4 DEF Known
    <3>5. CASE e # f
      <4>1. e \in Requests /\ asked'[e] # "new" => e \in Known(Other(Sender(e)))
        BY <1>2, <2>3, <3>5 DEF NewInv
      <4>2. Known(Other(Sender(e))) \subseteq Known(Other(Sender(e)))'
        BY <2>4, SenderSide, OtherSide DEF Grows, Known
      <4>3. QED
        BY <3>3, <4>1, <4>2
    <3>6. QED
      BY <3>4, <3>5
  <2>16. EarlierInv'
    BY <2>4, EarlierOnes DEF EventsInv, EarlierInv, Grows
  <2>17. QED
    BY <1>7, <2>4, <2>7, <2>12, <2>13, <2>14, <2>15, <2>16 DEF EventsInv
<1>9. CASE f \notin Requests
  <2> DEFINE ack == [type |-> "ACK", seqnum |-> n, ev |-> f]
             acks == <<ack>>
  <2>1. wire' = SendTo(o, Receive(s), acks) /\ UNCHANGED <<asked, m_msgcache>>
    BY <1>1, <1>9 DEF ParseStart
  <2>2. ack \in Packet /\ ack.type = "ACK" /\ ack.seqnum = n /\ ack.ev = f
    BY <1>3, PacketTypes
  <2> HIDE DEF p, ack
  <2>3. acks \in Seq(Packet) /\ ToSet(acks) = {ack}
    BY <2>2, OnePacket
  <2> HIDE DEF acks
  <2>4. Grows
    BY <1>2, <1>5, <1>6, <2>1 DEF Grows
  <2>5. /\ wire'[s] = Tail(wire[s])
        /\ wire'[Other(s)] = wire[Other(s)] \/ wire'[Other(s)] = wire[Other(s)] \o acks
    BY <1>2, <2>1, <2>3, ReadAndSend
  <2>6. StartsOnce(acks)
    <3>1. \A i \in DOMAIN acks : acks[i] \in ToSet(acks)
      BY DEF ToSet
    <3>2. QED
      BY <2>2, <2>3, <3>1 DEF StartsOnce
  <2>7. \A b \in ToSet(acks) : b.type = "ACK" /\ PacketRight(o, b)'
    BY <1>2, <1>4, <1>5, <1>6, <1>9, <2>2, <2>3 DEF PacketRight, Known
  <2>8. WireInv'
    BY <1>2, <2>1, <2>3, <2>4, <2>5, <2>6, <2>7, WireStep
  <2>9. \A e : Crossed(e)' <=> Crossed(e)
    BY <1>2, <2>1 DEF Crossed
  <2>10. CacheInv' /\ EarlierInv' /\ OneEntry' /\ HasNumber'
    BY <1>2, <2>1, <2>9 DEF EventsInv, CacheInv, EntryRight, EarlierInv, OneEntry, HasNumber
  <2>11. NewInv'
    BY <1>2, <1>5, <1>6, <2>1, SenderSide DEF NewInv, Known
  <2>12. FateInv'
    BY <1>2, <2>1, <2>4, FateStays DEF EventsInv, FateInv
  <2>13. QED
    BY <1>7, <2>4, <2>8, <2>10, <2>11, <2>12 DEF EventsInv
<1>10. QED
  BY <1>8, <1>9

LEMMA AnswersEvents ==
    ASSUME TypeOK, EventsInv, NEW r \in Requests, Answers(r)
    PROVE  EventsInv' /\ Grows
<1> DEFINE s == Other(Sender(r))
           o == Sender(r)
           ack == [type |-> "ACK", seqnum |-> number[r], ev |-> r]
           acks == <<ack>>
<1>1. r \in Events /\ s \in Sides /\ o \in Sides /\ Other(s) = o /\ o # s /\ \A t \in Sides : t = s \/ t = o
  BY SenderSide, OtherSide DEF Events
<1>2. /\ asked[r] \in {"asked", "expired"}
      /\ asked' = [asked EXCEPT ![r] = "answered"]
      /\ wire' = SendTo(Other(s), wire, acks)
      /\ m_msgcache' = [m_msgcache EXCEPT ![s] = Without(@, number[r])]
      /\ UNCHANGED <<m_msgqueue, number, sent, handled>>
  <2>1. HasNumber
    BY DEF EventsInv
  <2>2. /\ asked[r] \in {"asked", "expired"} /\ Tells(s, ack)
        /\ asked' = [asked EXCEPT ![r] = "answered"]
        /\ m_msgcache' = [m_msgcache EXCEPT ![s] = Without(@, number[r])]
        /\ UNCHANGED <<m_seqnum, m_msgqueue, number, sent, handled, undefined>>
    BY <2>1, AnswersEffect, Zenon
  <2>3. wire' = SendTo(Other(s), wire, acks)
    BY <2>2, Zenon DEF Tells
  <2>4. QED
    BY <2>2, <2>3, Zenon
<1>3. WireInv /\ NewInv /\ HasNumber /\ CacheInv
  BY DEF EventsInv
<1>4. number[r] \in Number /\ number[r] # -1
  BY <1>1, <1>2, <1>3, NumberNotMinus DEF HasNumber
<1>5. ack \in Packet /\ ack.type = "ACK" /\ ack.seqnum = number[r] /\ ack.ev = r
  BY <1>1, <1>4, PacketTypes
<1>6. asked'[r] = "answered" /\ \A q \in Requests : q # r => asked'[q] = asked[q]
  BY <1>2 DEF TypeOK
<1>7. r \in Known(s)
  BY <1>1, <1>2, <1>3 DEF NewInv
<1>8. Grows
  BY <1>2, <1>6 DEF Grows, Told
<1>9. Distinct(Without(m_msgcache[s], number[r]))
      /\ \A x : x \in ToSet(Without(m_msgcache[s], number[r])) <=>
                x \in ToSet(m_msgcache[s]) /\ x.seqnum # number[r]
  <2>1. m_msgcache[s] \in Seq(Entry) /\ Distinct(m_msgcache[s])
    BY <1>1 DEF TypeOK, EventsInv, OneEntry
  <2>2. /\ Distinct(Without(m_msgcache[s], number[r]))
        /\ ToSet(Without(m_msgcache[s], number[r])) = {x \in ToSet(m_msgcache[s]) : x.seqnum # number[r]}
    BY <2>1, WithoutElements
  <2>3. QED
    BY <2>2
<1>10. m_msgcache'[s] = Without(m_msgcache[s], number[r]) /\ m_msgcache'[o] = m_msgcache[o]
  BY <1>1, <1>2 DEF TypeOK
<1> HIDE DEF s, o, ack
<1>11. acks \in Seq(Packet) /\ ToSet(acks) = {ack}
  BY <1>5, OnePacket
<1> HIDE DEF acks
<1>12. /\ wire'[s] = wire[s]
       /\ wire'[Other(s)] = wire[Other(s)] \/ wire'[Other(s)] = wire[Other(s)] \o acks
  BY <1>1, <1>2, <1>11, JustSend
<1>13. StartsOnce(acks)
  <2>1. \A i \in DOMAIN acks : acks[i] \in ToSet(acks)
    BY DEF ToSet
  <2>2. QED
    BY <1>5, <1>11, <2>1 DEF StartsOnce
<1>14. \A b \in ToSet(acks) : b.type = "ACK" /\ PacketRight(o, b)'
  <2>1. number'[r] = number[r] /\ r \in Known(s)' /\ Other(o) = s /\ Sender(r) = o
    BY <1>1, <1>2, <1>7, OtherSide DEF Told, Known, o
  <2>2. QED
    BY <1>5, <1>6, <1>11, <2>1 DEF PacketRight
<1>15. \A t \in Sides : \A a \in ToSet(wire[t]) :
        a.type = "START" /\ a.ev \in Requests => asked'[a.ev] = asked[a.ev]
  BY <1>2, <1>3, <1>6 DEF WireInv, PacketRight
<1>16. WireInv'
  BY <1>1, <1>3, <1>8, <1>11, <1>12, <1>13, <1>14, <1>15, WireStep
<1>17. QueueInv' /\ HasNumber'
  <2>1. QueueInv'
    BY <1>2, QueueStays
  <2>2. HasNumber'
    BY <1>2, <1>4, <1>6 DEF EventsInv, HasNumber
  <2>3. QED
    BY <2>1, <2>2
<1> DEFINE G == {e \in Events : number[e] = number[r]}
<1>18. \A x : x \in ToSet(m_msgcache'[s]) <=> x \in ToSet(m_msgcache[s]) /\ x.ev \notin G
  <2>1. \A x \in ToSet(m_msgcache[s]) : EntryRight(s, x)
    BY <1>1, <1>3 DEF CacheInv
  <2>2. \A x \in ToSet(m_msgcache[s]) : x.ev \in Events /\ number[x.ev] = x.seqnum
    BY <1>1, <1>3, <2>1, EntryIsSent DEF EntryRight
  <2>3. QED
    BY <1>9, <1>10, <2>2
<1>19. \A e \in Events : e \in G /\ Sender(e) = s => Crossed(e)'
  <2>1. SUFFICES ASSUME NEW e \in Events, number[e] = number[r], Sender(e) = s PROVE Crossed(e)'
    OBVIOUS
  <2>2. r \in Events \ {e} /\ number'[r] = number'[e] /\ number'[e] # -1 /\ asked'[r] # "new"
    BY <1>1, <1>2, <1>4, <1>6, <2>1 DEF o
  <2>3. QED
    BY <2>2 DEF Crossed
<1>20. \A q \in Requests : asked'[q] # asked[q] => asked[q] # "new" /\ Sender(q) # s /\ q \in G
  BY <1>1, <1>2, <1>6 DEF o
<1>21. \A e \in Events : sent'[e] = sent[e]
  BY <1>2
<1> HIDE DEF G
<1>22. number' = number /\ m_msgcache'[Other(s)] = m_msgcache[Other(s)] /\ Distinct(m_msgcache'[s])
  BY <1>1, <1>2, <1>9, <1>10
<1>23. QED
  BY <1>1, <1>8, <1>16, <1>17, <1>18, <1>19, <1>20, <1>21, <1>22, EntriesGo

LEMMA CancelsEvents ==
    ASSUME TypeOK, EventsInv, Quiet, NEW r \in Requests, Cancels(r)
    PROVE  EventsInv' /\ Grows
<1> DEFINE s == Sender(r)
           o == Other(s)
<1>1. r \in Events /\ s \in Sides /\ o \in Sides /\ o # s /\ \A t \in Sides : t = s \/ t = o
  BY SenderSide, OtherSide DEF Events
<1>3. WireInv /\ HasNumber /\ OneEntry /\ FateInv /\ CacheInv
  BY DEF EventsInv
<1>effect. /\ sent[r] \in {"queued", "pending"}
           /\ \E m \in Number :
                /\ sent[r] = "pending" => m = number[r]
                /\ Tells(s, [type |-> "CANCEL", seqnum |-> m, ev |-> r])
                /\ [type |-> "CANCEL", seqnum |-> m, ev |-> r] \in Packet
                /\ m_msgcache' = [m_msgcache EXCEPT ![s] = IF exists(s, m) THEN Removed(s, m) ELSE @]
           /\ sent' = [sent EXCEPT ![r] = IF @ = "queued" THEN "withdrawn" ELSE "cancelled"]
           /\ UNCHANGED <<m_seqnum, m_msgqueue, number, asked, handled, undefined>>
  BY <1>3, CancelsEffect, Zenon
<1>number. PICK n \in Number :
             /\ sent[r] = "pending" => n = number[r]
             /\ Tells(s, [type |-> "CANCEL", seqnum |-> n, ev |-> r])
             /\ [type |-> "CANCEL", seqnum |-> n, ev |-> r] \in Packet
             /\ m_msgcache' = [m_msgcache EXCEPT ![s] = IF exists(s, n) THEN Removed(s, n) ELSE @]
  BY <1>effect
<1> DEFINE cancel == [type |-> "CANCEL", seqnum |-> n, ev |-> r]
           cancels == <<cancel>>
<1>wire. wire' = SendTo(Other(s), wire, cancels)
  BY <1>number, Zenon DEF Tells
<1>2. /\ m_msgcache' = [m_msgcache EXCEPT ![s] = IF exists(s, n) THEN Removed(s, n) ELSE @]
      /\ UNCHANGED <<m_msgqueue, number, asked, handled>>
  BY <1>effect, <1>number
<1>4. n \in Number /\ n # -1
  BY NumberNotMinus
<1>5. cancel \in Packet /\ cancel.type = "CANCEL"
  BY <1>number
<1>6. /\ sent[r] = "queued" => sent'[r] = "withdrawn"
      /\ sent[r] = "pending" => sent'[r] = "cancelled"
      /\ \A e \in Events : e # r => sent'[e] = sent[e]
  BY <1>1, <1>effect DEF TypeOK
<1>7. Grows
  BY <1>2 DEF Grows, Told
<1>8. /\ m_msgcache'[o] = m_msgcache[o]
      /\ exists(s, n) => m_msgcache'[s] = Removed(s, n)
      /\ ~exists(s, n) => m_msgcache'[s] = m_msgcache[s]
  BY <1>1, <1>2 DEF TypeOK
<1>pending. sent[r] = "pending" => number[r] = n
  BY <1>number
<1>queued. sent[r] = "queued" => m_msgcache[s] = <<>> /\ ~exists(s, n)
  BY <1>1, LookupFinds DEF Quiet, exists, Entries
<1> HIDE DEF cancel
<1>9. cancels \in Seq(Packet) /\ ToSet(cancels) = {cancel}
  BY <1>5, OnePacket
<1> HIDE DEF cancels
<1>10. /\ wire'[s] = wire[s]
       /\ wire'[Other(s)] = wire[Other(s)] \/ wire'[Other(s)] = wire[Other(s)] \o cancels
  BY <1>1, <1>wire, <1>9, JustSend
<1>11. \A b \in ToSet(cancels) : b.type \notin {"START", "ACK"}
  BY <1>5, <1>9
<1>12. StartsOnce(cancels) /\ \A b \in ToSet(cancels) : PacketRight(o, b)'
  BY <1>9, <1>11, OtherPackets
<1>13. WireInv'
  BY <1>1, <1>2, <1>3, <1>7, <1>9, <1>10, <1>11, <1>12, WireStep
<1>14. QueueInv' /\ HasNumber'
  <2>1. QueueInv'
    BY <1>2, <1>4, <1>6, <1>effect, <1>pending, QueueStays
  <2>2. HasNumber'
    BY <1>2, <1>6, <1>effect DEF EventsInv, HasNumber
  <2>3. QED
    BY <2>1, <2>2
<1>15. \A e : Crossed(e)' <=> Crossed(e)
  BY <1>2 DEF Crossed
<1>16. CASE sent[r] = "pending" /\ ~exists(s, n)
  <2>1. Crossed(r)
    <3>1. SUFFICES ASSUME ~Crossed(r) PROVE FALSE
      OBVIOUS
    <3>2. PICK x \in ToSet(m_msgcache[s]) : x.ev = r
      BY <1>1, <1>3, <1>16, <3>1 DEF FateInv, FateRight
    <3>3. x.seqnum = n
      BY <1>1, <1>3, <1>16, <1>pending, <3>2 DEF CacheInv, EntryRight
    <3>4. PICK i \in DOMAIN m_msgcache[s] : m_msgcache[s][i] = x
      BY DEF ToSet
    <3>5. QED
      BY <1>16, <3>3, <3>4 DEF exists, Entries
  <2> DEFINE G == {}
  <2>2. \A x : x \in ToSet(m_msgcache'[s]) <=> x \in ToSet(m_msgcache[s]) /\ x.ev \notin G
    BY <1>8, <1>16
  <2>3. Distinct(m_msgcache'[s])
    BY <1>1, <1>3, <1>8, <1>16 DEF OneEntry
  <2>4. \A e \in Events : sent'[e] # sent[e] =>
             /\ Sender(e) = s /\ sent'[e] \notin {"new", "queued", "pending", "acked"}
             /\ e \in G \/ Crossed(e)'
    BY <1>6, <1>15, <1>16, <2>1
  <2>5. \A e \in Events : e \notin G
    OBVIOUS
  <2> HIDE DEF G, s
  <2>6. number' = number /\ m_msgcache'[Other(s)] = m_msgcache[Other(s)] /\ asked' = asked
    BY <1>2, <1>8
  <2>7. QED
    BY <1>1, <1>7, <1>13, <1>14, <2>2, <2>3, <2>4, <2>5, <2>6, EntriesGo
<1>17. CASE sent[r] = "pending" /\ exists(s, n)
  <2>1. PICK f : f = m_msgcache[s][Lookup(s, n)].ev
    OBVIOUS
  <2>2. Found(s, n, f)
    BY <1>1, <1>17, <2>1, FoundRight
  <2>3. /\ f \in Events /\ number[f] = n /\ number[r] = n
        /\ Sender(f) # s => f \in Requests /\ asked[f] = "asked"
        /\ Distinct(Removed(s, n))
        /\ \A x : x \in ToSet(Removed(s, n)) <=> x \in ToSet(m_msgcache[s]) /\ x.ev # f
    BY <1>17, <1>pending, <2>2 DEF Found
  <2> DEFINE G == {f}
  <2>4. \A x : x \in ToSet(m_msgcache'[s]) <=> x \in ToSet(m_msgcache[s]) /\ x.ev \notin G
    BY <1>8, <1>17, <2>3
  <2>5. Distinct(m_msgcache'[s])
    BY <1>8, <1>17, <2>3
  <2>6. f # r => Crossed(r) /\ (Sender(f) = s => Crossed(f))
    <3>1. SUFFICES ASSUME f # r PROVE Crossed(r) /\ (Sender(f) = s => Crossed(f))
      OBVIOUS
    <3>2. Crossed(r)
      BY <1>1, <1>4, <2>3, <3>1 DEF Crossed
    <3>3. Sender(f) = s => Crossed(f)
      BY <1>1, <1>4, <2>3, <3>1 DEF Crossed
    <3>4. QED
      BY <3>2, <3>3
  <2>7. \A e \in Events : sent'[e] # sent[e] =>
             /\ Sender(e) = s /\ sent'[e] \notin {"new", "queued", "pending", "acked"}
             /\ e \in G \/ Crossed(e)'
    BY <1>6, <1>15, <1>17, <2>6
  <2>8. \A e \in Events : e \in G /\ Sender(e) = s /\ ~Crossed(e)' => sent'[e] # "pending"
    BY <1>6, <1>15, <1>17, <2>6
  <2> HIDE DEF G, s
  <2>9. number' = number /\ m_msgcache'[Other(s)] = m_msgcache[Other(s)] /\ asked' = asked
    BY <1>2, <1>8
  <2>10. QED
    BY <1>1, <1>7, <1>13, <1>14, <2>4, <2>5, <2>7, <2>8, <2>9, EntriesGo
<1>18. CASE sent[r] = "queued"
  <2> DEFINE G == Events
  <2>1. m_msgcache[s] = <<>> /\ m_msgcache'[s] = <<>>
    BY <1>8, <1>18, <1>queued
  <2>2. \A x : x \in ToSet(m_msgcache'[s]) <=> x \in ToSet(m_msgcache[s]) /\ x.ev \notin G
    BY <2>1, NoElements
  <2>3. Distinct(m_msgcache'[s])
    BY <2>1 DEF Distinct
  <2>4. \A e \in Events : sent'[e] # sent[e] => e = r /\ sent'[e] = "withdrawn"
    BY <1>6, <1>18
  <2>5. \A e \in Events : e \in G /\ Sender(e) = s /\ ~Crossed(e)' => sent'[e] # "pending"
    <3>1. SUFFICES ASSUME NEW e \in Events, Sender(e) = s, ~Crossed(e)', sent'[e] = "pending" PROVE FALSE
      OBVIOUS
    <3>2. sent[e] = "pending" /\ ~Crossed(e)
      BY <1>15, <2>4, <3>1
    <3>3. \E x \in ToSet(m_msgcache[s]) : x.ev = e
      BY <1>3, <3>1, <3>2 DEF FateInv, FateRight
    <3>4. QED
      BY <2>1, <3>3, NoElements
  <2>6. \A e \in Events : sent'[e] # sent[e] =>
             /\ Sender(e) = s /\ sent'[e] \notin {"new", "queued", "pending", "acked"}
             /\ e \in G \/ Crossed(e)'
    BY <2>4
  <2>7. number' = number /\ m_msgcache'[Other(s)] = m_msgcache[Other(s)] /\ asked' = asked
    BY <1>2, <1>8
  <2> HIDE DEF G, s
  <2>8. QED
    BY <1>1, <1>7, <1>13, <1>14, <2>2, <2>3, <2>5, <2>6, <2>7, EntriesGo
<1>19. QED
  BY <1>16, <1>17, <1>18, <1>effect

LEMMA EndsEvents ==
    ASSUME TypeOK, EventsInv, NEW s \in Sides, Ends(s)
    PROVE  EventsInv' /\ Grows
<1> DEFINE o == Other(s)
           held == {m_msgcache[s][i].ev : i \in DOMAIN m_msgcache[s]}
<1>0. PICK fates : Destroy(s, fates)
  BY EndsEffect
<1>1. /\ asked' = [e \in Requests |-> IF e \in held /\ Sender(e) # s THEN "expired" ELSE asked[e]]
      /\ m_msgqueue' = [m_msgqueue EXCEPT ![s] = <<>>]
      /\ m_msgcache' = [m_msgcache EXCEPT ![s] = <<>>]
      /\ wire' = [wire EXCEPT ![s] = <<>>]
      /\ UNCHANGED <<number, handled>>
  BY <1>0 DEF Destroy
<1>fate. \A e \in Events : EndsFate(s, e)
  BY EndsEffect
<1>2. o \in Sides /\ o # s /\ \A t \in Sides : t = s \/ t = o
  BY OtherSide
<1>3. WireInv /\ QueueInv /\ CacheInv /\ FateInv /\ HasNumber
  BY DEF EventsInv
<1>4. \A e : e \in held <=> \E x \in ToSet(m_msgcache[s]) : x.ev = e
  BY DEF ToSet
<1>holds. \A e : Holds(s, e) <=> e \in held \/ e \in ToSet(m_msgqueue[s])
  BY DEF Holds
<1>5. /\ m_msgqueue'[s] = <<>> /\ m_msgqueue'[o] = m_msgqueue[o]
      /\ m_msgcache'[s] = <<>> /\ m_msgcache'[o] = m_msgcache[o]
      /\ wire'[s] = <<>> /\ wire'[o] = wire[o]
  BY <1>1, <1>2 DEF TypeOK
<1> HIDE DEF held
<1>6. \A e \in held : Sender(e) # s => e \in Requests /\ asked[e] = "asked"
  BY <1>3, <1>4 DEF CacheInv, EntryRight
<1>7. \A r \in Requests : asked'[r] # asked[r] => r \in held /\ asked[r] = "asked" /\ asked'[r] = "expired" /\ Sender(r) # s
  BY <1>1, <1>6
<1>sent. \A e \in Events : /\ sent'[e] # sent[e] => Sender(e) = s /\ sent'[e] \in {"expired", "cancelled"}
                           /\ Holds(s, e) /\ Sender(e) = s => sent'[e] \in {"expired", "cancelled"}
  BY <1>fate, Zenon DEF EndsFate
<1>8. Grows
  BY <1>1, <1>7 DEF Grows, Told
<1>9. \A t \in Sides : \A a \in ToSet(wire[t]) :
        a.type = "START" /\ a.ev \in Requests => asked'[a.ev] = asked[a.ev]
  BY <1>3, <1>7 DEF WireInv, PacketRight
<1>10. WireInv'
  BY <1>3, <1>5, <1>8, <1>9, WireQuiet
<1>11. QueueInv'
  <2>1. Once(<<>>) /\ ToSet(<<>>) = {}
    BY NoElements DEF Once
  <2>2. ToSet(m_msgqueue[o]) \subseteq Events
    BY <1>2, Elements DEF TypeOK
  <2>3. \A e \in ToSet(m_msgqueue[o]) :
          sent'[e] \in {"queued", "withdrawn"} /\ number'[e] = -1 /\ Sender(e) = o
    BY <1>1, <1>2, <1>3, <1>sent, <2>2 DEF QueueInv
  <2>4. QED
    BY <1>2, <1>3, <1>5, <2>1, <2>3 DEF QueueInv
<1>12. HasNumber'
  BY <1>1, <1>3, <1>7, <1>sent DEF HasNumber
<1> DEFINE G == Events
<1>13. \A x : x \in ToSet(m_msgcache'[s]) <=> x \in ToSet(m_msgcache[s]) /\ x.ev \notin G
  <2>1. \A x \in ToSet(m_msgcache[s]) : x.ev \in Events
    BY <1>3, EntryIsSent DEF EventsInv, CacheInv
  <2>2. QED
    BY <1>5, <2>1, NoElements
<1>14. \A e \in Events : sent'[e] # sent[e] => Sender(e) = s /\ sent'[e] \in {"expired", "cancelled"}
  BY <1>sent
<1>15. \A e \in Events : Sender(e) = s /\ ~Crossed(e)' => sent'[e] # "pending"
  <2>1. SUFFICES ASSUME NEW e \in Events, Sender(e) = s, ~Crossed(e)', sent'[e] = "pending" PROVE FALSE
    OBVIOUS
  <2>2. sent[e] = "pending" /\ ~Crossed(e)
    BY <1>8, <1>14, <2>1, CrossedStays
  <2>3. e \in held
    BY <1>3, <1>4, <2>1, <2>2 DEF FateInv, FateRight
  <2>4. QED
    BY <1>sent, <1>holds, <2>1, <2>3
<1>16. Distinct(m_msgcache'[s])
  BY <1>5 DEF Distinct
<1>17. number' = number /\ m_msgcache'[Other(s)] = m_msgcache[Other(s)]
  BY <1>1, <1>5
<1>18. \A r \in Requests : asked'[r] # asked[r] => asked[r] # "new" /\ Sender(r) # s /\ r \in G
  BY <1>7 DEF Events
<1>19. \A e \in Events : e \in G
  OBVIOUS
<1> HIDE DEF G
<1>20. QED
  BY <1>8, <1>10, <1>11, <1>12, <1>13, <1>14, <1>15, <1>16, <1>17, <1>18, <1>19, EntriesGo

LEMMA EventsInit == Init => EventsInv
<1> SUFFICES ASSUME Init PROVE EventsInv
  OBVIOUS
<1>1. \A s \in Sides : m_msgqueue[s] = <<>> /\ m_msgcache[s] = <<>> /\ wire[s] = <<>>
  BY DEF Init
<1>2. PICK foreign \in [Earlier -> Foreign] :
        number = [e \in Events |-> IF e \in Earlier THEN foreign[e] ELSE -1]
  BY DEF Init
<1>new. /\ \A e \in Events : e \notin Earlier => sent[e] = "new" /\ number[e] = -1
        /\ \A e \in Events : e \in Earlier => sent[e] = "expired" /\ number[e] \in Number
        /\ \A r \in Requests : r \notin Earlier => asked[r] = "new"
        /\ \A r \in Earlier : asked[r] = "expired" /\ r \in Known(Other(Sender(r)))
  <2>1. \A e \in Earlier : foreign[e] \in Number
    BY EarlierOnes
  <2>2. /\ sent = [e \in Events |-> IF e \in Earlier THEN "expired" ELSE "new"]
        /\ asked = [e \in Requests |-> IF e \in Earlier THEN "expired" ELSE "new"]
    BY DEF Init
  <2>3. QED
    BY <1>2, <2>1, <2>2, EarlierOnes DEF Known
<1>3. ToSet(<<>>) = {}
  BY NoElements
<1>4. WireInv /\ QueueInv /\ CacheInv /\ OneEntry
  BY <1>1, <1>3 DEF WireInv, StartsOnce, QueueInv, Once, CacheInv, OneEntry, Distinct
<1>5. NewInv /\ EarlierInv /\ HasNumber /\ FateInv
  BY <1>new DEF NewInv, EarlierInv, HasNumber, FateInv, FateRight
<1>6. QED
  BY <1>4, <1>5 DEF EventsInv

LEMMA EventsStep ==
    ASSUME TypeOK, EventsInv, Quiet, [Next]_vars
    PROVE  EventsInv' /\ Grows
<1> DEFINE P == EventsInv' /\ Grows
<1>1. \A version \in Published : Connect(version) => P
  BY ConnectEvents
<1>fin. FinishNonBlockingConnect => P
  BY FinishEvents
<1>2. \A s \in Sides : ParseInitPacket(s) \/ ParseInitAck(s) \/ ParseInit2(s) => P
  BY ParseInitPacketEvents, ParseInitAckEvents, ParseInit2Events
<1>3. \A s \in Sides : ParseStart(s) \/ ParseAck(s) \/ ParseCancel(s) => P
  BY ParseStartEvents, ParseAckEvents, ParseCancelEvents
<1>4. \A s \in Sides : Ends(s) => P
  BY EndsEvents
<1>5. \A s \in Sides : Expire(s) => P
  BY ExpireEvents
<1>6. \A e \in Events : SendEvent(e) => P
  BY SendEventEvents
<1>7. \A r \in Requests : Answers(r) \/ Cancels(r) => P
  BY AnswersEvents, CancelsEvents
<1>8. UNCHANGED vars => P
  <2>1. SUFFICES ASSUME UNCHANGED vars PROVE P
    OBVIOUS
  <2>2. UNCHANGED <<m_msgqueue, m_msgcache, number, sent, asked, handled>> /\ UNCHANGED wire
    BY <2>1 DEF vars
  <2>3. WireInv'
    BY <2>2 DEF EventsInv, WireInv, PacketRight, Known, Told
  <2>4. QED
    BY <2>2, <2>3, QuietEvents
<1> HIDE DEF P
<1>9. P
  BY <1>1, <1>fin, <1>2, <1>3, <1>4, <1>5, <1>6, <1>7, <1>8, Steps
<1>10. QED
  BY <1>9 DEF P

\* Quiet, one action at a time.
LEMMA QuietStays ==
    ASSUME Quiet, UNCHANGED <<m_msgqueue, sent>>,
           \A s \in Sides : m_state'[s] = "CONNECTED" <=> m_state[s] = "CONNECTED",
           \A s \in Sides : m_state[s] # "CONNECTED" /\ m_msgcache[s] = <<>> => m_msgcache'[s] = <<>>
    PROVE  Quiet'
  BY SenderSide DEF Quiet

LEMMA HandshakeQuiet ==
    ASSUME TypeOK, Quiet, NEW s \in Sides, NEW version, ParseInitPacket(s) \/ ParseInitAck(s) \/ Connect(version)
    PROVE  Quiet'
<1>1. UNCHANGED <<m_msgqueue, m_msgcache, sent>>
  BY DEF ParseInitPacket, ParseInitAck, Connect
<1>2. \A t \in Sides : m_state'[t] = "CONNECTED" <=> m_state[t] = "CONNECTED"
  BY DEF ParseInitPacket, ParseInitAck, Connect, TypeOK
<1>3. QED
  BY <1>1, <1>2, QuietStays

LEMMA FinishQuiet ==
    ASSUME TypeOK, HandInv, Quiet, FinishNonBlockingConnect
    PROVE  Quiet'
<1>1. UNCHANGED <<m_msgqueue, m_msgcache, sent>>
  BY DEF FinishNonBlockingConnect
<1>2. \A t \in Sides : m_state'[t] # "CONNECTED"
  BY DEF FinishNonBlockingConnect, Sides
<1>3. \A t \in Sides : m_state[t] # "CONNECTED"
  BY DEF HandInv, Phases, FinishNonBlockingConnect, Sides
<1>4. QED
  BY <1>1, <1>2, <1>3, QuietStays

LEMMA ParseInit2Quiet ==
    ASSUME TypeOK, Quiet, NEW s \in Sides, ParseInit2(s)
    PROVE  Quiet'
<1>1. /\ m_state' = [m_state EXCEPT ![s] = "CONNECTED"]
      /\ m_msgqueue' = [m_msgqueue EXCEPT ![s] = <<>>]
      /\ m_msgqueue[s] \in Seq(Events)
  BY DEF ParseInit2, TypeOK
<1>2. PICK w \in [Sides -> Seq(Packet)] : SendPacketEvents(s, m_msgqueue[s], w)
  BY ParseInit2Wire
<1>3. /\ sent' = [e \in Events |-> IF e \in ToSet(m_msgqueue[s]) /\ sent[e] # "withdrawn" THEN "pending" ELSE sent[e]]
      /\ m_msgcache' = [m_msgcache EXCEPT ![s] = @ \o Numbered(s, m_msgqueue[s])]
  BY <1>1, <1>2, SendPacketEventsEffect
<1>4. \A t \in Sides : m_state'[t] # "CONNECTED" => m_msgcache'[t] = <<>>
  BY <1>1, <1>3 DEF Quiet, TypeOK
<1>5. ASSUME NEW e \in Events, sent'[e] = "queued"
      PROVE  m_state'[Sender(e)] # "CONNECTED" /\ e \in ToSet(m_msgqueue'[Sender(e)])
  <2>1. sent[e] = "queued" /\ e \notin ToSet(m_msgqueue[s])
    BY <1>3, <1>5
  <2>2. Sender(e) # s /\ Sender(e) \in Sides
    BY <2>1, SenderSide DEF Quiet
  <2>3. QED
    BY <1>1, <2>1, <2>2 DEF Quiet, TypeOK
<1>6. QED
  BY <1>4, <1>5 DEF Quiet

\* What a connected side reads and sends.
LEMMA DialogueQuiet ==
    ASSUME TypeOK, EventsInv, Quiet, NEW s \in Sides, ParseStart(s) \/ ParseAck(s) \/ ParseCancel(s)
    PROVE  Quiet'
<1>1. /\ m_state[s] = "CONNECTED" /\ UNCHANGED <<m_state, m_msgqueue>>
      /\ \A t \in Sides : t # s => m_msgcache'[t] = m_msgcache[t]
  BY DEF ParseStart, ParseAck, ParseCancel, linkVars, TypeOK
<1>2. \A e \in Events : sent'[e] = "queued" => sent[e] = "queued"
  BY DEF ParseStart, ParseAck, ParseCancel, TypeOK
<1>3. QED
  BY <1>1, <1>2 DEF Quiet

LEMMA ExpireQuiet ==
    ASSUME TypeOK, EventsInv, Quiet, NEW s \in Sides, Expire(s)
    PROVE  Quiet'
<1>1. /\ UNCHANGED <<m_state, m_msgqueue>> /\ m_msgcache[s] # <<>>
      /\ \A t \in Sides : t # s => m_msgcache'[t] = m_msgcache[t]
  BY DEF Expire, linkVars, TypeOK
<1>2. \A e \in Events : sent'[e] = "queued" => sent[e] = "queued"
  BY DEF Expire, TypeOK
<1>3. m_state[s] = "CONNECTED"
  BY <1>1 DEF Quiet
<1>4. QED
  BY <1>1, <1>2, <1>3 DEF Quiet

LEMMA EndsQuiet ==
    ASSUME TypeOK, Quiet, NEW s \in Sides, Ends(s)
    PROVE  Quiet'
<1>1. PICK fates : Destroy(s, fates)
  BY EndsEffect
<1>2. \A e \in Events : EndsFate(s, e)
  BY EndsEffect
<1>3. /\ m_state' = [m_state EXCEPT ![s] = "GONE"]
      /\ m_msgqueue' = [m_msgqueue EXCEPT ![s] = <<>>]
      /\ m_msgcache' = [m_msgcache EXCEPT ![s] = <<>>]
  BY <1>1 DEF Destroy
<1>4. \A t \in Sides : m_state'[t] # "CONNECTED" => m_msgcache'[t] = <<>>
  BY <1>3 DEF Quiet, TypeOK
<1>5. ASSUME NEW e \in Events, sent'[e] = "queued"
      PROVE  m_state'[Sender(e)] # "CONNECTED" /\ e \in ToSet(m_msgqueue'[Sender(e)])
  <2>1. sent[e] = "queued" /\ ~(Holds(s, e) /\ Sender(e) = s)
    BY <1>2, <1>5 DEF EndsFate
  <2>2. e \in ToSet(m_msgqueue[Sender(e)]) /\ m_state[Sender(e)] # "CONNECTED" /\ Sender(e) \in Sides
    BY <2>1, SenderSide DEF Quiet
  <2>3. Sender(e) # s
    BY <2>1, <2>2 DEF Holds
  <2>4. QED
    BY <1>3, <2>2, <2>3 DEF TypeOK
<1>6. QED
  BY <1>4, <1>5 DEF Quiet

LEMMA SendEventQuiet ==
    ASSUME TypeOK, EventsInv, Quiet, NEW e \in Events, SendEvent(e)
    PROVE  Quiet'
<1> DEFINE s == Sender(e)
<1>1. s \in Sides /\ sent[e] = "new" /\ UNCHANGED m_state /\ m_msgqueue[s] \in Seq(Events)
  BY SenderSide DEF SendEvent, linkVars, TypeOK
<1>2. CASE m_state[s] = "CONNECTED" /\ SendPacketEvents(s, <<e>>, wire) /\ UNCHANGED m_msgqueue
  <2>1. \A t \in Sides : t # s => m_msgcache'[t] = m_msgcache[t]
    BY <1>1, <1>2 DEF SendPacketEvents, TypeOK
  <2>2. \A f \in Events : sent'[f] = "queued" => sent[f] = "queued"
    BY <1>2 DEF SendPacketEvents
  <2>3. QED
    BY <1>1, <1>2, <2>1, <2>2 DEF Quiet
<1>3. CASE /\ m_state[s] # "CONNECTED"
           /\ m_msgqueue' = [m_msgqueue EXCEPT ![s] = Append(@, e)]
           /\ sent' = [sent EXCEPT ![e] = "queued"]
           /\ UNCHANGED <<m_seqnum, m_msgcache, wire, number>>
  <2>1. ToSet(Append(m_msgqueue[s], e)) = ToSet(m_msgqueue[s]) \cup {e}
    BY <1>1, AppendElements
  <2>2. m_msgqueue'[s] = Append(m_msgqueue[s], e) /\ \A t \in Sides : t # s => m_msgqueue'[t] = m_msgqueue[t]
    BY <1>1, <1>3 DEF TypeOK
  <2>3. \A f \in Events : f # e => sent'[f] = sent[f]
    BY <1>3 DEF TypeOK
  <2>4. ASSUME NEW f \in Events, sent'[f] = "queued"
        PROVE  m_state'[Sender(f)] # "CONNECTED" /\ f \in ToSet(m_msgqueue'[Sender(f)])
    <3>1. CASE f = e
      BY <1>1, <1>3, <2>1, <2>2, <3>1
    <3>2. CASE f # e
      <4>1. m_state[Sender(f)] # "CONNECTED" /\ f \in ToSet(m_msgqueue[Sender(f)]) /\ Sender(f) \in Sides
        BY <2>3, <2>4, <3>2, SenderSide DEF Quiet
      <4>2. ToSet(m_msgqueue[Sender(f)]) \subseteq ToSet(m_msgqueue'[Sender(f)])
        BY <2>1, <2>2, <4>1
      <4>3. QED
        BY <1>1, <4>1, <4>2
    <3>3. QED
      BY <3>1, <3>2
  <2>5. QED
    BY <1>1, <1>3, <2>4 DEF Quiet
<1>4. QED
  BY <1>2, <1>3 DEF SendEvent

LEMMA AboutRequestQuiet ==
    ASSUME TypeOK, HasNumber, OneEntry, Quiet, NEW r \in Requests, Answers(r) \/ Cancels(r)
    PROVE  Quiet'
<1>1. CASE Answers(r)
  <2>1. /\ Other(Sender(r)) \in Sides
        /\ Tells(Other(Sender(r)), [type |-> "ACK", seqnum |-> number[r], ev |-> r])
        /\ m_msgcache' = [m_msgcache EXCEPT ![Other(Sender(r))] = Without(@, number[r])]
        /\ UNCHANGED <<m_seqnum, m_msgqueue, number, sent, handled, undefined>>
    BY <1>1, AnswersEffect, Zenon
  <2>2. UNCHANGED <<m_state, m_msgqueue, sent>>
    BY <2>1 DEF Tells
  <2>3. Without(<<>>, number[r]) = <<>>
    <3>1. <<>> \in Seq(Entry) /\ Distinct(<<>>) /\ ToSet(<<>>) = {}
      BY NoElements DEF Distinct
    <3>2. PICK q : q = <<>>
      OBVIOUS
    <3>3. q \in Seq(Entry) /\ Distinct(q) /\ ToSet(q) = {}
      BY <3>1, <3>2
    <3>4. /\ Without(q, number[r]) \in Seq(Entry)
          /\ ToSet(Without(q, number[r])) = {x \in ToSet(q) : x.seqnum # number[r]}
      BY <3>3, WithoutElements
    <3>5. ToSet(Without(q, number[r])) = {}
      BY <3>3, <3>4
    <3>6. QED
      BY <3>2, <3>4, <3>5, Elements, EmptySeq
  <2>4. QED
    BY <2>1, <2>2, <2>3, QuietStays DEF TypeOK
<1>2. CASE Cancels(r)
  <2>1. /\ r \in Events /\ Sender(r) \in Sides
        /\ sent' = [sent EXCEPT ![r] = IF @ = "queued" THEN "withdrawn" ELSE "cancelled"]
        /\ UNCHANGED <<m_seqnum, m_msgqueue, number, asked, handled, undefined>>
    BY <1>2, CancelsEffect, Zenon
  <2>2. PICK n \in Number :
          /\ Tells(Sender(r), [type |-> "CANCEL", seqnum |-> n, ev |-> r])
          /\ m_msgcache' = [m_msgcache EXCEPT ![Sender(r)] = IF exists(Sender(r), n) THEN Removed(Sender(r), n) ELSE @]
    BY <1>2, CancelsEffect, Zenon
  <2>3. UNCHANGED <<m_state, m_msgqueue>>
    BY <2>1, <2>2 DEF Tells
  <2>4. \A e \in Events : sent'[e] = "queued" => sent[e] = "queued"
    BY <2>1 DEF TypeOK
  <2>5. m_msgcache[Sender(r)] = <<>> => ~exists(Sender(r), n)
    BY DEF exists, Entries
  <2>6. \A s \in Sides : m_state[s] # "CONNECTED" => m_msgcache'[s] = <<>>
    BY <2>1, <2>2, <2>5 DEF Quiet, TypeOK
  <2>7. QED
    BY <2>3, <2>4, <2>6 DEF Quiet
<1>3. QED
  BY <1>1, <1>2

LEMMA QuietInit == Init => Quiet
  BY DEF Init, Quiet

LEMMA QuietStep ==
    ASSUME TypeOK, HandInv, EventsInv, Quiet, [Next]_vars
    PROVE  Quiet'
<1>0. HasNumber /\ OneEntry /\ "caller" \in Sides
  BY DEF EventsInv, Sides
<1>1. \A version \in Published : Connect(version) => Quiet'
  BY <1>0, HandshakeQuiet
<1>2. FinishNonBlockingConnect => Quiet'
  BY FinishQuiet
<1>3. \A s \in Sides : ParseInitPacket(s) \/ ParseInitAck(s) \/ ParseInit2(s) => Quiet'
  BY HandshakeQuiet, ParseInit2Quiet
<1>4. \A s \in Sides : ParseStart(s) \/ ParseAck(s) \/ ParseCancel(s) => Quiet'
  BY DialogueQuiet
<1>5. \A s \in Sides : Ends(s) => Quiet'
  BY EndsQuiet
<1>6. \A s \in Sides : Expire(s) => Quiet'
  BY ExpireQuiet
<1>7. \A e \in Events : SendEvent(e) => Quiet'
  BY SendEventQuiet
<1>8. \A r \in Requests : Answers(r) \/ Cancels(r) => Quiet'
  BY <1>0, AboutRequestQuiet
<1>9. UNCHANGED vars => Quiet'
  BY DEF Quiet, vars, linkVars
<1>10. QED
  BY <1>1, <1>2, <1>3, <1>4, <1>5, <1>6, <1>7, <1>8, <1>9, Steps

-----------------------------------------------------------------------------
(* The numbers. The events a side was told of, and those of the START        *)
(* packets on their way to it, are numbered -1, -2, ... as far as 16 bits    *)
(* go, up to the number that the other side gives to the next.               *)

\* f[i] STARTs have come to a side when the first i packets of q are read, if n have now.
Numbers(q, n, f) ==
    /\ f \in [0 .. Len(q) -> Nat] /\ f[0] = n
    /\ \A i \in 1 .. Len(q) :
         IF q[i].type = "START" THEN f[i] = f[i - 1] + 1 /\ q[i].seqnum = Wrap(-f[i])
         ELSE f[i] = f[i - 1]

NumSide(s) ==
    \E f : /\ Numbers(wire[s], Len(handled[s]), f)
           /\ m_state[s] # "GONE" => m_seqnum[Other(s)] = Wrap(-(f[Len(wire[s])] + 1))

NumInv == \A s \in Sides : NumSide(s)

LEMMA NumbersConcat ==
    ASSUME NEW q \in Seq(Packet), NEW p \in Seq(Packet), NEW n, NEW f, Numbers(q, n, f),
           NEW k, k = f[Len(q)], NEW h, Numbers(p, k, h)
    PROVE  \E g : Numbers(q \o p, n, g) /\ g[Len(q \o p)] = h[Len(p)]
<1> DEFINE w == q \o p
           lq == Len(q)
           lp == Len(p)
           g == [i \in 0 .. lq + lp |-> IF i <= lq THEN f[i] ELSE h[i - lq]]
<1>1. /\ w \in Seq(Packet) /\ Len(w) = lq + lp
      /\ \A i \in 1 .. lq + lp : w[i] = IF i <= lq THEN q[i] ELSE p[i - lq]
  BY ConcatProperties
<1>2. lq \in Nat /\ lp \in Nat
  BY Elements
<1>3. /\ f \in [0 .. lq -> Nat] /\ f[0] = n
      /\ \A i \in 1 .. lq : IF q[i].type = "START" THEN f[i] = f[i - 1] + 1 /\ q[i].seqnum = Wrap(-f[i])
                            ELSE f[i] = f[i - 1]
  BY DEF Numbers
<1>4. /\ h \in [0 .. lp -> Nat] /\ h[0] = f[lq]
      /\ \A i \in 1 .. lp : IF p[i].type = "START" THEN h[i] = h[i - 1] + 1 /\ p[i].seqnum = Wrap(-h[i])
                            ELSE h[i] = h[i - 1]
  BY DEF Numbers
<1>5. \A i \in 0 .. lq + lp : g[i] = IF i <= lq THEN f[i] ELSE h[i - lq]
  OBVIOUS
<1> HIDE DEF w, lq, lp
<1>6. g \in [0 .. lq + lp -> Nat]
  BY <1>2, <1>3, <1>4
<1> HIDE DEF g
<1>7. g[0] = n /\ g[lq + lp] = h[lp]
  <2>1. 0 \in 0 .. lq + lp /\ lq + lp \in 0 .. lq + lp /\ 0 <= lq
    BY <1>2
  <2>2. g[0] = n
    BY <1>3, <1>5, <2>1
  <2>3. CASE lp = 0
    BY <1>2, <1>4, <1>5, <2>1, <2>3
  <2>4. CASE lp # 0
    <3>1. ~(lq + lp <= lq) /\ (lq + lp) - lq = lp
      BY <1>2, <2>4
    <3>2. QED
      BY <1>5, <2>1, <2>2, <3>1
  <2>5. QED
    BY <2>2, <2>3, <2>4
<1>8. ASSUME NEW i \in 1 .. lq + lp
      PROVE  IF w[i].type = "START" THEN g[i] = g[i - 1] + 1 /\ w[i].seqnum = Wrap(-g[i]) ELSE g[i] = g[i - 1]
  <2>1. CASE i <= lq
    <3>1. i \in 1 .. lq /\ w[i] = q[i]
      BY <1>1, <1>2, <2>1
    <3>2. i \in 0 .. lq + lp /\ i - 1 \in 0 .. lq + lp /\ i - 1 <= lq
      BY <1>2, <3>1
    <3>3. g[i] = f[i] /\ g[i - 1] = f[i - 1]
      BY <1>5, <2>1, <3>2
    <3>4. QED
      BY <1>3, <3>1, <3>3
  <2>2. CASE ~(i <= lq)
    <3>1. i - lq \in 1 .. lp /\ g[i] = h[i - lq] /\ w[i] = p[i - lq]
      BY <1>1, <1>2, <1>5, <2>2
    <3>2. g[i - 1] = h[(i - lq) - 1]
      BY <1>2, <1>4, <1>5, <2>2
    <3>3. QED
      BY <1>4, <3>1, <3>2
  <2>3. QED
    BY <2>1, <2>2
<1>9. Numbers(w, n, g)
  BY <1>1, <1>6, <1>7, <1>8 DEF Numbers
<1>10. QED
  BY <1>1, <1>7, <1>9 DEF w, lq, lp

LEMMA NumbersTail ==
    ASSUME NEW q \in Seq(Packet), q # <<>>, NEW n \in Nat, NEW f, Numbers(q, n, f)
    PROVE  /\ Head(q).type = "START" => Head(q).seqnum = Wrap(-(n + 1))
           /\ \E g : /\ Numbers(Tail(q), IF Head(q).type = "START" THEN n + 1 ELSE n, g)
                     /\ g[Len(Tail(q))] = f[Len(q)]
<1> DEFINE t == Tail(q)
           l == Len(q)
           g == [i \in 0 .. l - 1 |-> f[i + 1]]
<1>1. /\ t \in Seq(Packet) /\ Len(t) = l - 1 /\ l >= 1 /\ Head(q) = q[1] /\ l \in Nat
      /\ \A i \in 1 .. l - 1 : t[i] = q[i + 1]
  BY TailElements, Elements
<1>2. /\ f \in [0 .. l -> Nat] /\ f[0] = n
      /\ \A i \in 1 .. l : IF q[i].type = "START" THEN f[i] = f[i - 1] + 1 /\ q[i].seqnum = Wrap(-f[i])
                           ELSE f[i] = f[i - 1]
  BY DEF Numbers
<1>3. \A i \in 0 .. l - 1 : g[i] = f[i + 1]
  OBVIOUS
<1> HIDE DEF t, l
<1>4. g \in [0 .. l - 1 -> Nat]
  BY <1>1, <1>2
<1> HIDE DEF g
<1>5. IF Head(q).type = "START" THEN f[1] = n + 1 /\ Head(q).seqnum = Wrap(-(n + 1)) ELSE f[1] = n
  <2>1. 1 \in 1 .. l /\ 1 - 1 = 0
    BY <1>1
  <2>2. IF q[1].type = "START" THEN f[1] = f[1 - 1] + 1 /\ q[1].seqnum = Wrap(-f[1]) ELSE f[1] = f[1 - 1]
    BY <1>2, <2>1
  <2>3. QED
    BY <1>1, <1>2, <2>1, <2>2
<1>6. g[0] = f[1] /\ g[l - 1] = f[l]
  BY <1>1, <1>3
<1>7. ASSUME NEW i \in 1 .. l - 1
      PROVE  IF t[i].type = "START" THEN g[i] = g[i - 1] + 1 /\ t[i].seqnum = Wrap(-g[i]) ELSE g[i] = g[i - 1]
  <2>1. i + 1 \in 1 .. l /\ t[i] = q[i + 1] /\ g[i] = f[i + 1] /\ g[i - 1] = f[(i + 1) - 1]
    BY <1>1, <1>3
  <2>2. QED
    BY <1>2, <2>1
<1>8. Numbers(t, IF Head(q).type = "START" THEN n + 1 ELSE n, g)
  BY <1>1, <1>4, <1>5, <1>6, <1>7 DEF Numbers
<1>9. QED
  BY <1>1, <1>5, <1>6, <1>8 DEF t, l

\* Side s sends the packets p, under the numbers that follow.
Sends(s, p) ==
    \A k \in Nat : m_seqnum[s] = Wrap(-(k + 1)) =>
        \E h : Numbers(p, k, h) /\ m_seqnum'[s] = Wrap(-(h[Len(p)] + 1))

LEMMA SendsQuiet ==
    ASSUME NEW s, NEW p \in Seq(Packet), \A b \in ToSet(p) : b.type # "START", m_seqnum'[s] = m_seqnum[s]
    PROVE  Sends(s, p)
<1>1. SUFFICES ASSUME NEW k \in Nat, m_seqnum[s] = Wrap(-(k + 1))
               PROVE  \E h : Numbers(p, k, h) /\ m_seqnum'[s] = Wrap(-(h[Len(p)] + 1))
  BY DEF Sends
<1>2. Len(p) \in Nat /\ DOMAIN p = 1 .. Len(p)
  BY Elements
<1>3. \A i \in 1 .. Len(p) : p[i].type # "START"
  BY <1>2 DEF ToSet
<1> DEFINE h == [i \in 0 .. Len(p) |-> k]
<1>4. \A i \in 0 .. Len(p) : h[i] = k
  OBVIOUS
<1>5. h \in [0 .. Len(p) -> Nat]
  OBVIOUS
<1> HIDE DEF h
<1>6. \A i \in 1 .. Len(p) : h[i] = h[i - 1]
  BY <1>2, <1>4
<1>7. Numbers(p, k, h) /\ h[Len(p)] = k
  BY <1>2, <1>3, <1>4, <1>5, <1>6 DEF Numbers
<1>8. QED
  BY <1>1, <1>7

LEMMA SendsStarts ==
    ASSUME TypeOK, NEW s \in Sides, NEW list \in Seq(Events), NEW first \in Seq(Packet),
           \A b \in ToSet(first) : b.type # "START",
           m_seqnum'[s] = Wrap(m_seqnum[s] - Len(list))
    PROVE  Sends(s, first \o Starts(Numbered(s, list)))
<1> DEFINE starts == Starts(Numbered(s, list))
           l == Len(list)
           lf == Len(first)
<1>1. SUFFICES ASSUME NEW k \in Nat, m_seqnum[s] = Wrap(-(k + 1))
               PROVE  \E g : Numbers(first \o starts, k, g)
                             /\ m_seqnum'[s] = Wrap(-(g[Len(first \o starts)] + 1))
  BY DEF Sends
<1>2. /\ starts \in Seq(Packet) /\ Len(starts) = l /\ l \in Nat /\ lf \in Nat /\ DOMAIN first = 1 .. lf
      /\ \A i \in 1 .. l : starts[i] = [type |-> "START", seqnum |-> Wrap(m_seqnum[s] - (i - 1)), ev |-> list[i]]
  BY NumberedElements, Elements
<1> HIDE DEF starts, l, lf
<1>3. \A i \in 1 .. l : starts[i].type = "START" /\ starts[i].seqnum = Wrap(m_seqnum[s] - (i - 1))
  BY <1>2
<1>4. \A i \in 1 .. l : Wrap(m_seqnum[s] - (i - 1)) = Wrap(-(k + i))
  <2>1. SUFFICES ASSUME NEW i \in 1 .. l PROVE Wrap(Wrap(-(k + 1)) - (i - 1)) = Wrap(-(k + i))
    BY <1>1
  <2>2. -(k + 1) \in Int /\ i - 1 \in Int /\ (-(k + 1)) - (i - 1) = -(k + i)
    BY <1>2
  <2>3. QED
    BY <2>2, Modulo
<1>5. m_seqnum'[s] = Wrap(-((k + l) + 1))
  <2>1. -(k + 1) \in Int /\ l \in Int /\ (-(k + 1)) - l = -((k + l) + 1)
    BY <1>2
  <2>2. QED
    BY <1>1, <2>1, Modulo DEF l
<1> DEFINE h == [i \in 0 .. l |-> k + i]
           f == [i \in 0 .. lf |-> k]
<1>6. /\ \A i \in 0 .. l : h[i] = k + i
      /\ \A i \in 0 .. lf : f[i] = k
  OBVIOUS
<1>7. h \in [0 .. l -> Nat] /\ f \in [0 .. lf -> Nat]
  BY <1>2
<1> HIDE DEF h, f
<1>8. \A i \in 1 .. l : h[i] = h[i - 1] + 1 /\ starts[i].seqnum = Wrap(-h[i])
  BY <1>2, <1>3, <1>4, <1>6
<1>9. Numbers(starts, k, h) /\ h[l] = k + l
  BY <1>2, <1>3, <1>6, <1>7, <1>8 DEF Numbers
<1>10. Numbers(first, k, f) /\ f[lf] = k
  <2>1. \A i \in 1 .. lf : first[i].type # "START"
    BY <1>2 DEF ToSet
  <2>2. \A i \in 1 .. lf : f[i] = f[i - 1]
    BY <1>2, <1>6
  <2>3. QED
    BY <1>2, <1>6, <1>7, <2>1, <2>2 DEF Numbers, lf
<1>11. PICK g : Numbers(first \o starts, k, g) /\ g[Len(first \o starts)] = h[Len(starts)]
  BY <1>2, <1>9, <1>10, NumbersConcat DEF lf
<1>12. QED
  BY <1>2, <1>5, <1>9, <1>11

\* What side s reads keeps its numbers.
LEMMA ReadNumbers ==
    ASSUME TypeOK, NEW s \in Sides, NumSide(s), m_seqnum'[Other(s)] = m_seqnum[Other(s)],
           m_state'[s] # "GONE" => m_state[s] # "GONE",
           \/ wire'[s] = wire[s] /\ handled'[s] = handled[s]
           \/ /\ wire[s] # <<>> /\ wire'[s] = Tail(wire[s])
              /\ Len(handled'[s]) = IF Head(wire[s]).type = "START" THEN Len(handled[s]) + 1 ELSE Len(handled[s])
           \/ wire'[s] = <<>> /\ m_state'[s] = "GONE" /\ handled'[s] = handled[s]
    PROVE  NumSide(s)'
<1> DEFINE q == wire[s]
           n == Len(handled[s])
<1>1. q \in Seq(Packet) /\ n \in Nat
  BY Elements DEF TypeOK
<1>2. PICK f : Numbers(q, n, f) /\ (m_state[s] # "GONE" => m_seqnum[Other(s)] = Wrap(-(f[Len(q)] + 1)))
  BY DEF NumSide
<1>3. CASE wire'[s] = wire[s] /\ handled'[s] = handled[s]
  BY <1>2, <1>3 DEF NumSide
<1>4. CASE /\ wire[s] # <<>> /\ wire'[s] = Tail(wire[s])
           /\ Len(handled'[s]) = IF Head(wire[s]).type = "START" THEN Len(handled[s]) + 1 ELSE Len(handled[s])
  <2>1. PICK g : /\ Numbers(Tail(q), IF Head(q).type = "START" THEN n + 1 ELSE n, g)
                 /\ g[Len(Tail(q))] = f[Len(q)]
    BY <1>1, <1>2, <1>4, NumbersTail
  <2>2. QED
    BY <1>2, <1>4, <2>1 DEF NumSide
<1>5. CASE wire'[s] = <<>> /\ m_state'[s] = "GONE" /\ handled'[s] = handled[s]
  <2> DEFINE g == [i \in 0 .. 0 |-> n]
  <2>1. g \in [0 .. 0 -> Nat] /\ g[0] = n
    BY <1>1
  <2> HIDE DEF g
  <2>2. Numbers(<<>>, n, g)
    BY <2>1, NoElements DEF Numbers
  <2>3. QED
    BY <1>5, <2>2 DEF NumSide
<1>6. QED
  BY <1>3, <1>4, <1>5

\* What side s sends keeps the numbers of the other.
LEMMA WriteNumbers ==
    ASSUME TypeOK, NEW s \in Sides, NumSide(Other(s)), handled'[Other(s)] = handled[Other(s)],
           m_state'[Other(s)] # "GONE" => m_state[Other(s)] # "GONE",
           NEW p \in Seq(Packet), Sends(s, p),
           m_state[Other(s)] = "GONE" => wire'[Other(s)] = wire[Other(s)],
           m_state[Other(s)] # "GONE" => wire'[Other(s)] = wire[Other(s)] \o p
    PROVE  NumSide(Other(s))'
<1> DEFINE o == Other(s)
           q == wire[o]
           n == Len(handled[o])
<1>1. q \in Seq(Packet) /\ n \in Nat /\ o \in Sides /\ Other(o) = s
  <2>1. o \in Sides /\ Other(o) = s
    BY OtherSide
  <2>2. QED
    BY <2>1, Elements DEF TypeOK
<1>2. PICK f : Numbers(q, n, f) /\ (m_state[o] # "GONE" => m_seqnum[s] = Wrap(-(f[Len(q)] + 1)))
  BY <1>1 DEF NumSide
<1>3. CASE m_state[o] = "GONE"
  <2>1. Numbers(wire'[o], Len(handled'[o]), f) /\ m_state'[o] = "GONE"
    BY <1>2, <1>3
  <2>2. QED
    BY <2>1 DEF NumSide
<1>4. CASE m_state[o] # "GONE"
  <2>1. f[Len(q)] \in Nat
    <3>1. Len(q) \in Nat
      BY <1>1, Elements
    <3>2. QED
      BY <1>2, <3>1 DEF Numbers
  <2> DEFINE k == f[Len(q)]
  <2>2. PICK h : Numbers(p, k, h) /\ m_seqnum'[s] = Wrap(-(h[Len(p)] + 1))
    BY <1>2, <1>4, <2>1 DEF Sends
  <2>both. /\ q \in Seq(Packet) /\ p \in Seq(Packet) /\ Numbers(q, n, f)
        /\ Numbers(p, k, h) /\ k = f[Len(q)]
    BY <1>1, <1>2, <2>2
  <2>joined. \E g : Numbers(q \o p, n, g) /\ g[Len(q \o p)] = h[Len(p)]
    <3> HIDE DEF q, n, k
    <3>1. QED
      BY <2>both, NumbersConcat
  <2>3. PICK g : Numbers(q \o p, n, g) /\ g[Len(q \o p)] = h[Len(p)]
    BY <2>joined
  <2>4. /\ Numbers(wire'[o], Len(handled'[o]), g)
        /\ m_seqnum'[Other(o)] = Wrap(-(g[Len(wire'[o])] + 1))
    BY <1>1, <1>4, <2>2, <2>3
  <2>5. QED
    BY <2>4 DEF NumSide
<1>5. QED
  BY <1>3, <1>4

\* A step of side s: what it reads, the packets p that it sends, and nothing else.
LEMMA NumbersStep ==
    ASSUME TypeOK, NumInv, NEW s \in Sides, NEW p \in Seq(Packet), Sends(s, p),
           \A t \in Sides : m_state'[t] # "GONE" => m_state[t] # "GONE",
           \/ wire'[s] = wire[s] /\ handled'[s] = handled[s]
           \/ /\ wire[s] # <<>> /\ wire'[s] = Tail(wire[s])
              /\ Len(handled'[s]) = IF Head(wire[s]).type = "START" THEN Len(handled[s]) + 1 ELSE Len(handled[s]),
           m_seqnum'[Other(s)] = m_seqnum[Other(s)], handled'[Other(s)] = handled[Other(s)],
           m_state[Other(s)] = "GONE" => wire'[Other(s)] = wire[Other(s)],
           m_state[Other(s)] # "GONE" => wire'[Other(s)] = wire[Other(s)] \o p
    PROVE  NumInv'
<1>1. Other(s) \in Sides /\ \A t \in Sides : t = s \/ t = Other(s)
  BY OtherSide
<1>2. NumSide(s) /\ NumSide(Other(s))
  BY <1>1 DEF NumInv
<1>3. NumSide(s)'
  BY <1>2, ReadNumbers
<1>4. NumSide(Other(s))'
  BY <1>1, <1>2, WriteNumbers
<1>5. QED
  BY <1>1, <1>3, <1>4 DEF NumInv

\* The same for a step that sends nothing, and may destroy the connection.
LEMMA NumbersRead ==
    ASSUME TypeOK, NumInv, NEW s \in Sides, m_seqnum' = m_seqnum,
           \A t \in Sides : m_state'[t] # "GONE" => m_state[t] # "GONE",
           \/ wire'[s] = wire[s] /\ handled'[s] = handled[s]
           \/ /\ wire[s] # <<>> /\ wire'[s] = Tail(wire[s])
              /\ Len(handled'[s]) = IF Head(wire[s]).type = "START" THEN Len(handled[s]) + 1 ELSE Len(handled[s])
           \/ wire'[s] = <<>> /\ m_state'[s] = "GONE" /\ handled'[s] = handled[s],
           handled'[Other(s)] = handled[Other(s)], wire'[Other(s)] = wire[Other(s)]
    PROVE  NumInv'
<1>1. Other(s) \in Sides /\ \A t \in Sides : t = s \/ t = Other(s)
  BY OtherSide
<1>2. NumSide(s) /\ NumSide(Other(s))
  BY <1>1 DEF NumInv
<1>3. NumSide(s)'
  BY <1>2, ReadNumbers
<1>4. NumSide(Other(s))'
  BY <1>1, <1>2, ReadNumbers
<1>5. QED
  BY <1>1, <1>3, <1>4 DEF NumInv

LEMMA FinishNumbers ==
    ASSUME TypeOK, HandInv, NumInv, FinishNonBlockingConnect
    PROVE  NumInv'
<1> DEFINE init == InitPacket(remote_version["caller"])
           p == <<init>>
           s == "caller"
<1>1. init \in Packet /\ init.type = "INIT"
  <2>1. remote_version["caller"] \in Nat
    BY DEF TypeOK, Sides
  <2>2. QED
    BY <2>1, PacketTypes
<1>2. s \in Sides /\ Other(s) = "called" /\ "called" \in Sides /\ Other("called") = "caller"
  BY OtherSide DEF Sides
<1>3. /\ m_state["caller"] = "CONNECTING" /\ m_state["called"] = "NOT_CONNECTED" /\ ~early
      /\ wire["called"] \in Seq(Packet)
  BY <1>2 DEF FinishNonBlockingConnect, HandInv, Phases, TypeOK
<1>4. wire["called"] = <<>>
  <2>1. Got("called") = 0 /\ Given("caller") = 0 /\ Part("called") = "called"
    BY <1>2, <1>3, Parts DEF Got, Given
  <2>2. Balanced("called", 0, 0, wire["called"])
    BY <1>2, <1>3, <2>1 DEF HandInv, HandSide
  <2>3. Len(wire["called"]) = 0
    BY <1>3, <2>2, Elements DEF Balanced
  <2>4. QED
    BY <1>3, <2>3, EmptySeq
<1>5. wire'["called"] = p /\ wire'["caller"] = wire["caller"] /\ UNCHANGED <<m_seqnum, handled>>
  BY DEF FinishNonBlockingConnect, TypeOK, Sides
<1> HIDE DEF init
<1>6. p \in Seq(Packet) /\ ToSet(p) = {init}
  BY <1>1, OnePacket
<1> HIDE DEF p
<1>7. wire'["called"] = wire["called"] \o p
  BY <1>4, <1>5, <1>6, ConcatEmptySeq
<1>8. Sends(s, p)
  BY <1>1, <1>5, <1>6, SendsQuiet
<1>9. \A t \in Sides : m_state[t] # "GONE"
  BY <1>3 DEF Sides
<1>10. QED
  BY <1>2, <1>5, <1>6, <1>7, <1>8, <1>9, NumbersStep

LEMMA ParseInitPacketNumbers ==
    ASSUME TypeOK, NumInv, NEW s \in Sides, ParseInitPacket(s)
    PROVE  NumInv'
<1> DEFINE version == IF s = "called" THEN Head(wire[s]).version ELSE remote_version[s]
           second == IF s = "called" THEN InitPacket(version) ELSE Init2(s)
           p == <<Ack, second>>
<1>1. Head(wire[s]) \in Packet /\ wire[s] # <<>> /\ Head(wire[s]).type = "INIT"
  BY FirstPacket DEF ParseInitPacket, Expected
<1>2. version \in Nat
  BY <1>1, DialogueType DEF TypeOK
<1>3. wire' = SendTo(Other(s), Receive(s), p)
  BY DEF ParseInitPacket
<1> HIDE DEF version
<1>4. Ack \in Packet /\ second \in Packet /\ Ack.type = "INIT_ACK" /\ second.type \in {"INIT", "INIT2"}
  BY <1>2, PacketTypes
<1> HIDE DEF second
<1>5. p \in Seq(Packet) /\ ToSet(p) = {Ack, second}
  BY <1>4, TwoPackets
<1> HIDE DEF p
<1>6. m_seqnum' = m_seqnum /\ handled' = handled
  BY DEF ParseInitPacket
<1>7. Sends(s, p)
  BY <1>4, <1>5, <1>6, SendsQuiet
<1>8. /\ wire'[s] = Tail(wire[s])
      /\ m_state[Other(s)] = "GONE" => wire'[Other(s)] = wire[Other(s)]
      /\ m_state[Other(s)] # "GONE" => wire'[Other(s)] = wire[Other(s)] \o p
  BY <1>1, <1>3, <1>5, ReadAndSend
<1>9. \A t \in Sides : m_state'[t] # "GONE" => m_state[t] # "GONE"
  BY DEF ParseInitPacket, TypeOK
<1>10. QED
  BY <1>1, <1>5, <1>6, <1>7, <1>8, <1>9, NumbersStep

LEMMA ParseInitAckNumbers ==
    ASSUME TypeOK, NumInv, NEW s \in Sides, ParseInitAck(s)
    PROVE  NumInv'
<1>1. Head(wire[s]).type = "INIT_ACK" /\ wire[s] # <<>> /\ m_seqnum' = m_seqnum /\ handled' = handled
  BY DEF ParseInitAck, Expected
<1>2. wire'[s] = Tail(wire[s]) /\ wire'[Other(s)] = wire[Other(s)]
  BY ReceiveEffect DEF ParseInitAck
<1>3. \A t \in Sides : m_state'[t] # "GONE" => m_state[t] # "GONE"
  BY DEF ParseInitAck, TypeOK
<1>4. QED
  BY <1>1, <1>2, <1>3, NumbersRead

LEMMA ParseInit2Numbers ==
    ASSUME TypeOK, NumInv, NEW s \in Sides, ParseInit2(s)
    PROVE  NumInv'
<1> DEFINE list == m_msgqueue[s]
<1>1. /\ list \in Seq(Events) /\ handled' = handled /\ Head(wire[s]).type = "INIT2"
      /\ \A t \in Sides : m_state'[t] # "GONE" => m_state[t] # "GONE"
  BY DEF ParseInit2, TypeOK, Expected
<1>2. wire[s] # <<>> /\ wire'[s] = Tail(wire[s])
  BY ParseInit2Wire
<1>3. PICK w \in [Sides -> Seq(Packet)] : SendPacketEvents(s, list, w)
  BY ParseInit2Wire
<1>4. PICK first \in Seq(Packet) :
        /\ \A b \in ToSet(first) : b.type \notin {"START", "ACK"}
        /\ m_state[Other(s)] = "GONE" => wire'[Other(s)] = wire[Other(s)]
        /\ m_state[Other(s)] # "GONE" => wire'[Other(s)] = wire[Other(s)] \o (first \o Starts(Numbered(s, list)))
  BY ParseInit2Wire
<1>5. m_seqnum' = [m_seqnum EXCEPT ![s] = Wrap(@ - Len(list))]
  BY <1>1, <1>3, SendPacketEventsEffect
<1>6. Starts(Numbered(s, list)) \in Seq(Packet)
  BY <1>1, NumberedElements
<1> HIDE DEF list
<1>7. m_seqnum'[s] = Wrap(m_seqnum[s] - Len(list)) /\ m_seqnum'[Other(s)] = m_seqnum[Other(s)]
  BY <1>5, OtherSide DEF TypeOK
<1> DEFINE p == first \o Starts(Numbered(s, list))
<1>8. p \in Seq(Packet)
  BY <1>6, ConcatElements
<1>9. Sends(s, p)
  BY <1>1, <1>4, <1>7, SendsStarts
<1>10. /\ m_state[Other(s)] = "GONE" => wire'[Other(s)] = wire[Other(s)]
       /\ m_state[Other(s)] # "GONE" => wire'[Other(s)] = wire[Other(s)] \o p
  BY <1>4
<1> HIDE DEF p
<1>11. QED
  BY <1>1, <1>2, <1>7, <1>8, <1>9, <1>10, NumbersStep

LEMMA SendEventNumbers ==
    ASSUME TypeOK, NumInv, NEW e \in Events, SendEvent(e)
    PROVE  NumInv'
<1> DEFINE s == Sender(e)
           list == <<e>>
<1>1. s \in Sides /\ handled' = handled /\ m_state' = m_state
  BY SenderSide DEF SendEvent, linkVars
<1>2. CASE SendPacketEvents(s, <<e>>, wire)
  <2> DEFINE p == <<>> \o Starts(Numbered(s, list))
  <2>1. list \in Seq(Events)
    OBVIOUS
  <2>2. wire \in [Sides -> Seq(Packet)] /\ SendPacketEvents(s, list, wire)
    BY <1>2 DEF TypeOK
  <2> HIDE DEF list
  <2>3. /\ m_seqnum' = [m_seqnum EXCEPT ![s] = Wrap(@ - Len(list))]
        /\ wire' = SendTo(Other(s), wire, Starts(Numbered(s, list)))
    BY <1>1, <2>1, <2>2, SendPacketEventsEffect
  <2>4. Starts(Numbered(s, list)) \in Seq(Packet) /\ <<>> \in Seq(Packet) /\ ToSet(<<>>) = {}
    BY <1>1, <2>1, NumberedElements, NoElements
  <2>5. p = Starts(Numbered(s, list))
    BY <2>4, ConcatEmptySeq
  <2> HIDE DEF s
  <2>6. m_seqnum'[s] = Wrap(m_seqnum[s] - Len(list)) /\ m_seqnum'[Other(s)] = m_seqnum[Other(s)]
    BY <1>1, <2>3, OtherSide DEF TypeOK
  <2> DEFINE first == <<>>
  <2>7. first \in Seq(Packet) /\ \A b \in ToSet(first) : b.type # "START"
    BY <2>4
  <2> HIDE DEF first
  <2>8. Sends(s, first \o Starts(Numbered(s, list)))
    BY <1>1, <2>1, <2>6, <2>7, SendsStarts
  <2>9. Sends(s, p)
    BY <2>8 DEF first
  <2> HIDE DEF p
  <2>10. p \in Seq(Packet) /\ wire' = SendTo(Other(s), wire, p)
    BY <2>3, <2>4, <2>5
  <2>11. /\ wire'[s] = wire[s]
         /\ m_state[Other(s)] = "GONE" => wire'[Other(s)] = wire[Other(s)]
         /\ m_state[Other(s)] # "GONE" => wire'[Other(s)] = wire[Other(s)] \o p
    BY <1>1, <2>10, JustSend
  <2>12. QED
    BY <1>1, <2>6, <2>9, <2>10, <2>11, NumbersStep
<1>3. CASE UNCHANGED <<m_seqnum, wire>>
  BY <1>1, <1>3, NumbersRead
<1>4. QED
  BY <1>2, <1>3 DEF SendEvent

LEMMA ParseStartNumbers ==
    ASSUME TypeOK, EventsInv, NumInv, NEW s \in Sides, ParseStart(s)
    PROVE  NumInv'
<1>1. PICK n, f : n = Head(wire[s]).seqnum /\ f = Head(wire[s]).ev
  OBVIOUS
<1>2. /\ wire[s] # <<>> /\ Head(wire[s]).type = "START"
      /\ handled' = [handled EXCEPT ![s] = Append(@, f)]
      /\ m_seqnum' = m_seqnum /\ m_state' = m_state
  BY <1>1 DEF ParseStart, linkVars
<1>3. n \in Number /\ f \in Events
  BY <1>1, <1>2, HeadRight DEF Dialogue
<1>4. Len(handled'[s]) = Len(handled[s]) + 1 /\ handled'[Other(s)] = handled[Other(s)]
  <2>1. handled[s] \in Seq(Events)
    BY DEF TypeOK
  <2>2. Len(Append(handled[s], f)) = Len(handled[s]) + 1
    BY <1>3, <2>1, AppendElements
  <2>3. QED
    BY <1>2, <2>2, OtherSide DEF TypeOK
<1>5. CASE f \in Requests
  <2>1. wire' = Receive(s)
    BY <1>1, <1>5 DEF ParseStart
  <2>2. wire'[s] = Tail(wire[s]) /\ wire'[Other(s)] = wire[Other(s)]
    BY <2>1, ReceiveEffect
  <2>3. QED
    BY <1>2, <1>4, <2>2, NumbersRead
<1>6. CASE f \notin Requests
  <2> DEFINE ack == [type |-> "ACK", seqnum |-> n, ev |-> f]
             acks == <<ack>>
  <2>1. wire' = SendTo(Other(s), Receive(s), acks)
    BY <1>1, <1>6 DEF ParseStart
  <2>2. ack \in Packet /\ ack.type = "ACK"
    BY <1>3, PacketTypes
  <2> HIDE DEF ack
  <2>3. acks \in Seq(Packet) /\ ToSet(acks) = {ack}
    BY <2>2, OnePacket
  <2> HIDE DEF acks
  <2>4. /\ wire'[s] = Tail(wire[s])
        /\ m_state[Other(s)] = "GONE" => wire'[Other(s)] = wire[Other(s)]
        /\ m_state[Other(s)] # "GONE" => wire'[Other(s)] = wire[Other(s)] \o acks
    BY <1>2, <2>1, <2>3, ReadAndSend
  <2>5. Sends(s, acks)
    BY <1>2, <2>2, <2>3, SendsQuiet
  <2>6. QED
    BY <1>2, <1>4, <2>3, <2>4, <2>5, NumbersStep
<1>7. QED
  BY <1>5, <1>6

LEMMA ParseAnswerNumbers ==
    ASSUME TypeOK, NumInv, NEW s \in Sides, ParseAck(s) \/ ParseCancel(s)
    PROVE  NumInv'
<1>1. /\ wire[s] # <<>> /\ Head(wire[s]).type # "START" /\ wire' = Receive(s)
      /\ m_seqnum' = m_seqnum /\ handled' = handled /\ m_state' = m_state
  BY DEF ParseAck, ParseCancel, linkVars
<1>2. wire'[s] = Tail(wire[s]) /\ wire'[Other(s)] = wire[Other(s)]
  BY <1>1, ReceiveEffect
<1>3. QED
  BY <1>1, <1>2, NumbersRead

LEMMA TellsNumbers ==
    ASSUME TypeOK, NumInv, NEW s \in Sides, NEW packet \in Packet, packet.type # "START",
           Tells(s, packet), UNCHANGED <<m_seqnum, handled>>
    PROVE  NumInv'
<1> DEFINE p == <<packet>>
<1>1. p \in Seq(Packet) /\ ToSet(p) = {packet}
  BY OnePacket
<1>2. wire' = SendTo(Other(s), wire, p) /\ m_state' = m_state
  BY DEF Tells
<1> HIDE DEF p
<1>3. /\ wire'[s] = wire[s]
      /\ m_state[Other(s)] = "GONE" => wire'[Other(s)] = wire[Other(s)]
      /\ m_state[Other(s)] # "GONE" => wire'[Other(s)] = wire[Other(s)] \o p
  BY <1>1, <1>2, JustSend
<1>4. Sends(s, p)
  BY <1>1, SendsQuiet
<1>5. QED
  BY <1>1, <1>2, <1>3, <1>4, NumbersStep

LEMMA AboutRequestNumbers ==
    ASSUME TypeOK, HasNumber, NumInv, NEW r \in Requests, Answers(r) \/ Cancels(r)
    PROVE  NumInv'
<1>1. CASE Answers(r)
  <2> DEFINE ack == [type |-> "ACK", seqnum |-> number[r], ev |-> r]
             s == Other(Sender(r))
  <2>1. /\ s \in Sides /\ Tells(s, ack) /\ ack \in Packet
        /\ UNCHANGED <<m_seqnum, m_msgqueue, number, sent, handled, undefined>>
    BY <1>1, AnswersEffect, Zenon
  <2>2. ack.type # "START"
    OBVIOUS
  <2> HIDE DEF ack, s
  <2>3. QED
    BY <2>1, <2>2, TellsNumbers
<1>2. CASE Cancels(r)
  <2>1. /\ Sender(r) \in Sides
        /\ UNCHANGED <<m_seqnum, m_msgqueue, number, asked, handled, undefined>>
    BY <1>2, CancelsEffect, Zenon
  <2>2. PICK n \in Number :
          /\ Tells(Sender(r), [type |-> "CANCEL", seqnum |-> n, ev |-> r])
          /\ [type |-> "CANCEL", seqnum |-> n, ev |-> r] \in Packet
    BY <1>2, CancelsEffect, Zenon
  <2> DEFINE cancel == [type |-> "CANCEL", seqnum |-> n, ev |-> r]
  <2>3. cancel.type # "START" /\ cancel \in Packet /\ Tells(Sender(r), cancel)
    BY <2>2
  <2> HIDE DEF cancel
  <2>4. QED
    BY <2>1, <2>3, TellsNumbers
<1>3. QED
  BY <1>1, <1>2

LEMMA EndsNumbers ==
    ASSUME TypeOK, NumInv, NEW s \in Sides, Ends(s)
    PROVE  NumInv'
<1>0. PICK fates : Destroy(s, fates)
  BY EndsEffect
<1>1. /\ wire' = [wire EXCEPT ![s] = <<>>] /\ m_state' = [m_state EXCEPT ![s] = "GONE"]
      /\ m_seqnum' = m_seqnum /\ handled' = handled
  BY <1>0 DEF Destroy
<1>2. wire'[s] = <<>> /\ m_state'[s] = "GONE" /\ wire'[Other(s)] = wire[Other(s)]
      /\ \A t \in Sides : m_state'[t] # "GONE" => m_state[t] # "GONE"
  BY <1>1, OtherSide DEF TypeOK
<1>3. QED
  BY <1>1, <1>2, NumbersRead

LEMMA IdleNumbers ==
    ASSUME NumInv, UNCHANGED <<m_state, m_seqnum, wire, handled>>
    PROVE  NumInv'
  BY DEF NumInv, NumSide

LEMMA NumbersInit == Init => NumInv
<1> SUFFICES ASSUME Init, NEW s \in Sides PROVE NumSide(s)
  BY DEF NumInv
<1>1. wire[s] = <<>> /\ handled[s] = <<>> /\ m_seqnum[Other(s)] = Wrap(-1)
  BY OtherSide DEF Init
<1> DEFINE f == [i \in 0 .. 0 |-> 0]
<1>2. f \in [0 .. 0 -> Nat] /\ f[0] = 0
  OBVIOUS
<1> HIDE DEF f
<1>3. Numbers(<<>>, 0, f)
  BY <1>2, NoElements DEF Numbers
<1>4. -(f[0] + 1) = -1 /\ Len(<<>>) = 0
  BY <1>2
<1>5. QED
  BY <1>1, <1>3, <1>4 DEF NumSide

LEMMA NumbersOfStep ==
    ASSUME TypeOK, HandInv, EventsInv, NumInv, [Next]_vars
    PROVE  NumInv'
<1>1. \A version \in Published : Connect(version) => NumInv'
  <2>1. SUFFICES ASSUME NEW version \in Published, Connect(version) PROVE NumInv'
    OBVIOUS
  <2>2. /\ \A t \in Sides : m_state'[t] # "GONE" /\ m_state[t] # "GONE"
        /\ UNCHANGED <<m_seqnum, wire, handled>> /\ "caller" \in Sides
    BY <2>1 DEF Connect, HandInv, Phases, TypeOK, Sides
  <2>3. QED
    BY <2>2, NumbersRead
<1>fin. FinishNonBlockingConnect => NumInv'
  BY FinishNumbers
<1>2. \A s \in Sides : ParseInitPacket(s) \/ ParseInitAck(s) \/ ParseInit2(s) => NumInv'
  BY ParseInitPacketNumbers, ParseInitAckNumbers, ParseInit2Numbers
<1>3. \A s \in Sides : ParseStart(s) \/ ParseAck(s) \/ ParseCancel(s) => NumInv'
  BY ParseStartNumbers, ParseAnswerNumbers
<1>4. \A s \in Sides : Ends(s) => NumInv'
  BY EndsNumbers
<1>5. \A s \in Sides : Expire(s) => NumInv'
  BY IdleNumbers DEF Expire, linkVars
<1>6. \A e \in Events : SendEvent(e) => NumInv'
  BY SendEventNumbers
<1>7. \A r \in Requests : Answers(r) \/ Cancels(r) => NumInv'
  BY AboutRequestNumbers DEF EventsInv
<1>8. UNCHANGED vars => NumInv'
  BY IdleNumbers DEF vars, linkVars
<1>9. QED
  BY <1>1, <1>fin, <1>2, <1>3, <1>4, <1>5, <1>6, <1>7, <1>8, Steps

-----------------------------------------------------------------------------
(* What is told, and that a fate is settled once.                            *)

LEMMA ToldStays ==
    ASSUME TypeOK, Grows, ToldInOrder, NEW s \in Sides, NEW i \in DOMAIN handled[s]
    PROVE  Sender(handled[s][i]) = Other(s) /\ number'[handled[s][i]] = Wrap(-i)
<1>1. handled[s] \in Seq(Events)
  BY DEF TypeOK
<1>2. handled[s][i] \in Events /\ i \in Nat
  BY <1>1, Elements
<1>3. Wrap(-i) # -1
  BY <1>2, Modulo, NumberNotMinus
<1>4. QED
  BY <1>2, <1>3 DEF ToldInOrder, Grows

LEMMA ToldIdle ==
    ASSUME TypeOK, Grows, ToldInOrder, handled' = handled
    PROVE  ToldInOrder'
  BY ToldStays DEF ToldInOrder

LEMMA ParseStartTold ==
    ASSUME TypeOK, EventsInv, NumInv, Grows, ToldInOrder, NEW s \in Sides, ParseStart(s)
    PROVE  ToldInOrder'
<1> DEFINE p == Head(wire[s])
           n == Len(handled[s])
<1>1. PICK f : f = p.ev
  OBVIOUS
<1>2. /\ wire[s] # <<>> /\ p.type = "START" /\ wire[s] \in Seq(Packet) /\ handled[s] \in Seq(Events)
      /\ handled' = [handled EXCEPT ![s] = Append(@, f)] /\ number' = number
  BY <1>1 DEF ParseStart, TypeOK
<1>3. p.seqnum \in Number /\ f \in Events /\ PacketRight(s, p)
  BY <1>1, <1>2, HeadRight DEF Dialogue
<1>4. Sender(f) = Other(s) /\ number[f] = p.seqnum
  BY <1>1, <1>2, <1>3 DEF PacketRight
<1>5. n \in Nat /\ DOMAIN handled[s] = 1 .. n
  BY <1>2, Elements
<1>6. PICK g : Numbers(wire[s], n, g)
  BY DEF NumInv, NumSide
<1>7. p.seqnum = Wrap(-(n + 1))
  BY <1>2, <1>5, <1>6, NumbersTail
<1> DEFINE h == Append(handled[s], f)
<1>8. /\ h \in Seq(Events) /\ Len(h) = n + 1 /\ h[n + 1] = f
      /\ \A i \in 1 .. n : h[i] = handled[s][i]
  BY <1>2, <1>3, AppendElements
<1>9. DOMAIN h = 1 .. n + 1
  BY <1>8, Elements
<1>10. handled'[s] = h /\ \A t \in Sides : t # s => handled'[t] = handled[t]
  BY <1>2 DEF TypeOK
<1> HIDE DEF h, n, p
<1>11. ASSUME NEW i \in 1 .. n + 1 PROVE Sender(h[i]) = Other(s) /\ number'[h[i]] = Wrap(-i)
  <2>1. CASE i = n + 1
    BY <1>2, <1>4, <1>7, <1>8, <2>1
  <2>2. CASE i # n + 1
    <3>1. i \in 1 .. n
      BY <1>5, <2>2
    <3>2. QED
      BY <1>5, <1>8, <3>1, ToldStays
  <2>3. QED
    BY <2>1, <2>2
<1>12. \A t \in Sides : t # s => \A i \in DOMAIN handled[t] :
         Sender(handled[t][i]) = Other(t) /\ number'[handled[t][i]] = Wrap(-i)
  BY ToldStays
<1>13. ASSUME NEW t \in Sides, NEW i \in DOMAIN handled'[t]
       PROVE  Sender(handled'[t][i]) = Other(t) /\ number'[handled'[t][i]] = Wrap(-i)
  <2>1. CASE t = s
    BY <1>9, <1>10, <1>11, <2>1
  <2>2. CASE t # s
    BY <1>10, <1>12, <2>2
  <2>3. QED
    BY <2>1, <2>2
<1>14. QED
  BY <1>13 DEF ToldInOrder

LEMMA ToldStep ==
    ASSUME TypeOK, EventsInv, Quiet, NumInv, ToldInOrder, [Next]_vars
    PROVE  ToldInOrder'
<1>1. Grows
  BY EventsStep
<1>2. \A version \in Published : Connect(version) => ToldInOrder'
  BY <1>1, ToldIdle DEF Connect
<1>fin. FinishNonBlockingConnect => ToldInOrder'
  BY <1>1, ToldIdle DEF FinishNonBlockingConnect
<1>3. \A s \in Sides : ParseInitPacket(s) \/ ParseInitAck(s) \/ ParseInit2(s) => ToldInOrder'
  BY <1>1, ToldIdle DEF ParseInitPacket, ParseInitAck, ParseInit2
<1>4. \A s \in Sides : ParseStart(s) \/ ParseAck(s) \/ ParseCancel(s) => ToldInOrder'
  <2>1. \A s \in Sides : ParseAck(s) \/ ParseCancel(s) => handled' = handled
    BY DEF ParseAck, ParseCancel
  <2>2. QED
    BY <1>1, <2>1, ToldIdle, ParseStartTold
<1>5. \A s \in Sides : Ends(s) => ToldInOrder'
  <2>1. \A s \in Sides : Ends(s) => handled' = handled
    BY DEF Ends, Destroy
  <2>2. QED
    BY <1>1, <2>1, ToldIdle
<1>6. \A s \in Sides : Expire(s) => ToldInOrder'
  BY <1>1, ToldIdle DEF Expire
<1>7. \A e \in Events : SendEvent(e) => ToldInOrder'
  BY <1>1, ToldIdle DEF SendEvent
<1>8. \A r \in Requests : Answers(r) \/ Cancels(r) => ToldInOrder'
  <2>1. HasNumber
    BY DEF EventsInv
  <2>2. \A r \in Requests : Answers(r) => handled' = handled
    BY <2>1, AnswersEffect, Zenon
  <2>3. \A r \in Requests : Cancels(r) => handled' = handled
    BY <2>1, CancelsEffect, Zenon
  <2>4. QED
    BY <1>1, <2>2, <2>3, ToldIdle
<1>9. UNCHANGED vars => ToldInOrder'
  BY <1>1, ToldIdle DEF vars
<1>10. QED
  BY <1>2, <1>fin, <1>3, <1>4, <1>5, <1>6, <1>7, <1>8, <1>9, Steps

Settled == {"acked", "expired", "cancelled"}
StaysSettled(e) == sent[e] \in Settled /\ ~Crossed(e) => sent'[e] = sent[e]

\* Of the events sent, those whose fate a step settles were not settled, or had crossed.
LEMMA SentSettles ==
    ASSUME EventsInv, NEW s \in Sides, NEW list \in Seq(Events),
           \A e \in ToSet(list) : sent[e] \in {"new", "queued", "withdrawn"},
           sent' = [e \in Events |-> IF e \in ToSet(list) /\ sent[e] # "withdrawn" THEN "pending" ELSE sent[e]]
    PROVE  \A e \in Events : StaysSettled(e)
  BY DEF StaysSettled, Settled

\* An event of its own that a side finds in its cache waits for an answer.
LEMMA OwnEntryWaits ==
    ASSUME EventsInv, NEW s \in Sides, NEW x \in ToSet(m_msgcache[s]), Sender(x.ev) = s, ~Crossed(x.ev)
    PROVE  sent[x.ev] \in {"pending", "withdrawn"}
  BY DEF EventsInv, CacheInv, EntryRight

LEMMA AnswerSettles ==
    ASSUME TypeOK, EventsInv, NEW s \in Sides, ParseAck(s) \/ ParseCancel(s)
    PROVE  \A e \in Events : StaysSettled(e)
<1>1. SUFFICES ASSUME NEW e \in Events, sent'[e] # sent[e], ~Crossed(e) PROVE sent[e] \in {"pending", "withdrawn"}
  BY DEF StaysSettled, Settled
<1>2. PICK n : n = Head(wire[s]).seqnum
  OBVIOUS
<1>3. PICK x : x = m_msgcache[s][Lookup(s, n)]
  OBVIOUS
<1>4. exists(s, n) /\ e = x.ev /\ Sender(e) = s
  BY <1>1, <1>2, <1>3 DEF ParseAck, ParseCancel, TypeOK
<1>5. x \in ToSet(m_msgcache[s])
  BY <1>3, <1>4, LookupFinds
<1>6. QED
  BY <1>1, <1>4, <1>5, OwnEntryWaits

LEMMA ExpireSettles ==
    ASSUME TypeOK, EventsInv, NEW s \in Sides, Expire(s)
    PROVE  \A e \in Events : StaysSettled(e)
<1>1. SUFFICES ASSUME NEW e \in Events, sent'[e] # sent[e], ~Crossed(e) PROVE sent[e] \in {"pending", "withdrawn"}
  BY DEF StaysSettled, Settled
<1>2. m_msgcache[s] # <<>> /\ m_msgcache[s] \in Seq(Entry)
  BY DEF Expire, TypeOK
<1>3. Head(m_msgcache[s]) \in ToSet(m_msgcache[s])
  BY <1>2, TailElements
<1>4. e = Head(m_msgcache[s]).ev /\ Sender(e) = s
  BY <1>1 DEF Expire, TypeOK
<1>5. QED
  BY <1>1, <1>3, <1>4, OwnEntryWaits

LEMMA EndsSettles ==
    ASSUME TypeOK, EventsInv, NEW s \in Sides, Ends(s)
    PROVE  \A e \in Events : StaysSettled(e)
<1>1. SUFFICES ASSUME NEW e \in Events, sent'[e] # sent[e], ~Crossed(e)
               PROVE  sent[e] \in {"queued", "pending", "withdrawn"}
  BY DEF StaysSettled, Settled
<1>2. EndsFate(s, e)
  BY EndsEffect
<1>3. Sender(e) = s /\ (Holds(s, e) \/ sent[e] \in {"queued", "pending"})
  BY <1>1, <1>2, Zenon DEF EndsFate
<1>4. e \in ToSet(m_msgqueue[s]) => sent[e] \in {"queued", "withdrawn"}
  BY DEF EventsInv, QueueInv
<1>5. ASSUME NEW i \in DOMAIN m_msgcache[s], m_msgcache[s][i].ev = e
      PROVE  sent[e] \in {"pending", "withdrawn"}
  <2>1. m_msgcache[s][i] \in ToSet(m_msgcache[s])
    BY DEF ToSet
  <2>2. QED
    BY <1>1, <1>3, <1>5, <2>1, OwnEntryWaits
<1>6. QED
  BY <1>3, <1>4, <1>5 DEF Holds

LEMMA SettlesStep ==
    ASSUME TypeOK, EventsInv, Quiet, [Next]_vars
    PROVE  \A e \in Events : StaysSettled(e)
<1> DEFINE P == \A e \in Events : StaysSettled(e)
<1>1. sent' = sent => P
  BY DEF StaysSettled
<1>2. \A version \in Published : Connect(version) => P
  BY <1>1 DEF Connect
<1>fin. FinishNonBlockingConnect => P
  BY <1>1 DEF FinishNonBlockingConnect
<1>3. \A s \in Sides : ParseInitPacket(s) \/ ParseInitAck(s) \/ ParseInit2(s) => P
  <2>1. SUFFICES ASSUME NEW s \in Sides, ParseInit2(s) PROVE P
    BY <1>1 DEF ParseInitPacket, ParseInitAck
  <2>2. PICK w \in [Sides -> Seq(Packet)] : SendPacketEvents(s, m_msgqueue[s], w)
    BY <2>1, ParseInit2Wire
  <2>3. m_msgqueue[s] \in Seq(Events) /\ \A e \in ToSet(m_msgqueue[s]) : sent[e] \in {"new", "queued", "withdrawn"}
    BY DEF TypeOK, EventsInv, QueueInv
  <2>4. sent' = [e \in Events |-> IF e \in ToSet(m_msgqueue[s]) /\ sent[e] # "withdrawn" THEN "pending" ELSE sent[e]]
    BY <2>2, <2>3, SendPacketEventsEffect
  <2>5. QED
    BY <2>3, <2>4, SentSettles
<1>4. \A s \in Sides : ParseStart(s) \/ ParseAck(s) \/ ParseCancel(s) => P
  BY <1>1, AnswerSettles DEF ParseStart
<1>5. \A s \in Sides : Ends(s) => P
  BY EndsSettles
<1>6. \A s \in Sides : Expire(s) => P
  BY ExpireSettles
<1>7. \A e \in Events : SendEvent(e) => P
  <2>1. SUFFICES ASSUME NEW e \in Events, SendEvent(e) PROVE P
    OBVIOUS
  <2>2. sent[e] = "new" /\ \A f \in Events : f # e => sent'[f] = sent[f]
    <3>1. CASE SendPacketEvents(Sender(e), <<e>>, wire)
      <4>1. <<e>> \in Seq(Events) /\ ToSet(<<e>>) = {e} /\ wire \in [Sides -> Seq(Packet)]
        BY OnePacket DEF TypeOK
      <4> DEFINE list == <<e>>
      <4> HIDE DEF list
      <4>2. list \in Seq(Events) /\ ToSet(list) = {e} /\ SendPacketEvents(Sender(e), list, wire)
        BY <3>1, <4>1 DEF list
      <4>3. sent' = [f \in Events |-> IF f \in ToSet(list) /\ sent[f] # "withdrawn" THEN "pending" ELSE sent[f]]
        BY <4>1, <4>2, SenderSide, SendPacketEventsEffect
      <4>4. QED
        BY <2>1, <4>2, <4>3 DEF SendEvent
    <3>2. CASE sent' = [sent EXCEPT ![e] = "queued"]
      BY <2>1, <3>2 DEF SendEvent, TypeOK
    <3>3. QED
      BY <2>1, <3>1, <3>2 DEF SendEvent
  <2>3. QED
    BY <2>2 DEF StaysSettled, Settled
<1>8. \A r \in Requests : Answers(r) \/ Cancels(r) => P
  <2>0. HasNumber
    BY DEF EventsInv
  <2>1. SUFFICES ASSUME NEW r \in Requests, Cancels(r) PROVE P
    <3>1. \A r \in Requests : Answers(r) => sent' = sent
      BY <2>0, AnswersEffect, Zenon
    <3>2. QED
      BY <1>1, <3>1
  <2>2. /\ sent[r] \in {"queued", "pending"}
        /\ sent' = [sent EXCEPT ![r] = IF @ = "queued" THEN "withdrawn" ELSE "cancelled"]
    BY <2>0, <2>1, CancelsEffect, Zenon
  <2>3. \A f \in Events : f # r => sent'[f] = sent[f]
    BY <2>2 DEF TypeOK
  <2>4. QED
    BY <2>2, <2>3 DEF StaysSettled, Settled
<1>9. UNCHANGED vars => P
  BY <1>1 DEF vars
<1> HIDE DEF P
<1>10. P
  BY <1>2, <1>fin, <1>3, <1>4, <1>5, <1>6, <1>7, <1>8, <1>9, Steps
<1>11. QED
  BY <1>10 DEF P

-----------------------------------------------------------------------------
(* The theorems.                                                             *)

IInv == TypeOK /\ HandInv /\ EventsInv /\ Quiet /\ NumInv /\ ToldInOrder

LEMMA IInvInit == Init => IInv
<1>1. Init => ToldInOrder
  BY DEF Init, ToldInOrder
<1>2. QED
  BY <1>1, TypeInit, HandInit, EventsInit, QuietInit, NumbersInit DEF IInv

LEMMA IInvStep ==
    ASSUME IInv, [Next]_vars
    PROVE  IInv'
<1>1. TypeOK /\ HandInv /\ EventsInv /\ Quiet /\ NumInv /\ ToldInOrder /\ HasNumber /\ OneEntry
  BY DEF IInv, EventsInv
<1>2. TypeOK'
  BY <1>1, TypeStep
<1>3. HandInv'
  BY <1>1, HandStep
<1>4. EventsInv'
  BY <1>1, EventsStep
<1>quiet. Quiet'
  BY <1>1, QuietStep
<1>5. NumInv'
  BY <1>1, NumbersOfStep
<1>6. ToldInOrder'
  BY <1>1, ToldStep
<1>7. QED
  BY <1>2, <1>3, <1>4, <1>quiet, <1>5, <1>6 DEF IInv

LEMMA Invariance == Spec => []IInv
<1>1. IInv /\ [Next]_vars => IInv'
  BY IInvStep
<1>2. QED
  BY <1>1, IInvInit, PTL DEF Spec

LEMMA EventsImply ==
    ASSUME EventsInv
    PROVE  AckedWasTold /\ PendingIsKept
<1>1. AckedWasTold
  BY DEF EventsInv, FateInv, FateRight, Told, AckedWasTold
<1>2. PendingIsKept
  <2>1. SUFFICES ASSUME NEW e \in Events, sent[e] = "pending", ~Crossed(e)
                 PROVE  \E i \in DOMAIN m_msgcache[Sender(e)] : m_msgcache[Sender(e)][i].ev = e
    BY DEF PendingIsKept
  <2>2. PICK x \in ToSet(m_msgcache[Sender(e)]) : x.ev = e
    BY <2>1 DEF EventsInv, FateInv, FateRight
  <2>3. QED
    BY <2>2 DEF ToSet
<1>3. QED
  BY <1>1, <1>2

\* The variables of both ends keep their types: the states of the handshake, the
\* 16 bits of m_seqnum, and packets and entries that carry a number and an event.
THEOREM TypeCorrect == Spec => []TypeOK
<1>1. IInv => TypeOK
  BY DEF IInv
<1>2. QED
  BY <1>1, Invariance, PTL

\* ParsePacketInt and the handshake's Parse functions are never given each
\* other's packets: however the two ends, their timeouts and what their
\* applications answer and take back interleave, a START, an ACK or a CANCEL that
\* is read next finds its reader connected. But for one that the caller sends in
\* the middle of its handshake: then no side is ever connected.
THEOREM HandshakeIsAgreed == Spec => []HandshakeAgrees
<1>1. IInv => HandshakeAgrees
  BY HandImplies DEF IInv
<1>2. QED
  BY <1>1, Invariance, PTL

\* What ParsePacketInt tells the application is what the peer's SendPacketEvent
\* numbered, in that order and without a gap, also past the wrap of m_seqnum.
THEOREM ToldInOrderAlways == Spec => []ToldInOrder
<1>1. IInv => ToldInOrder
  BY DEF IInv
<1>2. QED
  BY <1>1, Invariance, PTL

\* An acknowledge that ParsePacketInt takes for a message or a request is of one
\* that the peer's application was told of, unless another went under its number.
THEOREM AckedWasToldAlways == Spec => []AckedWasTold
<1>1. IInv => AckedWasTold
  BY EventsImply DEF IInv
<1>2. QED
  BY <1>1, Invariance, PTL

\* An event that waits for its answer is in m_msgcache, where the acknowledge, the
\* timeout or the end of the connection finds it, unless another went under its number.
THEOREM PendingIsKeptAlways == Spec => []PendingIsKept
<1>1. IInv => PendingIsKept
  BY EventsImply DEF IInv
<1>2. QED
  BY <1>1, Invariance, PTL

\* No step gives an event a second fate: not a late acknowledge, not the poll of
\* the cache, and not expireAll, unless another event went under its number. What
\* follows the withdrawal of a queued request, which is sent all the same, is its
\* one fate here.
THEOREM SettledOnceAlways == Spec => SettledOnce
<1>1. IInv /\ [Next]_vars =>
        [\A e \in Events : sent[e] \in {"acked", "expired", "cancelled"} /\ ~Crossed(e)
                           => sent'[e] = sent[e]]_vars
  BY SettlesStep DEF IInv, StaysSettled, Settled
<1>2. QED
  BY <1>1, Invariance, PTL DEF Spec, SettledOnce

===============================================================================
