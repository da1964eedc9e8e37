--------------------------- MODULE RequestsProofs ---------------------------
(* Theorems about Requests, for any users, objects, ids and bounds.         *)
EXTENDS Requests, SequenceTheorems, FiniteSetTheorems, TLAPS

\* Entry i of cache c is the one of search k.
IsFor(c, i, k) == c[i].type = "Search" /\ c[i].of = k

(* Cache c and events s agree: an entry is about an event that is alive,    *)
(* two entries are about two events, and an event that is alive has one. It *)
(* was told its end if and only if it is not alive.                         *)
Agree(c, s) ==
    /\ \A i \in 1 .. Len(c) : c[i].type = "Search" => c[i].of \in 1 .. Len(s) /\ s[c[i].of].alive
    /\ \A i, j \in 1 .. Len(c) :
         c[i].type = "Search" /\ c[j].type = "Search" /\ c[i].of = c[j].of => i = j
    /\ \A k \in 1 .. Len(s) : s[k].alive => \E i \in 1 .. Len(c) : IsFor(c, i, k)
    /\ \A k \in 1 .. Len(s) : s[k].told = IF s[k].alive THEN 0 ELSE 1

Inv == TypeOK /\ Agree(m_reqidcache, searches)

-----------------------------------------------------------------------------
(* Sequences.                                                               *)

LEMMA RemoveAtProperties ==
    ASSUME NEW S, NEW c \in Seq(S), NEW i \in 1 .. Len(c)
    PROVE  /\ RemoveAt(c, i) \in Seq(S)
           /\ Len(RemoveAt(c, i)) = Len(c) - 1
           /\ \A j \in 1 .. Len(c) - 1 : RemoveAt(c, i)[j] = IF j < i THEN c[j] ELSE c[j + 1]
<1> DEFINE n == Len(c)
           front == SubSeq(c, 1, i - 1)
           back == SubSeq(c, i + 1, n)
<1>1. n \in Nat /\ \A j \in 1 .. n : c[j] \in S
  BY ElementOfSeq, LenProperties
<1>2. /\ front \in Seq(S) /\ Len(front) = i - 1
      /\ \A j \in 1 .. i - 1 : front[j] = c[j]
  <2>1. \A j \in 1 .. i - 1 : c[j] \in S
    BY <1>1
  <2>2. /\ front \in Seq(S)
        /\ Len(front) = IF 1 <= i - 1 THEN (i - 1) - 1 + 1 ELSE 0
        /\ \A j \in 1 .. (i - 1) - 1 + 1 : front[j] = c[1 + j - 1]
    BY <1>1, <2>1, SubSeqProperties
  <2>3. QED
    BY <1>1, <2>2
<1>3. /\ back \in Seq(S) /\ Len(back) = n - i
      /\ \A j \in 1 .. n - i : back[j] = c[i + j]
  <2>1. \A j \in i + 1 .. n : c[j] \in S
    BY <1>1
  <2>2. i + 1 \in Int /\ n \in Int
    BY <1>1
  <2>3. /\ back \in Seq(S)
        /\ Len(back) = IF i + 1 <= n THEN n - (i + 1) + 1 ELSE 0
        /\ \A j \in 1 .. n - (i + 1) + 1 : back[j] = c[(i + 1) + j - 1]
    BY <2>1, <2>2, SubSeqProperties
  <2>4. QED
    BY <1>1, <2>3
<1> DEFINE whole == front \o back
<1>4. /\ whole \in Seq(S) /\ Len(whole) = n - 1
      /\ \A j \in 1 .. n - 1 : whole[j] = IF j <= i - 1 THEN front[j] ELSE back[j - (i - 1)]
  <2> HIDE DEF front, back
  <2>1. /\ whole \in Seq(S) /\ Len(whole) = Len(front) + Len(back)
        /\ \A j \in 1 .. Len(front) + Len(back) :
             whole[j] = IF j <= Len(front) THEN front[j] ELSE back[j - Len(front)]
    BY <1>2, <1>3, ConcatProperties
  <2> HIDE DEF whole
  <2>2. QED
    BY <1>1, <1>2, <1>3, <2>1
<1>5. RemoveAt(c, i) = whole
  BY DEF RemoveAt
<1>6. ASSUME NEW j \in 1 .. n - 1
      PROVE  whole[j] = IF j < i THEN c[j] ELSE c[j + 1]
  <2> HIDE DEF front, back, whole
  <2>1. CASE j < i
    BY <1>1, <1>2, <1>4, <2>1
  <2>2. CASE ~(j < i)
    <3>1. j - (i - 1) \in 1 .. n - i /\ ~(j <= i - 1)
      BY <1>1, <2>2
    <3>2. QED
      BY <1>1, <1>3, <1>4, <2>2, <3>1
  <2>3. QED
    BY <2>1, <2>2
<1>7. QED
  BY <1>4, <1>5, <1>6

\* The oldest entry leaves: Tail is RemoveAt of the first.
LEMMA TailRemoves ==
    ASSUME NEW S, NEW c \in Seq(S), c # <<>>
    PROVE  1 \in 1 .. Len(c) /\ Tail(c) = RemoveAt(c, 1) /\ Head(c) = c[1]
<1>1. Len(c) \in Nat /\ Len(c) # 0
  BY EmptySeq, LenProperties
<1>2. 1 \in 1 .. Len(c)
  BY <1>1
<1>3. /\ RemoveAt(c, 1) \in Seq(S) /\ Len(RemoveAt(c, 1)) = Len(c) - 1
      /\ \A j \in 1 .. Len(c) - 1 : RemoveAt(c, 1)[j] = c[j + 1]
  BY <1>1, <1>2, RemoveAtProperties
<1>4. /\ Tail(c) \in Seq(S) /\ Len(Tail(c)) = Len(c) - 1
      /\ \A j \in 1 .. Len(c) - 1 : Tail(c)[j] = c[j + 1]
  BY HeadTailProperties
<1>5. Tail(c) = RemoveAt(c, 1)
  BY <1>3, <1>4, SeqEqual
<1>6. QED
  BY <1>2, <1>5

\* The elements of p are elements of q.
From(p, q) == \A j \in 1 .. Len(p) : \E k \in 1 .. Len(q) : p[j] = q[k]

\* What is left of the first n elements, from the first or the second on.
LEMMA RestOf ==
    ASSUME NEW S, NEW d \in Seq(S), NEW m \in {1, 2}, NEW n \in 0 .. Len(d)
    PROVE  SubSeq(d, m, n) \in Seq(S) /\ From(SubSeq(d, m, n), d)
<1>1. Len(d) \in Nat /\ \A i \in 1 .. Len(d) : d[i] \in S
  BY ElementOfSeq, LenProperties
<1>2. \A i \in m .. n : d[i] \in S
  BY <1>1
<1>3. /\ SubSeq(d, m, n) \in Seq(S)
      /\ Len(SubSeq(d, m, n)) = IF m <= n THEN n - m + 1 ELSE 0
      /\ \A k \in 1 .. n - m + 1 : SubSeq(d, m, n)[k] = d[m + k - 1]
  BY <1>1, <1>2, SubSeqProperties
<1>4. ASSUME NEW j \in 1 .. Len(SubSeq(d, m, n))
      PROVE  \E k \in 1 .. Len(d) : SubSeq(d, m, n)[j] = d[k]
  <2>1. m <= n /\ j \in 1 .. n - m + 1 /\ m + j - 1 \in 1 .. Len(d)
    BY <1>1, <1>3
  <2>2. QED
    BY <1>3, <2>1
<1>5. QED
  BY <1>3, <1>4 DEF From

\* What the loop of Parse goes on with after a disconnect.
LEMMA ReceivedKept ==
    ASSUME down \in Seq(AnswerPacket), KeepsReceived
    PROVE  down' \in Seq(AnswerPacket) /\ From(down', down)
<1>1. down' = down \/ \E n \in 0 .. Len(down) : down' = SubSeq(down, 1, n)
  BY DEF KeepsReceived
<1>2. From(down, down)
  BY DEF From
<1>3. QED
  BY <1>1, <1>2, RestOf

LEMMA InitialSegment ==
    ASSUME NEW n \in Nat, NEW S \in SUBSET (1 .. n),
           \A j \in S : \A i \in 1 .. j : i \in S
    PROVE  \E k \in 0 .. n : S = 1 .. k
<1>1. /\ IsFiniteSet(1 .. n) /\ Cardinality(1 .. n) = n
  BY FS_Interval, n \in Int, 1 \in Int
<1>2. IsFiniteSet(S) /\ Cardinality(S) <= n /\ Cardinality(S) \in Nat
  BY <1>1, FS_Subset, FS_CardinalityType
<1> DEFINE k == Cardinality(S)
<1>3. k \in 0 .. n
  BY <1>2
<1>4. ASSUME NEW j \in S PROVE j <= k
  <2>1. 1 .. j \in SUBSET S
    BY <1>4
  <2>2. j \in Nat /\ j >= 1
    OBVIOUS
  <2>3. Cardinality(1 .. j) = j
    BY <2>2, FS_Interval, j \in Int, 1 \in Int
  <2>4. QED
    BY <1>2, <2>1, <2>3, FS_Subset
<1>5. S \in SUBSET (1 .. k)
  BY <1>3, <1>4
<1>6. IsFiniteSet(1 .. k) /\ Cardinality(1 .. k) = k
  BY <1>3, FS_Interval, k \in Int, 1 \in Int
<1>7. S = 1 .. k
  BY <1>5, <1>6, FS_Subset
<1>8. QED
  BY <1>3, <1>7

\* The lookup of an id that is there finds an entry.
LEMMA LookupFinds ==
    ASSUME m_reqidcache \in Seq(CacheEntry), NEW id, exists(id)
    PROVE  Lookup(id) \in 1 .. Len(m_reqidcache) /\ m_reqidcache[Lookup(id)].id = id
<1> DEFINE n == Len(m_reqidcache)
           S == Entries(id)
           B == {i \in 1 .. n : \A j \in 1 .. i : j \notin S}
<1>1. n \in Nat /\ DOMAIN m_reqidcache = 1 .. n
  BY LenProperties
<1>2. S \in SUBSET (1 .. n) /\ S # {}
  BY <1>1 DEF Entries, exists
<1>3. B \in SUBSET (1 .. n) /\ \A j \in B : \A i \in 1 .. j : i \in B
  BY <1>1
<1>4. PICK m \in 0 .. n : B = 1 .. m
  <2> HIDE DEF B
  <2>1. QED
    BY <1>1, <1>3, InitialSegment
<1>5. ASSUME NEW j \in S PROVE m + 1 <= j
  <2>1. j \in 1 .. n /\ j \notin 1 .. m
    BY <1>1, <1>2, <1>4
  <2>2. QED
    BY <1>1, <2>1
<1>6. m + 1 \in S
  <2>1. PICK k \in S : TRUE
    BY <1>2
  <2>2. m + 1 \in 1 .. n /\ m + 1 \notin 1 .. m
    BY <1>1, <1>2, <1>5, <2>1
  <2>3. PICK j \in 1 .. m + 1 : j \in S
    BY <1>4, <2>2
  <2>4. j = m + 1
    BY <1>1, <1>5, <2>3
  <2>5. QED
    BY <2>3, <2>4
<1>7. Lookup(id) = CHOOSE i \in S : \A j \in S : i <= j
  BY DEF Lookup
<1> HIDE DEF S
<1>8. Lookup(id) \in S
  BY <1>2, <1>5, <1>6, <1>7
<1>9. QED
  BY <1>2, <1>8 DEF S, Entries

-----------------------------------------------------------------------------
(* What a step does to the cache and the events.                            *)

\* A search begins: a new event and its entry.
LEMMA AgreeStarted ==
    ASSUME NEW c \in Seq(CacheEntry), NEW s \in Seq(SearchEvent), Agree(c, s),
           Len(s) < MaxSearches, NEW id \in 0 .. IdMask
    PROVE  LET e == [id |-> id, type |-> "Search", of |-> Len(s) + 1] IN
           /\ Append(c, e) \in Seq(CacheEntry)
           /\ Append(s, NewEvent) \in Seq(SearchEvent) /\ Len(Append(s, NewEvent)) = Len(s) + 1
           /\ Agree(Append(c, e), Append(s, NewEvent))
<1> DEFINE n == Len(c)
           m == Len(s)
           e == [id |-> id, type |-> "Search", of |-> m + 1]
           d == Append(c, e)
           t == Append(s, NewEvent)
<1>1. n \in Nat /\ m \in Nat /\ \A i \in 1 .. n : c[i] \in CacheEntry
  BY ElementOfSeq, LenProperties
<1>2. e \in CacheEntry /\ e.type = "Search" /\ e.of = m + 1
  BY <1>1, BoundsNat DEF CacheEntry
<1>3. NewEvent \in SearchEvent /\ NewEvent.told = 0 /\ NewEvent.alive
  BY DEF NewEvent, SearchEvent
<1> HIDE DEF e
<1>4. /\ d \in Seq(CacheEntry) /\ Len(d) = n + 1 /\ d[n + 1] = e
      /\ \A i \in 1 .. n : d[i] = c[i]
  BY <1>2, AppendProperties
<1>5. /\ t \in Seq(SearchEvent) /\ Len(t) = m + 1 /\ t[m + 1] = NewEvent
      /\ \A k \in 1 .. m : t[k] = s[k]
  BY <1>3, AppendProperties
<1> HIDE DEF d, t
<1>6. \A i \in 1 .. n : c[i].type = "Search" => c[i].of \in 1 .. m /\ s[c[i].of].alive
  BY DEF Agree
<1>7. ASSUME NEW i \in 1 .. Len(d), d[i].type = "Search"
      PROVE  d[i].of \in 1 .. Len(t) /\ t[d[i].of].alive /\ (i = n + 1 <=> d[i].of = m + 1)
  <2>1. CASE i = n + 1
    BY <1>1, <1>2, <1>3, <1>4, <1>5, <2>1
  <2>2. CASE i # n + 1
    <3>1. i \in 1 .. n
      BY <1>1, <1>4, <2>2
    <3>2. c[i].of \in 1 .. m /\ s[c[i].of].alive /\ d[i] = c[i]
      BY <1>4, <1>6, <1>7, <3>1
    <3>3. QED
      BY <1>1, <1>5, <2>2, <3>2
  <2>3. QED
    BY <2>1, <2>2
<1>8. ASSUME NEW i \in 1 .. Len(d), NEW j \in 1 .. Len(d),
             d[i].type = "Search", d[j].type = "Search", d[i].of = d[j].of
      PROVE  i = j
  <2>1. CASE i = n + 1
    BY <1>7, <1>8, <2>1
  <2>2. CASE i # n + 1
    <3>1. i \in 1 .. n /\ j \in 1 .. n
      BY <1>1, <1>4, <1>7, <1>8, <2>2
    <3>2. QED
      BY <1>4, <1>8, <3>1 DEF Agree
  <2>3. QED
    BY <2>1, <2>2
<1>9. ASSUME NEW k \in 1 .. Len(t), t[k].alive PROVE \E i \in 1 .. Len(d) : IsFor(d, i, k)
  <2>1. CASE k = m + 1
    <3>1. n + 1 \in 1 .. Len(d) /\ IsFor(d, n + 1, k)
      BY <1>1, <1>2, <1>4, <2>1 DEF IsFor
    <3>2. QED
      BY <3>1
  <2>2. CASE k # m + 1
    <3>1. k \in 1 .. m /\ s[k].alive
      BY <1>1, <1>5, <1>9, <2>2
    <3>2. PICK i \in 1 .. n : IsFor(c, i, k)
      BY <3>1 DEF Agree
    <3>3. i \in 1 .. Len(d) /\ IsFor(d, i, k)
      BY <1>1, <1>4, <3>2 DEF IsFor
    <3>4. QED
      BY <3>3
  <2>3. QED
    BY <2>1, <2>2
<1>10. ASSUME NEW k \in 1 .. Len(t) PROVE t[k].told = IF t[k].alive THEN 0 ELSE 1
  <2>1. CASE k = m + 1
    BY <1>3, <1>5, <2>1
  <2>2. CASE k # m + 1
    <3>1. k \in 1 .. m
      BY <1>1, <1>5, <2>2
    <3>2. QED
      BY <1>5, <3>1 DEF Agree
  <2>3. QED
    BY <2>1, <2>2
<1>11. Agree(d, t)
  BY <1>7, <1>8, <1>9, <1>10 DEF Agree
<1>12. QED
  BY <1>4, <1>5, <1>11 DEF d, e, t

\* Details are asked for: an entry of another type.
LEMMA AgreeOther ==
    ASSUME NEW c \in Seq(CacheEntry), NEW s \in Seq(SearchEvent), Agree(c, s),
           NEW e \in CacheEntry, e.type # "Search"
    PROVE  Append(c, e) \in Seq(CacheEntry) /\ Agree(Append(c, e), s)
<1> DEFINE n == Len(c)
           d == Append(c, e)
<1>1. n \in Nat
  BY LenProperties
<1>2. /\ d \in Seq(CacheEntry) /\ Len(d) = n + 1 /\ d[n + 1] = e
      /\ \A i \in 1 .. n : d[i] = c[i]
  BY AppendProperties
<1> HIDE DEF d
<1>3. ASSUME NEW i \in 1 .. Len(d), d[i].type = "Search" PROVE i \in 1 .. n /\ d[i] = c[i]
  <2>1. i # n + 1
    BY <1>2, <1>3
  <2>2. i \in 1 .. n
    BY <1>1, <1>2, <2>1
  <2>3. QED
    BY <1>2, <2>2
<1>4. ASSUME NEW k \in 1 .. Len(s), s[k].alive PROVE \E i \in 1 .. Len(d) : IsFor(d, i, k)
  <2>1. PICK i \in 1 .. n : IsFor(c, i, k)
    BY <1>4 DEF Agree
  <2>2. i \in 1 .. Len(d) /\ IsFor(d, i, k)
    BY <1>1, <1>2, <2>1 DEF IsFor
  <2>3. QED
    BY <2>2
<1>5. \A i \in 1 .. Len(d) : d[i].type = "Search" => d[i].of \in 1 .. Len(s) /\ s[d[i].of].alive
  BY <1>3 DEF Agree
<1>6. ASSUME NEW i \in 1 .. Len(d), NEW j \in 1 .. Len(d),
             d[i].type = "Search", d[j].type = "Search", d[i].of = d[j].of
      PROVE  i = j
  BY <1>3, <1>6 DEF Agree
<1>7. QED
  BY <1>2, <1>4, <1>5, <1>6 DEF Agree, d

\* Events that took a result and are as alive as before.
LEMMA AgreeResult ==
    ASSUME NEW c, NEW s \in Seq(SearchEvent), NEW t \in Seq(SearchEvent), Agree(c, s), Len(t) = Len(s),
           \A k \in 1 .. Len(s) : t[k].alive = s[k].alive /\ t[k].told = s[k].told
    PROVE  Agree(c, t)
  BY DEF Agree

\* What is left of cache c without entry i.
LeftOf(c, i, d) ==
    /\ d \in Seq(CacheEntry)
    /\ \A j \in 1 .. Len(d) : \E k \in 1 .. Len(c) \ {i} :
         d[j] = c[k] /\ k = IF j < i THEN j ELSE j + 1
    /\ \A k \in 1 .. Len(c) \ {i} : \E j \in 1 .. Len(d) : d[j] = c[k]

LEMMA Removal ==
    ASSUME NEW c \in Seq(CacheEntry), NEW i \in 1 .. Len(c), NEW d, d = RemoveAt(c, i)
    PROVE  LeftOf(c, i, d)
<1> DEFINE n == Len(c)
<1>1. n \in Nat
  BY LenProperties
<1>2. /\ d \in Seq(CacheEntry) /\ Len(d) = n - 1
      /\ \A j \in 1 .. n - 1 : d[j] = IF j < i THEN c[j] ELSE c[j + 1]
  BY RemoveAtProperties
<1>3. ASSUME NEW j \in 1 .. Len(d)
      PROVE  \E k \in 1 .. n \ {i} : d[j] = c[k] /\ k = IF j < i THEN j ELSE j + 1
  <2> DEFINE k == IF j < i THEN j ELSE j + 1
  <2>1. k \in 1 .. n /\ k # i
    BY <1>1, <1>2
  <2>2. d[j] = c[k]
    BY <1>2
  <2>3. QED
    BY <2>1, <2>2
<1>4. ASSUME NEW k \in 1 .. n \ {i} PROVE \E j \in 1 .. Len(d) : d[j] = c[k]
  <2> DEFINE j == IF k < i THEN k ELSE k - 1
  <2>1. j \in 1 .. n - 1 /\ (IF j < i THEN j ELSE j + 1) = k
    BY <1>1
  <2>2. d[j] = c[k]
    <3> HIDE DEF j
    <3>1. CASE j < i
      BY <1>2, <2>1, <3>1
    <3>2. CASE ~(j < i)
      BY <1>2, <2>1, <3>2
    <3>3. QED
      BY <3>1, <3>2
  <2>3. QED
    BY <1>2, <2>1, <2>2
<1>5. QED
  BY <1>2, <1>3, <1>4 DEF LeftOf

(* An entry leaves cache c. If it was the one of a search, the event of     *)
(* that search has ended with it and was told so; no other event changed.   *)
LEMMA AgreeRemoved ==
    ASSUME NEW c \in Seq(CacheEntry), NEW s \in Seq(SearchEvent), NEW t \in Seq(SearchEvent),
           Agree(c, s), NEW i \in 1 .. Len(c), NEW d, d = RemoveAt(c, i), Len(t) = Len(s),
           \A k \in 1 .. Len(s) :
             IF IsFor(c, i, k) THEN ~t[k].alive /\ t[k].told = 1
             ELSE t[k].alive = s[k].alive /\ t[k].told = s[k].told
    PROVE  d \in Seq(CacheEntry) /\ Agree(d, t)
<1>1. /\ d \in Seq(CacheEntry)
      /\ \A j \in 1 .. Len(d) : \E k \in 1 .. Len(c) \ {i} :
           d[j] = c[k] /\ k = IF j < i THEN j ELSE j + 1
      /\ \A k \in 1 .. Len(c) \ {i} : \E j \in 1 .. Len(d) : d[j] = c[k]
  <2>1. LeftOf(c, i, d)
    BY Removal
  <2>2. QED
    BY <2>1 DEF LeftOf
<1>2. /\ \A k \in 1 .. Len(c) : c[k].type = "Search" => c[k].of \in 1 .. Len(s) /\ s[c[k].of].alive
      /\ \A k, l \in 1 .. Len(c) :
           c[k].type = "Search" /\ c[l].type = "Search" /\ c[k].of = c[l].of => k = l
      /\ \A k \in 1 .. Len(s) : s[k].alive => \E l \in 1 .. Len(c) : IsFor(c, l, k)
      /\ \A k \in 1 .. Len(s) : s[k].told = IF s[k].alive THEN 0 ELSE 1
  BY DEF Agree
<1>3. ASSUME NEW j \in 1 .. Len(d), d[j].type = "Search"
      PROVE  d[j].of \in 1 .. Len(t) /\ t[d[j].of].alive
  <2>1. PICK k \in 1 .. Len(c) \ {i} : d[j] = c[k]
    BY <1>1
  <2>2. c[k].of \in 1 .. Len(s) /\ s[c[k].of].alive
    BY <1>2, <1>3, <2>1
  <2>3. ~IsFor(c, i, c[k].of)
    BY <1>2, <1>3, <2>1 DEF IsFor
  <2>4. QED
    BY <2>1, <2>2, <2>3
<1>4. ASSUME NEW j \in 1 .. Len(d), NEW l \in 1 .. Len(d),
             d[j].type = "Search", d[l].type = "Search", d[j].of = d[l].of
      PROVE  j = l
  <2>1. PICK k \in 1 .. Len(c) \ {i} : d[j] = c[k] /\ k = IF j < i THEN j ELSE j + 1
    BY <1>1
  <2>2. PICK m \in 1 .. Len(c) \ {i} : d[l] = c[m] /\ m = IF l < i THEN l ELSE l + 1
    BY <1>1
  <2>3. k = m
    BY <1>2, <1>4, <2>1, <2>2
  <2>4. i \in Int /\ j \in Int /\ l \in Int
    OBVIOUS
  <2>5. QED
    BY <2>1, <2>2, <2>3, <2>4
<1>5. ASSUME NEW k \in 1 .. Len(t), t[k].alive PROVE \E j \in 1 .. Len(d) : IsFor(d, j, k)
  <2>1. k \in 1 .. Len(s) /\ ~IsFor(c, i, k) /\ s[k].alive
    BY <1>5
  <2>2. PICK l \in 1 .. Len(c) : IsFor(c, l, k)
    BY <1>2, <2>1
  <2>3. l \in 1 .. Len(c) \ {i}
    BY <2>1, <2>2
  <2>4. PICK j \in 1 .. Len(d) : d[j] = c[l]
    BY <1>1, <2>3
  <2>5. QED
    BY <2>2, <2>4 DEF IsFor
<1>6. ASSUME NEW k \in 1 .. Len(t) PROVE t[k].told = IF t[k].alive THEN 0 ELSE 1
  BY <1>2, <1>6
<1>7. QED
  BY <1>1, <1>3, <1>4, <1>5, <1>6 DEF Agree

-----------------------------------------------------------------------------
(* Requests.                                                                *)

LEMMA NextIdType ==
    ASSUME m_requestid \in 0 .. IdMask
    PROVE  NextRequestID \in 0 .. IdMask
  BY StartsIds DEF NextRequestID

\* A Send appends the packet or empties the wire.
LEMMA SendType ==
    ASSUME TypeOK, NEW p \in RequestPacket, Send(p)
    PROVE  m_state' \in {"BOS_LOGGED_IN", "NOT_CONNECTED"} /\ up' \in Seq(RequestPacket)
<1>1. up \in Seq(RequestPacket) /\ m_state \in {"BOS_LOGGED_IN", "NOT_CONNECTED"}
  BY DEF TypeOK
<1>2. Append(up, p) \in Seq(RequestPacket) /\ <<>> \in Seq(RequestPacket)
  BY <1>1, AppendProperties, EmptySeq
<1>3. QED
  BY <1>1, <1>2 DEF Send, Disconnected

LEMMA GivenOutType ==
    ASSUME TypeOK, GivenOut
    PROVE  m_requestid' \in 0 .. IdMask /\ given' \in 0 .. MaxIds
<1>1. m_requestid \in 0 .. IdMask /\ given \in 0 .. MaxIds
  BY DEF TypeOK
<1>2. QED
  BY <1>1, NextIdType, BoundsNat DEF GivenOut

\* Only the id that is given out becomes crossed.
LEMMA TakenType ==
    ASSUME TypeOK, Taken
    PROVE  m_requestid' \in 0 .. IdMask /\ given' \in 0 .. MaxIds /\ crossed' \subseteq 0 .. IdMask
<1>1. GivenOut /\ (crossed' = crossed \cup {NextRequestID} \/ crossed' = crossed \ {NextRequestID})
  BY DEF Taken
<1>2. NextRequestID \in 0 .. IdMask /\ crossed \subseteq 0 .. IdMask
  BY NextIdType DEF TypeOK
<1>3. QED
  BY <1>1, <1>2, GivenOutType

\* A search that begins while the cache is c and the events are s.
LEMMA StartedKeeps ==
    ASSUME TypeOK, NEW c \in Seq(CacheEntry), NEW s \in Seq(SearchEvent), Agree(c, s),
           NEW kind \in Kinds, Started(kind, c, s)
    PROVE  /\ m_state' \in {"BOS_LOGGED_IN", "NOT_CONNECTED"}
           /\ m_requestid' \in 0 .. IdMask /\ given' \in 0 .. MaxIds /\ crossed' \subseteq 0 .. IdMask
           /\ m_reqidcache' \in Seq(CacheEntry)
           /\ searches' \in Seq(SearchEvent) /\ Len(searches') <= MaxSearches
           /\ up' \in Seq(RequestPacket)
           /\ Agree(m_reqidcache', searches')
<1>1. Len(s) \in Nat /\ Len(s) < MaxSearches /\ Taken
  BY LenProperties DEF Started
<1>2. NextRequestID \in 0 .. IdMask
  BY NextIdType DEF TypeOK
<1> DEFINE e == [id |-> NextRequestID, type |-> "Search", of |-> Len(s) + 1]
           p == [id |-> NextRequestID, kind |-> kind, of |-> Len(s) + 1]
<1>3. /\ Append(c, e) \in Seq(CacheEntry)
      /\ Append(s, NewEvent) \in Seq(SearchEvent) /\ Len(Append(s, NewEvent)) = Len(s) + 1
      /\ Agree(Append(c, e), Append(s, NewEvent))
  BY <1>1, <1>2, AgreeStarted
<1>4. searches' = Append(s, NewEvent) /\ m_reqidcache' = Append(c, e) /\ Send(p)
  BY DEF Started
<1>5. p \in RequestPacket
  <2>1. NextRequestID \in Nat
    BY <1>2, StartsIds
  <2>2. QED
    BY <1>1, <2>1 DEF RequestPacket
<1> HIDE DEF e, p
<1>6. QED
  BY <1>1, <1>3, <1>4, <1>5, SendType, TakenType, BoundsNat

LEMMA SearchBegins ==
    ASSUME Inv, NEW kind \in Kinds, searchForContacts(kind)
    PROVE  Inv'
<1>1. TypeOK /\ Agree(m_reqidcache, searches) /\ Started(kind, m_reqidcache, searches)
  BY DEF Inv, searchForContacts
<1>2. m_reqidcache \in Seq(CacheEntry) /\ searches \in Seq(SearchEvent)
  BY <1>1 DEF TypeOK
<1>3. /\ m_state' \in {"BOS_LOGGED_IN", "NOT_CONNECTED"}
      /\ m_requestid' \in 0 .. IdMask /\ given' \in 0 .. MaxIds /\ crossed' \subseteq 0 .. IdMask
      /\ m_reqidcache' \in Seq(CacheEntry)
      /\ searches' \in Seq(SearchEvent) /\ Len(searches') <= MaxSearches
      /\ up' \in Seq(RequestPacket)
      /\ Agree(m_reqidcache', searches')
  BY <1>1, <1>2, StartedKeeps
<1>4. /\ tree' \subseteq Objects /\ info' \in [Objects -> Uins \cup {None}]
      /\ down' \in Seq(AnswerPacket)
  BY <1>1, ReceivedKept DEF TypeOK, searchForContacts
<1>5. TypeOK'
  BY <1>3, <1>4 DEF TypeOK
<1>6. QED
  BY <1>3, <1>5 DEF Inv

LEMMA DetailAsked ==
    ASSUME Inv, NEW o \in Objects, fetchDetailContactInfo(o)
    PROVE  Inv'
<1> DEFINE e == [id |-> NextRequestID, type |-> "UserInfo", of |-> o]
           p == [id |-> NextRequestID, kind |-> "Detail", of |-> o]
<1>1. TypeOK /\ Agree(m_reqidcache, searches)
  BY DEF Inv
<1>2. m_reqidcache \in Seq(CacheEntry) /\ searches \in Seq(SearchEvent) /\ Len(searches) <= MaxSearches
  BY <1>1 DEF TypeOK
<1>3. NextRequestID \in 0 .. IdMask /\ NextRequestID \in Nat
  BY <1>1, NextIdType, StartsIds DEF TypeOK
<1>4. e \in CacheEntry /\ e.type # "Search" /\ p \in RequestPacket
  BY <1>3 DEF CacheEntry, RequestPacket
<1>5. Taken /\ m_reqidcache' = Append(m_reqidcache, e) /\ Send(p) /\ searches' = searches
  BY DEF fetchDetailContactInfo
<1> HIDE DEF e, p
<1>6. m_reqidcache' \in Seq(CacheEntry) /\ Agree(m_reqidcache', searches')
  BY <1>1, <1>2, <1>4, <1>5, AgreeOther
<1>7. /\ m_state' \in {"BOS_LOGGED_IN", "NOT_CONNECTED"} /\ up' \in Seq(RequestPacket)
      /\ m_requestid' \in 0 .. IdMask /\ given' \in 0 .. MaxIds /\ crossed' \subseteq 0 .. IdMask
  BY <1>1, <1>4, <1>5, SendType, TakenType
<1>8. /\ tree' \subseteq Objects /\ info' \in [Objects -> Uins \cup {None}]
      /\ down' \in Seq(AnswerPacket)
  BY <1>1, ReceivedKept DEF TypeOK, fetchDetailContactInfo
<1>9. TypeOK'
  BY <1>2, <1>5, <1>6, <1>7, <1>8 DEF TypeOK
<1>10. QED
  BY <1>6, <1>9 DEF Inv

LEMMA SimpleAsked ==
    ASSUME Inv, NEW o \in Objects, fetchSimpleContactInfo(o)
    PROVE  Inv'
<1> DEFINE p == [id |-> 0, kind |-> "Simple", of |-> o]
<1>1. TypeOK /\ Agree(m_reqidcache, searches) /\ Send(p)
  BY DEF Inv, fetchSimpleContactInfo
<1>2. p \in RequestPacket
  BY DEF RequestPacket
<1> HIDE DEF p
<1>3. m_state' \in {"BOS_LOGGED_IN", "NOT_CONNECTED"} /\ up' \in Seq(RequestPacket)
  BY <1>1, <1>2, SendType
<1>4. /\ UNCHANGED <<m_requestid, given, m_reqidcache, searches, tree, info>>
      /\ down' \in Seq(AnswerPacket) /\ crossed' \subseteq 0 .. IdMask
  <2>1. /\ UNCHANGED <<m_requestid, given, m_reqidcache, searches, tree, info>>
        /\ down' \in Seq(AnswerPacket)
    BY <1>1, ReceivedKept DEF TypeOK, fetchSimpleContactInfo
  <2>2. crossed' = crossed \cup {0} \/ crossed' = crossed
    BY DEF fetchSimpleContactInfo
  <2>3. 0 \in 0 .. IdMask /\ crossed \subseteq 0 .. IdMask
    BY <1>1, StartsIds DEF TypeOK
  <2>4. QED
    BY <2>1, <2>2, <2>3
<1>5. TypeOK'
  BY <1>1, <1>3, <1>4 DEF TypeOK
<1>6. QED
  BY <1>1, <1>4, <1>5 DEF Inv

-----------------------------------------------------------------------------
(* The server and its answers.                                              *)

LEMMA AnswerType ==
    ASSUME NEW p \in RequestPacket, NEW a \in AnswersTo(p) \cup PartsOf(p)
    PROVE  a \in AnswerPacket
<1>1. Someone \in Uins
  BY UinOfType DEF Someone
<1>2. /\ p.id \in Nat /\ p.of \in Nat \cup Objects
      /\ p.kind \in Kinds \cup {"Simple", "Detail"}
      /\ p.kind \in {"Simple", "Detail"} => p.of \in Objects /\ UinOf[p.of] \in Uins
  BY UinOfType DEF RequestPacket, Kinds
<1>3. ASSUME NEW kind \in SearchKinds \cup {"Detail"}, NEW u \in Uins \cup {None}, NEW l \in BOOLEAN
      PROVE  Answer(p, kind, u, l) \in AnswerPacket
  BY <1>2 DEF Answer, AnswerPacket
<1>4. \E kind \in SearchKinds \cup {"Detail"}, u \in Uins \cup {None}, l \in BOOLEAN :
        a = Answer(p, kind, u, l)
  <2>1. CASE p.kind = "Whitepage"
    BY <1>1, <2>1 DEF AnswersTo, PartsOf, SearchKinds
  <2>2. CASE p.kind = "UIN"
    BY <1>1, <2>2 DEF AnswersTo, PartsOf, SearchKinds
  <2>3. CASE p.kind = "RandomChat"
    BY <1>1, <2>3 DEF AnswersTo, PartsOf, SearchKinds
  <2>4. CASE p.kind = "Simple"
    BY <1>2, <2>4 DEF AnswersTo, PartsOf, SearchKinds
  <2>5. CASE p.kind = "Detail"
    BY <1>2, <2>5 DEF AnswersTo, PartsOf, SearchKinds
  <2>6. QED
    BY <1>2, <2>1, <2>2, <2>3, <2>4, <2>5 DEF Kinds
<1>5. QED
  BY <1>3, <1>4

LEMMA ServerMoves ==
    ASSUME Inv, ServerAnswers \/ ServerIgnores
    PROVE  Inv'
<1>1. TypeOK /\ Agree(m_reqidcache, searches)
  BY DEF Inv
<1>2. up \in Seq(RequestPacket) /\ down \in Seq(AnswerPacket) /\ up # <<>>
  BY <1>1 DEF TypeOK, ServerAnswers, ServerIgnores
<1>3. Head(up) \in RequestPacket /\ Tail(up) \in Seq(RequestPacket)
  BY <1>2, HeadTailProperties
<1>4. up' \in Seq(RequestPacket)
  BY <1>2, <1>3 DEF ServerAnswers, ServerIgnores
<1>5. down' \in Seq(AnswerPacket)
  <2>1. CASE ServerIgnores
    BY <1>2, <2>1 DEF ServerIgnores
  <2>2. CASE ServerAnswers
    <3>1. PICK a \in AnswersTo(Head(up)) \cup PartsOf(Head(up)) : down' = Append(down, a)
      BY <2>2 DEF ServerAnswers
    <3>2. a \in AnswerPacket
      BY <1>3, AnswerType
    <3>3. QED
      BY <1>2, <3>1, <3>2, AppendProperties
  <2>3. QED
    BY <2>1, <2>2
<1>6. UNCHANGED <<m_state, m_requestid, given, crossed, m_reqidcache, searches, tree, info>>
  BY DEF ServerAnswers, ServerIgnores, ids
<1>7. TypeOK'
  BY <1>1, <1>4, <1>5, <1>6 DEF TypeOK
<1>8. QED
  BY <1>1, <1>6, <1>7 DEF Inv

\* What the last answer and the sweep leave of an event that is alive.
LEMMA EventTold ==
    ASSUME NEW ev \in SearchEvent, ev.told = 0, NEW a \in AnswerPacket
    PROVE  /\ Told(ev, a) \in SearchEvent
           /\ Told(ev, a).alive = ~a.last
           /\ Told(ev, a).told = IF a.last THEN 1 ELSE 0
<1>1. a.last \in BOOLEAN /\ a.of \in Nat \cup Objects
  BY DEF AnswerPacket
<1>2. PICK r \in SUBSET (Nat \cup Objects), n \in Nat, l \in BOOLEAN :
        ev = [results |-> r, told |-> n, alive |-> l]
  BY DEF SearchEvent
<1>3. n = 0
  BY <1>2
<1> DEFINE q == IF a.uin = None THEN r ELSE r \cup {a.of}
           m == IF a.last THEN 1 ELSE 0
<1>4. Told(ev, a) = [results |-> q, told |-> m, alive |-> ~a.last]
  <2> DEFINE one == [ev EXCEPT !.results = IF a.uin = None THEN @ ELSE @ \cup {a.of}]
             two == [one EXCEPT !.told = IF a.last THEN ev.told + 1 ELSE ev.told]
  <2>1. one = [results |-> q, told |-> 0, alive |-> l]
    BY <1>2, <1>3
  <2> HIDE DEF one, q
  <2>2. two = [results |-> q, told |-> IF a.last THEN ev.told + 1 ELSE ev.told, alive |-> l]
    BY <2>1
  <2>3. (IF a.last THEN ev.told + 1 ELSE ev.told) = m
    OBVIOUS
  <2> HIDE DEF two, m
  <2>4. [two EXCEPT !.alive = ~a.last] = [results |-> q, told |-> m, alive |-> ~a.last]
    BY <2>2, <2>3
  <2>5. Told(ev, a) = [two EXCEPT !.alive = ~a.last]
    BY Zenon DEF Told, one, two
  <2>6. QED
    BY <2>4, <2>5
<1>5. q \in SUBSET (Nat \cup Objects) /\ m \in Nat /\ (~a.last) \in BOOLEAN
  <2>1. r \cup {a.of} \in SUBSET (Nat \cup Objects)
    BY <1>1
  <2>2. q \in SUBSET (Nat \cup Objects)
    BY <2>1, Zenon
  <2>3. m \in Nat
    OBVIOUS
  <2> HIDE DEF q, m
  <2>4. (~a.last) \in BOOLEAN
    OBVIOUS
  <2>5. QED
    BY <2>2, <2>3, <2>4
<1> HIDE DEF q, m
<1>6. Told(ev, a) \in SearchEvent /\ Told(ev, a).alive = ~a.last /\ Told(ev, a).told = m
  BY <1>4, <1>5 DEF SearchEvent
<1>7. QED
  BY <1>6 DEF m

LEMMA EventEnds ==
    ASSUME NEW ev \in SearchEvent, ev.told = 0
    PROVE  LET f == [ev EXCEPT !.told = @ + 1, !.alive = FALSE]
           IN  f \in SearchEvent /\ ~f.alive /\ f.told = 1
<1>1. PICK r \in SUBSET (Nat \cup Objects), n \in Nat, l \in BOOLEAN :
        ev = [results |-> r, told |-> n, alive |-> l]
  BY DEF SearchEvent
<1> DEFINE one == [ev EXCEPT !.told = @ + 1]
           f == [ev EXCEPT !.told = @ + 1, !.alive = FALSE]
<1>2. one = [results |-> r, told |-> n + 1, alive |-> l]
  BY <1>1
<1>3. f = [one EXCEPT !.alive = FALSE]
  BY Zenon
<1> HIDE DEF one, f
<1>4. f = [results |-> r, told |-> n + 1, alive |-> FALSE]
  BY <1>2, <1>3
<1>5. n + 1 = 1
  BY <1>1
<1>6. f = [results |-> r, told |-> 1, alive |-> FALSE]
  BY <1>4, <1>5
<1>7. f \in SearchEvent
  BY <1>6 DEF SearchEvent
<1>8. ~f.alive /\ f.told = 1
  BY <1>6
<1>9. QED
  BY <1>7, <1>8 DEF f

\* What an answer to a search does to the cache and the events.
LEMMA AnswerKeeps ==
    ASSUME TypeOK, Agree(m_reqidcache, searches), NEW a \in AnswerPacket,
           NEW i \in 1 .. Len(m_reqidcache), m_reqidcache[i].type = "Search",
           NEW s, s = [searches EXCEPT ![m_reqidcache[i].of] = Told(@, a)],
           NEW c, c = IF a.last THEN RemoveAt(m_reqidcache, i) ELSE m_reqidcache
    PROVE  /\ c \in Seq(CacheEntry) /\ s \in Seq(SearchEvent) /\ Len(s) = Len(searches)
           /\ Agree(c, s)
<1> DEFINE k == m_reqidcache[i].of
<1>1. m_reqidcache \in Seq(CacheEntry) /\ searches \in Seq(SearchEvent)
  BY DEF TypeOK
<1>2. k \in 1 .. Len(searches) /\ searches[k].alive /\ searches[k].told = 0
  BY DEF Agree
<1>3. searches[k] \in SearchEvent /\ a.last \in BOOLEAN /\ a.of \in Nat \cup Objects
  BY <1>1, <1>2, ElementOfSeq DEF AnswerPacket
<1> DEFINE t == Told(searches[k], a)
<1>4. /\ t \in SearchEvent
      /\ t.alive = ~a.last /\ t.told = IF a.last THEN 1 ELSE 0
  BY <1>2, <1>3, EventTold
<1> HIDE DEF t
<1>5. /\ s \in Seq(SearchEvent) /\ Len(s) = Len(searches) /\ s[k] = t
      /\ \A j \in 1 .. Len(searches) : j # k => s[j] = searches[j]
  <2>1. s = [searches EXCEPT ![k] = t]
    BY DEF t
  <2>2. QED
    BY <1>1, <1>2, <1>4, <2>1, ExceptSeq
<1>6. CASE a.last
  <2>1. \A j \in 1 .. Len(searches) : IsFor(m_reqidcache, i, j) <=> j = k
    BY DEF IsFor
  <2> HIDE DEF k
  <2>2. \A j \in 1 .. Len(searches) :
          IF IsFor(m_reqidcache, i, j) THEN ~s[j].alive /\ s[j].told = 1
          ELSE s[j].alive = searches[j].alive /\ s[j].told = searches[j].told
    BY <1>4, <1>5, <1>6, <2>1
  <2>3. c = RemoveAt(m_reqidcache, i)
    BY <1>6
  <2>4. c \in Seq(CacheEntry) /\ Agree(c, s)
    BY <1>1, <1>5, <2>2, <2>3, AgreeRemoved
  <2>5. QED
    BY <1>5, <2>4
<1>7. CASE ~a.last
  <2> HIDE DEF k
  <2>1. \A j \in 1 .. Len(searches) : s[j].alive = searches[j].alive /\ s[j].told = searches[j].told
    BY <1>2, <1>4, <1>5, <1>7
  <2>2. c = m_reqidcache
    BY <1>7
  <2>3. QED
    BY <1>1, <1>5, <2>1, <2>2, AgreeResult
<1>8. QED
  BY <1>3, <1>6, <1>7

LEMMA SearchAnswered ==
    ASSUME Inv, down # <<>>, NEW a, a = Head(down), exists(a.id),
           m_reqidcache[Lookup(a.id)].type = "Search", SearchAnswer(a), UNCHANGED <<info, tree>>
    PROVE  Inv'
<1> DEFINE i == Lookup(a.id)
           s == [searches EXCEPT ![m_reqidcache[i].of] = Told(@, a)]
           c == IF a.last THEN RemoveAt(m_reqidcache, i) ELSE m_reqidcache
<1>1. TypeOK /\ Agree(m_reqidcache, searches)
  BY DEF Inv
<1>2. /\ m_reqidcache \in Seq(CacheEntry) /\ searches \in Seq(SearchEvent)
      /\ Len(searches) <= MaxSearches /\ down \in Seq(AnswerPacket)
  BY <1>1 DEF TypeOK
<1>3. a \in AnswerPacket /\ Tail(down) \in Seq(AnswerPacket)
  BY <1>2, HeadTailProperties
<1>4. i \in 1 .. Len(m_reqidcache)
  BY <1>2, LookupFinds
<1>5. /\ c \in Seq(CacheEntry) /\ s \in Seq(SearchEvent) /\ Len(s) = Len(searches)
      /\ Agree(c, s)
  BY <1>1, <1>3, <1>4, AnswerKeeps
<1>6. \/ /\ m_reqidcache' = c /\ searches' = s
         /\ down' = Tail(down)
         /\ UNCHANGED <<m_state, ids, up>>
      \/ /\ \E kind \in Kinds : Started(kind, c, s)
         /\ \E n \in 1 .. Len(down) : down' = SubSeq(down, 2, n)
  BY DEF SearchAnswer
<1> HIDE DEF c, s, i
<1>7. CASE /\ m_reqidcache' = c /\ searches' = s
           /\ down' = Tail(down)
           /\ UNCHANGED <<m_state, ids, up>>
  <2>1. TypeOK'
    BY <1>1, <1>2, <1>3, <1>5, <1>7 DEF TypeOK, ids
  <2>2. QED
    BY <1>5, <1>7, <2>1 DEF Inv
<1>8. CASE /\ \E kind \in Kinds : Started(kind, c, s)
           /\ \E n \in 1 .. Len(down) : down' = SubSeq(down, 2, n)
  <2>1. down' \in Seq(AnswerPacket)
    <3>1. PICK n \in 1 .. Len(down) : down' = SubSeq(down, 2, n)
      BY <1>8
    <3>2. n \in 0 .. Len(down) /\ 2 \in {1, 2}
      BY <1>2, LenProperties
    <3>3. QED
      BY <1>2, <3>1, <3>2, RestOf
  <2>2. PICK kind \in Kinds : Started(kind, c, s)
    BY <1>8
  <2>3. /\ m_state' \in {"BOS_LOGGED_IN", "NOT_CONNECTED"}
        /\ m_requestid' \in 0 .. IdMask /\ given' \in 0 .. MaxIds /\ crossed' \subseteq 0 .. IdMask
        /\ m_reqidcache' \in Seq(CacheEntry)
        /\ searches' \in Seq(SearchEvent) /\ Len(searches') <= MaxSearches
        /\ up' \in Seq(RequestPacket)
        /\ Agree(m_reqidcache', searches')
    BY <1>1, <1>5, <2>2, StartedKeeps
  <2>4. TypeOK'
    BY <1>1, <2>1, <2>3 DEF TypeOK
  <2>5. QED
    BY <2>3, <2>4 DEF Inv
<1>9. QED
  BY <1>6, <1>7, <1>8

LEMMA ResponseHandled ==
    ASSUME Inv, SignalSrvResponse
    PROVE  Inv'
<1> DEFINE a == Head(down)
<1>1. TypeOK /\ Agree(m_reqidcache, searches) /\ down # <<>> /\ UNCHANGED tree
  BY DEF Inv, SignalSrvResponse
<1>2. /\ down \in Seq(AnswerPacket) /\ m_reqidcache \in Seq(CacheEntry)
      /\ info \in [Objects -> Uins \cup {None}]
  BY <1>1 DEF TypeOK
<1>3. a \in AnswerPacket /\ Tail(down) \in Seq(AnswerPacket) /\ a.uin \in Uins \cup {None}
  <2>1. Head(down) \in AnswerPacket /\ Tail(down) \in Seq(AnswerPacket)
    BY <1>1, <1>2, HeadTailProperties
  <2>2. \A b \in AnswerPacket : b.uin \in Uins \cup {None}
    BY DEF AnswerPacket
  <2>3. QED
    BY <2>1, <2>2
<1> DEFINE Quiet ==
        /\ UNCHANGED <<m_state, m_requestid, given, crossed, m_reqidcache, searches, up>>
        /\ down' = Tail(down)
        /\ info' \in [Objects -> Uins \cup {None}]
<1>4. \/ /\ exists(a.id) /\ m_reqidcache[Lookup(a.id)].type = "Search"
         /\ SearchAnswer(a) /\ UNCHANGED info
      \/ UnknownSimple(a)
      \/ Ignored
      \/ /\ info' = [info EXCEPT ![m_reqidcache[Lookup(a.id)].of] = a.uin]
         /\ down' = Tail(down)
         /\ UNCHANGED <<m_state, ids, m_reqidcache, searches, up>>
  BY DEF SignalSrvResponse
<1> HIDE DEF a
<1>5. ASSUME exists(a.id), m_reqidcache[Lookup(a.id)].type = "Search",
             SearchAnswer(a), UNCHANGED info
      PROVE  Inv'
  BY <1>1, <1>5, SearchAnswered DEF a
<1>6. ASSUME UnknownSimple(a) PROVE Quiet
  BY <1>2, <1>3, <1>6 DEF UnknownSimple, ids
<1>7. ASSUME Ignored PROVE Quiet
  BY <1>2, <1>7 DEF Ignored, ids
<1>8. ASSUME info' = [info EXCEPT ![m_reqidcache[Lookup(a.id)].of] = a.uin], down' = Tail(down),
             UNCHANGED <<m_state, ids, m_reqidcache, searches, up>>
      PROVE  Quiet
  BY <1>2, <1>3, <1>8 DEF ids
<1>9. ASSUME Quiet PROVE Inv'
  <2>1. TypeOK'
    BY <1>1, <1>3, <1>9 DEF TypeOK
  <2>2. QED
    BY <1>1, <1>9, <2>1 DEF Inv
<1> HIDE DEF Quiet
<1>10. QED
  BY <1>4, <1>5, <1>6, <1>7, <1>8, <1>9

-----------------------------------------------------------------------------
(* Time, and the rest of the actions.                                       *)

LEMMA OldestExpires ==
    ASSUME Inv, Expire
    PROVE  Inv'
<1> DEFINE e == m_reqidcache[1]
           s == [searches EXCEPT ![e.of].told = @ + 1, ![e.of].alive = FALSE]
           c == RemoveAt(m_reqidcache, 1)
           t == IF e.type = "Search" THEN s ELSE searches
<1>1. TypeOK /\ Agree(m_reqidcache, searches) /\ m_reqidcache # <<>> /\ UNCHANGED <<tree, info>>
  BY DEF Inv, Expire
<1>2. /\ m_reqidcache \in Seq(CacheEntry) /\ searches \in Seq(SearchEvent)
      /\ Len(searches) <= MaxSearches /\ down \in Seq(AnswerPacket)
  BY <1>1 DEF TypeOK
<1>3. /\ 1 \in 1 .. Len(m_reqidcache)
      /\ Tail(m_reqidcache) = c /\ Head(m_reqidcache) = e
  BY <1>1, <1>2, TailRemoves
<1>4. /\ t \in Seq(SearchEvent) /\ Len(t) = Len(searches)
      /\ \A k \in 1 .. Len(searches) :
           IF IsFor(m_reqidcache, 1, k) THEN ~t[k].alive /\ t[k].told = 1
           ELSE t[k].alive = searches[k].alive /\ t[k].told = searches[k].told
  <2>1. CASE e.type = "Search"
    <3> DEFINE k == e.of
               f == [searches[k] EXCEPT !.told = @ + 1, !.alive = FALSE]
    <3>1. k \in 1 .. Len(searches) /\ searches[k].alive /\ searches[k].told = 0
      BY <1>1, <1>3, <2>1 DEF Agree
    <3>2. searches[k] \in SearchEvent
      BY <1>2, <3>1, ElementOfSeq
    <3>3. f \in SearchEvent /\ ~f.alive /\ f.told = 1
      BY <3>1, <3>2, EventEnds
    <3>4. t = [searches EXCEPT ![k] = f]
      <4> DEFINE one == [searches EXCEPT ![k].told = @ + 1]
                 g == [searches[k] EXCEPT !.told = @ + 1]
      <4> HIDE DEF k
      <4>1. one = [searches EXCEPT ![k] = g]
        OBVIOUS
      <4>2. one[k] = g
        BY <1>2, <3>1, <4>1, LenProperties
      <4>3. [one EXCEPT ![k].alive = FALSE] = [one EXCEPT ![k] = [g EXCEPT !.alive = FALSE]]
        BY <4>2
      <4> HIDE DEF g
      <4>4. [one EXCEPT ![k] = [g EXCEPT !.alive = FALSE]] = [searches EXCEPT ![k] = [g EXCEPT !.alive = FALSE]]
        BY <4>1
      <4>5. QED
        BY <2>1, <4>3, <4>4 DEF g, k
    <3> HIDE DEF f, t
    <3>5. /\ t \in Seq(SearchEvent) /\ Len(t) = Len(searches) /\ t[k] = f
          /\ \A j \in 1 .. Len(searches) : j # k => t[j] = searches[j]
      BY <1>2, <3>1, <3>3, <3>4, ExceptSeq
    <3>6. \A j \in 1 .. Len(searches) : IsFor(m_reqidcache, 1, j) <=> j = k
      BY <2>1 DEF IsFor
    <3>7. QED
      BY <3>3, <3>5, <3>6
  <2>2. CASE e.type # "Search"
    BY <1>2, <2>2 DEF IsFor
  <2>3. QED
    BY <2>1, <2>2
<1>5. c \in Seq(CacheEntry) /\ Agree(c, t)
  <2> HIDE DEF c, t
  <2>1. c = RemoveAt(m_reqidcache, 1)
    BY DEF c
  <2>2. QED
    BY <1>1, <1>2, <1>3, <1>4, <2>1, AgreeRemoved
<1>6. \/ /\ m_reqidcache' = c /\ searches' = t
         /\ UNCHANGED <<m_state, ids, wires>>
      \/ /\ \E kind \in Kinds : Started(kind, c, t)
         /\ KeepsReceived
  <2> HIDE DEF c
  <2>1. QED
    BY <1>3 DEF Expire
<1> HIDE DEF c, t
<1>7. CASE m_reqidcache' = c /\ searches' = t /\ UNCHANGED <<m_state, ids, wires>>
  <2>1. TypeOK'
    BY <1>1, <1>2, <1>4, <1>5, <1>7 DEF TypeOK, ids, wires
  <2>2. QED
    BY <1>5, <1>7, <2>1 DEF Inv
<1>8. CASE /\ \E kind \in Kinds : Started(kind, c, t)
           /\ KeepsReceived
  <2>1. down' \in Seq(AnswerPacket)
    BY <1>2, <1>8, ReceivedKept
  <2>2. PICK kind \in Kinds : Started(kind, c, t)
    BY <1>8
  <2>3. /\ m_state' \in {"BOS_LOGGED_IN", "NOT_CONNECTED"}
        /\ m_requestid' \in 0 .. IdMask /\ given' \in 0 .. MaxIds /\ crossed' \subseteq 0 .. IdMask
        /\ m_reqidcache' \in Seq(CacheEntry)
        /\ searches' \in Seq(SearchEvent) /\ Len(searches') <= MaxSearches
        /\ up' \in Seq(RequestPacket)
        /\ Agree(m_reqidcache', searches')
    BY <1>1, <1>4, <1>5, <2>2, StartedKeeps
  <2>4. TypeOK'
    BY <1>1, <2>1, <2>3 DEF TypeOK
  <2>5. QED
    BY <2>3, <2>4 DEF Inv
<1>9. QED
  BY <1>6, <1>7, <1>8

\* The actions that leave cache and events alone.
LEMMA OthersKeep ==
    ASSUME Inv,
           \/ \E o \in Objects : addContact(o) \/ removeContact(o)
           \/ setRandomChatGroup \/ Connect \/ Disconnect
           \/ UNCHANGED vars
    PROVE  Inv'
<1>1. TypeOK /\ Agree(m_reqidcache, searches)
  BY DEF Inv
<1>2. m_reqidcache' = m_reqidcache /\ searches' = searches
  BY DEF addContact, removeContact, setRandomChatGroup, Connect, Disconnect, vars
<1>3. TypeOK'
  <2>1. CASE \E o \in Objects : addContact(o) \/ removeContact(o)
    BY <1>1, <2>1 DEF TypeOK, addContact, removeContact, ids, wires
  <2>2. CASE setRandomChatGroup
    BY <1>1, <2>2, GivenOutType DEF TypeOK, setRandomChatGroup, wires
  <2>3. CASE Connect
    BY <1>1, <2>3, StartsIds DEF TypeOK, Connect, wires
  <2>4. CASE Disconnect
    BY <1>1, <2>4, EmptySeq, ReceivedKept DEF TypeOK, Disconnect, Disconnected, ids
  <2>5. CASE UNCHANGED vars
    BY <1>1, <2>5 DEF TypeOK, vars, ids, wires
  <2>6. QED
    BY <2>1, <2>2, <2>3, <2>4, <2>5
<1>4. QED
  BY <1>1, <1>2, <1>3 DEF Inv

LEMMA InitInv == Init => Inv
<1>1. ASSUME Init PROVE TypeOK
  BY <1>1, EmptySeq, StartsIds, BoundsNat DEF Init, TypeOK
<1>2. ASSUME Init PROVE Agree(m_reqidcache, searches)
  BY <1>2, EmptySeq DEF Init, Agree
<1>3. QED
  BY <1>1, <1>2 DEF Inv

LEMMA NextInv == Inv /\ [Next]_vars => Inv'
<1> SUFFICES ASSUME Inv, [Next]_vars PROVE Inv'
  OBVIOUS
<1>1. ASSUME NEW kind \in Kinds, searchForContacts(kind) PROVE Inv'
  BY <1>1, SearchBegins
<1>2. ASSUME NEW o \in Objects, fetchDetailContactInfo(o) PROVE Inv'
  BY <1>2, DetailAsked
<1>3. ASSUME NEW o \in Objects, fetchSimpleContactInfo(o) PROVE Inv'
  BY <1>3, SimpleAsked
<1>4. CASE ServerAnswers \/ ServerIgnores
  BY <1>4, ServerMoves
<1>5. CASE SignalSrvResponse
  BY <1>5, ResponseHandled
<1>6. CASE Expire
  BY <1>6, OldestExpires
<1>7. ASSUME \/ \E o \in Objects : addContact(o) \/ removeContact(o)
             \/ setRandomChatGroup \/ Connect \/ Disconnect \/ UNCHANGED vars
      PROVE  Inv'
  BY <1>7, OthersKeep
<1>8. QED
  BY <1>1, <1>2, <1>3, <1>4, <1>5, <1>6, <1>7 DEF Next

-----------------------------------------------------------------------------
(* Whose answer it is. The cache has an id for what the packets with that   *)
(* id are for, unless the id is crossed.                                    *)

Matched(c, q, X) ==
    \A j \in 1 .. Len(q) : q[j].id \notin X =>
        \A i \in 1 .. Len(c) : c[i].id = q[j].id => c[i].of = q[j].of

DetailsRight(q) == \A j \in 1 .. Len(q) : q[j].kind = "Detail" => q[j].uin = UinOf[q[j].of]

IdsInv == Matched(m_reqidcache, up, crossed) /\ Matched(m_reqidcache, down, crossed)

\* The inductive invariant, with Inv.
OwnRest == IdsInv /\ DetailsRight(down)

LEMMA FromParts ==
    ASSUME NEW S, NEW q \in Seq(S)
    PROVE  /\ From(q, q) /\ From(<<>>, q)
           /\ q # <<>> => From(Tail(q), q) /\ 1 \in 1 .. Len(q) /\ Head(q) = q[1]
           /\ \A n \in 1 .. Len(q) : From(SubSeq(q, 2, n), q)
           /\ \A i \in 1 .. Len(q) : From(RemoveAt(q, i), q)
<1>1. Len(q) \in Nat /\ \A j \in 1 .. Len(q) : q[j] \in S
  BY ElementOfSeq, LenProperties
<1>2. From(q, q) /\ From(<<>>, q)
  BY EmptySeq DEF From
<1>3. \A i \in 1 .. Len(q) : From(RemoveAt(q, i), q)
  <2>1. SUFFICES ASSUME NEW i \in 1 .. Len(q), NEW j \in 1 .. Len(RemoveAt(q, i))
                 PROVE  \E k \in 1 .. Len(q) : RemoveAt(q, i)[j] = q[k]
    BY DEF From
  <2>2. Len(RemoveAt(q, i)) = Len(q) - 1 /\ RemoveAt(q, i)[j] = IF j < i THEN q[j] ELSE q[j + 1]
    BY <2>1, RemoveAtProperties
  <2>3. j \in 1 .. Len(q) /\ j + 1 \in 1 .. Len(q)
    BY <1>1, <2>2
  <2>4. QED
    BY <2>2, <2>3
<1>4. \A n \in 1 .. Len(q) : From(SubSeq(q, 2, n), q)
  <2>1. \A n \in 1 .. Len(q) : n \in 0 .. Len(q)
    BY <1>1
  <2>2. 2 \in {1, 2}
    OBVIOUS
  <2>3. QED
    BY <2>1, <2>2, RestOf
<1>5. q # <<>> => From(Tail(q), q) /\ 1 \in 1 .. Len(q) /\ Head(q) = q[1]
  BY <1>3, TailRemoves
<1>6. QED
  BY <1>2, <1>3, <1>4, <1>5

\* Entries that go and packets that are read leave the others as they were.
LEMMA LessMatched ==
    ASSUME NEW c, NEW d, NEW p, NEW q, NEW X, NEW Y, X \subseteq Y,
           Matched(c, q, X), From(d, c), From(p, q)
    PROVE  Matched(d, p, Y)
<1>1. SUFFICES ASSUME NEW j \in 1 .. Len(p), p[j].id \notin Y,
                      NEW i \in 1 .. Len(d), d[i].id = p[j].id
               PROVE  d[i].of = p[j].of
  BY DEF Matched
<1>2. PICK k \in 1 .. Len(q) : p[j] = q[k]
  BY DEF From
<1>3. PICK l \in 1 .. Len(c) : d[i] = c[l]
  BY DEF From
<1>4. QED
  BY <1>1, <1>2, <1>3 DEF Matched

\* An entry under another id than the packets', or under a crossed one.
LEMMA EntryAdded ==
    ASSUME NEW c \in Seq(CacheEntry), NEW e \in CacheEntry, NEW q, NEW X, NEW Y,
           Matched(c, q, X), X \ {e.id} \subseteq Y,
           e.id \in Y \/ \A j \in 1 .. Len(q) : q[j].id # e.id
    PROVE  Matched(Append(c, e), q, Y)
<1> DEFINE d == Append(c, e)
<1>1. /\ Len(c) \in Nat /\ Len(d) = Len(c) + 1
      /\ \A i \in 1 .. Len(c) : d[i] = c[i]
      /\ d[Len(c) + 1] = e
  BY AppendProperties, LenProperties
<1> HIDE DEF d
<1>2. ASSUME NEW j \in 1 .. Len(q), q[j].id \notin Y, NEW i \in 1 .. Len(d), d[i].id = q[j].id
      PROVE  d[i].of = q[j].of
  <2>1. q[j].id # e.id /\ q[j].id \notin X
    BY <1>2
  <2>2. i # Len(c) + 1
    BY <1>1, <1>2, <2>1
  <2>3. i \in 1 .. Len(c)
    BY <1>1, <2>2
  <2>4. QED
    BY <1>1, <1>2, <2>1, <2>3 DEF Matched
<1>3. QED
  BY <1>2 DEF Matched, d

LEMMA PacketAdded ==
    ASSUME NEW c, NEW Q, NEW q \in Seq(Q), NEW p \in Q, NEW X, Matched(c, q, X),
           p.id \in X \/ \A i \in 1 .. Len(c) : c[i].id = p.id => c[i].of = p.of
    PROVE  Matched(c, Append(q, p), X)
<1>1. /\ Len(q) \in Nat /\ Len(Append(q, p)) = Len(q) + 1
      /\ \A i \in 1 .. Len(q) : Append(q, p)[i] = q[i]
      /\ Append(q, p)[Len(q) + 1] = p
  BY AppendProperties, LenProperties
<1>2. \A j \in 1 .. Len(q) + 1 : j \in 1 .. Len(q) \/ j = Len(q) + 1
  BY <1>1
<1>3. QED
  BY <1>1, <1>2 DEF Matched

LEMMA NoneMatched ==
    ASSUME NEW c, NEW X PROVE Matched(c, <<>>, X) /\ DetailsRight(<<>>)
  BY EmptySeq DEF Matched, DetailsRight

\* The packets that the client has not read yet, or none.
LEMMA DownLess ==
    ASSUME NEW q, NEW d \in Seq(AnswerPacket), DetailsRight(d), From(q, d)
    PROVE  DetailsRight(q)
  BY DEF DetailsRight, From

\* Nothing was removed of what the variables had.
LEMMA Same ==
    ASSUME TypeOK
    PROVE  /\ From(m_reqidcache, m_reqidcache) /\ From(up, up) /\ From(down, down)
           /\ From(<<>>, up) /\ From(<<>>, down)
           /\ down \in Seq(AnswerPacket) /\ up \in Seq(RequestPacket)
           /\ m_reqidcache \in Seq(CacheEntry) /\ searches \in Seq(SearchEvent)
<1>1. /\ down \in Seq(AnswerPacket) /\ up \in Seq(RequestPacket)
      /\ m_reqidcache \in Seq(CacheEntry) /\ searches \in Seq(SearchEvent)
  BY DEF TypeOK
<1>2. QED
  BY <1>1, FromParts

LEMMA Quietly ==
    ASSUME OwnRest, crossed \subseteq crossed', TypeOK,
           From(m_reqidcache', m_reqidcache), From(up', up), From(down', down)
    PROVE  OwnRest'
<1>1. Matched(m_reqidcache', up', crossed') /\ Matched(m_reqidcache', down', crossed')
  BY LessMatched DEF OwnRest, IdsInv
<1>2. DetailsRight(down')
  BY Same, DownLess DEF OwnRest
<1>3. QED
  BY <1>1, <1>2 DEF OwnRest, IdsInv

\* The next id is crossed if an entry or a packet has it.
LEMMA TakenCrosses ==
    ASSUME TypeOK, Taken, NEW c, From(c, m_reqidcache)
    PROVE  /\ crossed \ {NextRequestID} \subseteq crossed'
           /\ \/ NextRequestID \in crossed'
              \/ /\ \A i \in 1 .. Len(c) : c[i].id # NextRequestID
                 /\ \A j \in 1 .. Len(up) : up[j].id # NextRequestID
                 /\ \A j \in 1 .. Len(down) : down[j].id # NextRequestID
<1> DEFINE id == NextRequestID
           used == exists(id) \/ \E p \in ToSet(up) \cup ToSet(down) : p.id = id
<1>1. crossed' = IF used THEN crossed \cup {id} ELSE crossed \ {id}
  BY DEF Taken
<1>2. CASE used
  BY <1>1, <1>2
<1>3. CASE ~used
  <2>1. ~exists(id) /\ \A p \in ToSet(up) \cup ToSet(down) : p.id # id
    BY <1>3
  <2>2. /\ DOMAIN m_reqidcache = 1 .. Len(m_reqidcache)
        /\ DOMAIN up = 1 .. Len(up) /\ DOMAIN down = 1 .. Len(down)
    BY Same, LenProperties
  <2>3. \A i \in 1 .. Len(m_reqidcache) : m_reqidcache[i].id # id
    BY <2>1, <2>2 DEF exists, Entries
  <2>4. \A i \in 1 .. Len(c) : c[i].id # id
    BY <2>3 DEF From
  <2>5. \A j \in 1 .. Len(up) : up[j].id # id
    BY <2>1, <2>2 DEF ToSet
  <2>6. \A j \in 1 .. Len(down) : down[j].id # id
    BY <2>1, <2>2 DEF ToSet
  <2>7. QED
    BY <1>1, <1>3, <2>4, <2>5, <2>6
<1>4. QED
  BY <1>2, <1>3

\* A new request: its entry and its packet, if it is sent, have the same id.
LEMMA Asks ==
    ASSUME TypeOK, OwnRest, Taken,
           NEW c \in Seq(CacheEntry), From(c, m_reqidcache),
           NEW e \in CacheEntry, NEW p \in RequestPacket,
           e.id = NextRequestID, p.id = NextRequestID, e.of = p.of,
           m_reqidcache' = Append(c, e), Send(p), From(down', down)
    PROVE  OwnRest'
<1> DEFINE id == NextRequestID
           d == Append(c, e)
<1>1. /\ crossed \ {id} \subseteq crossed'
      /\ \/ id \in crossed'
         \/ /\ \A i \in 1 .. Len(c) : c[i].id # id
            /\ \A j \in 1 .. Len(up) : up[j].id # id
            /\ \A j \in 1 .. Len(down) : down[j].id # id
  BY TakenCrosses
<1>2. Matched(c, up, crossed) /\ Matched(c, down, crossed)
  BY Same, LessMatched DEF OwnRest, IdsInv
<1>3. Matched(d, up, crossed')
  BY <1>1, <1>2, EntryAdded
<1>4. Matched(d, down, crossed')
  BY <1>1, <1>2, EntryAdded
<1>5. p.id \in crossed' \/ \A i \in 1 .. Len(d) : d[i].id = p.id => d[i].of = p.of
  <2>1. /\ Len(c) \in Nat /\ Len(d) = Len(c) + 1
        /\ \A i \in 1 .. Len(c) : d[i] = c[i]
        /\ d[Len(c) + 1] = e
    BY AppendProperties, LenProperties
  <2> HIDE DEF d
  <2>2. \A i \in 1 .. Len(d) : i \in 1 .. Len(c) \/ i = Len(c) + 1
    BY <2>1
  <2>3. QED
    BY <1>1, <2>1, <2>2
<1>6. d \in Seq(CacheEntry)
  BY AppendProperties
<1> HIDE DEF d
<1>7. Matched(d, Append(up, p), crossed')
  BY <1>3, <1>5, Same, PacketAdded
<1>8. Matched(d, up', crossed')
  <2>1. up' = Append(up, p) \/ up' = <<>>
    BY DEF Send, Disconnected
  <2>2. QED
    BY <1>7, <2>1, NoneMatched
<1>9. Matched(d, down', crossed')
  <2>1. From(d, d)
    BY <1>6, FromParts
  <2>2. QED
    BY <1>4, <2>1, LessMatched
<1>10. DetailsRight(down')
  BY Same, DownLess DEF OwnRest
<1>11. QED
  BY <1>8, <1>9, <1>10 DEF OwnRest, IdsInv, d

\* A search that begins while the cache is c and the events are s.
LEMMA StartedOwn ==
    ASSUME TypeOK, OwnRest, NEW c \in Seq(CacheEntry), From(c, m_reqidcache),
           NEW s \in Seq(SearchEvent), NEW kind \in Kinds, Started(kind, c, s), From(down', down)
    PROVE  OwnRest'
<1> DEFINE e == [id |-> NextRequestID, type |-> "Search", of |-> Len(s) + 1]
           p == [id |-> NextRequestID, kind |-> kind, of |-> Len(s) + 1]
<1>1. /\ Len(s) \in Nat /\ Len(s) < MaxSearches /\ Taken
      /\ m_reqidcache' = Append(c, e) /\ Send(p)
  BY LenProperties DEF Started
<1>2. NextRequestID \in 0 .. IdMask /\ NextRequestID \in Nat
  BY NextIdType, StartsIds DEF TypeOK
<1>3. Len(s) + 1 \in 1 .. MaxSearches /\ Len(s) + 1 \in Nat
  BY <1>1, BoundsNat
<1>4. e \in CacheEntry /\ p \in RequestPacket
  BY <1>2, <1>3 DEF CacheEntry, RequestPacket
<1>5. e.id = NextRequestID /\ p.id = NextRequestID /\ e.of = p.of
  OBVIOUS
<1> HIDE DEF e, p
<1>6. QED
  BY <1>1, <1>4, <1>5, Asks

-----------------------------------------------------------------------------
(* Every action keeps the answers with their requests.                      *)

LEMMA SearchBeginsOwn ==
    ASSUME TypeOK, OwnRest, NEW kind \in Kinds, searchForContacts(kind)
    PROVE  OwnRest'
<1>1. Started(kind, m_reqidcache, searches) /\ From(down', down)
  BY Same, ReceivedKept DEF searchForContacts
<1>2. QED
  BY <1>1, Same, StartedOwn

LEMMA DetailAskedOwn ==
    ASSUME TypeOK, OwnRest, NEW o \in Objects, fetchDetailContactInfo(o)
    PROVE  OwnRest'
<1> DEFINE e == [id |-> NextRequestID, type |-> "UserInfo", of |-> o]
           p == [id |-> NextRequestID, kind |-> "Detail", of |-> o]
<1>1. /\ Taken /\ m_reqidcache' = Append(m_reqidcache, e) /\ Send(p) /\ From(down', down)
  BY Same, ReceivedKept DEF fetchDetailContactInfo
<1>2. NextRequestID \in 0 .. IdMask /\ NextRequestID \in Nat
  BY NextIdType, StartsIds DEF TypeOK
<1>3. e \in CacheEntry /\ p \in RequestPacket
  BY <1>2 DEF CacheEntry, RequestPacket
<1>4. e.id = NextRequestID /\ p.id = NextRequestID /\ e.of = p.of
  OBVIOUS
<1> HIDE DEF e, p
<1>5. QED
  BY <1>1, <1>3, <1>4, Same, Asks

\* The id 0 of a new SNAC may be in the cache: then it is crossed.
LEMMA SimpleAskedOwn ==
    ASSUME TypeOK, OwnRest, NEW o \in Objects, fetchSimpleContactInfo(o)
    PROVE  OwnRest'
<1> DEFINE p == [id |-> 0, kind |-> "Simple", of |-> o]
<1>1. /\ Send(p) /\ From(down', down) /\ m_reqidcache' = m_reqidcache
      /\ crossed' = IF exists(0) THEN crossed \cup {0} ELSE crossed
  BY Same, ReceivedKept DEF fetchSimpleContactInfo
<1>2. p \in RequestPacket /\ p.id = 0
  BY DEF RequestPacket
<1> HIDE DEF p
<1>3. crossed \subseteq crossed'
  BY <1>1
<1>4. 0 \in crossed' \/ \A i \in 1 .. Len(m_reqidcache) : m_reqidcache[i].id # 0
  <2>1. DOMAIN m_reqidcache = 1 .. Len(m_reqidcache)
    BY Same, LenProperties
  <2>2. QED
    BY <1>1, <2>1 DEF exists, Entries
<1>5. Matched(m_reqidcache, up, crossed')
  BY <1>3, Same, LessMatched DEF OwnRest, IdsInv
<1>6. Matched(m_reqidcache, Append(up, p), crossed')
  BY <1>2, <1>4, <1>5, Same, PacketAdded
<1>7. Matched(m_reqidcache, up', crossed')
  <2>1. up' = Append(up, p) \/ up' = <<>>
    BY <1>1 DEF Send, Disconnected
  <2>2. QED
    BY <1>6, <2>1, NoneMatched
<1>8. Matched(m_reqidcache, down', crossed') /\ DetailsRight(down')
  BY <1>1, <1>3, Same, LessMatched, DownLess DEF OwnRest, IdsInv
<1>9. QED
  BY <1>1, <1>7, <1>8 DEF OwnRest, IdsInv

LEMMA AnswersOwn ==
    ASSUME NEW p \in RequestPacket, NEW a \in AnswersTo(p) \cup PartsOf(p)
    PROVE  a.id = p.id /\ a.of = p.of /\ (a.kind = "Detail" => a.uin = UinOf[a.of])
<1>1. \A kind, uin, last :
        LET b == Answer(p, kind, uin, last)
        IN  b.id = p.id /\ b.of = p.of /\ b.kind = kind /\ b.uin = uin
  BY DEF Answer
<1>2. p.kind \in {"Whitepage", "UIN", "RandomChat", "Simple", "Detail"}
  BY DEF RequestPacket, Kinds
<1>3. CASE p.kind = "Whitepage"
  <2>1. \E uin, last : a = Answer(p, "SearchUI", uin, last)
    BY <1>3 DEF AnswersTo, PartsOf
  <2>2. QED
    BY <1>1, <2>1
<1>4. CASE p.kind = "UIN" \/ p.kind = "Simple"
  <2>1. \E uin, last : a = Answer(p, "SimpleUI", uin, last)
    BY <1>4 DEF AnswersTo, PartsOf
  <2>2. QED
    BY <1>1, <2>1
<1>5. CASE p.kind = "RandomChat"
  <2>1. \E uin, last : a = Answer(p, "RandomChatFound", uin, last)
    BY <1>5 DEF AnswersTo, PartsOf
  <2>2. QED
    BY <1>1, <2>1
<1>6. CASE p.kind = "Detail"
  <2>1. \E last : a = Answer(p, "Detail", UinOf[p.of], last)
    BY <1>6 DEF AnswersTo, PartsOf
  <2>2. QED
    BY <1>1, <2>1
<1>7. QED
  BY <1>2, <1>3, <1>4, <1>5, <1>6

LEMMA ServerOwn ==
    ASSUME TypeOK, OwnRest, ServerAnswers \/ ServerIgnores
    PROVE  OwnRest'
<1>1. up # <<>> /\ UNCHANGED <<crossed, m_reqidcache>> /\ (up' = up \/ up' = Tail(up))
  BY DEF ServerAnswers, ServerIgnores, ids
<1>2. From(up', up) /\ 1 \in 1 .. Len(up) /\ Head(up) = up[1]
  BY <1>1, Same, FromParts
<1>3. up[1] \in RequestPacket
  BY <1>2, Same, ElementOfSeq
<1>4. Matched(m_reqidcache, up', crossed)
  BY <1>2, Same, LessMatched DEF OwnRest, IdsInv
<1>5. Matched(m_reqidcache, down', crossed) /\ DetailsRight(down')
  <2>1. CASE down' = down
    BY <2>1 DEF OwnRest, IdsInv
  <2>2. ASSUME NEW a \in AnswersTo(up[1]) \cup PartsOf(up[1]), down' = Append(down, a)
        PROVE  Matched(m_reqidcache, down', crossed) /\ DetailsRight(down')
    <3>1. a \in AnswerPacket /\ a.id = up[1].id /\ a.of = up[1].of
          /\ (a.kind = "Detail" => a.uin = UinOf[a.of])
      BY <1>3, AnswerType, AnswersOwn
    <3>2. \/ up[1].id \in crossed
          \/ \A i \in 1 .. Len(m_reqidcache) : m_reqidcache[i].id = up[1].id => m_reqidcache[i].of = up[1].of
      BY <1>2 DEF OwnRest, IdsInv, Matched
    <3>3. Matched(m_reqidcache, Append(down, a), crossed)
      BY <3>1, <3>2, Same, PacketAdded DEF OwnRest, IdsInv
    <3>4. DetailsRight(Append(down, a))
      <4>1. /\ Len(down) \in Nat /\ Len(Append(down, a)) = Len(down) + 1
            /\ \A i \in 1 .. Len(down) : Append(down, a)[i] = down[i]
            /\ Append(down, a)[Len(down) + 1] = a
        BY <3>1, Same, AppendProperties, LenProperties
      <4>2. \A j \in 1 .. Len(down) + 1 : j \in 1 .. Len(down) \/ j = Len(down) + 1
        BY <4>1
      <4>3. QED
        BY <3>1, <4>1, <4>2 DEF OwnRest, DetailsRight
    <3>5. QED
      BY <2>2, <3>3, <3>4
  <2>3. down' = down \/ \E a \in AnswersTo(up[1]) \cup PartsOf(up[1]) : down' = Append(down, a)
    BY <1>2 DEF ServerAnswers, ServerIgnores
  <2>4. QED
    BY <2>1, <2>2, <2>3
<1>6. QED
  BY <1>1, <1>4, <1>5 DEF OwnRest, IdsInv

LEMMA SearchAnsweredOwn ==
    ASSUME Inv, OwnRest, down # <<>>, NEW a, a = Head(down), exists(a.id),
           m_reqidcache[Lookup(a.id)].type = "Search", SearchAnswer(a)
    PROVE  OwnRest'
<1> DEFINE i == Lookup(a.id)
           s == [searches EXCEPT ![m_reqidcache[i].of] = Told(@, a)]
           c == IF a.last THEN RemoveAt(m_reqidcache, i) ELSE m_reqidcache
<1>1. TypeOK /\ Agree(m_reqidcache, searches)
  BY DEF Inv
<1>2. i \in 1 .. Len(m_reqidcache) /\ a \in AnswerPacket
  <2>1. a \in AnswerPacket
    BY <1>1, Same, HeadTailProperties
  <2>2. i \in 1 .. Len(m_reqidcache)
    BY <1>1, Same, LookupFinds
  <2>3. QED
    BY <2>1, <2>2
<1>3. c \in Seq(CacheEntry) /\ s \in Seq(SearchEvent)
  BY <1>1, <1>2, AnswerKeeps
<1>4. From(c, m_reqidcache)
  BY <1>1, <1>2, Same, FromParts
<1>5. \/ /\ m_reqidcache' = c /\ searches' = s
         /\ down' = Tail(down)
         /\ UNCHANGED <<m_state, ids, up>>
      \/ /\ \E kind \in Kinds : Started(kind, c, s)
         /\ \E n \in 1 .. Len(down) : down' = SubSeq(down, 2, n)
  BY DEF SearchAnswer
<1> HIDE DEF c, s, i
<1>6. From(down', down)
  BY <1>1, <1>5, Same, FromParts
<1>7. CASE m_reqidcache' = c /\ UNCHANGED <<m_state, ids, up>>
  BY <1>1, <1>4, <1>6, <1>7, Same, Quietly DEF ids
<1>8. ASSUME NEW kind \in Kinds, Started(kind, c, s) PROVE OwnRest'
  BY <1>1, <1>3, <1>4, <1>6, <1>8, StartedOwn
<1>9. QED
  BY <1>5, <1>7, <1>8

LEMMA ResponseOwn ==
    ASSUME Inv, OwnRest, SignalSrvResponse
    PROVE  OwnRest'
<1> DEFINE a == Head(down)
<1>1. TypeOK /\ down # <<>>
  BY DEF Inv, SignalSrvResponse
<1>2. \/ exists(a.id) /\ m_reqidcache[Lookup(a.id)].type = "Search" /\ SearchAnswer(a)
      \/ UNCHANGED <<ids, m_reqidcache, up>> /\ down' = Tail(down)
  BY DEF SignalSrvResponse, UnknownSimple, Ignored
<1>3. CASE UNCHANGED <<ids, m_reqidcache, up>> /\ down' = Tail(down)
  <2>1. From(down', down)
    BY <1>1, <1>3, Same, FromParts
  <2>2. QED
    BY <1>1, <1>3, <2>1, Same, Quietly DEF ids
<1>4. CASE exists(a.id) /\ m_reqidcache[Lookup(a.id)].type = "Search" /\ SearchAnswer(a)
  BY <1>1, <1>4, SearchAnsweredOwn
<1>5. QED
  BY <1>2, <1>3, <1>4

\* The events after one has ended: their results are what they were.
Ended(s, k) == [s EXCEPT ![k].told = @ + 1, ![k].alive = FALSE]

LEMMA EndedResults ==
    ASSUME NEW s \in Seq(SearchEvent), NEW k \in 1 .. Len(s), NEW t, t = Ended(s, k)
    PROVE  /\ t \in Seq(SearchEvent) /\ Len(t) = Len(s)
           /\ \A j \in 1 .. Len(s) : t[j].results = s[j].results
<1>1. s[k] \in SearchEvent /\ Len(s) \in Nat /\ DOMAIN s = 1 .. Len(s)
  BY ElementOfSeq, LenProperties
<1> DEFINE f == [s[k] EXCEPT !.told = @ + 1, !.alive = FALSE]
           g == [s[k] EXCEPT !.told = @ + 1]
           one == [s EXCEPT ![k].told = @ + 1]
<1>2. PICK r \in SUBSET (Nat \cup Objects), n \in Nat, l \in BOOLEAN :
        s[k] = [results |-> r, told |-> n, alive |-> l]
  BY <1>1 DEF SearchEvent
<1>3. g = [results |-> r, told |-> n + 1, alive |-> l]
  BY <1>2
<1>4. f = [g EXCEPT !.alive = FALSE]
  OBVIOUS
<1> USE DEF Ended
<1>5. t = [s EXCEPT ![k] = f]
  <2>1. one = [s EXCEPT ![k] = g]
    OBVIOUS
  <2>2. one[k] = g
    BY <1>1, <2>1
  <2>3. [one EXCEPT ![k].alive = FALSE] = [one EXCEPT ![k] = [g EXCEPT !.alive = FALSE]]
    BY <2>2
  <2> HIDE DEF g
  <2>4. [one EXCEPT ![k] = [g EXCEPT !.alive = FALSE]] = [s EXCEPT ![k] = [g EXCEPT !.alive = FALSE]]
    BY <2>1
  <2>5. QED
    BY <2>3, <2>4 DEF g
<1> HIDE DEF f, g, one
<1>6. f = [results |-> r, told |-> n + 1, alive |-> FALSE]
  BY <1>3, <1>4
<1>7. f \in SearchEvent /\ f.results = s[k].results
  BY <1>2, <1>6 DEF SearchEvent
<1>8. /\ t \in Seq(SearchEvent) /\ Len(t) = Len(s) /\ t[k] = f
      /\ \A j \in 1 .. Len(s) : j # k => t[j] = s[j]
  <2> DEFINE u == [s EXCEPT ![k] = f]
  <2>1. u \in Seq(SearchEvent) /\ Len(u) = Len(s) /\ \A j \in 1 .. Len(s) : u[j] = IF j = k THEN f ELSE s[j]
    BY <1>7, ExceptSeq
  <2> HIDE DEF u
  <2>2. t = u
    BY <1>5 DEF u
  <2>3. QED
    BY <2>1, <2>2
<1>9. QED
  BY <1>7, <1>8

\* What a sweep has done when the slots of an expired search are called.
LEMMA Swept ==
    ASSUME Inv, Expire
    PROVE  \E c, t :
             /\ c \in Seq(CacheEntry) /\ From(c, m_reqidcache)
             /\ t \in Seq(SearchEvent) /\ Len(t) = Len(searches)
             /\ \A j \in 1 .. Len(searches) : t[j].results = searches[j].results
             /\ \/ m_reqidcache' = c /\ searches' = t /\ UNCHANGED <<m_state, ids, wires>>
                \/ (\E kind \in Kinds : Started(kind, c, t)) /\ KeepsReceived
<1> DEFINE e == Head(m_reqidcache)
           s == [searches EXCEPT ![e.of].told = @ + 1, ![e.of].alive = FALSE]
           c == Tail(m_reqidcache)
           t == IF e.type = "Search" THEN s ELSE searches
<1>1. TypeOK /\ Agree(m_reqidcache, searches) /\ m_reqidcache # <<>>
  BY DEF Inv, Expire
<1>2. 1 \in 1 .. Len(m_reqidcache) /\ e = m_reqidcache[1] /\ From(c, m_reqidcache) /\ c \in Seq(CacheEntry)
  BY <1>1, Same, FromParts, HeadTailProperties
<1>3. /\ t \in Seq(SearchEvent) /\ Len(t) = Len(searches)
      /\ \A j \in 1 .. Len(searches) : t[j].results = searches[j].results
  <2>1. CASE e.type = "Search"
    <3>1. e.of \in 1 .. Len(searches)
      BY <1>1, <1>2, <2>1 DEF Agree
    <3>2. searches \in Seq(SearchEvent)
      BY <1>1, Same
    <3>3. /\ s \in Seq(SearchEvent) /\ Len(s) = Len(searches)
          /\ \A j \in 1 .. Len(searches) : s[j].results = searches[j].results
      <4> DEFINE k == e.of
      <4> HIDE DEF e
      <4>1. s = Ended(searches, k)
        BY Zenon DEF Ended
      <4> HIDE DEF s, k
      <4>2. k \in 1 .. Len(searches)
        BY <3>1 DEF k
      <4>3. QED
        BY <3>2, <4>1, <4>2, EndedResults
    <3>4. t = s
      BY <2>1
    <3>5. QED
      BY <3>3, <3>4
  <2>2. CASE e.type # "Search"
    BY <1>1, <2>2, Same
  <2>3. QED
    BY <2>1, <2>2
<1>4. \/ m_reqidcache' = c /\ searches' = t /\ UNCHANGED <<m_state, ids, wires>>
      \/ (\E kind \in Kinds : Started(kind, c, t)) /\ KeepsReceived
  BY DEF Expire
<1> HIDE DEF c, t
<1>5. QED
  BY <1>2, <1>3, <1>4

LEMMA ExpireOwn ==
    ASSUME Inv, OwnRest, Expire
    PROVE  OwnRest'
<1>1. TypeOK
  BY DEF Inv
<1>2. PICK c, t :
        /\ c \in Seq(CacheEntry) /\ From(c, m_reqidcache)
        /\ t \in Seq(SearchEvent)
        /\ \/ m_reqidcache' = c /\ searches' = t /\ UNCHANGED <<m_state, ids, wires>>
           \/ (\E kind \in Kinds : Started(kind, c, t)) /\ KeepsReceived
  BY Swept
<1>3. CASE m_reqidcache' = c /\ UNCHANGED <<m_state, ids, wires>>
  BY <1>1, <1>2, <1>3, Same, Quietly DEF ids, wires
<1>4. ASSUME NEW kind \in Kinds, Started(kind, c, t), KeepsReceived PROVE OwnRest'
  <2>1. From(down', down)
    BY <1>1, <1>4, Same, ReceivedKept
  <2>2. QED
    BY <1>1, <1>2, <1>4, <2>1, StartedOwn
<1>5. QED
  BY <1>2, <1>3, <1>4

LEMMA OthersOwn ==
    ASSUME TypeOK, OwnRest,
           \/ \E o \in Objects : addContact(o) \/ removeContact(o)
           \/ setRandomChatGroup \/ Connect \/ Disconnect
           \/ UNCHANGED vars
    PROVE  OwnRest'
<1>1. /\ m_reqidcache' = m_reqidcache /\ crossed' = crossed
      /\ (up' = <<>> \/ up' = up) /\ (down' = down \/ KeepsReceived)
  BY DEF addContact, removeContact, setRandomChatGroup, Connect, Disconnect, Disconnected, vars, wires, ids
<1>2. From(m_reqidcache', m_reqidcache) /\ From(up', up) /\ From(down', down)
  BY <1>1, Same, ReceivedKept
<1>3. QED
  BY <1>1, <1>2, Quietly

LEMMA InitOwn == Init => OwnRest
  BY NoneMatched DEF Init, OwnRest, IdsInv

LEMMA NextOwn == Inv /\ OwnRest /\ [Next]_vars => OwnRest'
<1> SUFFICES ASSUME Inv, OwnRest, [Next]_vars PROVE OwnRest'
  OBVIOUS
<1>1. TypeOK
  BY DEF Inv
<1>2. ASSUME NEW kind \in Kinds, searchForContacts(kind) PROVE OwnRest'
  BY <1>1, <1>2, SearchBeginsOwn
<1>3. ASSUME NEW o \in Objects, fetchDetailContactInfo(o) PROVE OwnRest'
  BY <1>1, <1>3, DetailAskedOwn
<1>4. ASSUME NEW o \in Objects, fetchSimpleContactInfo(o) PROVE OwnRest'
  BY <1>1, <1>4, SimpleAskedOwn
<1>5. CASE ServerAnswers \/ ServerIgnores
  BY <1>1, <1>5, ServerOwn
<1>6. CASE SignalSrvResponse
  BY <1>6, ResponseOwn
<1>7. CASE Expire
  BY <1>7, ExpireOwn
<1>8. ASSUME \/ \E o \in Objects : addContact(o) \/ removeContact(o)
             \/ setRandomChatGroup \/ Connect \/ Disconnect \/ UNCHANGED vars
      PROVE  OwnRest'
  BY <1>1, <1>8, OthersOwn
<1>9. QED
  BY <1>2, <1>3, <1>4, <1>5, <1>6, <1>7, <1>8 DEF Next

-----------------------------------------------------------------------------
(* What a step does to the results and to the details.                      *)

\* The entry that an answer finds is the one of its request.
LEMMA AnswerFinds ==
    ASSUME TypeOK, OwnRest, down # <<>>, NEW a, a = Head(down), exists(a.id),
           NEW i, i = Lookup(a.id), a.id \notin crossed
    PROVE  /\ i \in 1 .. Len(m_reqidcache) /\ m_reqidcache[i].of = a.of
           /\ a \in AnswerPacket /\ (a.kind = "Detail" => a.uin = UinOf[a.of])
<1>1. 1 \in 1 .. Len(down) /\ a = down[1] /\ a \in AnswerPacket
  BY Same, FromParts, ElementOfSeq
<1>2. i \in 1 .. Len(m_reqidcache) /\ m_reqidcache[i].id = a.id
  BY Same, LookupFinds
<1>3. QED
  BY <1>1, <1>2 DEF OwnRest, IdsInv, Matched, DetailsRight

\* No event took a result but one of its own.
StepOwn == \A k \in 1 .. Len(searches) : searches'[k].results \subseteq searches[k].results \cup {k}

\* The same of events t, before another search begins.
OwnIn(t) ==
    /\ Len(t) = Len(searches)
    /\ \A k \in 1 .. Len(searches) : t[k].results \subseteq searches[k].results \cup {k}

LEMMA StartedAfter ==
    ASSUME NEW t \in Seq(SearchEvent), OwnIn(t), NEW c, NEW kind,
           searches' = t \/ Started(kind, c, t)
    PROVE  StepOwn
<1>1. NewEvent \in SearchEvent
  BY DEF NewEvent, SearchEvent
<1>2. \A k \in 1 .. Len(t) : Append(t, NewEvent)[k] = t[k]
  BY <1>1, AppendProperties
<1>3. searches' = t \/ searches' = Append(t, NewEvent)
  BY DEF Started
<1>4. QED
  BY <1>2, <1>3 DEF OwnIn, StepOwn

\* What an answer adds to the results.
LEMMA ToldResults ==
    ASSUME NEW ev \in SearchEvent, NEW a \in AnswerPacket
    PROVE  Told(ev, a).results = IF a.uin = None THEN ev.results ELSE ev.results \cup {a.of}
<1>1. PICK r \in SUBSET (Nat \cup Objects), n \in Nat, l \in BOOLEAN :
        ev = [results |-> r, told |-> n, alive |-> l]
  BY DEF SearchEvent
<1> DEFINE q == IF a.uin = None THEN r ELSE r \cup {a.of}
           one == [ev EXCEPT !.results = IF a.uin = None THEN @ ELSE @ \cup {a.of}]
           two == [one EXCEPT !.told = IF a.last THEN ev.told + 1 ELSE ev.told]
<1>2. one = [results |-> q, told |-> n, alive |-> l]
  BY <1>1
<1>3. Told(ev, a) = [two EXCEPT !.alive = ~a.last]
  BY Zenon DEF Told
<1>4. ev.results = r
  BY <1>1
<1> HIDE DEF one, q
<1>5. [two EXCEPT !.alive = ~a.last].results = q
  BY <1>2
<1>6. QED
  BY <1>3, <1>4, <1>5 DEF q

LEMMA SearchAnsweredStep ==
    ASSUME Inv, OwnRest, down # <<>>, NEW a, a = Head(down), exists(a.id), a.id \notin crossed,
           m_reqidcache[Lookup(a.id)].type = "Search", SearchAnswer(a)
    PROVE  StepOwn
<1> DEFINE i == Lookup(a.id)
           k == m_reqidcache[i].of
           s == [searches EXCEPT ![k] = Told(@, a)]
           c == IF a.last THEN RemoveAt(m_reqidcache, i) ELSE m_reqidcache
<1>1. TypeOK /\ Agree(m_reqidcache, searches)
  BY DEF Inv
<1>2. i \in 1 .. Len(m_reqidcache) /\ k = a.of /\ a \in AnswerPacket
  BY <1>1, AnswerFinds
<1>3. s \in Seq(SearchEvent) /\ Len(s) = Len(searches)
  BY <1>1, <1>2, AnswerKeeps
<1>4. k \in 1 .. Len(searches) /\ searches[k] \in SearchEvent
  BY <1>1, <1>2, Same, ElementOfSeq DEF Agree
<1>5. Told(searches[k], a).results \subseteq searches[k].results \cup {k}
  BY <1>2, <1>4, ToldResults
<1>6. \A j \in 1 .. Len(searches) : s[j] = IF j = k THEN Told(searches[k], a) ELSE searches[j]
  <2>1. DOMAIN searches = 1 .. Len(searches)
    BY <1>1, Same, LenProperties
  <2> HIDE DEF k
  <2>2. QED
    BY <2>1
<1>7. searches' = s \/ \E kind \in Kinds : Started(kind, c, s)
  BY DEF SearchAnswer
<1> HIDE DEF s, c, k
<1>8. OwnIn(s)
  BY <1>3, <1>5, <1>6 DEF OwnIn
<1>9. QED
  BY <1>3, <1>7, <1>8, StartedAfter

LEMMA ResultsStep ==
    ASSUME Inv, OwnRest, [Next]_vars
    PROVE  StepOwn \/ Head(down).id \in crossed
<1>1. TypeOK /\ searches \in Seq(SearchEvent)
  BY DEF Inv, TypeOK
<1>2. OwnIn(searches)
  BY DEF OwnIn
<1>3. CASE searches' = searches
  BY <1>1, <1>2, <1>3, StartedAfter
<1>4. ASSUME NEW kind \in Kinds, searchForContacts(kind) PROVE StepOwn
  BY <1>1, <1>2, <1>4, StartedAfter DEF searchForContacts
<1>5. ASSUME SignalSrvResponse PROVE StepOwn \/ Head(down).id \in crossed
  <2> DEFINE a == Head(down)
  <2>1. /\ down # <<>>
        /\ \/ exists(a.id) /\ m_reqidcache[Lookup(a.id)].type = "Search" /\ SearchAnswer(a)
           \/ searches' = searches
    BY <1>5 DEF SignalSrvResponse, UnknownSimple, Ignored
  <2> HIDE DEF a
  <2>2. CASE exists(a.id) /\ m_reqidcache[Lookup(a.id)].type = "Search" /\ SearchAnswer(a)
    BY <2>1, <2>2, SearchAnsweredStep DEF a
  <2>3. QED
    BY <1>3, <2>1, <2>2
<1>6. CASE Expire
  <2>1. PICK c, t :
          /\ t \in Seq(SearchEvent) /\ Len(t) = Len(searches)
          /\ \A j \in 1 .. Len(searches) : t[j].results = searches[j].results
          /\ searches' = t \/ \E kind \in Kinds : Started(kind, c, t)
    BY <1>6, Swept
  <2>2. OwnIn(t)
    BY <2>1 DEF OwnIn
  <2>3. QED
    BY <2>1, <2>2, StartedAfter
<1>7. \/ \E kind \in Kinds : searchForContacts(kind)
      \/ SignalSrvResponse \/ Expire
      \/ searches' = searches
  BY DEF Next, vars, fetchDetailContactInfo, fetchSimpleContactInfo, addContact, removeContact,
         setRandomChatGroup, ServerAnswers, ServerIgnores, Connect, Disconnect
<1>8. QED
  BY <1>3, <1>4, <1>5, <1>6, <1>7

InfoOwn == \A o \in Objects : info'[o] \in {info[o], None, UinOf[o]}

LEMMA InfoStep ==
    ASSUME Inv, OwnRest, [Next]_vars
    PROVE  InfoOwn \/ Head(down).id \in crossed
<1> DEFINE a == Head(down)
           e == m_reqidcache[Lookup(a.id)]
<1>1. TypeOK /\ info \in [Objects -> Uins \cup {None}]
  BY DEF Inv, TypeOK
<1>2. CASE info' = info
  BY <1>2 DEF InfoOwn
<1>3. ASSUME UnknownSimple(a) PROVE InfoOwn
  <2> HIDE DEF a
  <2>1. PICK u \in IF a.uin = None THEN Uins \cup {None} ELSE {a.uin} :
          info' = [o \in Objects |-> IF o \in tree /\ UinOf[o] = u THEN a.uin ELSE info[o]]
    BY <1>3 DEF UnknownSimple
  <2>2. ASSUME NEW o \in Objects PROVE info'[o] \in {info[o], None, UinOf[o]}
    <3>1. info'[o] = info[o] \/ (info'[o] = a.uin /\ UinOf[o] = u)
      BY <2>1
    <3>2. a.uin = None \/ u = a.uin
      BY <2>1
    <3>3. QED
      BY <3>1, <3>2
  <2>3. QED
    BY <2>2 DEF InfoOwn
<1>4. ASSUME down # <<>>, a.kind \notin SearchKinds, exists(a.id), info' = [info EXCEPT ![e.of] = a.uin]
      PROVE  InfoOwn \/ Head(down).id \in crossed
  <2>1. SUFFICES ASSUME a.id \notin crossed PROVE InfoOwn
    OBVIOUS
  <2>2. e.of = a.of /\ a \in AnswerPacket /\ (a.kind = "Detail" => a.uin = UinOf[a.of])
    BY <1>1, <1>4, <2>1, AnswerFinds
  <2> HIDE DEF a
  <2>3. a.kind = "Detail"
    BY <1>4, <2>2 DEF AnswerPacket
  <2> HIDE DEF e
  <2>4. \A o \in Objects : info'[o] = info[o] \/ (o = e.of /\ info'[o] = a.uin)
    BY <1>1, <1>4
  <2>5. QED
    BY <2>2, <2>3, <2>4 DEF InfoOwn
<1>5. \/ info' = info
      \/ UnknownSimple(a)
      \/ /\ down # <<>> /\ a.kind \notin SearchKinds /\ exists(a.id)
         /\ info' = [info EXCEPT ![e.of] = a.uin]
  <2>1. CASE SignalSrvResponse
    BY <2>1 DEF SignalSrvResponse, Ignored
  <2>2. CASE ~SignalSrvResponse
    BY <2>2 DEF Next, vars, searchForContacts, fetchDetailContactInfo, fetchSimpleContactInfo,
            addContact, removeContact, setRandomChatGroup, ServerAnswers, ServerIgnores, Expire,
            Connect, Disconnect
  <2>3. QED
    BY <2>1, <2>2
<1> HIDE DEF a, e
<1>6. QED
  BY <1>2, <1>3, <1>4, <1>5

-----------------------------------------------------------------------------
(* Theorems.                                                                *)

LEMMA AlwaysInv == Spec => []Inv
  BY InitInv, NextInv, PTL DEF Spec

(* The variables keep their types: however a slot searches again, an        *)
(* answer is for an entry of the cache and an entry for an event that is    *)
(* there (Client.cpp:550-661, 888-972).                                     *)
THEOREM RequestsTypeOK == Spec => []TypeOK
<1>1. Inv => TypeOK
  BY DEF Inv
<1>2. QED
  BY <1>1, AlwaysInv, PTL

(* The event of a search has one entry in the cache until it is deleted,    *)
(* none afterwards, and hears its end once (Client.cpp:621-626, 961-972).   *)
THEOREM SearchAlwaysHeldOnce == Spec => []SearchHeldOnce
<1>1. ASSUME Inv PROVE SearchHeldOnce
  <2>1. TypeOK /\ Agree(m_reqidcache, searches)
    BY <1>1 DEF Inv
  <2>2. /\ DOMAIN m_reqidcache = 1 .. Len(m_reqidcache)
        /\ DOMAIN searches = 1 .. Len(searches)
    BY <2>1, LenProperties DEF TypeOK
  <2>3. ASSUME NEW s \in 1 .. Len(searches)
        PROVE  /\ Cardinality(CachedFor(s)) = IF searches[s].alive THEN 1 ELSE 0
               /\ searches[s].told = IF searches[s].alive THEN 0 ELSE 1
    <3>1. CASE searches[s].alive
      <4>1. PICK i \in 1 .. Len(m_reqidcache) : IsFor(m_reqidcache, i, s)
        BY <2>1, <3>1 DEF Agree
      <4>2. \A j \in 1 .. Len(m_reqidcache) : IsFor(m_reqidcache, j, s) => j = i
        BY <2>1, <4>1 DEF Agree, IsFor
      <4>3. CachedFor(s) = {i}
        BY <2>2, <4>1, <4>2 DEF CachedFor, IsFor
      <4>4. Cardinality(CachedFor(s)) = 1
        BY <4>3, FS_Singleton
      <4>5. searches[s].told = 0
        BY <2>1, <3>1 DEF Agree
      <4>6. QED
        BY <3>1, <4>4, <4>5
    <3>2. CASE ~searches[s].alive
      <4>1. CachedFor(s) = {}
        BY <2>1, <2>2, <3>2 DEF CachedFor, Agree
      <4>2. QED
        BY <2>1, <3>2, <4>1, FS_EmptySet DEF Agree
    <3>3. QED
      BY <3>1, <3>2
  <2>4. QED
    BY <2>2, <2>3 DEF SearchHeldOnce
<1>2. QED
  BY <1>1, AlwaysInv, PTL

LEMMA AlwaysOwn == Spec => [](Inv /\ OwnRest)
<1>1. Init => Inv /\ OwnRest
  BY InitInv, InitOwn
<1>2. (Inv /\ OwnRest) /\ [Next]_vars => (Inv /\ OwnRest)'
  BY NextInv, NextOwn
<1>3. QED
  BY <1>1, <1>2, PTL DEF Spec

(* What a search finds answers that search (Client.cpp:588-590, 652-654,    *)
(* 845-847), over any number of logins with any first ids, ids that come    *)
(* round, expired entries and slots that search again, unless the id of the *)
(* answer was given out while something else had it.                        *)
THEOREM ResultsAlwaysOwn == Spec => ResultsAreOwn
<1>1. ASSUME Inv, OwnRest, [Next]_vars
      PROVE  \A s \in DOMAIN searches :
               searches'[s].results \subseteq searches[s].results \cup {s} \/ Head(down).id \in crossed
  <2>1. DOMAIN searches = 1 .. Len(searches)
    BY <1>1, LenProperties DEF Inv, TypeOK
  <2>2. StepOwn \/ Head(down).id \in crossed
    BY <1>1, ResultsStep
  <2>3. QED
    BY <2>1, <2>2 DEF StepOwn
<1>2. Inv /\ OwnRest /\ [Next]_vars =>
        [\A s \in DOMAIN searches :
           searches'[s].results \subseteq searches[s].results \cup {s} \/ Head(down).id \in crossed]_vars
  BY <1>1
<1>3. Spec => [](Inv /\ OwnRest)
  BY AlwaysOwn
<1>4. QED
  BY <1>2, <1>3, PTL DEF Spec, ResultsAreOwn

(* No contact is given another user's details (Client.cpp:635-644,          *)
(* 888-911), also when an answer was for an object that has left the tree   *)
(* or is late, and whatever the uninitialised UIN of one that found nobody  *)
(* is, unless the id of the answer was given out while something had it.    *)
THEOREM InfoAlwaysOwn == Spec => InfoIsOwn
<1>1. ASSUME Inv, OwnRest, [Next]_vars
      PROVE  \A o \in Objects : info'[o] \in {info[o], None, UinOf[o]} \/ Head(down).id \in crossed
  BY <1>1, InfoStep DEF InfoOwn
<1>2. Inv /\ OwnRest /\ [Next]_vars =>
        [\A o \in Objects : info'[o] \in {info[o], None, UinOf[o]} \/ Head(down).id \in crossed]_vars
  BY <1>1
<1>3. Spec => [](Inv /\ OwnRest)
  BY AlwaysOwn
<1>4. QED
  BY <1>2, <1>3, PTL DEF Spec, InfoIsOwn
=============================================================================
