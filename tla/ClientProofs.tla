---------------------------- MODULE ClientProofs ----------------------------
(* Theorems about what a client keeps: a cache that it polls, for any keys, *)
(* timeouts and bounds, and its session, for every set of contacts and      *)
(* every buffer.                                                            *)
EXTENDS Session, TimedCache, SequenceTheorems, FiniteSetTheorems, TLAPS

-----------------------------------------------------------------------------
(* The timed cache.                                                         *)

Less(e, f) == getExpiryTime(e) < getExpiryTime(f)
Values(list) == {Value(list[i]) : i \in 1 .. Len(list)}
Distinct(list) == \A i, j \in 1 .. Len(list) : list[i].id = list[j].id => i = j

\* Expiry times can be compared.
LEMMA ExpiryNat == \A e \in CacheItem : getExpiryTime(e) \in Nat
<1> SUFFICES ASSUME NEW e \in CacheItem PROVE getExpiryTime(e) \in Nat
  OBVIOUS
<1>1. e.timestamp \in 0 .. MaxNow /\ e.timeout \in Timeouts
  BY DEF CacheItem
<1>2. 0 .. MaxNow \subseteq Nat
  BY BoundsNat
<1>3. e.timestamp \in Nat /\ e.timeout \in Nat
  BY <1>1, <1>2, TimeoutsNat, Zenon
<1>4. QED
  BY <1>3 DEF getExpiryTime

-----------------------------------------------------------------------------
(* The place of an entry. What comes before it is counted, not searched:    *)
(* in a sorted list the entries that expire earlier are its first ones.     *)

LEMMA InitialSegment ==
    ASSUME NEW n \in Nat, NEW S \in SUBSET (1 .. n),
           \A j \in S : \A i \in 1 .. j : i \in S
    PROVE  \E k \in 0 .. n : S = 1 .. k
<1>1. /\ IsFiniteSet(1 .. n) /\ Cardinality(1 .. n) = n
  BY FS_Interval, n \in Int, 1 \in Int
<1>2. IsFiniteSet(S) /\ Cardinality(S) <= n /\ Cardinality(S) \in Nat
  BY <1>1, FS_Subset, FS_CardinalityType
<1> DEFINE k == Cardinality(S)
<1>3. k \in 0 .. n
  BY <1>2
<1>4. ASSUME NEW j \in S PROVE j <= k
  <2>1. 1 .. j \in SUBSET S
    BY <1>4
  <2>2. j \in Nat /\ j >= 1
    OBVIOUS
  <2>3. Cardinality(1 .. j) = j
    BY <2>2, FS_Interval, j \in Int, 1 \in Int
  <2>4. QED
    BY <1>2, <2>1, <2>3, FS_Subset
<1>5. S \in SUBSET (1 .. k)
  BY <1>3, <1>4
<1>6. IsFiniteSet(1 .. k) /\ Cardinality(1 .. k) = k
  BY <1>3, FS_Interval, k \in Int, 1 \in Int
<1>7. S = 1 .. k
  BY <1>5, <1>6, FS_Subset
<1>8. QED
  BY <1>3, <1>7

LEMMA BehindProperties ==
    ASSUME NEW list \in Seq(CacheItem), SortedList(list), NEW e \in CacheItem
    PROVE  /\ Behind(list, e) \in 0 .. Len(list)
           /\ \A j \in 1 .. Behind(list, e) : Less(list[j], e)
           /\ \A j \in Behind(list, e) + 1 .. Len(list) : ~Less(list[j], e)
<1> DEFINE S == {i \in 1 .. Len(list) : Less(list[i], e)}
           P(i) == /\ i = 0 \/ getExpiryTime(list[i]) < getExpiryTime(e)
                   /\ \A j \in i + 1 .. Len(list) : ~(getExpiryTime(list[j]) < getExpiryTime(e))
<1>1. Len(list) \in Nat /\ \A i \in 1 .. Len(list) : list[i] \in CacheItem
  BY ElementOfSeq, LenProperties
<1>2. ASSUME NEW i \in 1 .. Len(list), NEW j \in 1 .. Len(list), i < j, Less(list[j], e)
      PROVE  Less(list[i], e)
  <2>1. getExpiryTime(list[i]) <= getExpiryTime(list[j])
    BY <1>2 DEF SortedList
  <2>2. /\ getExpiryTime(list[i]) \in Nat /\ getExpiryTime(list[j]) \in Nat
        /\ getExpiryTime(e) \in Nat
    BY <1>1, ExpiryNat
  <2>3. QED
    BY <1>2, <2>1, <2>2 DEF Less
<1>3. ASSUME NEW j \in S, NEW i \in 1 .. j PROVE i \in S
  <2>1. i = j \/ i < j
    BY <1>1
  <2>2. i \in 1 .. Len(list)
    BY <1>1
  <2>3. QED
    BY <1>2, <2>1, <2>2
<1>4. \E k \in 0 .. Len(list) : S = 1 .. k
  <2>1. S \in SUBSET (1 .. Len(list))
    OBVIOUS
  <2> HIDE DEF S
  <2>2. QED
    BY <1>1, <1>3, <2>1, InitialSegment
<1>5. \E k \in 0 .. Len(list) : P(k)
  <2>1. PICK k \in 0 .. Len(list) : S = 1 .. k
    BY <1>4
  <2>2. k = 0 \/ k \in S
    BY <2>1
  <2>3. \A j \in k + 1 .. Len(list) : j \notin S /\ j \in 1 .. Len(list)
    BY <1>1, <2>1
  <2>4. QED
    BY <2>2, <2>3 DEF Less
<1>6. Behind(list, e) \in 0 .. Len(list) /\ P(Behind(list, e))
  <2>1. Behind(list, e) = CHOOSE i \in 0 .. Len(list) : P(i)
    BY DEF Behind
  <2> HIDE DEF P
  <2>2. QED
    BY <1>5, <2>1
<1>7. ASSUME NEW j \in 1 .. Behind(list, e) PROVE Less(list[j], e)
  <2>1. j = Behind(list, e) \/ j < Behind(list, e)
    BY <1>1, <1>6
  <2>2. /\ Behind(list, e) \in 1 .. Len(list) /\ j \in 1 .. Len(list)
        /\ Less(list[Behind(list, e)], e)
    BY <1>1, <1>6 DEF Less
  <2>3. QED
    BY <1>2, <2>1, <2>2
<1>8. QED
  BY <1>6, <1>7 DEF Less

\* What Place and Erase make of a list, place by place.
LEMMA PlaceProperties ==
    ASSUME NEW list \in Seq(CacheItem), NEW e \in CacheItem, NEW b \in 0 .. Len(list),
           b = Behind(list, e)
    PROVE  /\ Place(list, e) \in Seq(CacheItem)
           /\ Len(Place(list, e)) = Len(list) + 1
           /\ \A j \in 1 .. Len(list) + 1 :
                Place(list, e)[j] = IF j <= b THEN list[j]
                                    ELSE IF j = b + 1 THEN e ELSE list[j - 1]
<1> DEFINE n == Len(list)
           front == SubSeq(list, 1, b)
           back == SubSeq(list, b + 1, n)
<1>1. n \in Nat /\ \A i \in 1 .. n : list[i] \in CacheItem
  BY ElementOfSeq, LenProperties
<1>2. /\ front \in Seq(CacheItem) /\ Len(front) = b
      /\ \A i \in 1 .. b : front[i] = list[i]
  <2>1. \A i \in 1 .. b : list[i] \in CacheItem
    BY <1>1
  <2>2. QED
    BY <1>1, <2>1, SubSeqProperties
<1>3. /\ back \in Seq(CacheItem) /\ Len(back) = n - b
      /\ \A i \in 1 .. n - b : back[i] = list[b + i]
  <2>1. \A i \in b + 1 .. n : list[i] \in CacheItem
    BY <1>1
  <2>2. b + 1 \in Int /\ n \in Int
    BY <1>1
  <2>3. /\ back \in Seq(CacheItem)
        /\ Len(back) = IF b + 1 <= n THEN n - (b + 1) + 1 ELSE 0
        /\ \A i \in 1 .. n - (b + 1) + 1 : back[i] = list[(b + 1) + i - 1]
    BY <2>1, <2>2, SubSeqProperties
  <2>4. QED
    BY <1>1, <2>3
<1>4. <<e>> \in Seq(CacheItem) /\ Len(<<e>>) = 1 /\ <<e>>[1] = e
  OBVIOUS
<1>5. /\ front \o <<e>> \in Seq(CacheItem) /\ Len(front \o <<e>>) = b + 1
      /\ \A i \in 1 .. b + 1 : (front \o <<e>>)[i] = IF i <= b THEN list[i] ELSE e
  <2> HIDE DEF front
  <2>1. QED
    BY <1>1, <1>2, <1>4, ConcatProperties
<1>6. Place(list, e) = (front \o <<e>>) \o back
  BY DEF Place
<1>7. QED
  <2> HIDE DEF front, back
  <2> DEFINE s == front \o <<e>>
  <2>1. s \in Seq(CacheItem) /\ Len(s) = b + 1
    BY <1>5
  <2>2. /\ s \o back \in Seq(CacheItem) /\ Len(s \o back) = n + 1
        /\ \A i \in 1 .. n + 1 : (s \o back)[i] = IF i <= b + 1 THEN s[i] ELSE back[i - (b + 1)]
    <3> HIDE DEF s
    <3>1. /\ s \o back \in Seq(CacheItem) /\ Len(s \o back) = Len(s) + Len(back)
          /\ \A i \in 1 .. Len(s) + Len(back) :
               (s \o back)[i] = IF i <= Len(s) THEN s[i] ELSE back[i - Len(s)]
      BY <1>3, <2>1, ConcatProperties
    <3>2. QED
      BY <1>1, <1>3, <2>1, <3>1
  <2>3. ASSUME NEW j \in 1 .. n + 1, j > b + 1
        PROVE  back[j - (b + 1)] = list[j - 1]
    <3>1. j - (b + 1) \in 1 .. n - b
      BY <1>1, <2>3
    <3>2. QED
      BY <1>1, <1>3, <3>1
  <2>4. ASSUME NEW j \in 1 .. n + 1
        PROVE  (s \o back)[j] = IF j <= b THEN list[j] ELSE IF j = b + 1 THEN e ELSE list[j - 1]
    <3>1. CASE j <= b + 1
      BY <1>1, <1>5, <2>2, <3>1
    <3>2. CASE j > b + 1
      BY <1>1, <2>2, <2>3, <3>2
    <3>3. j <= b + 1 \/ j > b + 1
      BY <1>1
    <3>4. QED
      BY <3>1, <3>2, <3>3
  <2>5. QED
    BY <1>6, <2>2, <2>4

LEMMA EraseProperties ==
    ASSUME NEW list \in Seq(CacheItem), NEW i \in 1 .. Len(list)
    PROVE  /\ Erase(list, i) \in Seq(CacheItem)
           /\ Len(Erase(list, i)) = Len(list) - 1
           /\ \A j \in 1 .. Len(list) - 1 :
                Erase(list, i)[j] = IF j < i THEN list[j] ELSE list[j + 1]
<1> DEFINE n == Len(list)
           front == SubSeq(list, 1, i - 1)
           back == SubSeq(list, i + 1, n)
<1>1. n \in Nat /\ \A j \in 1 .. n : list[j] \in CacheItem
  BY ElementOfSeq, LenProperties
<1>2. /\ front \in Seq(CacheItem) /\ Len(front) = i - 1
      /\ \A j \in 1 .. i - 1 : front[j] = list[j]
  <2>1. \A j \in 1 .. i - 1 : list[j] \in CacheItem
    BY <1>1
  <2>2. /\ front \in Seq(CacheItem)
        /\ Len(front) = IF 1 <= i - 1 THEN (i - 1) - 1 + 1 ELSE 0
        /\ \A j \in 1 .. (i - 1) - 1 + 1 : front[j] = list[1 + j - 1]
    BY <1>1, <2>1, SubSeqProperties
  <2>3. QED
    BY <1>1, <2>2
<1>3. /\ back \in Seq(CacheItem) /\ Len(back) = n - i
      /\ \A j \in 1 .. n - i : back[j] = list[i + j]
  <2>1. \A j \in i + 1 .. n : list[j] \in CacheItem
    BY <1>1
  <2>2. i + 1 \in Int /\ n \in Int
    BY <1>1
  <2>3. /\ back \in Seq(CacheItem)
        /\ Len(back) = IF i + 1 <= n THEN n - (i + 1) + 1 ELSE 0
        /\ \A j \in 1 .. n - (i + 1) + 1 : back[j] = list[(i + 1) + j - 1]
    BY <2>1, <2>2, SubSeqProperties
  <2>4. QED
    BY <1>1, <2>3
<1>4. /\ front \o back \in Seq(CacheItem) /\ Len(front \o back) = n - 1
      /\ \A j \in 1 .. n - 1 : (front \o back)[j] = IF j <= i - 1 THEN front[j] ELSE back[j - (i - 1)]
  <2> HIDE DEF front, back
  <2>1. /\ front \o back \in Seq(CacheItem) /\ Len(front \o back) = Len(front) + Len(back)
        /\ \A j \in 1 .. Len(front) + Len(back) :
             (front \o back)[j] = IF j <= Len(front) THEN front[j] ELSE back[j - Len(front)]
    BY <1>2, <1>3, ConcatProperties
  <2>2. QED
    BY <1>1, <1>2, <1>3, <2>1
<1>5. Erase(list, i) = front \o back
  BY DEF Erase
<1>6. ASSUME NEW j \in 1 .. n - 1
      PROVE  (front \o back)[j] = IF j < i THEN list[j] ELSE list[j + 1]
  <2> HIDE DEF front, back
  <2>1. CASE j < i
    BY <1>1, <1>2, <1>4, <2>1
  <2>2. CASE j >= i
    <3>1. j - (i - 1) \in 1 .. n - i /\ ~(j <= i - 1)
      BY <1>1, <2>2
    <3>2. QED
      BY <1>1, <1>3, <1>4, <2>2, <3>1
  <2>3. j < i \/ j >= i
    BY <1>1
  <2>4. QED
    BY <2>1, <2>2, <2>3
<1>7. QED
  BY <1>4, <1>5, <1>6

-----------------------------------------------------------------------------
(* What the two operations preserve.                                        *)

LEMMA PlaceSorted ==
    ASSUME NEW list \in Seq(CacheItem), SortedList(list), NEW e \in CacheItem
    PROVE  SortedList(Place(list, e))
<1> DEFINE n == Len(list)
           b == Behind(list, e)
           new == Place(list, e)
<1>1. n \in Nat /\ b \in 0 .. n
  BY BehindProperties, LenProperties
<1>2. /\ \A j \in 1 .. b : Less(list[j], e)
      /\ \A j \in b + 1 .. n : ~Less(list[j], e)
  BY BehindProperties
<1>3. /\ Len(new) = n + 1
      /\ \A j \in 1 .. n + 1 :
           new[j] = IF j <= b THEN list[j] ELSE IF j = b + 1 THEN e ELSE list[j - 1]
  BY <1>1, PlaceProperties
<1>4. /\ \A j \in 1 .. n : getExpiryTime(list[j]) \in Nat
      /\ getExpiryTime(e) \in Nat
  BY ExpiryNat, ElementOfSeq
<1> HIDE DEF b, new
<1>5. SUFFICES ASSUME NEW i \in 1 .. n + 1, NEW j \in 1 .. n + 1, i < j
               PROVE  getExpiryTime(new[i]) <= getExpiryTime(new[j])
  BY <1>3 DEF SortedList, new
<1>6. CASE j <= b
  <2>1. new[i] = list[i] /\ new[j] = list[j] /\ i \in 1 .. n /\ j \in 1 .. n
    BY <1>1, <1>3, <1>5, <1>6
  <2>2. QED
    BY <1>5, <2>1 DEF SortedList
<1>7. CASE j = b + 1
  <2>1. new[i] = list[i] /\ new[j] = e /\ i \in 1 .. b /\ i \in 1 .. n
    BY <1>1, <1>3, <1>5, <1>7
  <2>2. QED
    BY <1>2, <1>4, <2>1 DEF Less
<1>8. CASE j > b + 1
  <2>1. new[j] = list[j - 1] /\ j - 1 \in b + 1 .. n /\ j - 1 \in 1 .. n
    BY <1>1, <1>3, <1>8
  <2>2. CASE i <= b
    <3>1. new[i] = list[i] /\ i \in 1 .. n /\ i < j - 1
      BY <1>1, <1>3, <1>8, <2>2
    <3>2. QED
      BY <2>1, <3>1 DEF SortedList
  <2>3. CASE i = b + 1
    <3>1. new[i] = e
      BY <1>1, <1>3, <2>3
    <3>2. ~Less(list[j - 1], e)
      BY <1>2, <2>1
    <3>3. QED
      BY <1>4, <2>1, <3>1, <3>2 DEF Less
  <2>4. CASE i > b + 1
    <3>1. new[i] = list[i - 1] /\ i - 1 \in 1 .. n /\ i - 1 < j - 1
      BY <1>1, <1>3, <1>5, <2>4
    <3>2. QED
      BY <2>1, <3>1 DEF SortedList
  <2>5. i <= b \/ i = b + 1 \/ i > b + 1
    BY <1>1
  <2>6. QED
    BY <2>2, <2>3, <2>4, <2>5
<1>9. j <= b \/ j = b + 1 \/ j > b + 1
  BY <1>1
<1>10. QED
  BY <1>6, <1>7, <1>8, <1>9

LEMMA EraseSorted ==
    ASSUME NEW list \in Seq(CacheItem), SortedList(list), NEW i \in 1 .. Len(list)
    PROVE  SortedList(Erase(list, i))
<1> DEFINE n == Len(list)
           new == Erase(list, i)
           at(j) == IF j < i THEN j ELSE j + 1
<1>1. n \in Nat
  BY LenProperties
<1>2. /\ Len(new) = n - 1
      /\ \A j \in 1 .. n - 1 : new[j] = IF j < i THEN list[j] ELSE list[j + 1]
  BY EraseProperties
<1> HIDE DEF new
<1>3. SUFFICES ASSUME NEW p \in 1 .. n - 1, NEW q \in 1 .. n - 1, p < q
               PROVE  getExpiryTime(new[p]) <= getExpiryTime(new[q])
  BY <1>2 DEF SortedList, new
<1>4. at(p) \in 1 .. n /\ at(q) \in 1 .. n /\ at(p) < at(q)
  BY <1>1, <1>3
<1>5. new[p] = list[at(p)] /\ new[q] = list[at(q)]
  BY <1>2
<1> HIDE DEF at
<1>6. QED
  BY <1>4, <1>5 DEF SortedList

\* The values of a list that got an entry, and of one that lost an entry.
LEMMA PlaceValues ==
    ASSUME NEW list \in Seq(CacheItem), SortedList(list), NEW e \in CacheItem
    PROVE  Values(Place(list, e)) = Values(list) \cup {Value(e)}
<1> DEFINE n == Len(list)
           b == Behind(list, e)
           new == Place(list, e)
<1>1. n \in Nat /\ b \in 0 .. n
  BY BehindProperties, LenProperties
<1>2. /\ Len(new) = n + 1
      /\ \A j \in 1 .. n + 1 :
           new[j] = IF j <= b THEN list[j] ELSE IF j = b + 1 THEN e ELSE list[j - 1]
  BY <1>1, PlaceProperties
<1> HIDE DEF b, new
<1>3. ASSUME NEW j \in 1 .. n + 1 PROVE new[j] = e \/ \E i \in 1 .. n : new[j] = list[i]
  <2>1. CASE j <= b
    BY <1>1, <1>2, <2>1
  <2>2. CASE j = b + 1
    BY <1>1, <1>2, <2>2
  <2>3. CASE j > b + 1
    <3>1. j - 1 \in 1 .. n /\ new[j] = list[j - 1]
      BY <1>1, <1>2, <2>3
    <3>2. QED
      BY <3>1
  <2>4. j <= b \/ j = b + 1 \/ j > b + 1
    BY <1>1
  <2>5. QED
    BY <2>1, <2>2, <2>3, <2>4
<1>4. \E j \in 1 .. n + 1 : new[j] = e
  <2>1. b + 1 \in 1 .. n + 1 /\ new[b + 1] = e
    BY <1>1, <1>2
  <2>2. QED
    BY <2>1
<1>5. ASSUME NEW i \in 1 .. n PROVE \E j \in 1 .. n + 1 : new[j] = list[i]
  <2>1. CASE i <= b
    <3>1. i \in 1 .. n + 1 /\ new[i] = list[i]
      BY <1>1, <1>2, <2>1
    <3>2. QED
      BY <3>1
  <2>2. CASE i > b
    <3>1. i + 1 \in 1 .. n + 1 /\ new[i + 1] = list[(i + 1) - 1]
      BY <1>1, <1>2, <2>2
    <3>2. QED
      BY <1>1, <3>1
  <2>3. i <= b \/ i > b
    BY <1>1
  <2>4. QED
    BY <2>1, <2>2, <2>3
<1>6. QED
  BY <1>2, <1>3, <1>4, <1>5 DEF Values, new

LEMMA EraseValues ==
    ASSUME NEW list \in Seq(CacheItem), Distinct(list), NEW i \in 1 .. Len(list)
    PROVE  Values(Erase(list, i)) = Values(list) \ {Value(list[i])}
<1> DEFINE n == Len(list)
           new == Erase(list, i)
<1>1. n \in Nat
  BY LenProperties
<1>2. /\ Len(new) = n - 1
      /\ \A j \in 1 .. n - 1 : new[j] = IF j < i THEN list[j] ELSE list[j + 1]
  BY EraseProperties
<1> HIDE DEF new
<1>3. ASSUME NEW j \in 1 .. n - 1 PROVE \E k \in 1 .. n : k # i /\ new[j] = list[k]
  <2>1. CASE j < i
    <3>1. j \in 1 .. n /\ j # i /\ new[j] = list[j]
      BY <1>1, <1>2, <2>1
    <3>2. QED
      BY <3>1
  <2>2. CASE j >= i
    <3>1. j + 1 \in 1 .. n /\ j + 1 # i /\ new[j] = list[j + 1]
      BY <1>1, <1>2, <2>2
    <3>2. QED
      BY <3>1
  <2>3. j < i \/ j >= i
    BY <1>1
  <2>4. QED
    BY <2>1, <2>2, <2>3
<1>4. ASSUME NEW k \in 1 .. n, k # i PROVE \E j \in 1 .. n - 1 : new[j] = list[k]
  <2>1. CASE k < i
    <3>1. k \in 1 .. n - 1 /\ new[k] = list[k]
      BY <1>1, <1>2, <2>1
    <3>2. QED
      BY <3>1
  <2>2. CASE k > i
    <3>1. k - 1 \in 1 .. n - 1 /\ new[k - 1] = list[(k - 1) + 1]
      BY <1>1, <1>2, <2>2
    <3>2. QED
      BY <1>1, <3>1
  <2>3. k < i \/ k > i
    BY <1>1, <1>4
  <2>4. QED
    BY <2>1, <2>2, <2>3
<1>5. ASSUME NEW k \in 1 .. n, k # i PROVE Value(list[k]) # Value(list[i])
  <2>1. list[k].id # list[i].id
    BY <1>5 DEF Distinct
  <2>2. QED
    BY <2>1 DEF Value
<1>6. ASSUME NEW v \in Values(new) PROVE v \in Values(list) \ {Value(list[i])}
  <2>1. PICK j \in 1 .. n - 1 : v = Value(new[j])
    BY <1>2, <1>6 DEF Values
  <2>2. PICK k \in 1 .. n : k # i /\ new[j] = list[k]
    BY <1>3
  <2>3. QED
    BY <1>5, <2>1, <2>2 DEF Values
<1>7. ASSUME NEW v \in Values(list) \ {Value(list[i])} PROVE v \in Values(new)
  <2>1. PICK k \in 1 .. n : v = Value(list[k])
    BY <1>7 DEF Values
  <2>2. k # i
    BY <1>7, <2>1
  <2>3. PICK j \in 1 .. n - 1 : new[j] = list[k]
    BY <1>4, <2>2
  <2>4. QED
    BY <1>2, <2>1, <2>3 DEF Values
<1>8. QED
  BY <1>6, <1>7 DEF new

\* Values keep their names apart.
LEMMA PlaceDistinct ==
    ASSUME NEW list \in Seq(CacheItem), SortedList(list), Distinct(list),
           NEW e \in CacheItem, \A i \in 1 .. Len(list) : list[i].id # e.id
    PROVE  Distinct(Place(list, e))
<1> DEFINE n == Len(list)
           b == Behind(list, e)
           new == Place(list, e)
           old(j) == IF j <= b THEN j ELSE j - 1
<1>1. n \in Nat /\ b \in 0 .. n
  BY BehindProperties, LenProperties
<1>2. /\ Len(new) = n + 1
      /\ \A j \in 1 .. n + 1 :
           new[j] = IF j <= b THEN list[j] ELSE IF j = b + 1 THEN e ELSE list[j - 1]
  BY <1>1, PlaceProperties
<1> HIDE DEF b, new
<1>3. new[b + 1] = e
  BY <1>1, <1>2
<1>4. ASSUME NEW j \in 1 .. n + 1, j # b + 1
      PROVE  old(j) \in 1 .. n /\ new[j] = list[old(j)]
  <2>1. CASE j <= b
    BY <1>1, <1>2, <2>1
  <2>2. CASE j > b + 1
    <3>1. j - 1 \in 1 .. n /\ new[j] = list[j - 1] /\ old(j) = j - 1
      BY <1>1, <1>2, <2>2
    <3>2. QED
      BY <3>1
  <2>3. j <= b \/ j > b + 1
    BY <1>1, <1>4
  <2>4. QED
    BY <2>1, <2>2, <2>3
<1>5. SUFFICES ASSUME NEW i \in 1 .. n + 1, NEW j \in 1 .. n + 1, new[i].id = new[j].id
               PROVE  i = j
  BY <1>2 DEF Distinct, new
<1>6. CASE i = b + 1 \/ j = b + 1
  <2>1. \A k \in 1 .. n + 1 : k # b + 1 => new[k].id # e.id
    BY <1>4
  <2>2. QED
    BY <1>3, <1>5, <1>6, <2>1
<1>7. CASE i # b + 1 /\ j # b + 1
  <2>1. /\ old(i) \in 1 .. n /\ old(j) \in 1 .. n
        /\ list[old(i)].id = list[old(j)].id
    BY <1>4, <1>5, <1>7
  <2>2. old(i) = old(j)
    <3> HIDE DEF old
    <3>1. QED
      BY <2>1 DEF Distinct
  <2>3. QED
    BY <1>1, <1>7, <2>2
<1>8. QED
  BY <1>6, <1>7

LEMMA EraseDistinct ==
    ASSUME NEW list \in Seq(CacheItem), Distinct(list), NEW i \in 1 .. Len(list)
    PROVE  Distinct(Erase(list, i))
<1> DEFINE n == Len(list)
           new == Erase(list, i)
           at(j) == IF j < i THEN j ELSE j + 1
<1>1. n \in Nat
  BY LenProperties
<1>2. /\ Len(new) = n - 1
      /\ \A j \in 1 .. n - 1 : new[j] = IF j < i THEN list[j] ELSE list[j + 1]
  BY EraseProperties
<1> HIDE DEF new
<1>3. SUFFICES ASSUME NEW p \in 1 .. n - 1, NEW q \in 1 .. n - 1, new[p].id = new[q].id
               PROVE  p = q
  BY <1>2 DEF Distinct, new
<1>4. at(p) \in 1 .. n /\ at(q) \in 1 .. n
  BY <1>1
<1>5. new[p] = list[at(p)] /\ new[q] = list[at(q)]
  BY <1>2
<1>6. at(p) = at(q)
  <2> HIDE DEF at
  <2>1. QED
    BY <1>3, <1>4, <1>5 DEF Distinct
<1>7. QED
  BY <1>1, <1>6

\* The bound on the names depends on the values alone.
LEMMA NamesBelow ==
    ASSUME NEW list, NEW new, NEW e, NEW n \in Nat,
           \A i \in 1 .. Len(list) : list[i].id < n,
           e.id < n,
           Values(new) \subseteq Values(list) \cup {Value(e)}
    PROVE  \A i \in 1 .. Len(new) : new[i].id < n
<1> SUFFICES ASSUME NEW i \in 1 .. Len(new) PROVE new[i].id < n
  OBVIOUS
<1>1. Value(new[i]) \in Values(list) \cup {Value(e)}
  BY DEF Values
<1>2. Value(new[i]).id = new[i].id /\ Value(e).id = e.id
  BY DEF Value
<1>3. CASE Value(new[i]) = Value(e)
  BY <1>2, <1>3
<1>4. CASE Value(new[i]) \in Values(list)
  <2>1. PICK k \in 1 .. Len(list) : Value(new[i]) = Value(list[k])
    BY <1>4 DEF Values
  <2>2. new[i].id = list[k].id
    BY <2>1 DEF Value
  <2>3. QED
    BY <2>2
<1>5. QED
  BY <1>1, <1>3, <1>4

\* An operation on a key means its first entry, which is due before the others.
LEMMA LookupProperties ==
    ASSUME NEW list \in Seq(CacheItem), NEW k, Places(list, k) # {}
    PROVE  /\ lookup(list, k) \in 1 .. Len(list) /\ list[lookup(list, k)].key = k
           /\ SortedList(list) =>
                \A j \in 1 .. Len(list) : list[j].key = k =>
                   getExpiryTime(list[lookup(list, k)]) <= getExpiryTime(list[j])
<1>1. Len(list) \in Nat /\ \A i \in 1 .. Len(list) : list[i] \in CacheItem
  BY ElementOfSeq, LenProperties
<1> DEFINE S == Places(list, k)
<1>2. \E i \in S : \A j \in S : i <= j
  <2> DEFINE B == {i \in 1 .. Len(list) : \A j \in 1 .. i : j \notin S}
  <2>1. B \in SUBSET (1 .. Len(list)) /\ \A j \in B : \A i \in 1 .. j : i \in B
    BY <1>1
  <2>2. PICK m \in 0 .. Len(list) : B = 1 .. m
    <3> HIDE DEF B
    <3>1. QED
      BY <1>1, <2>1, InitialSegment
  <2>3. \A j \in S : j \in 1 .. Len(list) /\ j \notin B
    BY <1>1 DEF Places
  <2>4. ASSUME NEW j \in S PROVE m + 1 <= j
    <3>1. j \in 1 .. Len(list) /\ j \notin 1 .. m
      BY <2>2, <2>3
    <3>2. QED
      BY <1>1, <3>1
  <2>5. m + 1 \in 1 .. Len(list) /\ m + 1 \notin B
    <3>1. PICK j \in S : TRUE
      OBVIOUS
    <3>2. m + 1 <= j /\ j \in 1 .. Len(list)
      BY <2>3, <2>4
    <3>3. m + 1 \in 1 .. Len(list) /\ m + 1 \notin 1 .. m
      BY <1>1, <3>2
    <3>4. QED
      BY <2>2, <3>3
  <2>6. m + 1 \in S
    <3>1. PICK j \in 1 .. m + 1 : j \in S
      BY <2>5
    <3>2. j = m + 1
      BY <1>1, <2>4, <3>1
    <3>3. QED
      BY <3>1, <3>2
  <2>7. QED
    BY <2>4, <2>6
<1>3. lookup(list, k) \in S /\ \A j \in S : lookup(list, k) <= j
  <2>1. lookup(list, k) = CHOOSE i \in S : \A j \in S : i <= j
    BY DEF lookup
  <2> HIDE DEF S
  <2>2. QED
    BY <1>2, <2>1
<1> DEFINE i == lookup(list, k)
<1>4. i \in 1 .. Len(list) /\ list[i].key = k
  BY <1>3 DEF Places
<1>5. ASSUME SortedList(list), NEW j \in 1 .. Len(list), list[j].key = k
      PROVE  getExpiryTime(list[i]) <= getExpiryTime(list[j])
  <2>1. i = j \/ i < j
    BY <1>1, <1>3, <1>4, <1>5 DEF Places
  <2>2. getExpiryTime(list[i]) \in Nat
    BY <1>1, <1>4, ExpiryNat
  <2> HIDE DEF i
  <2>3. QED
    BY <1>4, <1>5, <2>1, <2>2 DEF SortedList
<1>6. QED
  BY <1>4, <1>5

-----------------------------------------------------------------------------
(* The inductive invariant.                                                 *)

CacheInv == ListTypeOK /\ Sorted /\ Expiring

\* What the invariant says of the list, in the terms of the lemmas above.
LEMMA InvList ==
    ASSUME CacheInv
    PROVE  /\ m_list \in Seq(CacheItem) /\ SortedList(m_list) /\ Distinct(m_list)
           /\ \A i \in 1 .. Len(m_list) : m_list[i].id < stored
           /\ stored \in Nat /\ now \in 0 .. MaxNow
           /\ Len(m_list) \in Nat
           /\ \A i \in 1 .. Len(m_list) : m_list[i] \in CacheItem
<1>1. m_list \in Seq(CacheItem)
  BY DEF CacheInv, ListTypeOK
<1>2. Len(m_list) \in Nat /\ \A i \in 1 .. Len(m_list) : m_list[i] \in CacheItem
  BY <1>1, ElementOfSeq, LenProperties
<1>3. QED
  BY <1>1, <1>2 DEF CacheInv, ListTypeOK, Sorted, Distinct

\* A list that is in order and names its values apart, with no expiry under way.
LEMMA InvFromList ==
    ASSUME CacheInv, m_list' \in Seq(CacheItem), SortedList(m_list'), Distinct(m_list'),
           \A i \in 1 .. Len(m_list') : m_list'[i].id < stored',
           stored' \in Nat, now' = now, since' = since, l' = l,
           Expiring'
    PROVE  CacheInv'
BY DEF CacheInv, ListTypeOK, Sorted, Distinct

\* The names of a list that keeps old values and takes a value with a low name.
LEMMA PlaceKeepsInv ==
    ASSUME CacheInv, NEW list \in Seq(CacheItem), SortedList(list), Distinct(list),
           NEW e \in CacheItem, NEW n \in Nat, e.id < n, stored <= n,
           \A i \in 1 .. Len(list) : list[i].id < stored /\ list[i].id # e.id
    PROVE  /\ Place(list, e) \in Seq(CacheItem) /\ SortedList(Place(list, e))
           /\ Distinct(Place(list, e))
           /\ \A i \in 1 .. Len(Place(list, e)) : Place(list, e)[i].id < n
           /\ Values(Place(list, e)) = Values(list) \cup {Value(e)}
<1>1. Place(list, e) \in Seq(CacheItem)
  BY BehindProperties, PlaceProperties
<1>2. SortedList(Place(list, e)) /\ Distinct(Place(list, e))
  BY PlaceSorted, PlaceDistinct
<1>3. Values(Place(list, e)) = Values(list) \cup {Value(e)}
  BY PlaceValues
<1>4. \A i \in 1 .. Len(list) : list[i].id < n
  <2>1. stored \in Nat /\ \A i \in 1 .. Len(list) : list[i].id \in Nat
    <3>1. ASSUME NEW i \in 1 .. Len(list) PROVE list[i].id \in Nat
      <4>1. list[i] \in CacheItem
        BY ElementOfSeq
      <4>2. QED
        BY <4>1 DEF CacheItem
    <3>2. QED
      BY <3>1, InvList
  <2>2. QED
    BY <2>1
<1>5. \A i \in 1 .. Len(Place(list, e)) : Place(list, e)[i].id < n
  BY <1>3, <1>4, NamesBelow
<1>6. QED
  BY <1>1, <1>2, <1>3, <1>5

LEMMA EraseKeepsInv ==
    ASSUME CacheInv, NEW i \in 1 .. Len(m_list)
    PROVE  /\ Erase(m_list, i) \in Seq(CacheItem) /\ SortedList(Erase(m_list, i))
           /\ Distinct(Erase(m_list, i))
           /\ \A j \in 1 .. Len(Erase(m_list, i)) :
                Erase(m_list, i)[j].id < stored /\ Erase(m_list, i)[j].id # m_list[i].id
           /\ Values(Erase(m_list, i)) = Values(m_list) \ {Value(m_list[i])}
<1> DEFINE n == Len(m_list)
           new == Erase(m_list, i)
<1>1. m_list \in Seq(CacheItem) /\ SortedList(m_list) /\ Distinct(m_list) /\ n \in Nat
  BY InvList
<1>2. new \in Seq(CacheItem) /\ SortedList(new) /\ Distinct(new)
  BY <1>1, EraseProperties, EraseSorted, EraseDistinct
<1>3. Values(new) = Values(m_list) \ {Value(m_list[i])}
  BY <1>1, EraseValues
<1>4. /\ Len(new) = n - 1
      /\ \A j \in 1 .. n - 1 : new[j] = IF j < i THEN m_list[j] ELSE m_list[j + 1]
  BY <1>1, EraseProperties
<1> HIDE DEF new
<1>5. ASSUME NEW j \in 1 .. n - 1
      PROVE  new[j].id < stored /\ new[j].id # m_list[i].id
  <2> DEFINE at == IF j < i THEN j ELSE j + 1
  <2>1. at \in 1 .. n /\ at # i
    BY <1>1
  <2>2. new[j] = m_list[at]
    BY <1>4
  <2> HIDE DEF at
  <2>3. QED
    BY <2>1, <2>2, InvList DEF Distinct
<1>6. QED
  BY <1>2, <1>3, <1>4, <1>5 DEF new

\* The entry that an operation on key k means is the value due first.
LEMMA LookupIsFirstDue ==
    ASSUME CacheInv, NEW k \in Keys, exists(k)
    PROVE  /\ lookup(m_list, k) \in 1 .. Len(m_list)
           /\ Value(m_list[lookup(m_list, k)]) \in Due!FirstDue(k)
<1> DEFINE i == lookup(m_list, k)
<1>1. /\ i \in 1 .. Len(m_list) /\ m_list[i].key = k
      /\ \A j \in 1 .. Len(m_list) : m_list[j].key = k =>
            getExpiryTime(m_list[i]) <= getExpiryTime(m_list[j])
  BY InvList, LookupProperties DEF exists
<1> HIDE DEF i
<1>2. Value(m_list[i]).key = k /\ Value(m_list[i]).due = getExpiryTime(m_list[i])
  BY <1>1 DEF Value
<1>3. ASSUME NEW w \in {Value(m_list[j]) : j \in 1 .. Len(m_list)}, w.key = k
      PROVE  Value(m_list[i]).due <= w.due
  BY <1>1, <1>2, <1>3 DEF Value
<1>4. QED
  BY <1>1, <1>2, <1>3 DEF Due!FirstDue, i

-----------------------------------------------------------------------------
(* Each step keeps the invariant and is a step of the set, or none.         *)

LEMMA InitCorrect == CacheInit => CacheInv /\ Due!Init
<1> SUFFICES ASSUME CacheInit PROVE CacheInv /\ Due!Init
  OBVIOUS
<1>1. m_list = <<>> /\ Len(m_list) = 0 /\ m_list \in Seq(CacheItem)
  BY DEF CacheInit
<1>2. now \in 0 .. MaxNow /\ now \in Nat
  BY BoundsNat DEF CacheInit
<1>3. CacheInv
  BY <1>1, <1>2 DEF CacheInit, CacheInv, ListTypeOK, Sorted, SortedList, Expiring
<1>4. {Value(m_list[i]) : i \in 1 .. Len(m_list)} = {}
  BY <1>1
<1>5. QED
  BY <1>2, <1>3, <1>4 DEF CacheInit, Due!Init

\* A new entry, as Insert and Assign make it.
LEMMA StoreCorrect ==
    ASSUME CacheInv, NEW k \in Keys, Fresh, m_list' = Place(m_list, NewItem(k)),
           UNCHANGED <<now, since, l>>
    PROVE  CacheInv' /\ Due!Next
<1> DEFINE e == NewItem(k)
<1>1. stored \in Nat /\ now \in 0 .. MaxNow /\ stored' = stored + 1 /\ stored \in 0 .. MaxIds
  BY InvList, BoundsNat DEF Fresh
<1>2. e \in CacheItem /\ e.id = stored
  BY <1>1, TimeoutsNat DEF NewItem, CacheItem
<1>3. /\ m_list \in Seq(CacheItem) /\ SortedList(m_list) /\ Distinct(m_list)
      /\ \A i \in 1 .. Len(m_list) : m_list[i].id < stored /\ m_list[i].id # stored
  <2>1. \A i \in 1 .. Len(m_list) : m_list[i].id \in Nat
    BY InvList DEF CacheItem
  <2>2. QED
    BY <1>1, <2>1, InvList
<1> HIDE DEF e
<1>4. /\ m_list' \in Seq(CacheItem) /\ SortedList(m_list') /\ Distinct(m_list')
      /\ \A i \in 1 .. Len(m_list') : m_list'[i].id < stored'
      /\ Values(m_list') = Values(m_list) \cup {Value(e)}
  <2>1. stored + 1 \in Nat /\ e.id < stored + 1 /\ stored <= stored + 1
    BY <1>1, <1>2
  <2>2. QED
    BY <1>1, <1>2, <1>3, <2>1, PlaceKeepsInv DEF e
<1>5. Expiring'
  <2> SUFFICES ASSUME l # None
               PROVE  /\ since # None
                      /\ \E j \in 1 .. Len(m_list') :
                           m_list'[j].id = l /\ getExpiryTime(m_list'[j]) < since
    BY DEF Expiring
  <2>1. PICK i \in 1 .. Len(m_list) : m_list[i].id = l /\ getExpiryTime(m_list[i]) < since
    BY DEF CacheInv, Expiring
  <2>2. Value(m_list[i]) \in Values(m_list')
    BY <1>4 DEF Values
  <2>3. PICK j \in 1 .. Len(m_list') : Value(m_list[i]) = Value(m_list'[j])
    BY <2>2 DEF Values
  <2>4. m_list'[j].id = l /\ getExpiryTime(m_list'[j]) < since
    BY <2>1, <2>3 DEF Value
  <2>5. QED
    BY <2>4 DEF CacheInv, Expiring
<1>6. CacheInv'
  BY <1>1, <1>4, <1>5, InvFromList
<1>7. Value(e) = [id |-> stored, key |-> k, due |-> now + Default]
  BY DEF e, NewItem, Value, getExpiryTime
<1>8. Due!Store(stored, k, Default)
  BY <1>4, <1>7 DEF Due!Store, Values
<1>9. QED
  BY <1>1, <1>6, <1>8, TimeoutsNat DEF Due!Next

\* The value under a key changes; its place and its time do not.
LEMMA ExchangeCorrect ==
    ASSUME CacheInv, NEW k \in Keys, since = None, Fresh, exists(k),
           m_list' = [m_list EXCEPT ![lookup(m_list, k)].id = stored],
           UNCHANGED <<now, since, l>>
    PROVE  CacheInv' /\ Due!Next
<1> DEFINE i == lookup(m_list, k)
<1>1. i \in 1 .. Len(m_list) /\ Value(m_list[i]) \in Due!FirstDue(k)
  BY LookupIsFirstDue
<1> HIDE DEF i
<1>2. /\ stored \in Nat /\ stored' = stored + 1 /\ stored \in 0 .. MaxIds
      /\ m_list \in Seq(CacheItem) /\ Len(m_list) \in Nat
      /\ \A j \in 1 .. Len(m_list) : m_list[j] \in CacheItem /\ m_list[j].id < stored
  BY InvList, BoundsNat DEF Fresh
<1>3. m_list' = [m_list EXCEPT ![i] = [m_list[i] EXCEPT !.id = stored]]
  BY DEF i
<1>4. /\ Len(m_list') = Len(m_list)
      /\ \A j \in 1 .. Len(m_list) :
           m_list'[j] = IF j = i THEN [m_list[i] EXCEPT !.id = stored] ELSE m_list[j]
  BY <1>1, <1>2, <1>3
<1>5. [m_list[i] EXCEPT !.id = stored] \in CacheItem
  BY <1>1, <1>2 DEF CacheItem
<1>6. m_list' \in Seq(CacheItem)
  <2> DEFINE f == [m_list[i] EXCEPT !.id = stored]
  <2>1. f \in CacheItem
    BY <1>5
  <2> HIDE DEF f
  <2>2. [m_list EXCEPT ![i] = f] \in Seq(CacheItem)
    BY <1>1, <1>2, <2>1
  <2>3. QED
    BY <1>3, <2>2 DEF f
<1>7. \A j \in 1 .. Len(m_list) : /\ getExpiryTime(m_list'[j]) = getExpiryTime(m_list[j])
                                  /\ m_list'[j].key = m_list[j].key
                                  /\ m_list'[j].id = IF j = i THEN stored ELSE m_list[j].id
  BY <1>2, <1>4 DEF CacheItem, getExpiryTime
<1>8. SortedList(m_list')
  BY <1>4, <1>7, InvList DEF SortedList
<1>9. \A j \in 1 .. Len(m_list') : m_list'[j].id < stored'
  <2>1. \A j \in 1 .. Len(m_list) : m_list[j].id \in Nat
    BY <1>2 DEF CacheItem
  <2>2. QED
    BY <1>2, <1>4, <1>7, <2>1
<1>10. Distinct(m_list')
  <2>1. \A j \in 1 .. Len(m_list) : m_list[j].id # stored
    <3>1. \A j \in 1 .. Len(m_list) : m_list[j].id \in Nat
      BY <1>2 DEF CacheItem
    <3>2. QED
      BY <1>2, <3>1
  <2>2. QED
    BY <1>4, <1>7, <2>1, InvList DEF Distinct
<1>11. Expiring'
  BY DEF CacheInv, Expiring, ListTypeOK
<1>12. CacheInv'
  BY <1>2, <1>6, <1>8, <1>9, <1>10, <1>11, InvFromList
<1>13. \A j \in 1 .. Len(m_list) :
         Value(m_list'[j]) = IF j = i THEN [Value(m_list[i]) EXCEPT !.id = stored]
                             ELSE Value(m_list[j])
  BY <1>4, <1>7 DEF Value
<1>14. \A j \in 1 .. Len(m_list) : j # i => Value(m_list[j]) # Value(m_list[i])
  BY <1>1, InvList DEF Value, Distinct
<1>15. Values(m_list') = (Values(m_list) \ {Value(m_list[i])})
                           \cup {[Value(m_list[i]) EXCEPT !.id = stored]}
  BY <1>1, <1>4, <1>13, <1>14 DEF Values
<1>16. Due!Exchange(stored, k)
  BY <1>1, <1>15 DEF Due!Exchange, Values
<1>17. QED
  BY <1>2, <1>12, <1>16 DEF Due!Next

LEMMA RemoveCorrect ==
    ASSUME CacheInv, NEW k \in Keys, Remove(k)
    PROVE  CacheInv' /\ Due!Next
<1> DEFINE i == lookup(m_list, k)
<1>1. i \in 1 .. Len(m_list) /\ Value(m_list[i]) \in Due!FirstDue(k)
  BY LookupIsFirstDue DEF Remove
<1>2. m_list' = Erase(m_list, i) /\ UNCHANGED <<now, since, l, stored>> /\ since = None
  BY DEF Remove
<1> HIDE DEF i
<1>3. Expiring'
  BY <1>2 DEF CacheInv, Expiring
<1>4. CacheInv'
  BY <1>1, <1>2, <1>3, EraseKeepsInv, InvFromList, InvList
<1>5. Due!TakeOut(k)
  <2>1. Values(m_list') = Values(m_list) \ {Value(m_list[i])}
    BY <1>1, <1>2, EraseKeepsInv
  <2>2. QED
    BY <1>1, <1>2, <2>1 DEF Due!TakeOut, Values
<1>6. QED
  BY <1>4, <1>5 DEF Due!Next

\* setTimeout and refresh: the entry is taken out and put where it belongs now.
LEMMA PostponeCorrect ==
    ASSUME CacheInv, NEW k \in Keys, NEW s \in Timeouts, since = None, exists(k),
           m_list' = Place(Erase(m_list, lookup(m_list, k)),
                           [m_list[lookup(m_list, k)] EXCEPT !.timeout = s]),
           UNCHANGED <<now, since, l, stored>>
    PROVE  CacheInv' /\ Due!Next
<1> DEFINE i == lookup(m_list, k)
           e == [m_list[i] EXCEPT !.timeout = s]
           rest == Erase(m_list, i)
<1>1. i \in 1 .. Len(m_list) /\ Value(m_list[i]) \in Due!FirstDue(k)
  BY LookupIsFirstDue
<1>2. m_list[i] \in CacheItem /\ m_list[i].id < stored /\ stored \in Nat
  BY <1>1, InvList
<1> HIDE DEF i
<1>3. /\ e \in CacheItem /\ e.id = m_list[i].id /\ e.key = m_list[i].key
      /\ e.timestamp = m_list[i].timestamp /\ e.timeout = s
  BY <1>2 DEF CacheItem
<1>4. /\ rest \in Seq(CacheItem) /\ SortedList(rest) /\ Distinct(rest)
      /\ \A j \in 1 .. Len(rest) : rest[j].id < stored /\ rest[j].id # e.id
      /\ Values(rest) = Values(m_list) \ {Value(m_list[i])}
  BY <1>1, <1>3, EraseKeepsInv
<1>5. m_list' = Place(rest, e)
  BY DEF i
<1> HIDE DEF e, rest
<1>6. /\ m_list' \in Seq(CacheItem) /\ SortedList(m_list') /\ Distinct(m_list')
      /\ \A j \in 1 .. Len(m_list') : m_list'[j].id < stored'
      /\ Values(m_list') = Values(rest) \cup {Value(e)}
  <2>1. e.id < stored /\ stored <= stored /\ stored' = stored
    BY <1>2, <1>3
  <2>2. QED
    BY <1>2, <1>3, <1>4, <1>5, <2>1, PlaceKeepsInv
<1>7. Expiring'
  BY DEF CacheInv, Expiring
<1>8. CacheInv'
  BY <1>2, <1>6, <1>7, InvFromList
<1>9. Value(e) = [Value(m_list[i]) EXCEPT !.due = m_list[i].timestamp + s]
  BY <1>3 DEF Value, getExpiryTime
<1>10. m_list[i].timestamp + s \in {t + u : t \in 0 .. MaxNow, u \in Timeouts}
  BY <1>2 DEF CacheItem
<1>11. Due!Postpone(k)
  <2> DEFINE v == Value(m_list[i])
             d == m_list[i].timestamp + s
  <2>1. Values(m_list') = (Values(m_list) \ {v}) \cup {[v EXCEPT !.due = d]}
    BY <1>4, <1>6, <1>9
  <2>2. v \in Due!FirstDue(k) /\ UNCHANGED <<now, since>>
    BY <1>1
  <2> DEFINE T == {t + u : t \in 0 .. MaxNow, u \in Timeouts}
             Moved(u, t) == Values(m_list') = (Values(m_list) \ {u}) \cup {[u EXCEPT !.due = t]}
  <2>3. d \in T
    BY <1>10
  <2>4. Moved(v, d)
    BY <2>1
  <2>5. Due!Postpone(k) <=> /\ \E u \in Due!FirstDue(k), t \in T : Moved(u, t)
                            /\ UNCHANGED <<now, since>>
    BY DEF Due!Postpone, Values
  <2> HIDE DEF v, d, T, Moved
  <2>6. QED
    BY <2>2, <2>3, <2>4, <2>5
<1>12. QED
  BY <1>8, <1>11 DEF Due!Next

LEMMA RefreshCorrect ==
    ASSUME CacheInv, NEW k \in Keys, refresh(k)
    PROVE  CacheInv' /\ Due!Next
<1> DEFINE i == lookup(m_list, k)
<1>1. m_list[i] \in CacheItem
  BY LookupIsFirstDue, InvList DEF refresh
<1>2. m_list[i] = [m_list[i] EXCEPT !.timeout = m_list[i].timeout]
  BY <1>1 DEF CacheItem
<1>3. m_list[i].timeout \in Timeouts
  BY <1>1 DEF CacheItem
<1>4. QED
  BY <1>2, <1>3, PostponeCorrect DEF refresh

LEMMA RemoveItemCorrect ==
    ASSUME CacheInv, removeItem
    PROVE  CacheInv' /\ Due!Next
<1> DEFINE i == CHOOSE j \in 1 .. Len(m_list) : m_list[j].id = l
<1>1. PICK p \in 1 .. Len(m_list) : m_list[p].id = l /\ getExpiryTime(m_list[p]) < since
  BY DEF CacheInv, Expiring, removeItem
<1>2. i \in 1 .. Len(m_list) /\ m_list[i].id = l
  BY <1>1
<1>3. m_list' = Erase(m_list, i) /\ l' = None /\ UNCHANGED <<now, since, stored>>
  BY DEF removeItem
<1> HIDE DEF i
<1>4. i = p
  BY <1>1, <1>2, InvList DEF Distinct
<1>5. CacheInv'
  <2>1. Expiring'
    BY <1>3 DEF Expiring
  <2>2. /\ m_list' \in Seq(CacheItem) /\ SortedList(m_list') /\ Distinct(m_list')
        /\ \A j \in 1 .. Len(m_list') : m_list'[j].id < stored'
    BY <1>2, <1>3, EraseKeepsInv
  <2>3. QED
    BY <1>3, <2>1, <2>2 DEF CacheInv, ListTypeOK, Sorted, Distinct
<1>6. Due!Expire
  <2>1. Value(m_list[i]).due < since /\ since # None
    BY <1>1, <1>4 DEF Value, CacheInv, Expiring, removeItem
  <2>2. Value(m_list[i]) \in Values(m_list)
    BY <1>2 DEF Values
  <2>3. Values(m_list') = Values(m_list) \ {Value(m_list[i])}
    BY <1>2, <1>3, EraseKeepsInv
  <2>4. QED
    BY <1>3, <2>1, <2>2, <2>3 DEF Due!Expire, Values
<1>7. QED
  BY <1>5, <1>6 DEF Due!Next

\* The loop stops at the front entry; those behind it are due no earlier.
LEMMA SweepEndsCorrect ==
    ASSUME CacheInv, SweepEnds
    PROVE  CacheInv' /\ Due!Next
<1>1. CacheInv'
  BY DEF CacheInv, ListTypeOK, Sorted, Expiring, SweepEnds
<1>2. ASSUME NEW j \in 1 .. Len(m_list) PROVE ~(getExpiryTime(m_list[j]) < since)
  <2>1. m_list # <<>> /\ 1 \in 1 .. Len(m_list) /\ (j = 1 \/ 1 < j)
    BY InvList
  <2>2. getExpiryTime(m_list[1]) \in Nat /\ getExpiryTime(m_list[j]) \in Nat
    BY <2>1, InvList, ExpiryNat
  <2>3. getExpiryTime(m_list[1]) <= getExpiryTime(m_list[j])
    BY <2>1, <2>2, InvList DEF SortedList
  <2>4. ~(getExpiryTime(m_list[1]) < since) /\ since \in Nat
    BY <2>1 DEF SweepEnds, FrontIsDue, CacheInv, ListTypeOK
  <2>5. QED
    BY <2>2, <2>3, <2>4
<1>3. \A v \in {Value(m_list[j]) : j \in 1 .. Len(m_list)} : ~(v.due < since)
  BY <1>2 DEF Value
<1>4. Due!Finish
  BY <1>3 DEF Due!Finish, SweepEnds
<1>5. QED
  BY <1>1, <1>4 DEF Due!Next

LEMMA ClearCorrect ==
    ASSUME CacheInv, removeAll
    PROVE  CacheInv' /\ Due!Next
<1>1. m_list' = <<>> /\ Len(m_list') = 0 /\ m_list' \in Seq(CacheItem)
  BY DEF removeAll
<1>2. CacheInv'
  BY <1>1 DEF CacheInv, ListTypeOK, Sorted, SortedList, Expiring, removeAll
<1>3. Due!Clear
  BY <1>1 DEF Due!Clear, removeAll
<1>4. QED
  BY <1>2, <1>3 DEF Due!Next

LEMMA StepCorrect == CacheInv /\ [CacheNext]_cacheVars => CacheInv' /\ [Due!Next]_(Due!vars)
<1> SUFFICES ASSUME CacheInv, [CacheNext]_cacheVars PROVE CacheInv' /\ [Due!Next]_(Due!vars)
  OBVIOUS
<1>1. CASE Clock
  <2>1. CacheInv'
    BY <1>1 DEF Clock, CacheInv, ListTypeOK, Sorted, Expiring
  <2>2. now' \in Nat
    BY <1>1, BoundsNat DEF Clock
  <2>3. Due!Clock
    BY <1>1, <2>2 DEF Clock, Due!Clock
  <2>4. QED
    BY <2>1, <2>3 DEF Due!Next
<1>2. CASE \E k \in Keys : Assign(k)
  <2>1. PICK k \in Keys : Assign(k)
    BY <1>2
  <2>2. CASE exists(k)
    BY <2>1, <2>2, ExchangeCorrect DEF Assign
  <2>3. CASE ~exists(k)
    BY <2>1, <2>3, StoreCorrect DEF Assign
  <2>4. QED
    BY <2>2, <2>3
<1>3. CASE \E k \in Keys : Remove(k)
  BY <1>3, RemoveCorrect
<1>4. CASE \E k \in Keys : refresh(k)
  BY <1>4, RefreshCorrect
<1>5. CASE \E k \in Keys : Insert(k)
  BY <1>5, StoreCorrect DEF Insert
<1>6. CASE \E k \in Keys : \E s \in Timeouts : setTimeout(k, s)
  BY <1>6, PostponeCorrect DEF setTimeout
<1>7. CASE removeAll
  BY <1>7, ClearCorrect
<1>8. CASE clearoutPoll
  <2>1. now \in Nat
    BY InvList, BoundsNat
  <2>2. CacheInv'
    BY <1>8, <2>1, NoneNoTime DEF clearoutPoll, CacheInv, ListTypeOK, Sorted, Expiring
  <2>3. Due!Begin
    BY <1>8 DEF clearoutPoll, Due!Begin
  <2>4. QED
    BY <2>2, <2>3 DEF Due!Next
<1>9. CASE expireItem
  <2>1. /\ 1 \in 1 .. Len(m_list) /\ l' = m_list[1].id /\ m_list[1].id \in Nat
        /\ getExpiryTime(m_list[1]) < since /\ since # None
        /\ UNCHANGED <<now, m_list, since, stored>>
    BY <1>9, InvList DEF expireItem, FrontIsDue, CacheItem
  <2>2. CacheInv'
    BY <2>1 DEF CacheInv, ListTypeOK, Sorted, Expiring
  <2>3. UNCHANGED Due!vars
    BY <2>1 DEF Due!vars
  <2>4. QED
    BY <2>2, <2>3
<1>10. CASE removeItem
  BY <1>10, RemoveItemCorrect
<1>11. CASE SweepEnds
  BY <1>11, SweepEndsCorrect
<1>12. CASE UNCHANGED cacheVars
  BY <1>12 DEF cacheVars, CacheInv, ListTypeOK, Sorted, Expiring, Due!vars
<1>13. QED
  BY <1>1, <1>2, <1>3, <1>4, <1>5, <1>6, <1>7, <1>8, <1>9, <1>10, <1>11, <1>12 DEF CacheNext

\* The list has its type and names its values apart.
THEOREM CacheTypeOK == CacheSpec => []ListTypeOK
<1>1. CacheInit => CacheInv
  BY InitCorrect
<1>2. CacheInv /\ [CacheNext]_cacheVars => CacheInv'
  BY StepCorrect
<1>3. CacheInv => ListTypeOK
  BY DEF CacheInv
<1>4. QED
  BY <1>1, <1>2, <1>3, PTL DEF CacheSpec

\* The list is in the order of expiry, for any timeouts and any clock (Cache.h:140-151).
THEOREM AlwaysSorted == CacheSpec => []Sorted
<1>1. CacheInit => CacheInv
  BY InitCorrect
<1>2. CacheInv /\ [CacheNext]_cacheVars => CacheInv'
  BY StepCorrect
<1>3. CacheInv => Sorted
  BY DEF CacheInv
<1>4. QED
  BY <1>1, <1>2, <1>3, PTL DEF CacheSpec

(* The sorted list implements the set: a sweep that looks at the front      *)
(* alone (Cache.h:181-185) takes what is due, all of it and nothing else.   *)
THEOREM ImplementsDueSet == CacheSpec => DueSpec
<1>1. CacheInit => CacheInv /\ Due!Init
  BY InitCorrect
<1>2. CacheInv /\ [CacheNext]_cacheVars => CacheInv' /\ [Due!Next]_(Due!vars)
  BY StepCorrect
<1>3. QED
  BY <1>1, <1>2, PTL DEF CacheSpec, DueSpec, Due!Spec

-----------------------------------------------------------------------------
(* The session.                                                             *)

USE DEF State, AuthStates, BOSStates, AuthReplyStates

-----------------------------------------------------------------------------
(* Type correctness.                                                        *)

\* The FLAPs the servers send are FLAPs.
LEMMA FlapTypes ==
    /\ \A k \in Kinds : Plain(k) \in Flap
    /\ \A k \in {"Online", "Offline"}, c \in Roster : About(k, c) \in Flap
BY DEF Plain, About, Flap

LEMMA NoFlaps == <<>> \in Seq(Flap)
OBVIOUS

\* Reading the first FLAP leaves sequences of FLAPs and a known pc.
LEMMA ConsumeType ==
    ASSUME TypeOK, m_recv # <<>>, Consume
    PROVE  m_recv' \in Seq(Flap) /\ pc' \in {"idle", "recv", "parse"}
BY DEF TypeOK, Consume

\* What Client::Disconnect leaves behind is well typed.
LEMMA DisconnectType ==
    ASSUME TypeOK, Disconnect
    PROVE  /\ sock' \in {"NOT_CONNECTED", "NONBLOCKING_CONNECT", "CONNECTED"}
           /\ watch' \in {"NONE", "READ", "WRITE"}
           /\ wire' \in Seq(Flap) /\ server' \in Servers
           /\ listener' \in Listeners
           /\ online' \in SUBSET Roster
           /\ signalled' \in {"nothing", "connected", "disconnected"}
BY NoFlaps DEF TypeOK, Disconnect, TearDown, CloseServerSocket, SignalDisconnect, Dropped, Stop,
       Started, Listeners, Servers, connVars, toldVars

\* So is what a Send leaves behind, whatever became of it.
LEMMA SendType ==
    ASSUME TypeOK, NEW next \in Servers, SendOk(next)
    PROVE  /\ sock' \in {"NOT_CONNECTED", "NONBLOCKING_CONNECT", "CONNECTED"}
           /\ watch' \in {"NONE", "READ", "WRITE"}
           /\ wire' \in Seq(Flap) /\ server' \in Servers
           /\ listener' \in Listeners
           /\ online' \in SUBSET Roster
           /\ signalled' \in {"nothing", "connected", "disconnected"}
BY DEF TypeOK, SendOk, Servers, toldVars

LEMMA SendOrDisconnectType ==
    ASSUME TypeOK, NEW next \in Servers, SendOrDisconnect(next)
    PROVE  /\ m_state' \in State
           /\ sock' \in {"NOT_CONNECTED", "NONBLOCKING_CONNECT", "CONNECTED"}
           /\ watch' \in {"NONE", "READ", "WRITE"}
           /\ wire' \in Seq(Flap) /\ server' \in Servers
           /\ listener' \in Listeners
           /\ online' \in SUBSET Roster
           /\ signalled' \in {"nothing", "connected", "disconnected"}
BY SendType, DisconnectType DEF SendOrDisconnect, TypeOK

\* A server's step appends a FLAP to the wire.
LEMMA ServerSendsType ==
    ASSUME TypeOK, NEW f \in Flap, NEW next \in Servers, ServerSends(f, next)
    PROVE  wire' \in Seq(Flap) /\ server' \in Servers
BY DEF TypeOK, ServerSends

LEMMA TypeInit == Init => TypeOK
BY DEF Init, TypeOK, Listeners, Servers

LEMMA TypeStep == TypeOK /\ [Next]_vars => TypeOK'
<1> SUFFICES ASSUME TypeOK, [Next]_vars PROVE TypeOK'
  OBVIOUS
<1>1. CASE ConnectAuthorizer
  BY <1>1, NoFlaps DEF TypeOK, ConnectAuthorizer, Connect, SignalDisconnect, CloseServerSocket, Servers, toldVars
<1>2. CASE SetStatusOffline
  BY <1>2, DisconnectType DEF TypeOK, SetStatusOffline
<1>3. CASE Request
  <2>1. server \in Servers
    BY DEF TypeOK
  <2>2. SendOrDisconnect(server)
    BY <1>3 DEF Request
  <2>3. QED
    BY <1>3, <2>1, <2>2, SendOrDisconnectType DEF TypeOK, Request
<1>4. CASE PingServer
  <2>1. server \in Servers
    BY DEF TypeOK
  <2>2. SendOrDisconnect(server)
    BY <1>4 DEF PingServer
  <2>3. QED
    BY <1>4, <2>1, <2>2, SendOrDisconnectType DEF TypeOK, PingServer
<1>5. CASE Elapse
  BY <1>5 DEF TypeOK, Elapse, connVars, toldVars
<1>6. ASSUME NEW d \in BOOLEAN, SetAcceptInDC(d) PROVE TypeOK'
  BY <1>6 DEF TypeOK, SetAcceptInDC, connVars, toldVars, Stop, Listeners
<1>7. CASE FinishNonBlockingConnect
  BY <1>7, DisconnectType DEF TypeOK, FinishNonBlockingConnect, toldVars, Servers
<1>8. CASE InconsistentState
  BY <1>8, DisconnectType DEF TypeOK, InconsistentState
<1>9. CASE AcceptFails
  BY <1>9 DEF TypeOK, AcceptFails, connVars, toldVars, Listeners
<1>10. CASE Recv
  <2>1. ASSUME NEW n \in 1..Len(wire),
               m_recv' = m_recv \o SubSeq(wire, 1, n),
               wire' = SubSeq(wire, n + 1, Len(wire)),
               pc' = "parse",
               UNCHANGED <<m_state, sock, watch, server, listener, toldVars, m_in_dc, pingDue>>
        PROVE  TypeOK'
    <3>1. wire \in Seq(Flap) /\ m_recv \in Seq(Flap) /\ n \in Nat /\ n <= Len(wire)
      BY <2>1 DEF TypeOK
    <3>2. SubSeq(wire, 1, n) \in Seq(Flap) /\ SubSeq(wire, n + 1, Len(wire)) \in Seq(Flap)
      BY <3>1
    <3>3. QED
      BY <2>1, <3>1, <3>2 DEF TypeOK, toldVars
  <2>2. CASE ~Readable /\ pc' = "idle"
             /\ UNCHANGED <<m_state, connVars, listener, toldVars, m_recv, m_in_dc, pingDue>>
    BY <2>2 DEF TypeOK, connVars, toldVars
  <2>3. CASE Disconnect /\ m_state' = "NOT_CONNECTED" /\ pc' = "idle"
             /\ UNCHANGED <<m_recv, m_in_dc, pingDue>>
    BY <2>3, DisconnectType DEF TypeOK
  <2>4. QED
    BY <1>10, <2>1, <2>2, <2>3 DEF Recv
<1>11. CASE ParseConnAck
  <2>1. m_recv # <<>> /\ Consume
    BY <1>11 DEF ParseConnAck, Parsing
  <2>2. CASE m_state \in DOMAIN AfterConnAck
    <3>1. Reply[m_state] \in Servers /\ AfterConnAck[m_state] \in State
      BY <2>2 DEF Reply, AfterConnAck, Servers
    <3>2. m_state' = AfterConnAck[m_state] /\ (SendOk(Reply[m_state]) \/ Disconnect)
      BY <1>11, <2>2 DEF ParseConnAck
    <3>3. QED
      BY <1>11, <2>1, <3>1, <3>2, ConsumeType, SendType, DisconnectType DEF TypeOK, ParseConnAck
  <2>3. CASE m_state \notin DOMAIN AfterConnAck
    BY <1>11, <2>1, <2>3, ConsumeType DEF TypeOK, ParseConnAck, connVars, toldVars
  <2>4. QED
    BY <2>2, <2>3
<1>12. CASE ParseRedirect
  <2>1. m_recv # <<>> /\ Consume
    BY <1>12 DEF ParseRedirect, Parsing
  <2>2. QED
    BY <1>12, <2>1, ConsumeType, NoFlaps
    DEF TypeOK, ParseRedirect, SignalDisconnect, CloseServerSocket, toldVars, Servers
<1>13. CASE ParseClose
  <2>1. m_recv # <<>> /\ Consume
    BY <1>13 DEF ParseClose, Parsing
  <2>2. QED
    BY <1>13, <2>1, ConsumeType, NoFlaps
    DEF TypeOK, ParseClose, SignalDisconnect, CloseServerSocket, Servers, Stop, Listeners
<1>14. CASE ParseAnswered
  <2>1. m_recv # <<>> /\ Consume
    BY <1>14 DEF ParseAnswered, Parsing
  <2>2. \E next \in Servers : SendOrDisconnect(next)
    <3>1. server \in Servers /\ "CapAck" \in Servers /\ "RateInfo" \in Servers
      BY DEF TypeOK, Servers
    <3>2. QED
      BY <1>14, <3>1 DEF ParseAnswered
  <2>3. QED
    BY <1>14, <2>1, <2>2, ConsumeType, SendOrDisconnectType DEF TypeOK, ParseAnswered
<1>15. CASE ParseStatus
  <2>1. m_recv # <<>> /\ Consume
    BY <1>15 DEF ParseStatus, Parsing
  <2>2. Head(m_recv) \in Flap
    BY <2>1 DEF TypeOK
  <2>3. online' \in SUBSET Roster
    <3>1. Head(m_recv).kind \in {"Online", "Offline"} => Head(m_recv).who \in Roster
      BY <2>2 DEF Flap, Kinds
    <3>2. \/ Head(m_recv).kind = "Online" /\ online' = online \cup {Head(m_recv).who}
          \/ online' = online \ {Head(m_recv).who}
          \/ online' = online
      BY <1>15 DEF ParseStatus
    <3>3. online \in SUBSET Roster
      BY DEF TypeOK
    <3>4. QED
      BY <3>1, <3>2, <3>3
  <2>4. QED
    BY <1>15, <2>1, <2>3, ConsumeType DEF TypeOK, ParseStatus, connVars
<1>16. CASE ParseRateInfo
  <2>1. m_recv # <<>>
    BY <1>16 DEF ParseRateInfo, Parsing
  <2>2. CASE LoginSent /\ Consume
    BY <1>16, <2>1, <2>2, ConsumeType DEF TypeOK, ParseRateInfo, LoginSent, LoggedIn, Start, Listeners, Servers
  <2>3. CASE LoginLastSendFails /\ Consume
    BY <1>16, <2>1, <2>3, ConsumeType, NoFlaps
    DEF TypeOK, ParseRateInfo, LoginLastSendFails, LoggedIn, CloseServerSocket, Start, Dropped, Stop, Listeners, Servers
  <2>4. CASE LoginEarlySendFails /\ Consume
    BY <1>16, <2>1, <2>4, ConsumeType, NoFlaps
    DEF TypeOK, ParseRateInfo, LoginEarlySendFails, LoggedIn, CloseServerSocket, Start, Dropped, Stop, Listeners, Servers
  <2>5. CASE LoginNoListener
    BY <1>16, <2>1, <2>5, NoFlaps
    DEF TypeOK, ParseRateInfo, LoginNoListener, SignalDisconnect, CloseServerSocket, StartFails, Dropped, Stop,
        Listeners, Servers, toldVars
  <2>6. QED
    BY <1>16, <2>2, <2>3, <2>4, <2>5 DEF ParseRateInfo
<1>17. CASE ServerAnswers
  <2>1. \E f \in Flap, next \in Servers : ServerSends(f, next)
    BY <1>17, FlapTypes DEF ServerAnswers, Kinds, Servers
  <2>2. QED
    BY <1>17, <2>1, ServerSendsType DEF TypeOK, ServerAnswers, toldVars
<1>18. CASE ServerReports
  <2>1. \E f \in Flap, next \in Servers : ServerSends(f, next)
    BY <1>18, FlapTypes DEF ServerReports, Kinds, Servers, Roster
  <2>2. QED
    BY <1>18, <2>1, ServerSendsType DEF TypeOK, ServerReports, toldVars
<1>19. CASE ServerHangsUp
  <2>1. Plain("Close") \in Flap /\ "Closed" \in Servers
    BY FlapTypes DEF Kinds, Servers
  <2>2. wire' \in Seq(Flap) /\ server' \in Servers
    BY <1>19, <2>1, ServerSendsType DEF TypeOK, ServerHangsUp
  <2>3. QED
    BY <1>19, <2>2 DEF TypeOK, ServerHangsUp, toldVars
<1>20. CASE UNCHANGED vars
  BY <1>20 DEF TypeOK, vars, connVars, toldVars
<1>21. QED
  BY <1>1, <1>2, <1>3, <1>4, <1>5, <1>6, <1>7, <1>8, <1>9, <1>10, <1>11, <1>12, <1>13, <1>14,
     <1>15, <1>16, <1>17, <1>18, <1>19, <1>20 DEF Next, SocketCallback, Parse

\* Every variable of the session keeps its type.
THEOREM SessionTypeOK == Spec => []TypeOK
BY TypeInit, TypeStep, PTL DEF Spec

-----------------------------------------------------------------------------
(* What the application is told and what it selects on. The three parts are *)
(* inductive only together: a listening socket is closed because the        *)
(* session that owns it is in a BOS state when it ends, and a Send succeeds *)
(* only on a socket that has a session.                                     *)

SessionInv == EventsMatchState /\ SocketOwned /\ ListenerOwned

LEMMA InvInit == Init => SessionInv
BY DEF Init, SessionInv, EventsMatchState, SocketOwned, ListenerOwned, Started

\* Ending a session, or finding it ended.
LEMMA DisconnectInv ==
    ASSUME TypeOK, SessionInv, Disconnect, m_state' = "NOT_CONNECTED", UNCHANGED m_in_dc
    PROVE  SessionInv'
BY DEF TypeOK, SessionInv, EventsMatchState, SocketOwned, ListenerOwned, Started, Listeners,
       Disconnect, TearDown, CloseServerSocket, SignalDisconnect, Dropped, Stop, connVars, toldVars

\* A Send, in a session or after it.
LEMMA SendInv ==
    ASSUME TypeOK, SessionInv, NEW next, SendOrDisconnect(next), UNCHANGED m_in_dc
    PROVE  SessionInv'
<1>1. CASE SendOk(next) /\ UNCHANGED m_state
  BY <1>1 DEF SessionInv, EventsMatchState, SocketOwned, ListenerOwned, Started, SendOk, toldVars
<1>2. CASE Disconnect /\ m_state' = "NOT_CONNECTED"
  BY <1>2, DisconnectInv
<1>3. QED
  BY <1>1, <1>2 DEF SendOrDisconnect

\* Steps that change none of the variables of the invariant.
LEMMA FrameInv ==
    ASSUME SessionInv, UNCHANGED <<m_state, sock, watch, listener, m_in_dc, signalled>>
    PROVE  SessionInv'
BY DEF SessionInv, EventsMatchState, SocketOwned, ListenerOwned, Started

LEMMA InvStep == TypeOK /\ SessionInv /\ [Next]_vars => SessionInv'
<1> SUFFICES ASSUME TypeOK, SessionInv, [Next]_vars PROVE SessionInv'
  OBVIOUS
<1> USE DEF SessionInv, EventsMatchState, SocketOwned, ListenerOwned
<1>1. CASE ConnectAuthorizer
  BY <1>1 DEF ConnectAuthorizer, Connect, SignalDisconnect, CloseServerSocket, toldVars, Started
<1>2. CASE SetStatusOffline
  BY <1>2, DisconnectInv DEF SetStatusOffline
<1>3. CASE Request
  BY <1>3, SendInv DEF Request
<1>4. CASE PingServer
  BY <1>4, SendInv DEF PingServer
<1>5. CASE Elapse
  BY <1>5, FrameInv DEF Elapse, connVars, toldVars
<1>6. ASSUME NEW d \in BOOLEAN, SetAcceptInDC(d) PROVE SessionInv'
  BY <1>6 DEF SetAcceptInDC, connVars, toldVars, Stop, Started
<1>7. CASE FinishNonBlockingConnect
  <2>1. CASE Disconnect /\ m_state' = "NOT_CONNECTED"
    BY <1>7, <2>1, DisconnectInv DEF FinishNonBlockingConnect
  <2>2. CASE sock' = "CONNECTED" /\ watch' = "READ" /\ UNCHANGED <<m_state, listener, toldVars>>
    BY <1>7, <2>2 DEF FinishNonBlockingConnect, toldVars, Started
  <2>3. QED
    BY <1>7, <2>1, <2>2 DEF FinishNonBlockingConnect
<1>8. CASE InconsistentState
  BY <1>8, DisconnectInv DEF InconsistentState
<1>9. CASE AcceptFails
  BY <1>9 DEF AcceptFails, connVars, toldVars, Started
<1>10. CASE Recv
  <2>1. CASE Disconnect /\ m_state' = "NOT_CONNECTED"
    BY <1>10, <2>1, DisconnectInv DEF Recv
  <2>2. CASE UNCHANGED <<m_state, sock, watch, listener, m_in_dc, signalled>>
    BY <2>2, FrameInv
  <2>3. QED
    BY <1>10, <2>1, <2>2 DEF Recv, connVars, toldVars
<1>11. CASE ParseConnAck
  <2>1. CASE m_state \in DOMAIN AfterConnAck
    <3>1. /\ m_state \in {"AUTH_AWAITING_CONN_ACK", "UIN_AWAITING_CONN_ACK", "BOS_AWAITING_CONN_ACK"}
          /\ AfterConnAck[m_state] \notin {"NOT_CONNECTED", "BOS_LOGGED_IN"}
      BY <2>1 DEF AfterConnAck
    <3>2. /\ m_state' = AfterConnAck[m_state] /\ UNCHANGED m_in_dc
          /\ SendOk(Reply[m_state]) \/ Disconnect
      BY <1>11, <2>1 DEF ParseConnAck
    <3>3. CASE SendOk(Reply[m_state])
      BY <3>1, <3>2, <3>3 DEF SendOk, toldVars, Started
    <3>4. CASE Disconnect
      BY <3>1, <3>2, <3>4
      DEF Disconnect, TearDown, CloseServerSocket, SignalDisconnect, Dropped, Stop, Started
    <3>5. QED
      BY <3>2, <3>3, <3>4
  <2>2. CASE m_state \notin DOMAIN AfterConnAck
    BY <1>11, <2>2, FrameInv DEF ParseConnAck, connVars, toldVars
  <2>3. QED
    BY <2>1, <2>2
<1>12. CASE ParseRedirect
  BY <1>12 DEF ParseRedirect, SignalDisconnect, CloseServerSocket, toldVars, Started
<1>13. CASE ParseClose
  BY <1>13 DEF ParseClose, SignalDisconnect, CloseServerSocket, Stop, Started
<1>14. CASE ParseAnswered
  BY <1>14, SendInv DEF ParseAnswered
<1>15. CASE ParseStatus
  BY <1>15, FrameInv DEF ParseStatus, connVars
<1>16. CASE ParseRateInfo
  <2> USE DEF CanStart, Start, Dropped, Stop, Started
  <2>1. CASE LoginSent
    BY <1>16, <2>1 DEF ParseRateInfo, LoginSent, LoggedIn
  <2>2. CASE LoginLastSendFails
    BY <1>16, <2>2 DEF ParseRateInfo, LoginLastSendFails, LoggedIn, CloseServerSocket
  <2>3. CASE LoginEarlySendFails
    BY <1>16, <2>3 DEF ParseRateInfo, LoginEarlySendFails, LoggedIn, CloseServerSocket
  <2>4. CASE LoginNoListener
    BY <1>16, <2>4
    DEF ParseRateInfo, LoginNoListener, StartFails, CloseServerSocket, SignalDisconnect, toldVars
  <2>5. QED
    BY <1>16, <2>1, <2>2, <2>3, <2>4 DEF ParseRateInfo
<1>17. CASE ServerAnswers
  BY <1>17, FrameInv DEF ServerAnswers, toldVars
<1>18. CASE ServerReports
  BY <1>18, FrameInv DEF ServerReports, toldVars
<1>19. CASE ServerHangsUp
  BY <1>19, FrameInv DEF ServerHangsUp, toldVars
<1>20. CASE UNCHANGED vars
  BY <1>20, FrameInv DEF vars, connVars, toldVars
<1>21. QED
  BY <1>1, <1>2, <1>3, <1>4, <1>5, <1>6, <1>7, <1>8, <1>9, <1>10, <1>11, <1>12, <1>13, <1>14,
     <1>15, <1>16, <1>17, <1>18, <1>19, <1>20 DEF Next, SocketCallback, Parse

LEMMA SessionInvariant == Spec => []SessionInv
BY SessionTypeOK, InvInit, InvStep, PTL DEF Spec

\* isConnected() corresponds to the events the application got.
THEOREM EventsAlwaysMatch == Spec => []EventsMatchState
<1>1. SessionInv => EventsMatchState
  BY DEF SessionInv
<1>2. QED
  BY <1>1, SessionInvariant, PTL

\* The application selects on the server socket exactly while it is open, and
\* an open server socket has a session that will close it.
THEOREM SocketAlwaysOwned == Spec => []SocketOwned
<1>1. SessionInv => SocketOwned
  BY DEF SessionInv
<1>2. QED
  BY <1>1, SessionInvariant, PTL

\* A selected listening socket belongs to an announced session that accepts
\* direct connections.
THEOREM ListenerAlwaysOwned == Spec => []ListenerOwned
<1>1. SessionInv => ListenerOwned
  BY DEF SessionInv
<1>2. QED
  BY <1>1, SessionInvariant, PTL

-----------------------------------------------------------------------------
(* The client and the BOS server agree on the login. Of the FLAPs that make *)
(* the client speak next, and of a server that is about to send one, there  *)
(* is one at a time, over all that is under way and all that has been       *)
(* received, whichever connection it is of.                                 *)

Turn == {"ConnAck", "Redirect", "ServerReady", "CapAck", "RateInfo"}
Speaks == {"ConnAck", "AuthReply", "UINResponse", "ServerReady", "CapAck", "RateInfo", "Online"}

NoTurn(q) == \A i \in 1 .. Len(q) : q[i].kind \notin Turn
OneTurn(q) == \A i, j \in 1 .. Len(q) : q[i].kind \in Turn /\ q[j].kind \in Turn => i = j

\* What the FLAPs say, given what is received, under way and due.
Turns ==
    /\ OneTurn(m_recv) /\ OneTurn(wire)
    /\ NoTurn(m_recv) \/ NoTurn(wire)
    /\ server \in Speaks => NoTurn(m_recv) /\ NoTurn(wire)
    /\ pc # "parse" => NoTurn(m_recv)

\* No server without a connection, and no connection half made in a session.
Connected ==
    /\ sock # "CONNECTED" => server = "None" /\ wire = <<>>
    /\ m_state = "BOS_LOGGED_IN" => sock # "NONBLOCKING_CONNECT"

LoginInv == Turns /\ Connected /\ LoginAgreed

\* What a step leaves of the FLAPs received: no more turns than before.
Received ==
    /\ OneTurn(m_recv')
    /\ NoTurn(m_recv) => NoTurn(m_recv')
    /\ pc' # "parse" => NoTurn(m_recv')

-----------------------------------------------------------------------------
(* Sequences of FLAPs.                                                      *)

LEMMA Empty == NoTurn(<<>>) /\ OneTurn(<<>>)
  BY DEF NoTurn, OneTurn

LEMMA NoneIsOne ==
    ASSUME NEW q, NoTurn(q)
    PROVE  OneTurn(q)
  BY DEF NoTurn, OneTurn

LEMMA RestTurns ==
    ASSUME NEW q \in Seq(Flap), q # <<>>, OneTurn(q)
    PROVE  /\ OneTurn(Tail(q))
           /\ NoTurn(q) => NoTurn(Tail(q))
           /\ Head(q).kind \in Turn => NoTurn(Tail(q))
<1>1. /\ Len(q) \in Nat /\ Len(q) >= 1 /\ Head(q) = q[1]
      /\ Len(Tail(q)) = Len(q) - 1
      /\ \A i \in 1 .. Len(Tail(q)) : Tail(q)[i] = q[i + 1]
  OBVIOUS
<1> DEFINE t == Tail(q)
<1> HIDE DEF t
<1>2. \A i \in 1 .. Len(t) : i + 1 \in 1 .. Len(q) /\ t[i] = q[i + 1] /\ i + 1 # 1
  BY <1>1 DEF t
<1>3. OneTurn(t)
  BY <1>2 DEF OneTurn
<1>4. NoTurn(q) => NoTurn(t)
  BY <1>2 DEF NoTurn
<1>5. ASSUME Head(q).kind \in Turn PROVE NoTurn(t)
  <2>1. 1 \in 1 .. Len(q) /\ q[1].kind \in Turn
    BY <1>1, <1>5
  <2>2. QED
    BY <1>2, <2>1 DEF OneTurn, NoTurn
<1>6. QED
  BY <1>3, <1>4, <1>5 DEF t

LEMMA AppendTurns ==
    ASSUME NEW q \in Seq(Flap), NEW f \in Flap, NoTurn(q)
    PROVE  /\ OneTurn(Append(q, f))
           /\ f.kind \notin Turn => NoTurn(Append(q, f))
<1> DEFINE d == Append(q, f)
<1>1. /\ Len(q) \in Nat /\ Len(d) = Len(q) + 1 /\ d[Len(q) + 1] = f
      /\ \A i \in 1 .. Len(q) : d[i] = q[i]
  OBVIOUS
<1> HIDE DEF d
<1>2. \A i \in 1 .. Len(d) : i # Len(q) + 1 => d[i].kind \notin Turn
  BY <1>1 DEF NoTurn
<1>3. OneTurn(d)
  BY <1>2 DEF OneTurn
<1>4. f.kind \notin Turn => NoTurn(d)
  BY <1>1, <1>2 DEF NoTurn
<1>5. QED
  BY <1>3, <1>4 DEF d

\* Some FLAPs move from the wire to what has been received.
LEMMA MoveTurns ==
    ASSUME NEW r \in Seq(Flap), NEW w \in Seq(Flap), NEW n \in 1 .. Len(w), NoTurn(r), OneTurn(w)
    PROVE  LET a == r \o SubSeq(w, 1, n)
               b == SubSeq(w, n + 1, Len(w))
           IN  /\ OneTurn(a) /\ OneTurn(b)
               /\ NoTurn(a) \/ NoTurn(b)
               /\ NoTurn(w) => NoTurn(a) /\ NoTurn(b)
<1> DEFINE u == SubSeq(w, 1, n)
           a == r \o u
           b == SubSeq(w, n + 1, Len(w))
           m == Len(r)
<1>1. m \in Nat /\ Len(w) \in Nat /\ n \in Nat /\ n <= Len(w)
  OBVIOUS
<1>2. u \in Seq(Flap) /\ Len(u) = n /\ \A i \in 1 .. n : u[i] = w[i]
  BY <1>1
<1>3. Len(b) = Len(w) - n /\ \A i \in 1 .. Len(w) - n : b[i] = w[n + i]
  BY <1>1
<1> HIDE DEF u, b
<1>4. /\ Len(a) = m + n
      /\ \A i \in 1 .. m + n : a[i] = IF i <= m THEN r[i] ELSE u[i - m]
  BY <1>1, <1>2
<1> HIDE DEF a, m
<1>5. ASSUME NEW i \in 1 .. Len(a), a[i].kind \in Turn
      PROVE  i - m \in 1 .. n /\ i - m \in 1 .. Len(w) /\ a[i] = w[i - m]
  <2>1. ~(i <= m)
    <3>1. ASSUME i <= m PROVE FALSE
      <4>1. i \in 1 .. m /\ a[i] = r[i]
        BY <1>1, <1>4, <3>1
      <4>2. QED
        BY <1>5, <4>1 DEF NoTurn, m
    <3>2. QED
      BY <3>1
  <2>2. i - m \in 1 .. n
    BY <1>1, <1>4, <2>1
  <2>3. a[i] = u[i - m]
    BY <1>1, <1>4, <2>1
  <2>4. QED
    BY <1>1, <1>2, <2>2, <2>3
<1>6. ASSUME NEW i \in 1 .. Len(b)
      PROVE  n + i \in 1 .. Len(w) /\ b[i] = w[n + i]
  BY <1>1, <1>3
<1>7. OneTurn(a)
  <2>1. SUFFICES ASSUME NEW i \in 1 .. Len(a), NEW j \in 1 .. Len(a),
                        a[i].kind \in Turn, a[j].kind \in Turn
                 PROVE  i = j
    BY DEF OneTurn
  <2>2. i - m = j - m
    BY <1>5, <2>1 DEF OneTurn
  <2>3. i \in Nat /\ j \in Nat
    BY <1>1, <1>4
  <2>4. QED
    BY <1>1, <2>2, <2>3
<1>8. OneTurn(b)
  <2>1. SUFFICES ASSUME NEW i \in 1 .. Len(b), NEW j \in 1 .. Len(b),
                        b[i].kind \in Turn, b[j].kind \in Turn
                 PROVE  i = j
    BY DEF OneTurn
  <2>2. n + i = n + j
    BY <1>6, <2>1 DEF OneTurn
  <2>3. QED
    BY <1>1, <1>3, <2>2
<1>9. NoTurn(a) \/ NoTurn(b)
  <2>1. SUFFICES ASSUME NEW i \in 1 .. Len(a), NEW j \in 1 .. Len(b),
                        a[i].kind \in Turn, b[j].kind \in Turn
                 PROVE  FALSE
    BY DEF NoTurn
  <2>2. i - m = n + j
    BY <1>5, <1>6, <2>1 DEF OneTurn
  <2>3. i - m \in 1 .. n
    BY <1>5, <2>1
  <2>4. QED
    BY <1>1, <1>3, <2>2, <2>3
<1>10. NoTurn(w) => NoTurn(a) /\ NoTurn(b)
  BY <1>5, <1>6 DEF NoTurn
<1>11. QED
  BY <1>7, <1>8, <1>9, <1>10 DEF a, b, u

-----------------------------------------------------------------------------
(* Effects that operations share.                                           *)

\* The first FLAP is read, and the loops go on or end.
LEMMA ConsumeReceived ==
    ASSUME TypeOK, Turns, m_recv # <<>>, Consume
    PROVE  /\ Received
           /\ Head(m_recv).kind \in Turn => NoTurn(m_recv') /\ NoTurn(wire) /\ server \notin Speaks
<1>1. m_recv \in Seq(Flap) /\ OneTurn(m_recv) /\ m_recv' = Tail(m_recv)
  BY DEF TypeOK, Turns, Consume
<1>2. /\ OneTurn(m_recv')
      /\ NoTurn(m_recv) => NoTurn(m_recv')
      /\ Head(m_recv).kind \in Turn => NoTurn(m_recv')
  BY <1>1, RestTurns
<1>3. pc' # "parse" => m_recv' = <<>>
  BY <1>1 DEF Consume
<1>4. Head(m_recv).kind \in Turn => ~NoTurn(m_recv)
  <2>1. 1 \in 1 .. Len(m_recv) /\ Head(m_recv) = m_recv[1]
    BY <1>1
  <2>2. QED
    BY <2>1 DEF NoTurn
<1>5. Received
  BY <1>2, <1>3, Empty DEF Received
<1>6. QED
  BY <1>2, <1>4, <1>5 DEF Turns

LEMMA SameReceived ==
    ASSUME Turns, UNCHANGED <<m_recv, pc>>
    PROVE  Received
  BY DEF Turns, Received

\* The connection is gone, whoever closed it.
LEMMA ClosedInv ==
    ASSUME LoginInv, CloseServerSocket, Received
    PROVE  LoginInv'
<1>1. wire' = <<>> /\ server' = "None" /\ sock' = "NOT_CONNECTED"
  BY DEF CloseServerSocket
<1>2. Turns'
  BY <1>1, Empty DEF Turns, Received, Speaks
<1>3. QED
  BY <1>1, <1>2 DEF LoginInv, Connected, LoginAgreed

\* A new connection: its server has the first turn, and nothing else has.
LEMMA OpenedInv ==
    ASSUME Received, NoTurn(m_recv'), wire' = <<>>, m_state' # "BOS_LOGGED_IN",
           \/ sock' = "NONBLOCKING_CONNECT" /\ server' = "None"
           \/ sock' = "CONNECTED" /\ server' = "ConnAck"
    PROVE  LoginInv'
<1>1. Turns'
  BY Empty, NoneIsOne DEF Turns, Received
<1>2. QED
  BY <1>1 DEF LoginInv, Connected, LoginAgreed

\* Steps that touch neither the connection nor the session.
LEMMA KeptInv ==
    ASSUME LoginInv, Received, UNCHANGED <<m_state, sock, wire, server>>
    PROVE  LoginInv'
<1>1. Turns'
  BY DEF LoginInv, Turns, Received
<1>2. QED
  BY <1>1 DEF LoginInv, Connected, LoginAgreed

LEMMA DisconnectLogin ==
    ASSUME LoginInv, Received, Disconnect, m_state' # "BOS_LOGGED_IN"
    PROVE  LoginInv'
<1>1. CASE m_state = "NOT_CONNECTED"
  <2>1. UNCHANGED <<sock, wire, server>>
    BY <1>1 DEF Disconnect, connVars
  <2>2. Turns'
    BY <2>1 DEF LoginInv, Turns, Received
  <2>3. QED
    BY <1>1, <2>1, <2>2 DEF LoginInv, Connected, LoginAgreed
<1>2. CASE m_state # "NOT_CONNECTED"
  BY <1>2, ClosedInv DEF Disconnect, TearDown
<1>3. QED
  BY <1>1, <1>2

\* A Send passes the turn only if the client had it.
LEMMA SendLogin ==
    ASSUME LoginInv, Received, NEW next, SendOk(next),
           next = server \/ (next \in Speaks => NoTurn(m_recv') /\ NoTurn(wire)),
           next = server \/ (next # "Online" /\ server \notin Speaks),
           m_state' = m_state \/ (m_state # "BOS_LOGGED_IN" /\ m_state' # "BOS_LOGGED_IN")
    PROVE  LoginInv'
<1>1. /\ UNCHANGED <<sock, wire>> /\ sock = "CONNECTED"
      /\ server' = IF server = "Closed" THEN server ELSE next
  BY DEF SendOk
<1>2. Turns'
  BY <1>1 DEF LoginInv, Turns, Received, Speaks
<1>3. LoginAgreed'
  BY <1>1 DEF LoginInv, LoginAgreed, Speaks
<1>4. QED
  BY <1>1, <1>2, <1>3 DEF LoginInv, Connected

LEMMA SendOrDisconnectLogin ==
    ASSUME LoginInv, Received, SendOrDisconnect(server)
    PROVE  LoginInv'
  BY SendLogin, DisconnectLogin DEF SendOrDisconnect

-----------------------------------------------------------------------------

LEMMA LoginInit == Init => LoginInv
<1> SUFFICES ASSUME Init PROVE LoginInv
  OBVIOUS
<1>1. Turns
  BY Empty DEF Init, Turns, Speaks
<1>2. QED
  BY <1>1 DEF Init, LoginInv, Connected, LoginAgreed

\* The application's calls, and the callbacks that are not about FLAPs.
LEMMA CallsInv ==
    ASSUME TypeOK, LoginInv,
           \/ ConnectAuthorizer \/ SetStatusOffline \/ Request \/ PingServer \/ Elapse
           \/ \E d \in BOOLEAN : SetAcceptInDC(d)
           \/ FinishNonBlockingConnect \/ InconsistentState \/ AcceptFails
           \/ UNCHANGED vars
    PROVE  LoginInv'
<1>1. Received
  <2>1. UNCHANGED <<m_recv, pc>>
    BY DEF ConnectAuthorizer, SetStatusOffline, Request, PingServer, Elapse, SetAcceptInDC,
           FinishNonBlockingConnect, InconsistentState, AcceptFails, vars
  <2>2. QED
    BY <2>1, SameReceived DEF LoginInv
<1>2. CASE ConnectAuthorizer
  <2>1. NoTurn(m_recv')
    BY <1>2 DEF LoginInv, Turns, ConnectAuthorizer
  <2>2. PICK s \in {"AUTH_AWAITING_CONN_ACK", "UIN_AWAITING_CONN_ACK"} : Connect(s)
    BY <1>2 DEF ConnectAuthorizer
  <2>3. CASE CloseServerSocket
    BY <1>1, <2>3, ClosedInv
  <2>4. CASE /\ wire' = <<>> /\ m_state' = s
             /\ \/ sock' = "NONBLOCKING_CONNECT" /\ server' = "None"
                \/ sock' = "CONNECTED" /\ server' = "ConnAck"
    BY <1>1, <2>1, <2>4, OpenedInv
  <2>5. QED
    BY <2>2, <2>3, <2>4 DEF Connect
<1>3. CASE SetStatusOffline
  BY <1>1, <1>3, DisconnectLogin DEF SetStatusOffline
<1>4. CASE Request \/ PingServer
  BY <1>1, <1>4, SendOrDisconnectLogin DEF Request, PingServer
<1>5. CASE Elapse \/ (\E d \in BOOLEAN : SetAcceptInDC(d)) \/ AcceptFails \/ UNCHANGED vars
  BY <1>1, <1>5, KeptInv DEF Elapse, SetAcceptInDC, AcceptFails, vars, connVars
<1>6. CASE FinishNonBlockingConnect
  <2>1. CASE Disconnect /\ m_state' = "NOT_CONNECTED"
    BY <1>1, <2>1, DisconnectLogin
  <2>2. CASE sock' = "CONNECTED" /\ server' = "ConnAck" /\ UNCHANGED <<m_state, wire>>
    <3>1. NoTurn(m_recv') /\ wire' = <<>> /\ m_state' # "BOS_LOGGED_IN"
      BY <1>6, <2>2 DEF LoginInv, Turns, Connected, FinishNonBlockingConnect
    <3>2. QED
      BY <1>1, <2>2, <3>1, OpenedInv
  <2>3. QED
    BY <1>6, <2>1, <2>2 DEF FinishNonBlockingConnect
<1>7. CASE InconsistentState
  BY <1>1, <1>7, DisconnectLogin DEF InconsistentState
<1>8. QED
  BY <1>2, <1>3, <1>4, <1>5, <1>6, <1>7

LEMMA RecvInv ==
    ASSUME TypeOK, LoginInv, Recv
    PROVE  LoginInv'
<1>1. NoTurn(m_recv)
  BY DEF LoginInv, Turns, Recv
<1>2. ASSUME NEW n \in 1 .. Len(wire), m_recv' = m_recv \o SubSeq(wire, 1, n),
             wire' = SubSeq(wire, n + 1, Len(wire)), pc' = "parse",
             UNCHANGED <<m_state, sock, server>>
      PROVE  LoginInv'
  <2>1. m_recv \in Seq(Flap) /\ wire \in Seq(Flap) /\ OneTurn(wire)
    BY DEF TypeOK, LoginInv, Turns
  <2>2. /\ OneTurn(m_recv') /\ OneTurn(wire')
        /\ NoTurn(m_recv') \/ NoTurn(wire')
        /\ NoTurn(wire) => NoTurn(m_recv') /\ NoTurn(wire')
    BY <1>1, <1>2, <2>1, MoveTurns
  <2>3. Turns'
    BY <1>2, <2>2 DEF LoginInv, Turns
  <2>4. wire # <<>>
    BY <1>2, <2>1
  <2>5. QED
    BY <1>2, <2>3, <2>4 DEF LoginInv, Connected, LoginAgreed
<1>3. ASSUME UNCHANGED <<m_state, connVars, m_recv>> PROVE LoginInv'
  BY <1>1, <1>3, KeptInv DEF LoginInv, Turns, Received, connVars
<1>4. ASSUME Disconnect, m_state' = "NOT_CONNECTED", UNCHANGED m_recv PROVE LoginInv'
  BY <1>1, <1>4, DisconnectLogin DEF LoginInv, Turns, Received
<1>5. QED
  BY <1>2, <1>3, <1>4 DEF Recv

\* A FLAP that makes the client speak leaves it the only turn.
LEMMA ParseConnAckInv ==
    ASSUME TypeOK, LoginInv, ParseConnAck
    PROVE  LoginInv'
<1>1. /\ m_recv # <<>> /\ Head(m_recv).kind = "ConnAck" /\ Consume
  BY DEF ParseConnAck, Parsing
<1>2. Received /\ NoTurn(m_recv') /\ NoTurn(wire) /\ server \notin Speaks
  BY <1>1, ConsumeReceived DEF LoginInv, Turn
<1>3. CASE m_state \in DOMAIN AfterConnAck
  <2>1. /\ Reply[m_state] # "Online"
        /\ m_state # "BOS_LOGGED_IN" /\ AfterConnAck[m_state] # "BOS_LOGGED_IN"
    BY <1>3 DEF Reply, AfterConnAck
  <2>2. m_state' = AfterConnAck[m_state] /\ (SendOk(Reply[m_state]) \/ Disconnect)
    BY <1>3 DEF ParseConnAck
  <2>3. CASE SendOk(Reply[m_state])
    BY <1>2, <2>1, <2>2, <2>3, SendLogin
  <2>4. CASE Disconnect
    BY <1>2, <2>1, <2>2, <2>4, DisconnectLogin
  <2>5. QED
    BY <2>2, <2>3, <2>4
<1>4. CASE m_state \notin DOMAIN AfterConnAck
  <2>1. UNCHANGED <<m_state, sock, wire, server>>
    BY <1>4 DEF ParseConnAck, connVars
  <2>2. QED
    BY <1>2, <2>1, KeptInv
<1>5. QED
  BY <1>3, <1>4

LEMMA ParseRedirectInv ==
    ASSUME TypeOK, LoginInv, ParseRedirect
    PROVE  LoginInv'
<1>1. /\ m_recv # <<>> /\ Head(m_recv).kind = "Redirect" /\ Consume
  BY DEF ParseRedirect, Parsing
<1>2. Received /\ NoTurn(m_recv')
  BY <1>1, ConsumeReceived DEF LoginInv, Turn
<1>3. CASE CloseServerSocket
  BY <1>2, <1>3, ClosedInv
<1>4. CASE /\ wire' = <<>> /\ m_state' = "BOS_AWAITING_CONN_ACK"
           /\ \/ sock' = "NONBLOCKING_CONNECT" /\ server' = "None"
              \/ sock' = "CONNECTED" /\ server' = "ConnAck"
  BY <1>2, <1>4, OpenedInv
<1>5. QED
  BY <1>3, <1>4 DEF ParseRedirect

LEMMA ParseCloseInv ==
    ASSUME TypeOK, LoginInv, ParseClose
    PROVE  LoginInv'
<1>1. m_recv # <<>> /\ Consume /\ CloseServerSocket
  BY DEF ParseClose, Parsing
<1>2. Received
  BY <1>1, ConsumeReceived DEF LoginInv
<1>3. QED
  BY <1>1, <1>2, ClosedInv

LEMMA ParseAnsweredInv ==
    ASSUME TypeOK, LoginInv, ParseAnswered
    PROVE  LoginInv'
<1>1. m_recv # <<>> /\ Consume
  BY DEF ParseAnswered, Parsing
<1>2. Received
  BY <1>1, ConsumeReceived DEF LoginInv
<1>3. ASSUME NEW next \in {"CapAck", "RateInfo"}, Head(m_recv).kind \in {"ServerReady", "CapAck"},
             SendOrDisconnect(next)
      PROVE  LoginInv'
  <2>1. NoTurn(m_recv') /\ NoTurn(wire) /\ server \notin Speaks
    BY <1>1, <1>3, ConsumeReceived DEF LoginInv, Turn
  <2>2. CASE SendOk(next) /\ UNCHANGED m_state
    BY <1>2, <2>1, <2>2, SendLogin
  <2>3. CASE Disconnect /\ m_state' = "NOT_CONNECTED"
    BY <1>2, <2>3, DisconnectLogin
  <2>4. QED
    BY <1>3, <2>2, <2>3 DEF SendOrDisconnect
<1>4. CASE SendOrDisconnect(server)
  BY <1>2, <1>4, SendOrDisconnectLogin
<1>5. QED
  BY <1>3, <1>4 DEF ParseAnswered, Parsing

LEMMA ParseStatusInv ==
    ASSUME TypeOK, LoginInv, ParseStatus
    PROVE  LoginInv'
<1>1. m_recv # <<>> /\ Consume /\ UNCHANGED <<m_state, sock, wire, server>>
  BY DEF ParseStatus, Parsing, connVars
<1>2. Received
  BY <1>1, ConsumeReceived DEF LoginInv
<1>3. QED
  BY <1>1, <1>2, KeptInv

\* The last turn of the dialogue: the client announces the session, and the
\* server, if the connection is still there, takes it for logged in.
LEMMA ParseRateInfoInv ==
    ASSUME TypeOK, LoginInv, ParseRateInfo
    PROVE  LoginInv'
<1>1. m_recv # <<>> /\ Head(m_recv).kind = "RateInfo"
  BY DEF ParseRateInfo, Parsing
<1>2. CASE LoginSent /\ Consume
  <2>1. Received /\ NoTurn(m_recv') /\ NoTurn(wire) /\ server \notin Speaks
    BY <1>1, <1>2, ConsumeReceived DEF LoginInv, Turn
  <2>2. /\ sock = "CONNECTED" /\ UNCHANGED <<sock, wire>>
        /\ m_state' = "BOS_LOGGED_IN" /\ server' \in {"Online", "Closed"}
    BY <1>2 DEF LoginSent, LoggedIn
  <2>3. Turns'
    BY <2>1, <2>2, NoneIsOne DEF Turns, Received
  <2>4. QED
    BY <2>2, <2>3 DEF LoginInv, Connected, LoginAgreed
<1>3. CASE (LoginLastSendFails \/ LoginEarlySendFails) /\ Consume
  <2>1. Received
    BY <1>1, <1>3, ConsumeReceived DEF LoginInv
  <2>2. CloseServerSocket
    BY <1>3 DEF LoginLastSendFails, LoginEarlySendFails
  <2>3. QED
    BY <2>1, <2>2, ClosedInv
<1>4. CASE LoginNoListener
  <2>1. CloseServerSocket /\ m_recv' = Tail(m_recv)
    BY <1>4 DEF LoginNoListener
  <2>2. m_recv \in Seq(Flap) /\ OneTurn(m_recv)
    BY DEF TypeOK, LoginInv, Turns
  <2>3. OneTurn(m_recv') /\ NoTurn(m_recv')
    BY <1>1, <2>1, <2>2, RestTurns DEF Turn
  <2>4. QED
    BY <2>1, <2>3, ClosedInv DEF Received
<1>5. QED
  BY <1>2, <1>3, <1>4 DEF ParseRateInfo

\* A server that speaks has the turn, and gives it away by speaking.
LEMMA ServerSendsInv ==
    ASSUME TypeOK, LoginInv, NEW f \in Flap, NEW next \in Servers, ServerSends(f, next),
           server \in Speaks,
           next \in Speaks => f.kind \notin Turn,
           next # server => server # "Online" \/ next = "Closed",
           next = "Online" => server = "Online",
           UNCHANGED <<m_state, sock, m_recv, pc>>
    PROVE  LoginInv'
<1>1. wire \in Seq(Flap) /\ NoTurn(wire) /\ NoTurn(m_recv)
  BY DEF TypeOK, LoginInv, Turns
<1>2. wire' = Append(wire, f) /\ server' = next /\ sock = "CONNECTED"
  BY DEF ServerSends, Established
<1>3. OneTurn(wire') /\ (f.kind \notin Turn => NoTurn(wire'))
  BY <1>1, <1>2, AppendTurns
<1>4. Turns'
  BY <1>1, <1>2, <1>3, NoneIsOne DEF Turns
<1>5. LoginAgreed'
  BY <1>2 DEF LoginInv, LoginAgreed, Speaks
<1>6. QED
  BY <1>2, <1>4, <1>5 DEF LoginInv, Connected

LEMMA ServerInv ==
    ASSUME TypeOK, LoginInv, ServerAnswers \/ ServerReports \/ ServerHangsUp
    PROVE  LoginInv'
<1>1. UNCHANGED <<m_state, sock, m_recv, pc>>
  BY DEF ServerAnswers, ServerReports, ServerHangsUp
<1>2. ASSUME NEW k \in {"ConnAck", "ServerReady", "CapAck", "RateInfo", "Redirect", "Close"},
             server \in Speaks \ {"Online"}, ServerSends(Plain(k), "Quiet")
      PROVE  LoginInv'
  <2>1. Plain(k) \in Flap /\ "Quiet" \in Servers /\ "Quiet" \notin Speaks
    BY FlapTypes DEF Kinds, Servers, Speaks
  <2>2. QED
    BY <1>1, <1>2, <2>1, ServerSendsInv
<1>3. CASE server = "UINResponse" /\ ServerSends(Plain("UINResponse"), "AuthReply")
  <2>1. /\ Plain("UINResponse") \in Flap /\ Plain("UINResponse").kind \notin Turn
        /\ "AuthReply" \in Servers /\ server \in Speaks
    BY <1>3, FlapTypes DEF Kinds, Plain, Turn, Servers, Speaks
  <2>2. QED
    BY <1>1, <1>3, <2>1, ServerSendsInv
<1>4. CASE ServerReports
  <2>1. PICK f \in {About("Online", c) : c \in Roster} \cup {About("Offline", c) : c \in Contacts}
                     \cup {Plain("Answered")} : ServerSends(f, "Online")
    BY <1>4 DEF ServerReports
  <2>2. f \in Flap /\ f.kind \notin Turn
    BY FlapTypes DEF Roster, Kinds, About, Plain, Turn
  <2>3. server = "Online" /\ server \in Speaks /\ "Online" \in Servers
    BY <1>4 DEF ServerReports, Speaks, Servers
  <2>4. QED
    BY <1>1, <2>1, <2>2, <2>3, ServerSendsInv
<1>5. CASE server = "Online" /\ ServerSends(Plain("Close"), "Closed")
  <2>1. /\ Plain("Close") \in Flap /\ "Closed" \in Servers
        /\ server \in Speaks /\ "Closed" \notin Speaks
    BY <1>5, FlapTypes DEF Kinds, Servers, Speaks
  <2>2. QED
    BY <1>1, <1>5, <2>1, ServerSendsInv
<1>6. CASE Established /\ server' = "Closed" /\ UNCHANGED wire
  <2>1. Turns'
    BY <1>1, <1>6 DEF LoginInv, Turns, Speaks
  <2>2. QED
    BY <1>1, <1>6, <2>1 DEF LoginInv, Connected, LoginAgreed, Established
<1>7. CASE ServerAnswers
  <2>1. CASE \E k \in {"ConnAck", "ServerReady", "CapAck", "RateInfo"} :
                 server = k /\ ServerSends(Plain(k), "Quiet")
    BY <1>2, <2>1 DEF Speaks
  <2>2. CASE server = "AuthReply" /\ \E k \in {"Redirect", "Close"} : ServerSends(Plain(k), "Quiet")
    BY <1>2, <2>2 DEF Speaks
  <2>3. QED
    BY <1>3, <1>7, <2>1, <2>2 DEF ServerAnswers
<1>8. QED
  BY <1>4, <1>5, <1>6, <1>7 DEF ServerHangsUp

-----------------------------------------------------------------------------

LEMMA LoginStep == TypeOK /\ LoginInv /\ [Next]_vars => LoginInv'
<1> SUFFICES ASSUME TypeOK, LoginInv, [Next]_vars PROVE LoginInv'
  OBVIOUS
<1>1. CASE Parse
  BY <1>1, ParseConnAckInv, ParseRedirectInv, ParseCloseInv, ParseAnsweredInv, ParseStatusInv,
     ParseRateInfoInv DEF Parse
<1>2. CASE ~Parse
  BY <1>2, CallsInv, RecvInv, ServerInv DEF Next, SocketCallback
<1>3. QED
  BY <1>1, <1>2

(* The client and the BOS server agree on the login: at no point of the     *)
(* dialogue does a server report contacts to a client that did not announce *)
(* the session, and an announced session that is still connected is one the *)
(* server knows, whichever Send failed, whenever the server hung up and     *)
(* whatever FLAPs of an earlier connection were still to be parsed.         *)
THEOREM LoginAlwaysAgreed == Spec => []LoginAgreed
<1>1. LoginInv => LoginAgreed
  BY DEF LoginInv
<1>2. QED
  BY <1>1, SessionTypeOK, LoginInit, LoginStep, PTL DEF Spec
=============================================================================
