------------------------------ MODULE UsersProofs ------------------------------
(* Theorems about the other users: the contacts and the statuses that are     *)
(* known of them, for any users, groups, statuses and bounds; and the files   *)
(* sent to them, for any lists of files, any versions of the peers and any    *)
(* bound on what is under way.                                                *)
EXTENDS Contacts, FileTransfer, SequenceTheorems, FiniteSetTheorems, NaturalsInduction, TLAPS

-----------------------------------------------------------------------------
(* Contacts.                                                                  *)

\* Packets to the server and from it.
Sent == [type : {"InfoRequest", "AddVisible", "AddInvisible"}]
        \cup [type : {"AddBuddy"}, users : SUBSET Users]
        \cup [type : {"RemoveBuddy"}, user : Users]
        \cup [type : {"SetStatus"}, icq : SUBSET Nat]
Received == [type : {"BuddyOnline"}, user : Users, icq : SUBSET Nat]
            \cup [type : {"BuddyOffline"}, user : Users]
            \cup [type : {"UserInfo"}, icq : SUBSET Nat]
Sessions == [info : SUBSET Nat, buddies : SUBSET Users, visible : BOOLEAN, invisible : BOOLEAN]
Stales == [users : SUBSET Users, self : BOOLEAN, lists : BOOLEAN]

Typed ==
    /\ up \in Seq(Sent) /\ down \in Seq(Received)
    /\ server \in Sessions
    /\ stale \in Stales
    /\ m_self \in [status : Shown \cup {"OFFLINE"}, invisible : BOOLEAN]

\* A status that makes the client invisible.
Hides(p) == p.type = "SetStatus" /\ 256 \in p.icq

\* The server has the visible list, or will have it once it has read the list of packets.
Listed(list, visible) == visible \/ \E j \in 1 .. Len(list) : list[j].type = "AddVisible"

\* No packet makes the client invisible before the server has the visible list.
Ordered(list, visible) ==
    \A i \in 1 .. Len(list) :
        Hides(list[i]) => visible \/ \E j \in 1 .. i - 1 : list[j].type = "AddVisible"

\* The server has the visible list, or setStatus was wrong about that.
Seen == server.visible \/ stale.lists

\* None of the packets from the server says that the client is invisible, unless it may be.
Shows(list, seen) == \A i \in 1 .. Len(list) : list[i].type = "UserInfo" /\ 256 \in list[i].icq => seen

(* The packets to the server are in order, and what the server says and     *)
(* what the own contact shows is behind it. A contact that is offline is    *)
(* not invisible: a new session begins without the list, and m_self must    *)
(* not say that it had it, unless a packet left over says so.               *)
Inv ==
    /\ Typed
    /\ Ordered(up, Seen)
    /\ InvisibleKnowsList
    /\ LoggedIn => Shows(down, Seen)
    /\ m_self.invisible => Seen \/ stale.self
    /\ m_self.status = "OFFLINE" => ~m_self.invisible

LEMMA SeenKnown == Inv => Seen \in BOOLEAN /\ (256 \in server.info => Seen)
BY DEF Inv, Typed, Sessions, Stales, Seen, InvisibleKnowsList, MapICQStatusToInvisible

-----------------------------------------------------------------------------
(* Statuses and packets.                                                    *)

LEMMA StatusFlags ==
    ASSUME NEW st, NEW inv \in BOOLEAN
    PROVE  /\ MapStatusToICQStatus(st, inv) \in SUBSET Nat
           /\ 256 \in MapStatusToICQStatus(st, inv) <=> inv
BY DEF MapStatusToICQStatus

LEMMA StatusOfFlags ==
    ASSUME NEW icq
    PROVE  MapICQStatusToStatus(icq) \in Shown
BY DEF MapICQStatusToStatus, Shown

LEMMA OwnStatusSent ==
    ASSUME NEW st, NEW inv \in BOOLEAN
    PROVE  /\ OwnStatus(st, inv) \in Seq(Sent)
           /\ \A i \in 1 .. Len(OwnStatus(st, inv)) : Hides(OwnStatus(st, inv)[i]) <=> inv
<1> DEFINE p == [type |-> "SetStatus", icq |-> MapStatusToICQStatus(st, inv)]
<1>1. p \in Sent /\ (Hides(p) <=> inv)
  BY StatusFlags DEF Sent, Hides
<1>2. OwnStatus(st, inv) = <<p>>
  BY DEF OwnStatus
<1> HIDE DEF p
<1>3. QED
  BY <1>1, <1>2

LEMMA PresenceReceived ==
    ASSUME NEW u \in Users, NEW st
    PROVE  Presence(u, st) \in Received /\ Presence(u, st).type # "UserInfo"
<1>1. MapStatusToICQStatus(st, FALSE) \in SUBSET Nat
  BY StatusFlags
<1>2. QED
  BY <1>1 DEF Presence, Received

\* SetToSeq gives a sequence of the elements of a finite set, all of them.
LEMMA ListOfSet ==
    ASSUME NEW S, IsFiniteSet(S)
    PROVE  /\ SetToSeq(S) \in Seq(S)
           /\ \A x \in S : \E i \in 1 .. Len(SetToSeq(S)) : SetToSeq(S)[i] = x
<1> DEFINE n == Cardinality(S)
           s == SetToSeq(S)
<1>1. n \in Nat /\ ExistsBijection(1 .. n, S)
  BY FS_CardinalityType
<1>2. \E f \in [1 .. n -> S] : IsInjective(f)
  BY <1>1 DEF ExistsBijection, Bijection, Injection
<1>3. s \in [1 .. n -> S] /\ IsInjective(s)
  BY <1>2 DEF SetToSeq
<1>4. s \in Injection(1 .. n, S)
  BY <1>3 DEF Injection
<1> HIDE DEF s
<1>5. Cardinality(1 .. n) = n
  <2>1. Cardinality(1 .. n) = IF 1 > n THEN 0 ELSE n - 1 + 1
    BY <1>1, FS_Interval
  <2>2. QED
    BY <1>1, <2>1
<1>6. s \in Surjection(1 .. n, S)
  BY <1>4, <1>5, FS_Injection
<1>7. \A x \in S : \E i \in 1 .. n : s[i] = x
  BY <1>6 DEF Surjection
<1>8. s \in Seq(S) /\ Len(s) = n
  BY <1>1, <1>3
<1>9. QED
  BY <1>7, <1>8 DEF s

-----------------------------------------------------------------------------
(* Packets that are added to a list in order, and taken from it.            *)

LEMMA Joined ==
    ASSUME NEW S, NEW q \in Seq(S), NEW t \in Seq(S)
    PROVE  /\ q \o t \in Seq(S) /\ Len(q) \in Nat /\ Len(t) \in Nat /\ Len(q \o t) = Len(q) + Len(t)
           /\ \A i \in 1 .. Len(q) : i \in 1 .. Len(q \o t) /\ (q \o t)[i] = q[i]
           /\ \A i \in 1 .. Len(t) : Len(q) + i \in 1 .. Len(q \o t) /\ (q \o t)[Len(q) + i] = t[i]
           /\ \A i \in 1 .. Len(q \o t) :
                i \notin 1 .. Len(q) => i - Len(q) \in 1 .. Len(t) /\ (q \o t)[i] = t[i - Len(q)]
<1>1. /\ q \o t \in Seq(S) /\ Len(q \o t) = Len(q) + Len(t)
      /\ \A i \in 1 .. Len(q) + Len(t) : (q \o t)[i] = IF i <= Len(q) THEN q[i] ELSE t[i - Len(q)]
  BY ConcatProperties
<1>2. Len(q) \in Nat /\ Len(t) \in Nat
  BY LenProperties
<1>3. ASSUME NEW i \in 1 .. Len(q) PROVE i \in 1 .. Len(q \o t) /\ (q \o t)[i] = q[i]
  BY <1>1, <1>2
<1>4. ASSUME NEW i \in 1 .. Len(t)
      PROVE  Len(q) + i \in 1 .. Len(q \o t) /\ (q \o t)[Len(q) + i] = t[i]
  <2>1. Len(q) + i \in 1 .. Len(q) + Len(t) /\ ~(Len(q) + i <= Len(q)) /\ (Len(q) + i) - Len(q) = i
    BY <1>2
  <2>2. QED
    BY <1>1, <2>1
<1>5. ASSUME NEW i \in 1 .. Len(q \o t), i \notin 1 .. Len(q)
      PROVE  i - Len(q) \in 1 .. Len(t) /\ (q \o t)[i] = t[i - Len(q)]
  <2>1. i \in 1 .. Len(q) + Len(t) /\ ~(i <= Len(q)) /\ i - Len(q) \in 1 .. Len(t)
    BY <1>1, <1>2, <1>5
  <2>2. QED
    BY <1>1, <2>1
<1>6. QED
  BY <1>1, <1>2, <1>3, <1>4, <1>5

LEMMA OrderedMore ==
    ASSUME NEW s \in Seq(Sent), NEW t \in Seq(Sent), NEW visible \in BOOLEAN,
           Ordered(s, visible),
           \A i \in 1 .. Len(t) : Hides(t[i]) => Listed(s, visible)
    PROVE  /\ s \o t \in Seq(Sent)
           /\ Ordered(s \o t, visible)
           /\ Listed(s, visible) \/ Listed(t, visible) => Listed(s \o t, visible)
<1>1. /\ s \o t \in Seq(Sent) /\ Len(s \o t) = Len(s) + Len(t)
      /\ \A i \in 1 .. Len(s) : (s \o t)[i] = s[i]
      /\ \A i \in 1 .. Len(t) : (s \o t)[Len(s) + i] = t[i]
  BY Joined
<1>2. Len(s) \in Nat /\ Len(t) \in Nat
  BY LenProperties
<1>3. Listed(s, visible) => Listed(s \o t, visible)
  BY <1>1, <1>2 DEF Listed
<1>4. Listed(t, visible) => Listed(s \o t, visible)
  <2>1. SUFFICES ASSUME NEW j \in 1 .. Len(t), t[j].type = "AddVisible" PROVE Listed(s \o t, visible)
    BY DEF Listed
  <2>2. Len(s) + j \in 1 .. Len(s \o t) /\ (s \o t)[Len(s) + j] = t[j]
    BY <1>1, <1>2
  <2>3. QED
    BY <2>1, <2>2 DEF Listed
<1>5. ASSUME NEW i \in 1 .. Len(s \o t), Hides((s \o t)[i])
      PROVE  visible \/ \E j \in 1 .. i - 1 : (s \o t)[j].type = "AddVisible"
  <2>1. CASE i <= Len(s)
    <3>1. i \in 1 .. Len(s) /\ (s \o t)[i] = s[i]
      BY <1>1, <1>2, <2>1
    <3>2. visible \/ \E j \in 1 .. i - 1 : s[j].type = "AddVisible"
      BY <1>5, <3>1 DEF Ordered
    <3>3. \A j \in 1 .. i - 1 : j \in 1 .. Len(s)
      BY <1>2, <3>1
    <3>4. QED
      BY <1>1, <3>2, <3>3
  <2>2. CASE ~(i <= Len(s))
    <3>1. i - Len(s) \in 1 .. Len(t) /\ Len(s) + (i - Len(s)) = i
      BY <1>1, <1>2, <2>2
    <3>2. (s \o t)[i] = t[i - Len(s)]
      BY <1>1, <3>1
    <3>3. Listed(s, visible)
      BY <1>5, <3>1, <3>2
    <3>4. \A j \in 1 .. Len(s) : j \in 1 .. i - 1 /\ (s \o t)[j] = s[j]
      BY <1>1, <1>2, <2>2
    <3>5. QED
      BY <3>3, <3>4 DEF Listed
  <2>3. QED
    BY <2>1, <2>2
<1>6. QED
  BY <1>1, <1>3, <1>4, <1>5 DEF Ordered

\* What hides nobody may be sent at any time.
LEMMA OrderedHarmless ==
    ASSUME NEW s \in Seq(Sent), NEW t \in Seq(Sent), NEW visible \in BOOLEAN,
           Ordered(s, visible), \A i \in 1 .. Len(t) : ~Hides(t[i])
    PROVE  s \o t \in Seq(Sent) /\ Ordered(s \o t, visible)
BY OrderedMore

LEMMA OneHarmless ==
    ASSUME NEW p \in Sent, p.type # "SetStatus"
    PROVE  <<p>> \in Seq(Sent) /\ \A i \in 1 .. Len(<<p>>) : ~Hides(<<p>>[i])
BY DEF Hides

LEMMA NoneHarmless ==
    <<>> \in Seq(Sent) /\ \A i \in 1 .. Len(<<>>) : ~Hides(<<>>[i])
OBVIOUS

\* The server reads the first packet: it may be the list.
LEMMA OrderedTail ==
    ASSUME NEW s \in Seq(Sent), s # <<>>, NEW visible \in BOOLEAN, NEW then \in BOOLEAN,
           Ordered(s, visible), visible => then, Head(s).type = "AddVisible" => then
    PROVE  /\ Tail(s) \in Seq(Sent) /\ Ordered(Tail(s), then)
           /\ Hides(Head(s)) => visible
<1>1. /\ Tail(s) \in Seq(Sent) /\ Len(Tail(s)) = Len(s) - 1 /\ Head(s) = s[1]
      /\ \A i \in 1 .. Len(Tail(s)) : Tail(s)[i] = s[i + 1]
  BY HeadTailProperties
<1>2. Len(s) \in Nat /\ Len(s) >= 1
  BY LenProperties, EmptySeq
<1>3. ASSUME NEW i \in 1 .. Len(Tail(s)), Hides(Tail(s)[i])
      PROVE  then \/ \E j \in 1 .. i - 1 : Tail(s)[j].type = "AddVisible"
  <2>1. i + 1 \in 1 .. Len(s) /\ Hides(s[i + 1])
    BY <1>1, <1>2, <1>3
  <2>2. visible \/ \E j \in 1 .. (i + 1) - 1 : s[j].type = "AddVisible"
    BY <2>1 DEF Ordered
  <2>3. ASSUME NEW j \in 1 .. (i + 1) - 1, s[j].type = "AddVisible", j # 1
        PROVE  \E k \in 1 .. i - 1 : Tail(s)[k].type = "AddVisible"
    <3>1. j - 1 \in 1 .. i - 1 /\ j - 1 \in 1 .. Len(Tail(s)) /\ (j - 1) + 1 = j
      BY <1>1, <1>2, <2>1, <2>3
    <3>2. Tail(s)[j - 1] = s[j]
      BY <1>1, <3>1
    <3>3. QED
      BY <2>3, <3>1, <3>2
  <2>4. QED
    BY <1>1, <2>2, <2>3
<1>4. Hides(Head(s)) => visible
  <2>1. 1 \in 1 .. Len(s) /\ 1 - 1 = 0 /\ 1 .. 0 = {}
    BY <1>2
  <2>2. QED
    BY <1>1, <2>1 DEF Ordered
<1>5. QED
  BY <1>1, <1>3, <1>4 DEF Ordered

-----------------------------------------------------------------------------
(* The actions, by what they do to the packets, the session and the own     *)
(* contact.                                                                 *)

\* What Inv is about.
known == <<m_state, up, down, server, m_self, stale>>

LEMMA InitInv == ContactsInit => Inv
<1> SUFFICES ASSUME ContactsInit PROVE Inv
  OBVIOUS
<1>1. Typed
  BY DEF ContactsInit, Typed, NoSession, Sessions, NothingStale, Stales
<1>2. Len(up) = 0 /\ ~LoggedIn
  BY DEF ContactsInit, LoggedIn
<1>3. server.info = {} /\ m_self = [status |-> "OFFLINE", invisible |-> FALSE]
  BY DEF ContactsInit, NoSession
<1>4. QED
  BY <1>1, <1>2, <1>3 DEF Inv, Ordered, InvisibleKnowsList, MapICQStatusToInvisible

LEMMA Untouched == Inv /\ UNCHANGED known => Inv'
BY DEF Inv, known, Typed, Ordered, InvisibleKnowsList, MapICQStatusToInvisible, LoggedIn, Shows, Seen

\* Users may become or cease to be stale.
LEMMA UntouchedButUsers ==
    ASSUME Inv, UNCHANGED <<m_state, up, down, server, m_self>>,
           stale' \in Stales, stale'.lists = stale.lists, stale'.self = stale.self
    PROVE  Inv'
<1>1. Seen' = Seen
  BY DEF Seen
<1>2. Typed'
  BY DEF Inv, Typed
<1>3. QED
  BY <1>1, <1>2 DEF Inv, Ordered, InvisibleKnowsList, MapICQStatusToInvisible, LoggedIn, Shows, Seen

\* Packets to the server are added, and nothing else of it changes.
LEMMA SentMore ==
    ASSUME Inv, UNCHANGED <<down, server, m_self>>, LoggedIn' => LoggedIn \/ down = <<>>,
           stale' \in Stales, stale.lists => stale'.lists, stale'.self = stale.self,
           up' \in Seq(Sent), Ordered(up', Seen')
    PROVE  Inv'
<1>1. Typed'
  BY DEF Inv, Typed
<1>2. Seen => Seen'
  BY DEF Seen
<1>3. LoggedIn' => Shows(down', Seen')
  BY <1>2 DEF Inv, Shows
<1>4. InvisibleKnowsList'
  BY <1>2 DEF Inv, InvisibleKnowsList, MapICQStatusToInvisible, Seen
<1>5. QED
  BY <1>1, <1>2, <1>3, <1>4 DEF Inv

\* Packets about others come from the server.
LEMMA OthersMore ==
    ASSUME Inv, UNCHANGED <<m_state, server, m_self>>, up' = up,
           stale' \in Stales, stale'.lists = stale.lists, stale'.self = stale.self,
           NEW t \in Seq(Received), down' = down \o t,
           \A i \in 1 .. Len(t) : t[i].type # "UserInfo"
    PROVE  Inv'
<1>1. /\ down \o t \in Seq(Received) /\ Len(down \o t) = Len(down) + Len(t)
      /\ \A i \in 1 .. Len(down) + Len(t) :
           (down \o t)[i] = IF i <= Len(down) THEN down[i] ELSE t[i - Len(down)]
  BY ConcatProperties DEF Inv, Typed
<1>2. Len(down) \in Nat /\ Len(t) \in Nat
  BY LenProperties DEF Inv, Typed
<1>3. ASSUME NEW i \in 1 .. Len(down'), down'[i].type = "UserInfo" PROVE i \in 1 .. Len(down) /\ down'[i] = down[i]
  <2>1. CASE i <= Len(down)
    BY <1>1, <1>2, <2>1
  <2>2. CASE ~(i <= Len(down))
    <3>1. i - Len(down) \in 1 .. Len(t) /\ down'[i] = t[i - Len(down)]
      BY <1>1, <1>2, <2>2
    <3>2. QED
      BY <1>3, <3>1
  <2>3. QED
    BY <2>1, <2>2
<1>4. Typed'
  BY <1>1 DEF Inv, Typed
<1>5. Seen' = Seen /\ LoggedIn' = LoggedIn
  BY DEF Seen, LoggedIn
<1>6. LoggedIn' => Shows(down', Seen')
  BY <1>3, <1>5 DEF Inv, Shows
<1>7. QED
  BY <1>4, <1>5, <1>6 DEF Inv, InvisibleKnowsList, MapICQStatusToInvisible, Ordered, Seen

\* The session ends: m_self forgets that it was invisible.
LEMMA DisconnectInv ==
    ASSUME Inv, Disconnect
    PROVE  Inv'
<1>1. up' = <<>> /\ server' = NoSession /\ stale' = NothingStale /\ ~LoggedIn'
  BY DEF Disconnect, LoggedIn
<1>2. m_self' = IF m_self.status = "OFFLINE" THEN m_self ELSE [status |-> "OFFLINE", invisible |-> FALSE]
  BY DEF Disconnect, SignalDisconnect
<1>3. m_self' \in [status : Shown \cup {"OFFLINE"}, invisible : BOOLEAN] /\ ~m_self'.invisible
  BY <1>2 DEF Inv, Typed
<1>4. server' \in Sessions /\ server'.info = {} /\ stale' \in Stales
  BY <1>1 DEF NoSession, Sessions, NothingStale, Stales
<1>5. down' \in Seq(Received)
  <2>1. PICK n \in 0 .. Len(down) : down' = SubSeq(down, 1, n)
    BY DEF Disconnect
  <2>2. down \in Seq(Received) /\ Len(down) \in Nat
    BY LenProperties DEF Inv, Typed
  <2>3. QED
    BY <2>1, <2>2, SubSeqProperties
<1>6. Typed' /\ Len(up') = 0
  BY <1>1, <1>3, <1>4, <1>5 DEF Typed
<1>7. QED
  BY <1>1, <1>3, <1>4, <1>6 DEF Inv, Ordered, InvisibleKnowsList, MapICQStatusToInvisible

LEMMA AddBuddyMore ==
    ASSUME NEW users \in SUBSET Users
    PROVE  AddBuddies(users) \in Seq(Sent) /\ \A i \in 1 .. Len(AddBuddies(users)) : ~Hides(AddBuddies(users)[i])
<1>1. [type |-> "AddBuddy", users |-> users] \in Sent
  BY DEF Sent
<1>2. QED
  BY <1>1, OneHarmless, NoneHarmless DEF AddBuddies

\* add and remove tell the server of a user.
LEMMA EditInv ==
    ASSUME Inv, NEW u \in Users, (\E g \in Groups : \E st : add(u, g, st)) \/ remove(u)
    PROVE  Inv'
<1>1. up \in Seq(Sent) /\ Seen \in BOOLEAN /\ Ordered(up, Seen) /\ stale \in Stales
  BY SeenKnown DEF Inv, Typed
<1>2. CASE \E g \in Groups : \E st : add(u, g, st)
  <2>1. up' = up \o AddBuddies({u}) /\ UNCHANGED <<m_state, down, server, m_self>>
    BY <1>2 DEF add, ownVars
  <2>2. {u} \in SUBSET Users
    OBVIOUS
  <2>3. stale' \in Stales /\ stale'.lists = stale.lists /\ stale'.self = stale.self
    <3>1. \E users \in SUBSET Users : stale' = [stale EXCEPT !.users = users]
      <4>1. \/ stale' = [stale EXCEPT !.users = @ \cup {u}]
            \/ stale' = [stale EXCEPT !.users = @ \ {u}]
        BY <1>2 DEF add
      <4>2. stale.users \cup {u} \in SUBSET Users /\ stale.users \ {u} \in SUBSET Users
        BY <1>1 DEF Stales
      <4>3. QED
        BY <4>1, <4>2
    <3>2. QED
      BY <1>1, <3>1 DEF Stales
  <2>4. up' \in Seq(Sent) /\ Ordered(up', Seen)
    BY <1>1, <2>1, <2>2, AddBuddyMore, OrderedHarmless
  <2>5. Seen' = Seen /\ LoggedIn' = LoggedIn
    BY <2>1, <2>3 DEF Seen, LoggedIn
  <2>6. QED
    BY <2>1, <2>3, <2>4, <2>5, SentMore
<1>3. CASE remove(u)
  <2> DEFINE p == [type |-> "RemoveBuddy", user |-> u]
  <2>1. up' \in {up, Append(up, p)} /\ UNCHANGED <<m_state, down, server, m_self, stale>>
    BY <1>3 DEF remove, ownVars
  <2>2. p \in Sent /\ p.type # "SetStatus"
    BY DEF Sent
  <2> HIDE DEF p
  <2>3. Append(up, p) = up \o <<p>>
    BY <1>1, <2>2, AppendIsConcat
  <2>4. Append(up, p) \in Seq(Sent) /\ Ordered(Append(up, p), Seen)
    BY <1>1, <2>2, <2>3, OneHarmless, OrderedHarmless
  <2>5. up' \in Seq(Sent) /\ Ordered(up', Seen)
    BY <1>1, <2>1, <2>4
  <2>6. Seen' = Seen /\ LoggedIn' = LoggedIn
    BY <2>1 DEF Seen, LoggedIn
  <2>7. QED
    BY <1>1, <2>1, <2>5, <2>6, SentMore
<1>4. QED
  BY <1>2, <1>3

LEMMA ListPackets ==
    ASSUME NEW condition \in BOOLEAN
    PROVE  /\ If(condition, AddVisible) \in Seq(Sent) /\ If(condition, AddInvisible) \in Seq(Sent)
           /\ \A i \in 1 .. Len(If(condition, AddVisible)) : ~Hides(If(condition, AddVisible)[i])
           /\ \A i \in 1 .. Len(If(condition, AddInvisible)) : ~Hides(If(condition, AddInvisible)[i])
           /\ condition => \A visible \in BOOLEAN : Listed(If(condition, AddVisible), visible)
<1>1. [type |-> "AddVisible"] \in Sent /\ [type |-> "AddInvisible"] \in Sent
  BY DEF Sent
<1>2. \A visible \in BOOLEAN : Listed(<<[type |-> "AddVisible"]>>, visible)
  BY DEF Listed
<1>3. QED
  BY <1>1, <1>2, OneHarmless, NoneHarmless DEF If, AddVisible, AddInvisible

\* The list if it is needed, the status, the other list: after any packets in order.
LEMMA StatusMore ==
    ASSUME NEW s \in Seq(Sent), NEW visible \in BOOLEAN, Ordered(s, visible),
           NEW st, NEW inv \in BOOLEAN, NEW before \in BOOLEAN, NEW after \in BOOLEAN,
           inv => before \/ visible
    PROVE  LET t == s \o If(before, AddVisible) \o OwnStatus(st, inv) \o If(after, AddInvisible)
           IN  t \in Seq(Sent) /\ Ordered(t, visible)
<1> DEFINE r == s \o If(before, AddVisible)
           q == r \o OwnStatus(st, inv)
           t == q \o If(after, AddInvisible)
<1>1. r \in Seq(Sent) /\ Ordered(r, visible) /\ (inv => Listed(r, visible))
  <2>1. r \in Seq(Sent) /\ Ordered(r, visible)
    BY ListPackets, OrderedHarmless
  <2>2. CASE visible
    BY <2>2, <2>1 DEF Listed
  <2>3. CASE before
    BY <2>1, <2>3, ListPackets, OrderedMore
  <2>4. QED
    BY <2>1, <2>2, <2>3
<1> HIDE DEF r
<1>2. q \in Seq(Sent) /\ Ordered(q, visible)
  BY <1>1, OwnStatusSent, OrderedMore
<1> HIDE DEF q
<1>3. t \in Seq(Sent) /\ Ordered(t, visible)
  BY <1>2, ListPackets, OrderedHarmless
<1>4. QED
  BY <1>3 DEF r, q

LEMMA OrderedSooner ==
    ASSUME NEW s \in Seq(Sent), NEW before \in BOOLEAN, NEW after \in BOOLEAN,
           Ordered(s, before), before => after
    PROVE  Ordered(s, after)
BY DEF Ordered

LEMMA RequestLogin ==
    ASSUME Inv, NEW st, NEW inv \in BOOLEAN, Request(st, inv)
    PROVE  Inv'
<1>1. /\ up \in Seq(Sent) /\ Seen \in BOOLEAN /\ Ordered(up, Seen) /\ stale \in Stales
      /\ m_self.invisible \in BOOLEAN /\ (m_self.invisible => Seen \/ stale.self)
  BY SeenKnown DEF Inv, Typed
<1>2. UNCHANGED <<down, server, m_self>> /\ (LoggedIn' => LoggedIn)
  BY DEF Request, LoggedIn
<1>3. /\ stale' = [stale EXCEPT !.lists = @ \/ (LoggedIn /\ stale.self)]
      /\ LoggedIn \in BOOLEAN
  BY DEF Request, LoggedIn
<1>4. /\ stale' \in Stales /\ stale'.self = stale.self
      /\ stale'.lists = (stale.lists \/ (LoggedIn /\ stale.self))
  BY <1>1, <1>3 DEF Stales
<1>5. Seen' = (Seen \/ (LoggedIn /\ stale.self)) /\ Seen' \in BOOLEAN
  BY <1>1, <1>2, <1>4 DEF Seen, Stales
<1>6. Ordered(up, Seen')
  BY <1>1, <1>5, OrderedSooner
<1>7. \/ up' = up
      \/ LoggedIn /\ up' = up \o If(~m_self.invisible /\ inv, AddVisible) \o OwnStatus(st, inv)
                              \o If(m_self.invisible /\ ~inv, AddInvisible)
  BY DEF Request
<1>8. LoggedIn => (inv => (~m_self.invisible /\ inv) \/ Seen')
  BY <1>1, <1>5
<1>9. /\ (~m_self.invisible /\ inv) \in BOOLEAN
      /\ (m_self.invisible /\ ~inv) \in BOOLEAN
  OBVIOUS
<1>10. up' \in Seq(Sent) /\ Ordered(up', Seen')
  BY <1>1, <1>5, <1>6, <1>7, <1>8, <1>9, StatusMore
<1>11. QED
  BY <1>2, <1>4, <1>10, SentMore

LEMMA LoginInv ==
    ASSUME Inv, wanted.invisible \in BOOLEAN, Login
    PROVE  Inv'
<1> DEFINE inv == wanted.invisible
           info == [type |-> "InfoRequest"]
           buddies == If(m_groups # {}, <<[type |-> "AddBuddy", users |-> InTree]>>)
           s == <<info>> \o buddies
<1>1. Seen \in BOOLEAN /\ UNCHANGED <<down, server, m_self, stale>> /\ down = <<>> /\ stale \in Stales
  BY SeenKnown DEF Inv, Typed, Login, ownVars
<1>2. up' = s \o If(inv, AddVisible) \o OwnStatus(wanted.status, inv) \o If(~inv, AddInvisible)
  BY DEF Login, SendLogin
<1>3. info \in Sent /\ info.type # "SetStatus" /\ [type |-> "AddBuddy", users |-> InTree] \in Sent
  BY DEF Sent, InTree
<1>4. buddies \in Seq(Sent) /\ \A i \in 1 .. Len(buddies) : ~Hides(buddies[i])
  BY <1>3, OneHarmless, NoneHarmless DEF If
<1>5. <<info>> \in Seq(Sent) /\ Ordered(<<info>>, Seen)
  BY <1>3, OneHarmless DEF Ordered
<1> HIDE DEF info, buddies
<1>6. s \in Seq(Sent) /\ Ordered(s, Seen)
  BY <1>1, <1>4, <1>5, OrderedHarmless
<1> HIDE DEF s
<1>7. up' \in Seq(Sent) /\ Ordered(up', Seen)
  BY <1>1, <1>2, <1>6, StatusMore
<1>8. Seen' = Seen
  BY <1>1 DEF Seen
<1>9. QED
  BY <1>1, <1>7, <1>8, SentMore

\* What the server says of the own client.
LEMMA InfoMore ==
    ASSUME NEW d \in Seq(Received), NEW icq \in SUBSET Nat, NEW visible \in BOOLEAN, NEW shows \in BOOLEAN,
           256 \in icq => visible, shows => Shows(d, visible)
    PROVE  LET e == Append(d, UserInfo(icq))
           IN  /\ e \in Seq(Received)
               /\ shows => Shows(e, visible)
<1> DEFINE p == UserInfo(icq)
<1>1. p \in Received /\ (256 \in p.icq => visible)
  BY DEF UserInfo, Received
<1> HIDE DEF p
<1> DEFINE e == Append(d, p)
<1>2. /\ e \in Seq(Received) /\ Len(e) = Len(d) + 1 /\ e[Len(d) + 1] = p
      /\ \A i \in 1 .. Len(d) : e[i] = d[i]
  BY <1>1, AppendProperties
<1>3. Len(d) \in Nat
  BY LenProperties
<1> HIDE DEF e
<1>4. ASSUME shows, NEW i \in 1 .. Len(e) PROVE e[i].type = "UserInfo" /\ 256 \in e[i].icq => visible
  <2>1. CASE i = Len(d) + 1
    BY <1>1, <1>2, <2>1
  <2>2. CASE i # Len(d) + 1
    <3>1. i \in 1 .. Len(d)
      BY <1>2, <1>3, <2>2
    <3>2. QED
      BY <1>2, <1>4, <3>1 DEF Shows
  <2>3. QED
    BY <2>1, <2>2
<1>5. QED
  BY <1>2, <1>4 DEF e, p, Shows

\* The server speaks of users with nothing of before to follow.
LEMMA FreshStale ==
    ASSUME stale \in Stales, NEW users, Fresh(users)
    PROVE  /\ stale' \in Stales /\ stale'.lists = stale.lists /\ stale'.self = stale.self
           /\ stale'.users = {u \in stale.users :
                                u \notin users \/ \E p \in ToSet(up') : p.type = "RemoveBuddy" /\ p.user = u}
<1> DEFINE rest == {u \in stale.users : u \notin users \/ \E p \in ToSet(up') : p.type = "RemoveBuddy" /\ p.user = u}
<1>1. stale' = [stale EXCEPT !.users = rest]
  BY DEF Fresh
<1>2. rest \in SUBSET Users
  BY DEF Stales
<1> HIDE DEF rest
<1>3. stale' \in Stales /\ stale'.lists = stale.lists /\ stale'.self = stale.self /\ stale'.users = rest
  BY <1>1, <1>2 DEF Stales
<1>4. QED
  BY <1>3 DEF rest

LEMMA ServerTakesInv ==
    ASSUME Inv, ServerTakes
    PROVE  Inv'
<1> DEFINE p == Head(up)
<1>1. /\ up \in Seq(Sent) /\ down \in Seq(Received) /\ server \in Sessions /\ server.visible \in BOOLEAN
      /\ Ordered(up, Seen) /\ up # <<>> /\ stale \in Stales
      /\ LoggedIn \in BOOLEAN /\ (LoggedIn => Shows(down, Seen))
      /\ Seen \in BOOLEAN /\ (256 \in server.info => Seen)
      /\ InvisibleKnowsList
  BY SeenKnown DEF Inv, Typed, Sessions, ServerTakes, LoggedIn
<1>2. up' = Tail(up) /\ UNCHANGED <<m_state, m_self>>
  BY DEF ServerTakes, ownVars
<1>3. p \in Sent /\ LoggedIn' = LoggedIn
  BY <1>1, <1>2, HeadTailProperties DEF LoggedIn
<1>4. ASSUME NEW then \in BOOLEAN, Seen => then, p.type = "AddVisible" => then
      PROVE  /\ up' \in Seq(Sent) /\ Ordered(up', then)
             /\ Hides(p) => Seen
  BY <1>1, <1>2, <1>4, OrderedTail
<1> HIDE DEF p
<1>5. CASE p.type = "InfoRequest"
  <2>1. UNCHANGED <<server, stale>> /\ down' = Append(down, UserInfo(server.info))
    BY <1>5 DEF ServerTakes, p
  <2>2. server.info \in SUBSET Nat
    BY <1>1 DEF Sessions
  <2>3. down' \in Seq(Received) /\ (LoggedIn => Shows(down', Seen))
    BY <1>1, <2>1, <2>2, InfoMore
  <2>4. up' \in Seq(Sent) /\ Ordered(up', Seen)
    BY <1>1, <1>4, <1>5
  <2>5. Typed'
    BY <1>2, <2>1, <2>3, <2>4 DEF Inv, Typed
  <2>6. Seen' = Seen /\ InvisibleKnowsList'
    BY <1>1, <2>1 DEF Seen, InvisibleKnowsList, MapICQStatusToInvisible
  <2>7. QED
    BY <1>2, <1>3, <2>1, <2>3, <2>4, <2>5, <2>6 DEF Inv
<1>6. CASE p.type = "SetStatus"
  <2>1. server' = [server EXCEPT !.info = p.icq] /\ down' = Append(down, UserInfo(p.icq)) /\ UNCHANGED stale
    BY <1>6 DEF ServerTakes, p
  <2>2. p.icq \in SUBSET Nat
    BY <1>3, <1>6 DEF Sent
  <2>3. server' \in Sessions /\ server'.visible = server.visible /\ server'.info = p.icq
    BY <1>1, <2>1, <2>2 DEF Sessions
  <2>4. /\ up' \in Seq(Sent) /\ Ordered(up', Seen)
        /\ 256 \in p.icq => Seen
    BY <1>1, <1>4, <1>6 DEF Hides
  <2>5. down' \in Seq(Received) /\ (LoggedIn => Shows(down', Seen))
    BY <1>1, <2>1, <2>2, <2>4, InfoMore
  <2>6. Typed'
    BY <1>2, <2>1, <2>3, <2>4, <2>5 DEF Inv, Typed
  <2>7. Seen' = Seen
    BY <2>1, <2>3 DEF Seen
  <2>8. InvisibleKnowsList'
    BY <2>3, <2>4, <2>7 DEF Seen, InvisibleKnowsList, MapICQStatusToInvisible
  <2>9. QED
    BY <1>2, <1>3, <2>1, <2>4, <2>5, <2>6, <2>7, <2>8 DEF Inv
<1>7. CASE p.type \in {"AddVisible", "AddInvisible", "RemoveBuddy"}
  <2>1. /\ UNCHANGED <<down, stale>>
        /\ \/ p.type = "AddVisible" /\ server' = [server EXCEPT !.visible = TRUE]
           \/ p.type = "AddInvisible" /\ server' = [server EXCEPT !.invisible = TRUE]
           \/ p.type = "RemoveBuddy" /\ server' = [server EXCEPT !.buddies = @ \ {p.user}]
    BY <1>7 DEF ServerTakes, p
  <2>2. /\ server' \in Sessions /\ server'.info = server.info
        /\ server'.visible = (server.visible \/ p.type = "AddVisible")
    BY <1>1, <2>1 DEF Sessions
  <2>3. /\ Seen' \in BOOLEAN /\ (Seen => Seen')
        /\ p.type = "AddVisible" => Seen'
    BY <1>1, <2>1, <2>2 DEF Sessions, Stales, Seen
  <2>4. up' \in Seq(Sent) /\ Ordered(up', Seen')
    BY <1>4, <2>3
  <2>5. Typed'
    BY <1>1, <1>2, <2>1, <2>2, <2>4 DEF Inv, Typed
  <2>6. InvisibleKnowsList'
    BY <1>1, <2>2, <2>3 DEF Seen, InvisibleKnowsList, MapICQStatusToInvisible
  <2>7. LoggedIn' => Shows(down', Seen')
    BY <1>1, <1>3, <2>1, <2>3 DEF Shows
  <2>8. QED
    BY <1>2, <2>1, <2>3, <2>4, <2>5, <2>6, <2>7 DEF Inv
<1>8. CASE p.type = "AddBuddy"
  <2> DEFINE S == {u \in p.users : online[u] # "OFFLINE"}
             here == SetToSeq(S)
             t == [i \in DOMAIN here |-> Presence(here[i], online[here[i]])]
  <2>1. server' = [server EXCEPT !.buddies = @ \cup p.users] /\ down' = down \o t /\ Fresh(S)
    BY <1>8 DEF ServerTakes, p
  <2>2. p.users \in SUBSET Users
    BY <1>3, <1>8 DEF Sent
  <2>3. here \in Seq(S)
    BY <2>2, UsersFinite, FS_Subset, ListOfSet
  <2>4. here \in Seq(Users)
    BY <2>2, <2>3
  <2> HIDE DEF here, S
  <2>5. t \in Seq(Received) /\ Len(t) = Len(here) /\ \A i \in 1 .. Len(t) : t[i].type # "UserInfo"
    <3>1. DOMAIN here = 1 .. Len(here) /\ Len(here) \in Nat /\ \A i \in 1 .. Len(here) : here[i] \in Users
      BY <2>4, LenProperties
    <3>2. \A i \in 1 .. Len(here) : Presence(here[i], online[here[i]]) \in Received
                                   /\ Presence(here[i], online[here[i]]).type # "UserInfo"
      BY <3>1, PresenceReceived
    <3>3. t \in [1 .. Len(here) -> Received] /\ \A i \in 1 .. Len(here) : t[i].type # "UserInfo"
      BY <3>1, <3>2
    <3>4. QED
      BY <3>1, <3>3
  <2> HIDE DEF t
  <2>6. server' \in Sessions /\ server'.visible = server.visible /\ server'.info = server.info
    BY <1>1, <2>1, <2>2 DEF Sessions
  <2>7. stale' \in Stales /\ stale'.lists = stale.lists /\ stale'.self = stale.self
    BY <1>1, <2>1, FreshStale
  <2>8. Seen' = Seen
    BY <2>6, <2>7 DEF Seen
  <2>9. up' \in Seq(Sent) /\ Ordered(up', Seen)
    BY <1>1, <1>4, <1>8
  <2>10. down \o t \in Seq(Received)
    BY <1>1, <2>5, ConcatProperties
  <2>11. LoggedIn => Shows(down', Seen)
    BY <1>1, <2>1, <2>5 DEF Shows
  <2>12. Typed'
    BY <1>2, <2>1, <2>6, <2>7, <2>9, <2>10 DEF Inv, Typed
  <2>13. InvisibleKnowsList'
    BY <1>1, <2>6, <2>8 DEF Seen, InvisibleKnowsList, MapICQStatusToInvisible
  <2>14. QED
    BY <1>2, <1>3, <2>7, <2>8, <2>9, <2>11, <2>12, <2>13 DEF Inv
<1>9. p.type \in {"InfoRequest", "AddVisible", "AddInvisible", "AddBuddy", "RemoveBuddy", "SetStatus"}
  BY <1>3 DEF Sent
<1>10. QED
  BY <1>5, <1>6, <1>7, <1>8, <1>9

LEMMA ParseCh2Inv ==
    ASSUME Inv, ParseCh2
    PROVE  Inv'
<1> DEFINE p == Head(down)
<1>1. /\ down \in Seq(Received) /\ down # <<>> /\ down' = Tail(down) /\ UNCHANGED <<m_state, up, server>>
      /\ (LoggedIn => Shows(down, Seen)) /\ stale \in Stales
  BY DEF Inv, Typed, ParseCh2
<1>2. /\ p \in Received /\ p = down[1] /\ Tail(down) \in Seq(Received) /\ Len(Tail(down)) = Len(down) - 1
      /\ \A i \in 1 .. Len(Tail(down)) : Tail(down)[i] = down[i + 1]
      /\ Len(down) \in Nat /\ Len(down) >= 1
  BY <1>1, HeadTailProperties, LenProperties, EmptySeq
<1>3. ASSUME NEW i \in 1 .. Len(down') PROVE i + 1 \in 1 .. Len(down) /\ down'[i] = down[i + 1]
  BY <1>1, <1>2
<1>4. LoggedIn => Shows(down', Seen)
  BY <1>1, <1>3 DEF Shows
<1>5. LoggedIn /\ p.type = "UserInfo" /\ 256 \in p.icq => Seen
  BY <1>1, <1>2 DEF Shows
<1>6. p.type = "UserInfo" \/ p.user \in Users
  BY <1>2 DEF Received
<1> HIDE DEF p
<1>7. \/ /\ m_self' = m_self
         /\ \/ UNCHANGED stale
            \/ stale' = [stale EXCEPT !.users = @ \cup {p.user}] /\ p.user \in Users
            \/ stale' = [stale EXCEPT !.users = @ \ {p.user}]
      \/ /\ p.type = "UserInfo"
         /\ m_self' = [status |-> MapICQStatusToStatus(p.icq), invisible |-> MapICQStatusToInvisible(p.icq)]
         /\ stale' = [stale EXCEPT !.self = ~LoggedIn]
  BY <1>6 DEF ParseCh2, HandleUserInfoSNAC, SignalUserOnline, SignalUserOffline, p
<1>8. MapICQStatusToStatus(p.icq) \in Shown /\ "OFFLINE" \notin Shown
  BY StatusOfFlags DEF Shown
<1>9. /\ stale' \in Stales /\ stale'.lists = stale.lists
      /\ m_self' \in [status : Shown \cup {"OFFLINE"}, invisible : BOOLEAN]
      /\ m_self'.invisible => Seen \/ stale'.self
      /\ m_self'.status = "OFFLINE" => ~m_self'.invisible
  <2>1. CASE /\ m_self' = m_self
             /\ \/ UNCHANGED stale
                \/ stale' = [stale EXCEPT !.users = @ \cup {p.user}] /\ p.user \in Users
                \/ stale' = [stale EXCEPT !.users = @ \ {p.user}]
    <3>1. \E users \in SUBSET Users : stale' = [stale EXCEPT !.users = users]
      <4>1. stale.users \in SUBSET Users /\ stale = [stale EXCEPT !.users = stale.users]
        BY <1>1 DEF Stales
      <4>2. stale.users \ {p.user} \in SUBSET Users /\ (p.user \in Users => stale.users \cup {p.user} \in SUBSET Users)
        BY <4>1
      <4>3. QED
        BY <2>1, <4>1, <4>2
    <3>2. stale' \in Stales /\ stale'.lists = stale.lists /\ stale'.self = stale.self
      BY <1>1, <3>1 DEF Stales
    <3>3. QED
      BY <2>1, <3>2 DEF Inv, Typed
  <2>2. CASE /\ p.type = "UserInfo"
             /\ m_self' = [status |-> MapICQStatusToStatus(p.icq), invisible |-> MapICQStatusToInvisible(p.icq)]
             /\ stale' = [stale EXCEPT !.self = ~LoggedIn]
    <3> DEFINE st == MapICQStatusToStatus(p.icq)
               inv == MapICQStatusToInvisible(p.icq)
    <3>1. st \in Shown /\ st # "OFFLINE" /\ inv \in BOOLEAN /\ (LoggedIn /\ inv => Seen)
      BY <1>5, <1>8, <2>2 DEF MapICQStatusToInvisible
    <3>2. m_self' = [status |-> st, invisible |-> inv]
      BY <2>2
    <3> HIDE DEF st, inv
    <3>3. m_self'.status = st /\ m_self'.invisible = inv
      BY <3>2
    <3>4. stale' \in Stales /\ stale'.lists = stale.lists /\ stale'.self = ~LoggedIn
      BY <1>1, <2>2 DEF Stales
    <3>5. QED
      BY <3>1, <3>2, <3>3, <3>4
  <2>3. QED
    BY <1>7, <2>1, <2>2
<1>10. Typed'
  BY <1>1, <1>2, <1>9 DEF Inv, Typed
<1>11. Seen' = Seen /\ LoggedIn' = LoggedIn
  BY <1>1, <1>9 DEF Seen, LoggedIn
<1>12. InvisibleKnowsList'
  BY <1>1, <1>11 DEF Inv, InvisibleKnowsList, MapICQStatusToInvisible, Seen
<1>13. Ordered(up', Seen')
  BY <1>1, <1>11 DEF Inv
<1>14. QED
  BY <1>4, <1>9, <1>10, <1>11, <1>12, <1>13 DEF Inv

LEMMA UserMovesInv ==
    ASSUME Inv, NEW u \in Users, NEW st, UserMoves(u, st)
    PROVE  Inv'
<1> DEFINE p == Presence(u, st)
<1>1. p \in Received /\ p.type # "UserInfo"
  BY PresenceReceived
<1>2. /\ UNCHANGED <<m_state, up, server, m_self>>
      /\ (down' = Append(down, p) /\ Fresh({u})) \/ (down' = down /\ UNCHANGED stale)
  BY DEF UserMoves, ownVars
<1>3. stale \in Stales
  BY DEF Inv, Typed
<1>4. stale' \in Stales /\ stale'.lists = stale.lists /\ stale'.self = stale.self
  <2>1. CASE Fresh({u})
    BY <1>3, <2>1, FreshStale
  <2>2. CASE UNCHANGED stale
    BY <1>3, <2>2
  <2>3. QED
    BY <1>2, <2>1, <2>2
<1> HIDE DEF p
<1>5. CASE down' = down
  BY <1>2, <1>4, <1>5, UntouchedButUsers
<1>6. CASE down' = Append(down, p)
  <2>1. <<p>> \in Seq(Received) /\ \A i \in 1 .. Len(<<p>>) : <<p>>[i].type # "UserInfo"
    BY <1>1
  <2>2. down' = down \o <<p>>
    BY <1>1, <1>6, AppendIsConcat DEF Inv, Typed
  <2>3. QED
    BY <1>2, <1>4, <2>1, <2>2, OthersMore
<1>7. QED
  BY <1>2, <1>5, <1>6

-----------------------------------------------------------------------------

\* What is wanted was asked for by the application.
ContactsInv == Inv /\ wanted.invisible \in BOOLEAN

LEMMA NextInv ==
    ASSUME Inv, wanted.invisible \in BOOLEAN, [ContactsNext]_contactsVars
    PROVE  Inv' /\ wanted'.invisible \in BOOLEAN
<1>1. CASE \E g \in Groups : add_group(g) \/ remove_group(g)
  BY <1>1, Untouched DEF add_group, remove_group, ownVars, known
<1>2. CASE \E u \in Users : remove(u)
  BY <1>2, EditInv DEF remove, ownVars
<1>3. CASE \E u \in Users, g \in Groups : add(u, g, "OFFLINE") \/ add(u, g, status[u])
  BY <1>3, EditInv DEF add, ownVars
<1>4. CASE \E u \in Users, g \in Groups : relocate_contact(u, g)
  BY <1>4, Untouched DEF relocate_contact, ownVars, known
<1>5. CASE \E st \in OwnStatuses, inv \in BOOLEAN : Request(st, inv)
  BY <1>5, RequestLogin DEF Request
<1>6. CASE Login
  BY <1>6, LoginInv DEF Login, ownVars
<1>7. CASE \E inv \in BOOLEAN : RequestOffline(inv)
  <2>1. PICK inv \in BOOLEAN : RequestOffline(inv)
    BY <1>7
  <2>2. wanted'.invisible \in BOOLEAN
    BY <2>1 DEF RequestOffline
  <2>3. Disconnect \/ UNCHANGED known
    BY <2>1 DEF RequestOffline, known
  <2>4. QED
    BY <2>2, <2>3, DisconnectInv, Untouched
<1>8. CASE Lost
  BY <1>8, DisconnectInv DEF Lost
<1>9. CASE ParseCh2
  BY <1>9, ParseCh2Inv DEF ParseCh2
<1>10. CASE ServerTakes
  BY <1>10, ServerTakesInv DEF ServerTakes, ownVars
<1>11. CASE \E u \in Users, st \in {"OFFLINE"} \cup UserStatuses : UserMoves(u, st)
  BY <1>11, UserMovesInv DEF UserMoves, ownVars
<1>12. CASE UNCHANGED contactsVars
  BY <1>12, Untouched DEF contactsVars, ownVars, known
<1>13. QED
  BY <1>1, <1>2, <1>3, <1>4, <1>5, <1>6, <1>7, <1>8, <1>9, <1>10, <1>11, <1>12 DEF ContactsNext

(* The server never shows the client as invisible before it has the visible *)
(* list of the session (Client::setStatus and Client::SendLogin), whatever  *)
(* is asked for in whatever order and however late the server answers,      *)
(* unless setStatus went by an m_self that the session before left behind.  *)
THEOREM AlwaysKnowsList == ContactsSpec => []InvisibleKnowsList
<1>1. ContactsInit => ContactsInv
  BY InitInv DEF ContactsInit, ContactsInv
<1>2. ContactsInv /\ [ContactsNext]_contactsVars => ContactsInv'
  BY NextInv DEF ContactsInv
<1>3. ContactsInv => InvisibleKnowsList
  BY DEF Inv, ContactsInv
<1>4. QED
  BY <1>1, <1>2, <1>3, PTL DEF ContactsSpec

-----------------------------------------------------------------------------
(* What is on its way settles the statuses.                                  *)

\* Packets about user u and about the client itself.
About(u) == {p \in Received : p.type \in {"BuddyOnline", "BuddyOffline"} /\ p.user = u}
Infos == {p \in Received : p.type = "UserInfo"}
Adds(u) == {p \in Sent : p.type = "AddBuddy" /\ u \in p.users}
Removes(u) == {p \in Sent : p.type = "RemoveBuddy" /\ p.user = u}
Asks == {p \in Sent : p.type \in {"InfoRequest", "SetStatus"}}

\* Sequence q has no packet of K; from some place on it has no other of K than p.
Lacks(q, K) == \A i \in 1 .. Len(q) : q[i] \notin K
Settles(q, K, p) ==
    \E i \in 1 .. Len(q) : q[i] = p /\ \A j \in i .. Len(q) : q[j] \in K => q[j] = p

AnyStatus == Shown \cup {"OFFLINE"}

TreeInv ==
    /\ member \in [Users -> Groups \cup {None}] /\ wired \in [Users -> Groups \cup {None}]
    /\ status \in [Users -> AnyStatus] /\ told \in [Users -> AnyStatus] /\ online \in [Users -> AnyStatus]
    /\ \A u \in InTree : member[u] \in m_groups
    /\ \A u \in Users : wired[u] # None => told[u] = status[u]

\* Without a session nothing is known of the users, but for what is left over.
IdleInv ==
    /\ m_state \in {"NOT_CONNECTED", "CONNECTING", "BOS_LOGGED_IN"}
    /\ ~LoggedIn => /\ up = <<>> /\ server.buddies = {}
                    /\ \A u \in InTree \ stale.users : status[u] = "OFFLINE"
    /\ m_state = "NOT_CONNECTED" => m_self.status = "OFFLINE" \/ stale.self

\* The server knows user u and what it says comes to the true status, or it
\* is to be told of u and has nothing to say yet.
Present(u) ==
    /\ Lacks(up, Removes(u))
    /\ \/ /\ u \in server.buddies
          /\ \/ Settles(down, About(u), Presence(u, online[u]))
             \/ Lacks(down, About(u)) /\ status[u] = online[u]
       \/ ~Lacks(up, Adds(u)) /\ Lacks(down, About(u)) /\ status[u] = "OFFLINE"

UsersInv == LoggedIn => \A u \in InTree \ stale.users : Present(u)

WantedFlags == MapStatusToICQStatus(wanted.status, wanted.invisible)

\* What was asked for last is what the client's status comes to.
SelfInv ==
    /\ wanted \in [status : AnyStatus, invisible : BOOLEAN]
    /\ m_state # "NOT_CONNECTED" => wanted.status \in Shown
    /\ LoggedIn => \/ Settles(up, Asks, [type |-> "SetStatus", icq |-> WantedFlags])
                   \/ /\ Lacks(up, Asks)
                      /\ \/ Settles(down, Infos, UserInfo(WantedFlags))
                         \/ Lacks(down, Infos) /\ m_self = wanted

PresenceInv == TreeInv /\ IdleInv /\ UsersInv /\ SelfInv

-----------------------------------------------------------------------------
(* Sequences that lack or settle something, joined and read.                 *)

LEMMA JoinedLacks ==
    ASSUME NEW S, NEW q \in Seq(S), NEW t \in Seq(S), NEW K
    PROVE  Lacks(q \o t, K) <=> Lacks(q, K) /\ Lacks(t, K)
<1>1. ASSUME Lacks(q, K), Lacks(t, K), NEW i \in 1 .. Len(q \o t) PROVE (q \o t)[i] \notin K
  BY <1>1, Joined DEF Lacks
<1>2. ASSUME Lacks(q \o t, K) PROVE Lacks(q, K) /\ Lacks(t, K)
  <2>1. ASSUME NEW i \in 1 .. Len(q) PROVE q[i] \notin K
    BY <1>2, Joined DEF Lacks
  <2>2. ASSUME NEW i \in 1 .. Len(t) PROVE t[i] \notin K
    <3>1. Len(q) + i \in 1 .. Len(q \o t) /\ (q \o t)[Len(q) + i] = t[i]
      BY Joined
    <3>2. QED
      BY <1>2, <3>1 DEF Lacks
  <2>3. QED
    BY <2>1, <2>2 DEF Lacks
<1>3. QED
  BY <1>1, <1>2 DEF Lacks

LEMMA JoinedSettles ==
    ASSUME NEW S, NEW q \in Seq(S), NEW t \in Seq(S), NEW K, NEW p,
           Settles(t, K, p) \/ (Settles(q, K, p) /\ Lacks(t, K))
    PROVE  Settles(q \o t, K, p)
<1>1. CASE Settles(t, K, p)
  <2>1. PICK i \in 1 .. Len(t) : t[i] = p /\ \A j \in i .. Len(t) : t[j] \in K => t[j] = p
    BY <1>1 DEF Settles
  <2>2. Len(q) + i \in 1 .. Len(q \o t) /\ (q \o t)[Len(q) + i] = p
    BY <2>1, Joined
  <2>3. ASSUME NEW j \in Len(q) + i .. Len(q \o t), (q \o t)[j] \in K PROVE (q \o t)[j] = p
    <3>1. j \in 1 .. Len(q \o t) /\ j \notin 1 .. Len(q) /\ j - Len(q) >= i
      BY Joined
    <3>2. j - Len(q) \in i .. Len(t) /\ (q \o t)[j] = t[j - Len(q)]
      BY <3>1, Joined
    <3>3. QED
      BY <2>1, <2>3, <3>2
  <2>4. QED
    BY <2>2, <2>3 DEF Settles
<1>2. CASE Settles(q, K, p) /\ Lacks(t, K)
  <2>1. PICK i \in 1 .. Len(q) : q[i] = p /\ \A j \in i .. Len(q) : q[j] \in K => q[j] = p
    BY <1>2 DEF Settles
  <2>2. i \in 1 .. Len(q \o t) /\ (q \o t)[i] = p
    BY <2>1, Joined
  <2>3. ASSUME NEW j \in i .. Len(q \o t), (q \o t)[j] \in K PROVE (q \o t)[j] = p
    <3>1. j \in 1 .. Len(q \o t)
      BY Joined
    <3>2. CASE j \in 1 .. Len(q)
      <4>1. j \in i .. Len(q) /\ (q \o t)[j] = q[j]
        BY <3>2, Joined
      <4>2. QED
        BY <2>1, <2>3, <4>1
    <3>3. CASE j \notin 1 .. Len(q)
      <4>1. j - Len(q) \in 1 .. Len(t) /\ (q \o t)[j] = t[j - Len(q)]
        BY <3>1, <3>3, Joined
      <4>2. QED
        BY <1>2, <2>3, <4>1 DEF Lacks
    <3>4. QED
      BY <3>2, <3>3
  <2>4. QED
    BY <2>2, <2>3 DEF Settles
<1>3. QED
  BY <1>1, <1>2

LEMMA OneSettles ==
    ASSUME NEW K, NEW p
    PROVE  /\ Settles(<<p>>, K, p)
           /\ Lacks(<<p>>, K) <=> p \notin K
           /\ Lacks(<<>>, K) /\ ~Settles(<<>>, K, p)
BY DEF Settles, Lacks

LEMMA OneMoreSettles ==
    ASSUME NEW S, NEW q \in Seq(S), NEW p \in S
    PROVE  /\ Append(q, p) = q \o <<p>> /\ q \o <<p>> \in Seq(S)
           /\ \A K : /\ Lacks(q \o <<p>>, K) <=> Lacks(q, K) /\ p \notin K
                    /\ Settles(q \o <<p>>, K, p)
                    /\ \A x : Settles(q, K, x) /\ p \notin K => Settles(q \o <<p>>, K, x)
<1>1. <<p>> \in Seq(S)
  OBVIOUS
<1>2. Append(q, p) = q \o <<p>> /\ q \o <<p>> \in Seq(S)
  BY <1>1, AppendIsConcat, Joined
<1>3. ASSUME NEW K PROVE Lacks(q \o <<p>>, K) <=> Lacks(q, K) /\ p \notin K
  BY <1>1, JoinedLacks, OneSettles
<1>4. ASSUME NEW K PROVE Settles(q \o <<p>>, K, p)
  BY <1>1, JoinedSettles, OneSettles
<1>5. ASSUME NEW K, NEW x, Settles(q, K, x), p \notin K PROVE Settles(q \o <<p>>, K, x)
  BY <1>1, <1>5, JoinedSettles, OneSettles
<1>6. QED
  BY <1>2, <1>3, <1>4, <1>5

LEMMA ReadPacket ==
    ASSUME NEW S, NEW q \in Seq(S), q # <<>>
    PROVE  /\ Head(q) \in S /\ Tail(q) \in Seq(S)
           /\ Len(q) \in Nat /\ Len(q) >= 1 /\ Len(Tail(q)) = Len(q) - 1 /\ Head(q) = q[1]
           /\ \A i \in 1 .. Len(Tail(q)) : i + 1 \in 1 .. Len(q) /\ Tail(q)[i] = q[i + 1]
           /\ \A i \in 1 .. Len(q) : i # 1 => i - 1 \in 1 .. Len(Tail(q)) /\ Tail(q)[i - 1] = q[i]
<1>1. /\ Head(q) \in S /\ Tail(q) \in Seq(S) /\ Len(Tail(q)) = Len(q) - 1 /\ Head(q) = q[1]
      /\ \A i \in 1 .. Len(Tail(q)) : Tail(q)[i] = q[i + 1]
  BY HeadTailProperties
<1>2. Len(q) \in Nat /\ Len(q) >= 1
  BY LenProperties, EmptySeq
<1>3. ASSUME NEW i \in 1 .. Len(q), i # 1 PROVE i - 1 \in 1 .. Len(Tail(q)) /\ Tail(q)[i - 1] = q[i]
  <2>1. i - 1 \in 1 .. Len(Tail(q)) /\ (i - 1) + 1 = i
    BY <1>1, <1>2, <1>3
  <2>2. QED
    BY <1>1, <2>1
<1>4. \A i \in 1 .. Len(Tail(q)) : i + 1 \in 1 .. Len(q)
  BY <1>1, <1>2
<1>5. QED
  BY <1>1, <1>2, <1>3, <1>4

LEMMA ReadLacks ==
    ASSUME NEW S, NEW q \in Seq(S), q # <<>>, NEW K
    PROVE  Lacks(q, K) <=> Head(q) \notin K /\ Lacks(Tail(q), K)
<1>1. ASSUME Lacks(q, K) PROVE Head(q) \notin K /\ Lacks(Tail(q), K)
  BY <1>1, ReadPacket DEF Lacks
<1>2. ASSUME Head(q) \notin K, Lacks(Tail(q), K), NEW i \in 1 .. Len(q) PROVE q[i] \notin K
  <2>1. CASE i = 1
    BY <1>2, <2>1, ReadPacket
  <2>2. CASE i # 1
    BY <1>2, <2>2, ReadPacket DEF Lacks
  <2>3. QED
    BY <2>1, <2>2
<1>3. QED
  BY <1>1, <1>2 DEF Lacks

\* What settles is still to come, or it was the last of its kind.
LEMMA ReadSettles ==
    ASSUME NEW S, NEW q \in Seq(S), q # <<>>, NEW K, NEW p, Settles(q, K, p)
    PROVE  Settles(Tail(q), K, p) \/ (Head(q) = p /\ Lacks(Tail(q), K))
<1>1. PICK i \in 1 .. Len(q) : q[i] = p /\ \A j \in i .. Len(q) : q[j] \in K => q[j] = p
  BY DEF Settles
<1>2. ASSUME NEW k \in 1 .. Len(Tail(q)), Tail(q)[k] = p, k + 1 >= i PROVE Settles(Tail(q), K, p)
  <2>1. ASSUME NEW j \in k .. Len(Tail(q)), Tail(q)[j] \in K PROVE Tail(q)[j] = p
    <3>1. j \in 1 .. Len(Tail(q)) /\ j + 1 \in i .. Len(q)
      BY <1>2, ReadPacket
    <3>2. Tail(q)[j] = q[j + 1]
      BY <3>1, ReadPacket
    <3>3. QED
      BY <1>1, <2>1, <3>1, <3>2
  <2>2. QED
    BY <1>2, <2>1 DEF Settles
<1>3. CASE i # 1
  <2>1. i - 1 \in 1 .. Len(Tail(q)) /\ Tail(q)[i - 1] = p /\ (i - 1) + 1 >= i
    BY <1>1, <1>3, ReadPacket
  <2>2. QED
    BY <1>2, <2>1
<1>4. CASE i = 1
  <2>1. Head(q) = p
    BY <1>1, <1>4, ReadPacket
  <2>2. ASSUME NEW k \in 1 .. Len(Tail(q)), Tail(q)[k] \in K PROVE Settles(Tail(q), K, p)
    <3>1. k + 1 \in i .. Len(q) /\ Tail(q)[k] = q[k + 1] /\ k + 1 >= i
      BY <1>4, ReadPacket
    <3>2. Tail(q)[k] = p
      BY <1>1, <2>2, <3>1
    <3>3. QED
      BY <1>2, <3>1, <3>2
  <2>3. QED
    BY <2>1, <2>2 DEF Lacks
<1>5. QED
  BY <1>3, <1>4

-----------------------------------------------------------------------------
(* What the packets are about.                                               *)

\* A status survives the way to a number and back.
LEMMA StatusOfStatus ==
    ASSUME NEW st \in Shown, NEW inv \in BOOLEAN
    PROVE  /\ MapICQStatusToStatus(MapStatusToICQStatus(st, inv)) = st
           /\ MapICQStatusToInvisible(MapStatusToICQStatus(st, inv)) = inv
<1> DEFINE icq == MapStatusToICQStatus(st, inv)
<1>1. 256 \in icq <=> inv
  BY StatusFlags
<1>2. CASE st = "ONLINE"
  <2>1. icq \subseteq {256}
    BY <1>2 DEF MapStatusToICQStatus
  <2> HIDE DEF icq
  <2>2. MapICQStatusToStatus(icq) = st
    BY <1>2, <2>1 DEF MapICQStatusToStatus
  <2>3. QED
    BY <1>1, <2>2 DEF icq, MapICQStatusToInvisible
<1>3. CASE st = "AWAY"
  <2>1. 1 \in icq /\ icq \subseteq {1, 256}
    BY <1>3 DEF MapStatusToICQStatus
  <2> HIDE DEF icq
  <2>2. MapICQStatusToStatus(icq) = st
    BY <1>3, <2>1 DEF MapICQStatusToStatus
  <2>3. QED
    BY <1>1, <2>2 DEF icq, MapICQStatusToInvisible
<1>4. CASE st = "NA"
  <2>1. 4 \in icq /\ icq \subseteq {1, 4, 256}
    BY <1>4 DEF MapStatusToICQStatus
  <2> HIDE DEF icq
  <2>2. MapICQStatusToStatus(icq) = st
    BY <1>4, <2>1 DEF MapICQStatusToStatus
  <2>3. QED
    BY <1>1, <2>2 DEF icq, MapICQStatusToInvisible
<1>5. CASE st = "OCCUPIED"
  <2>1. 16 \in icq /\ icq \subseteq {1, 16, 256}
    BY <1>5 DEF MapStatusToICQStatus
  <2> HIDE DEF icq
  <2>2. MapICQStatusToStatus(icq) = st
    BY <1>5, <2>1 DEF MapICQStatusToStatus
  <2>3. QED
    BY <1>1, <2>2 DEF icq, MapICQStatusToInvisible
<1>6. CASE st = "DND"
  <2>1. 2 \in icq
    BY <1>6 DEF MapStatusToICQStatus
  <2> HIDE DEF icq
  <2>2. MapICQStatusToStatus(icq) = st
    BY <1>6, <2>1 DEF MapICQStatusToStatus
  <2>3. QED
    BY <1>1, <2>2 DEF icq, MapICQStatusToInvisible
<1>7. CASE st = "FREEFORCHAT"
  <2>1. 32 \in icq /\ icq \subseteq {32, 256}
    BY <1>7 DEF MapStatusToICQStatus
  <2> HIDE DEF icq
  <2>2. MapICQStatusToStatus(icq) = st
    BY <1>7, <2>1 DEF MapICQStatusToStatus
  <2>3. QED
    BY <1>1, <2>2 DEF icq, MapICQStatusToInvisible
<1>8. QED
  BY <1>2, <1>3, <1>4, <1>5, <1>6, <1>7 DEF Shown

LEMMA PresenceAbout ==
    ASSUME NEW u \in Users, NEW st
    PROVE  /\ Presence(u, st) \in Received \ Infos
           /\ \A v \in Users : Presence(u, st) \in About(v) <=> v = u
<1>1. Presence(u, st) \in Received /\ Presence(u, st).type # "UserInfo"
  BY PresenceReceived
<1>2. Presence(u, st).type \in {"BuddyOnline", "BuddyOffline"} /\ Presence(u, st).user = u
  BY DEF Presence
<1>3. QED
  BY <1>1, <1>2 DEF About, Infos

LEMMA InfoAbout ==
    ASSUME NEW icq \in SUBSET Nat
    PROVE  /\ UserInfo(icq) \in Infos /\ \A u \in Users : UserInfo(icq) \notin About(u)
BY DEF UserInfo, Infos, About, Received

LEMMA ListLacks ==
    ASSUME NEW condition \in BOOLEAN, NEW K, [type |-> "AddVisible"] \notin K, [type |-> "AddInvisible"] \notin K
    PROVE  Lacks(If(condition, AddVisible), K) /\ Lacks(If(condition, AddInvisible), K)
<1> DEFINE v == [type |-> "AddVisible"]
           w == [type |-> "AddInvisible"]
<1>1. If(condition, AddVisible) \in {<<>>, <<v>>} /\ If(condition, AddInvisible) \in {<<>>, <<w>>}
  BY DEF If, AddVisible, AddInvisible
<1>2. v \notin K /\ w \notin K
  OBVIOUS
<1> HIDE DEF v, w
<1>3. Lacks(<<>>, K) /\ Lacks(<<v>>, K) /\ Lacks(<<w>>, K)
  BY <1>2, OneSettles
<1>4. QED
  BY <1>1, <1>3

\* The list if it is needed, the status, the other list: the status is what the
\* client's own comes to, and of the users nothing is said.
LEMMA StatusSettles ==
    ASSUME NEW s \in Seq(Sent), NEW st, NEW inv \in BOOLEAN, NEW before \in BOOLEAN, NEW after \in BOOLEAN
    PROVE  LET t == s \o If(before, AddVisible) \o OwnStatus(st, inv) \o If(after, AddInvisible)
           IN  /\ Settles(t, Asks, [type |-> "SetStatus", icq |-> MapStatusToICQStatus(st, inv)])
               /\ \A u \in Users : /\ Lacks(t, Adds(u)) <=> Lacks(s, Adds(u))
                                   /\ Lacks(t, Removes(u)) <=> Lacks(s, Removes(u))
<1> DEFINE p == [type |-> "SetStatus", icq |-> MapStatusToICQStatus(st, inv)]
           A == If(before, AddVisible)
           B == If(after, AddInvisible)
           r == s \o A
           q == r \o <<p>>
           t == q \o B
<1>1. p \in Sent /\ \A u \in Users : p \notin Adds(u) /\ p \notin Removes(u)
  BY StatusFlags DEF Sent, Adds, Removes
<1>2. OwnStatus(st, inv) = <<p>>
  BY DEF OwnStatus
<1> HIDE DEF p
<1>3. A \in Seq(Sent) /\ B \in Seq(Sent) /\ <<p>> \in Seq(Sent)
  BY <1>1, ListPackets
<1>4. Lacks(B, Asks) /\ \A u \in Users : /\ Lacks(A, Adds(u)) /\ Lacks(B, Adds(u))
                                         /\ Lacks(A, Removes(u)) /\ Lacks(B, Removes(u))
  <2>1. \A u \in Users : \A K \in {Asks, Adds(u), Removes(u)} :
           [type |-> "AddVisible"] \notin K /\ [type |-> "AddInvisible"] \notin K
    BY DEF Asks, Adds, Removes
  <2>2. [type |-> "AddVisible"] \notin Asks /\ [type |-> "AddInvisible"] \notin Asks
    BY DEF Asks
  <2>3. QED
    BY <2>1, <2>2, ListLacks
<1> HIDE DEF A, B
<1>5. r \in Seq(Sent)
  BY <1>3, Joined
<1>6. \A K : Lacks(r, K) <=> Lacks(s, K) /\ Lacks(A, K)
  BY <1>3, JoinedLacks
<1> HIDE DEF r
<1>7. q \in Seq(Sent) /\ Settles(q, Asks, p)
  BY <1>3, <1>5, Joined, JoinedSettles, OneSettles
<1>8. \A K : Lacks(q, K) <=> Lacks(r, K) /\ p \notin K
  BY <1>3, <1>5, JoinedLacks, OneSettles
<1> HIDE DEF q
<1>9. Settles(t, Asks, p)
  BY <1>3, <1>4, <1>7, JoinedSettles
<1>10. \A K : Lacks(t, K) <=> Lacks(q, K) /\ Lacks(B, K)
  BY <1>3, <1>7, JoinedLacks
<1>11. \A u \in Users : /\ Lacks(t, Adds(u)) <=> Lacks(s, Adds(u))
                        /\ Lacks(t, Removes(u)) <=> Lacks(s, Removes(u))
  BY <1>1, <1>4, <1>6, <1>8, <1>10
<1>12. t = s \o If(before, AddVisible) \o OwnStatus(st, inv) \o If(after, AddInvisible)
  BY <1>2 DEF q, r, A, B
<1> HIDE DEF t
<1>13. QED
  BY <1>9, <1>11, <1>12 DEF p

\* What the server says when it is given users: of those that are there, how they are.
ToldOnline(users) ==
    LET here == SetToSeq({u \in users : online[u] # "OFFLINE"})
    IN  [i \in DOMAIN here |-> Presence(here[i], online[here[i]])]

LEMMA AnnouncedAbout ==
    ASSUME NEW users \in SUBSET Users
    PROVE  /\ ToldOnline(users) \in Seq(Received) /\ Lacks(ToldOnline(users), Infos)
           /\ \A u \in Users :
                IF u \in users /\ online[u] # "OFFLINE"
                THEN Settles(ToldOnline(users), About(u), Presence(u, online[u]))
                ELSE Lacks(ToldOnline(users), About(u))
<1> DEFINE S == {u \in users : online[u] # "OFFLINE"}
           here == SetToSeq(S)
           t == [i \in DOMAIN here |-> Presence(here[i], online[here[i]])]
<1>1. /\ here \in Seq(S)
      /\ \A u \in S : \E i \in 1 .. Len(here) : here[i] = u
  <2>1. IsFiniteSet(S)
    BY UsersFinite, FS_Subset
  <2> HIDE DEF S
  <2>2. QED
    BY <2>1, ListOfSet
<1> HIDE DEF here
<1>2. DOMAIN here = 1 .. Len(here) /\ Len(here) \in Nat
      /\ \A i \in 1 .. Len(here) : here[i] \in S
  BY <1>1, LenProperties, ElementOfSeq
<1>3. \A i \in 1 .. Len(here) : /\ t[i] = Presence(here[i], online[here[i]])
                                /\ t[i] \in Received \ Infos
                                /\ \A u \in Users : t[i] \in About(u) <=> u = here[i]
  BY <1>2, PresenceAbout
<1>4. t \in Seq(Received) /\ Len(t) = Len(here)
  <2>1. t \in [1 .. Len(here) -> Received]
    BY <1>2, <1>3
  <2>2. QED
    BY <1>2, <2>1
<1>5. t = ToldOnline(users)
  BY DEF ToldOnline, here
<1> HIDE DEF t
<1>6. Lacks(t, Infos)
  BY <1>3, <1>4 DEF Lacks
<1>7. ASSUME NEW u \in Users, u \in S PROVE Settles(t, About(u), Presence(u, online[u]))
  <2>1. PICK i \in 1 .. Len(here) : here[i] = u
    BY <1>1, <1>7
  <2>2. ASSUME NEW j \in i .. Len(t), t[j] \in About(u) PROVE t[j] = Presence(u, online[u])
    <3>1. j \in 1 .. Len(here)
      BY <1>2, <1>4
    <3>2. QED
      BY <1>3, <2>2, <3>1
  <2>3. i \in 1 .. Len(t) /\ t[i] = Presence(u, online[u])
    BY <1>3, <1>4, <2>1
  <2>4. QED
    BY <2>2, <2>3 DEF Settles
<1>8. ASSUME NEW u \in Users, u \notin S PROVE Lacks(t, About(u))
  BY <1>2, <1>3, <1>4, <1>8 DEF Lacks
<1>9. QED
  BY <1>4, <1>5, <1>6, <1>7, <1>8

-----------------------------------------------------------------------------
(* The tree and the statuses, and what is known without a session.           *)

LEMMA SetStatusesKept ==
    ASSUME TreeInv, NEW st \in [Users -> AnyStatus], setStatuses(st), UNCHANGED wired
    PROVE  /\ status' \in [Users -> AnyStatus] /\ told' \in [Users -> AnyStatus]
           /\ \A u \in Users : wired'[u] # None => told'[u] = status'[u]
BY DEF TreeInv, setStatuses

LEMMA DisconnectTree == ASSUME TreeInv, Disconnect PROVE TreeInv'
<1> DEFINE st == [u \in Users |-> IF u \in InTree THEN "OFFLINE" ELSE status[u]]
<1>1. st \in [Users -> AnyStatus]
  BY DEF TreeInv, AnyStatus
<1>2. setStatuses(st) /\ UNCHANGED <<m_groups, member, wired, online>>
  BY DEF Disconnect, SignalDisconnect, treeVars
<1> HIDE DEF st
<1>3. QED
  BY <1>1, <1>2, SetStatusesKept DEF TreeInv, InTree

LEMMA ParseCh2Tree == ASSUME TreeInv, ParseCh2 PROVE TreeInv'
<1> DEFINE p == Head(down)
<1>1. UNCHANGED <<m_groups, member, wired, online>>
  BY DEF ParseCh2, treeVars
<1>2. \/ UNCHANGED <<status, told>>
      \/ \E x \in AnyStatus : setStatus(p.user, x)
  <2>1. \/ UNCHANGED <<status, told>>
        \/ setStatus(p.user, MapICQStatusToStatus(p.icq))
        \/ setStatus(p.user, "OFFLINE")
    BY DEF ParseCh2, SignalUserOnline, SignalUserOffline
  <2>2. MapICQStatusToStatus(p.icq) \in AnyStatus /\ "OFFLINE" \in AnyStatus
    BY StatusOfFlags DEF AnyStatus
  <2>3. QED
    BY <2>1, <2>2
<1>3. CASE UNCHANGED <<status, told>>
  BY <1>1, <1>3 DEF TreeInv, InTree
<1>4. ASSUME NEW x \in AnyStatus, setStatus(p.user, x) PROVE TreeInv'
  <2> DEFINE st == [status EXCEPT ![p.user] = x]
  <2>1. st \in [Users -> AnyStatus] /\ setStatuses(st)
    BY <1>4 DEF TreeInv, setStatus
  <2> HIDE DEF st
  <2>2. QED
    BY <1>1, <2>1, SetStatusesKept DEF TreeInv, InTree
<1>5. QED
  BY <1>2, <1>3, <1>4

LEMMA AddTree == ASSUME TreeInv, NEW u \in Users, NEW g \in Groups, NEW st \in AnyStatus, add(u, g, st) PROVE TreeInv'
BY DEF TreeInv, InTree, add

LEMMA TreeNext == ASSUME TreeInv, [ContactsNext]_contactsVars PROVE TreeInv'
<1>1. ASSUME NEW g \in Groups, add_group(g) \/ remove_group(g) PROVE TreeInv'
  BY <1>1 DEF add_group, remove_group, TreeInv, InTree
<1>2. ASSUME NEW u \in Users, remove(u) PROVE TreeInv'
  BY <1>2 DEF remove, TreeInv, InTree
<1>3. ASSUME NEW u \in Users, NEW g \in Groups, add(u, g, "OFFLINE") \/ add(u, g, status[u]) PROVE TreeInv'
  <2>1. "OFFLINE" \in AnyStatus /\ status[u] \in AnyStatus
    BY DEF AnyStatus, TreeInv
  <2>2. QED
    BY <1>3, <2>1, AddTree
<1>4. ASSUME NEW u \in Users, NEW g \in Groups, relocate_contact(u, g) PROVE TreeInv'
  BY <1>4 DEF relocate_contact, TreeInv, InTree
<1>5. ASSUME NEW u \in Users, NEW st \in {"OFFLINE"} \cup UserStatuses, UserMoves(u, st) PROVE TreeInv'
  <2>1. st \in AnyStatus
    BY StatusesShown DEF AnyStatus
  <2>2. QED
    BY <1>5, <2>1 DEF UserMoves, treeVars, TreeInv, InTree
<1>6. CASE UNCHANGED <<treeVars, status, told, online>>
  BY <1>6 DEF treeVars, TreeInv, InTree
<1>7. CASE Lost \/ \E inv \in BOOLEAN : RequestOffline(inv)
  <2>1. Disconnect \/ UNCHANGED <<treeVars, status, told, online>>
    BY <1>7 DEF RequestOffline, Lost
  <2>2. QED
    BY <1>6, <2>1, DisconnectTree
<1>8. CASE ParseCh2
  BY <1>8, ParseCh2Tree
<1>9. CASE Login \/ ServerTakes \/ \E st \in OwnStatuses, inv \in BOOLEAN : Request(st, inv)
  BY <1>6, <1>9 DEF Login, ServerTakes, Request
<1>10. CASE UNCHANGED contactsVars
  BY <1>6, <1>10 DEF contactsVars
<1>11. QED
  BY <1>1, <1>2, <1>3, <1>4, <1>5, <1>7, <1>8, <1>9, <1>10 DEF ContactsNext

LEMMA DisconnectIdle == ASSUME IdleInv, TreeInv, Disconnect PROVE IdleInv'
<1>1. /\ m_state' = "NOT_CONNECTED" /\ up' = <<>> /\ server' = NoSession
      /\ UNCHANGED member
  BY DEF Disconnect, treeVars
<1>2. \A u \in InTree : status'[u] = "OFFLINE"
  BY DEF Disconnect, SignalDisconnect, setStatuses, InTree
<1>3. m_self'.status = "OFFLINE"
  BY DEF Disconnect, SignalDisconnect
<1>4. server'.buddies = {}
  BY <1>1 DEF NoSession
<1>5. QED
  BY <1>1, <1>2, <1>3, <1>4 DEF IdleInv, LoggedIn, InTree

\* An object that is not new, or that has packets of before to come, is stale.
LEMMA AddedStale ==
    ASSUME Typed, NEW u \in Users, NEW g \in Groups, NEW st, add(u, g, st)
    PROVE  /\ stale'.self = stale.self
           /\ stale'.users = IF st # "OFFLINE" \/ UnderWay(u) THEN stale.users \cup {u} ELSE stale.users \ {u}
<1>1. stale \in Stales
  BY DEF Typed
<1>2. stale' = [stale EXCEPT !.users = IF st # "OFFLINE" \/ UnderWay(u) THEN @ \cup {u} ELSE @ \ {u}]
  BY DEF add
<1> HIDE DEF UnderWay
<1>3. QED
  BY ONLY <1>1, <1>2 DEF Stales

LEMMA AddIdle ==
    ASSUME IdleInv, TreeInv, Typed, NEW u \in Users, NEW g \in Groups, NEW st, add(u, g, st)
    PROVE  IdleInv'
<1>1. ~LoggedIn => up' = up \o <<>>
  BY DEF add, AddBuddies
<1>2. UNCHANGED <<m_state, m_self, down, server>> /\ LoggedIn' = LoggedIn
  BY DEF add, ownVars, LoggedIn
<1>3. \A v \in Users : member'[v] # None => v \in InTree \/ v = u
  BY DEF add, TreeInv, InTree
<1>4. status' = [status EXCEPT ![u] = st]
  BY DEF add
<1>5. ~LoggedIn => up' = <<>>
  BY <1>1 DEF IdleInv
<1>6. ASSUME ~LoggedIn, NEW v \in InTree', v \notin stale'.users PROVE status'[v] = "OFFLINE"
  <2>1. v \in Users /\ (v \in InTree \/ v = u)
    BY <1>3, <1>6 DEF InTree
  <2>2. CASE v = u
    <3>1. st = "OFFLINE"
      BY <1>6, <2>2, AddedStale
    <3>2. QED
      BY <1>4, <2>2, <3>1 DEF TreeInv
  <2>3. CASE v # u
    <3>1. v \in InTree \ stale.users
      BY <1>6, <2>1, <2>3, AddedStale
    <3>2. QED
      BY <1>4, <1>6, <2>3, <3>1 DEF TreeInv, IdleInv
  <2>4. QED
    BY <2>2, <2>3
<1>7. stale'.self = stale.self
  BY AddedStale
<1>8. QED
  BY <1>2, <1>5, <1>6, <1>7 DEF IdleInv

\* What is left over is read without a session too.
LEMMA ParseCh2Idle == ASSUME IdleInv, TreeInv, Typed, ParseCh2 PROVE IdleInv'
<1> DEFINE p == Head(down)
<1>1. /\ UNCHANGED <<m_state, member, up, server>> /\ LoggedIn' = LoggedIn /\ InTree' = InTree
      /\ stale \in Stales
  BY DEF ParseCh2, treeVars, LoggedIn, InTree, Typed
<1>2. \/ UNCHANGED <<m_self, status, stale>>
      \/ /\ UNCHANGED m_self /\ p.user \in InTree /\ status' = [status EXCEPT ![p.user] = MapICQStatusToStatus(p.icq)]
         /\ stale' = IF LoggedIn THEN stale ELSE [stale EXCEPT !.users = @ \cup {p.user}]
      \/ /\ UNCHANGED m_self /\ p.user \in InTree /\ status' = [status EXCEPT ![p.user] = "OFFLINE"]
         /\ stale' = IF LoggedIn THEN stale ELSE [stale EXCEPT !.users = @ \ {p.user}]
      \/ UNCHANGED status /\ stale' = [stale EXCEPT !.self = ~LoggedIn]
  BY DEF ParseCh2, SignalUserOnline, SignalUserOffline, setStatus, setStatuses, HandleUserInfoSNAC
<1> HIDE DEF p
<1>3. CASE UNCHANGED <<m_self, status, stale>>
  BY <1>1, <1>3 DEF IdleInv
<1>4. CASE LoggedIn
  BY <1>1, <1>4 DEF IdleInv, LoggedIn
<1>5. ASSUME ~LoggedIn, UNCHANGED m_self, p.user \in InTree,
             status' = [status EXCEPT ![p.user] = MapICQStatusToStatus(p.icq)],
             stale' = [stale EXCEPT !.users = @ \cup {p.user}]
      PROVE  IdleInv'
  <2>1. stale'.users = stale.users \cup {p.user} /\ stale'.self = stale.self
    BY <1>1, <1>5 DEF Stales
  <2>2. \A u \in InTree \ stale'.users : status'[u] = status[u]
    BY <1>5, <2>1 DEF InTree, TreeInv
  <2>3. QED
    BY <1>1, <1>5, <2>1, <2>2 DEF IdleInv
<1>6. ASSUME ~LoggedIn, UNCHANGED m_self, p.user \in InTree, status' = [status EXCEPT ![p.user] = "OFFLINE"],
             stale' = [stale EXCEPT !.users = @ \ {p.user}]
      PROVE  IdleInv'
  <2>1. stale'.users = stale.users \ {p.user} /\ stale'.self = stale.self
    BY <1>1, <1>6 DEF Stales
  <2>2. \A u \in InTree \ stale'.users : status'[u] = "OFFLINE"
    BY <1>6, <2>1 DEF InTree, TreeInv, IdleInv
  <2>3. QED
    BY <1>1, <1>6, <2>1, <2>2 DEF IdleInv
<1>7. ASSUME ~LoggedIn, UNCHANGED status, stale' = [stale EXCEPT !.self = ~LoggedIn] PROVE IdleInv'
  <2>1. stale'.users = stale.users /\ stale'.self
    BY <1>1, <1>7 DEF Stales
  <2>2. QED
    BY <1>1, <1>7, <2>1 DEF IdleInv
<1>8. QED
  BY <1>2, <1>3, <1>4, <1>5, <1>6, <1>7

LEMMA IdleNext == ASSUME IdleInv, TreeInv, Typed, [ContactsNext]_contactsVars PROVE IdleInv'
<1> USE DEF IdleInv, InTree, LoggedIn
<1>1. ASSUME NEW g \in Groups, add_group(g) \/ remove_group(g) PROVE IdleInv'
  BY <1>1 DEF add_group, remove_group, ownVars, TreeInv
<1>2. ASSUME NEW u \in Users, remove(u) PROVE IdleInv'
  BY <1>2 DEF remove, ownVars, TreeInv
<1>3. ASSUME NEW u \in Users, NEW g \in Groups, add(u, g, "OFFLINE") \/ add(u, g, status[u]) PROVE IdleInv'
  BY <1>3, AddIdle
<1>4. ASSUME NEW u \in Users, NEW g \in Groups, relocate_contact(u, g) PROVE IdleInv'
  BY <1>4 DEF relocate_contact, ownVars, TreeInv
<1>5. ASSUME NEW st, NEW inv \in BOOLEAN, Request(st, inv) PROVE IdleInv'
  <2>1. /\ UNCHANGED <<treeVars, status, m_self, server>> /\ m_state' = IF m_state = "NOT_CONNECTED" THEN "CONNECTING" ELSE m_state
        /\ LoggedIn \/ up' = up
    BY <1>5 DEF Request
  <2>2. stale'.users = stale.users /\ stale'.self = stale.self
    BY <1>5 DEF Request, Typed, Stales
  <2>3. QED
    BY <2>1, <2>2 DEF treeVars
<1>6. CASE Login
  BY <1>6 DEF Login
<1>7. ASSUME NEW inv \in BOOLEAN, RequestOffline(inv) PROVE IdleInv'
  <2>1. CASE Disconnect
    BY <2>1, DisconnectIdle
  <2>2. CASE UNCHANGED <<m_state, treeVars, status, m_self, up, down, server, stale>>
    BY <2>2 DEF treeVars
  <2>3. QED
    BY <1>7, <2>1, <2>2 DEF RequestOffline
<1>8. CASE Lost
  BY <1>8, DisconnectIdle DEF Lost
<1>9. CASE ServerTakes
  BY <1>9 DEF ServerTakes
<1>10. ASSUME NEW u \in Users, NEW st, UserMoves(u, st) PROVE IdleInv'
  <2>1. /\ UNCHANGED <<m_state, member, status, m_self, up, server>>
        /\ u \notin server.buddies => UNCHANGED stale
    BY <1>10 DEF UserMoves, treeVars, ownVars
  <2>2. CASE UNCHANGED stale
    BY <2>1, <2>2
  <2>3. CASE u \in server.buddies
    BY <2>1, <2>3
  <2>4. QED
    BY <2>1, <2>2, <2>3
<1>11. CASE UNCHANGED contactsVars
  BY <1>11 DEF contactsVars, treeVars, ownVars
<1>12. QED
  BY <1>1, <1>2, <1>3, <1>4, <1>5, <1>6, <1>7, <1>8, <1>9, <1>10, <1>11, ParseCh2Idle DEF ContactsNext

-----------------------------------------------------------------------------
(* The users: what the server knows of them, and what it has still to say.   *)

\* Fewer users are in the tree, and the packets that are added are not about the others.
LEMMA UsersKept ==
    ASSUME UsersInv, InTree' \subseteq InTree, UNCHANGED <<server, down, online, status>>,
           LoggedIn' => LoggedIn, stale'.users = stale.users,
           \A u \in InTree' : /\ Lacks(up', Adds(u)) => Lacks(up, Adds(u))
                              /\ Lacks(up, Removes(u)) => Lacks(up', Removes(u))
    PROVE  UsersInv'
<1> SUFFICES ASSUME LoggedIn, LoggedIn' PROVE UsersInv'
  BY DEF UsersInv
<1>1. ASSUME NEW u \in InTree' \ stale'.users PROVE Present(u)'
  BY DEF UsersInv, Present
<1>2. QED
  BY <1>1 DEF UsersInv

\* With nothing under way about a user the packets lack it.
LEMMA NothingUnderWay ==
    ASSUME Typed, NEW u \in Users, ~UnderWay(u)
    PROVE  Lacks(up, Removes(u)) /\ Lacks(down, About(u))
<1>1. ASSUME NEW i \in 1 .. Len(up), up[i] \in Removes(u) PROVE FALSE
  <2>1. up[i] \in ToSet(up)
    <3>1. up \in Seq(Sent)
      BY DEF Typed
    <3>2. i \in DOMAIN up
      BY <3>1
    <3>3. QED
      BY <3>2 DEF ToSet
  <2>2. QED
    BY <1>1, <2>1 DEF UnderWay, Removes
<1>2. ASSUME NEW i \in 1 .. Len(down), down[i] \in About(u) PROVE FALSE
  <2>1. down[i] \in ToSet(down)
    <3>1. down \in Seq(Received)
      BY DEF Typed
    <3>2. i \in DOMAIN down
      BY <3>1
    <3>3. QED
      BY <3>2 DEF ToSet
  <2>2. down[i].type # "UserInfo" /\ down[i].user = u
    BY <1>2 DEF About
  <2>3. QED
    BY <2>1, <2>2 DEF UnderWay
<1>3. QED
  BY <1>1, <1>2 DEF Lacks

LEMMA AddUsers ==
    ASSUME Typed, TreeInv, IdleInv, UsersInv, NEW u \in Users, NEW g \in Groups, NEW st, add(u, g, st)
    PROVE  UsersInv'
<1>1. /\ UNCHANGED <<m_state, down, server, online>>
      /\ up' = up \o AddBuddies({u}) /\ u \notin InTree
      /\ status' = [status EXCEPT ![u] = st]
      /\ member' = [member EXCEPT ![u] = g]
  BY DEF add
<1> SUFFICES ASSUME LoggedIn PROVE UsersInv'
  BY <1>1 DEF UsersInv, LoggedIn
<1> DEFINE p == [type |-> "AddBuddy", users |-> {u}]
<1>2. /\ p \in Sent
      /\ \A v \in Users : p \notin Removes(v) /\ (p \in Adds(v) <=> v = u)
  BY DEF Sent, Removes, Adds
<1>3. up' = up \o <<p>>
  BY <1>1 DEF AddBuddies
<1> HIDE DEF p
<1>4. \A K : Lacks(up', K) <=> Lacks(up, K) /\ p \notin K
  BY <1>2, <1>3, OneMoreSettles DEF Typed
<1>5. ASSUME NEW v \in InTree' \ stale'.users PROVE Present(v)'
  <2>1. CASE v = u
    <3>1. st = "OFFLINE" /\ ~UnderWay(u)
      <4>1. stale'.users = IF st # "OFFLINE" \/ UnderWay(u) THEN stale.users \cup {u} ELSE stale.users \ {u}
        BY AddedStale
      <4>2. QED
        BY <1>5, <2>1, <4>1
    <3>2. Lacks(up, Removes(u)) /\ Lacks(down, About(u))
      BY <3>1, NothingUnderWay
    <3>3. status'[u] = "OFFLINE"
      BY <1>1, <3>1 DEF TreeInv
    <3>4. QED
      BY <1>1, <1>2, <1>4, <2>1, <3>2, <3>3 DEF Present
  <2>2. CASE v # u
    <3>1. v \in InTree /\ v \in Users
      BY <1>1, <1>5, <2>2 DEF InTree, TreeInv
    <3>2. v \notin stale.users
      BY <1>5, <2>2, AddedStale
    <3>3. Present(v) /\ status'[v] = status[v]
      BY <1>1, <2>2, <3>1, <3>2 DEF UsersInv, TreeInv
    <3>4. QED
      BY <1>1, <1>2, <1>4, <2>2, <3>1, <3>3 DEF Present
  <2>3. QED
    BY <2>1, <2>2
<1>6. QED
  BY <1>5 DEF UsersInv

LEMMA RemoveUsers ==
    ASSUME Typed, TreeInv, UsersInv, NEW u \in Users, remove(u)
    PROVE  UsersInv'
<1> DEFINE p == [type |-> "RemoveBuddy", user |-> u]
<1>1. /\ UNCHANGED <<m_state, down, server, online, stale, status>>
      /\ up' = IF LoggedIn THEN Append(up, p) ELSE up
      /\ u \in InTree /\ member' = [member EXCEPT ![u] = None]
  BY DEF remove
<1> SUFFICES ASSUME LoggedIn PROVE UsersInv'
  BY <1>1 DEF UsersInv, LoggedIn
<1>2. /\ p \in Sent
      /\ \A v \in Users : p \notin Adds(v) /\ (p \in Removes(v) <=> v = u)
  BY DEF Sent, Removes, Adds
<1> HIDE DEF p
<1>3. up' = up \o <<p>>
  BY <1>1, <1>2, OneMoreSettles DEF Typed
<1>4. \A K : Lacks(up', K) <=> Lacks(up, K) /\ p \notin K
  BY <1>2, <1>3, OneMoreSettles DEF Typed
<1>5. InTree' \subseteq InTree \ {u} /\ InTree \subseteq Users
  BY <1>1 DEF InTree, TreeInv
<1>6. LoggedIn'
  BY <1>1 DEF LoggedIn
<1>7. QED
  BY <1>1, <1>2, <1>4, <1>5, UsersKept

LEMMA LoginUsers ==
    ASSUME Typed, TreeInv, IdleInv, wanted.invisible \in BOOLEAN, Login
    PROVE  UsersInv'
<1> DEFINE info == [type |-> "InfoRequest"]
           all == [type |-> "AddBuddy", users |-> InTree]
           s == <<info>> \o If(m_groups # {}, <<all>>)
<1>1. /\ up' = s \o If(wanted.invisible, AddVisible) \o OwnStatus(wanted.status, wanted.invisible)
                \o If(~wanted.invisible, AddInvisible)
      /\ UNCHANGED <<down, server, online, status, member, stale>>
  BY DEF Login, SendLogin, treeVars
<1>2. down = <<>> /\ \A u \in InTree \ stale.users : status[u] = "OFFLINE"
  BY DEF Login, IdleInv, LoggedIn
<1>3. /\ info \in Sent /\ all \in Sent
      /\ \A u \in Users : /\ info \notin Adds(u) /\ info \notin Removes(u) /\ all \notin Removes(u)
                          /\ all \in Adds(u) <=> u \in InTree
  BY DEF Sent, Adds, Removes, InTree
<1> DEFINE buddies == If(m_groups # {}, <<all>>)
<1>4. buddies = IF m_groups # {} THEN <<all>> ELSE <<>>
  BY DEF If
<1> HIDE DEF info, all, buddies
<1>5. /\ <<info>> \in Seq(Sent) /\ buddies \in Seq(Sent)
  BY <1>3, <1>4
<1>6. /\ s \in Seq(Sent)
      /\ \A K : Lacks(s, K) <=> info \notin K /\ Lacks(buddies, K)
  BY <1>5, Joined, JoinedLacks, OneSettles DEF buddies
<1>7. \A u \in Users : /\ Lacks(s, Removes(u))
                       /\ Lacks(s, Adds(u)) <=> u \notin InTree \/ m_groups = {}
  BY <1>3, <1>4, <1>6, OneSettles
<1>8. m_groups = {} => InTree = {}
  BY DEF TreeInv
<1> HIDE DEF s
<1>9. \A u \in Users : /\ Lacks(up', Removes(u))
                       /\ Lacks(up', Adds(u)) <=> u \notin InTree
  BY <1>1, <1>6, <1>7, <1>8, StatusSettles
<1>10. \A K : Lacks(<<>>, K)
  BY OneSettles
<1>11. InTree' = InTree /\ InTree \subseteq Users
  BY <1>1 DEF InTree
<1>12. ASSUME NEW u \in InTree \ stale.users PROVE Present(u)'
  BY <1>1, <1>2, <1>9, <1>10, <1>11 DEF Present
<1>13. QED
  BY <1>1, <1>11, <1>12 DEF UsersInv

LEMMA ParseCh2Users ==
    ASSUME Typed, TreeInv, IdleInv, UsersInv, ParseCh2
    PROVE  UsersInv'
<1> DEFINE p == Head(down)
<1>1. /\ down \in Seq(Received) /\ down # <<>> /\ down' = Tail(down) /\ p \in Received
      /\ UNCHANGED <<m_state, member, up, server, online>>
  BY ReadPacket DEF Typed, ParseCh2, treeVars
<1>2. LoggedIn' = LoggedIn /\ InTree' = InTree /\ InTree \subseteq Users
  BY <1>1 DEF IdleInv, LoggedIn, InTree
<1> SUFFICES ASSUME LoggedIn PROVE UsersInv'
  BY <1>2 DEF UsersInv
<1>3. stale'.users = stale.users
  BY DEF ParseCh2, SignalUserOnline, SignalUserOffline, HandleUserInfoSNAC, Typed, Stales
<1>4. \/ UNCHANGED status /\ \A u \in InTree : p \notin About(u)
      \/ /\ p.type = "BuddyOnline" /\ p.user \in InTree
         /\ status' = [status EXCEPT ![p.user] = MapICQStatusToStatus(p.icq)]
      \/ /\ p.type = "BuddyOffline" /\ p.user \in InTree
         /\ status' = [status EXCEPT ![p.user] = "OFFLINE"]
  BY DEF ParseCh2, SignalUserOnline, SignalUserOffline, setStatus, setStatuses, About
<1> HIDE DEF p
<1>5. \A u \in InTree : p \notin About(u) => status'[u] = status[u]
  BY <1>1, <1>2, <1>4 DEF About, TreeInv
<1>6. ASSUME NEW u \in InTree, p = Presence(u, online[u]) PROVE status'[u] = online[u]
  <2>1. u \in Users /\ p \in About(u) /\ p.user = u
    BY <1>2, <1>6, PresenceAbout DEF About
  <2>2. CASE online[u] = "OFFLINE"
    <3>1. p.type = "BuddyOffline"
      BY <1>6, <2>2 DEF Presence
    <3>2. QED
      BY <1>4, <2>1, <2>2, <3>1 DEF TreeInv
  <2>3. CASE online[u] # "OFFLINE"
    <3>1. p.type = "BuddyOnline" /\ p.icq = MapStatusToICQStatus(online[u], FALSE)
      BY <1>6, <2>3 DEF Presence
    <3>2. online[u] \in Shown
      BY <2>1, <2>3 DEF TreeInv, AnyStatus
    <3>3. MapICQStatusToStatus(p.icq) = online[u]
      BY <3>1, <3>2, StatusOfStatus
    <3>4. QED
      BY <1>4, <2>1, <3>1, <3>3 DEF TreeInv
  <2>4. QED
    BY <2>2, <2>3
<1>7. ASSUME NEW u \in InTree \ stale.users PROVE Present(u)'
  <2>1. Present(u) /\ u \in Users
    BY <1>2 DEF UsersInv
  <2>2. CASE Lacks(down, About(u))
    <3>1. Lacks(Tail(down), About(u)) /\ p \notin About(u)
      BY <1>1, <2>2, ReadLacks DEF p
    <3>2. status'[u] = status[u]
      BY <1>5, <3>1
    <3>3. ~Settles(down, About(u), Presence(u, online[u]))
      <4>1. Presence(u, online[u]) \in About(u)
        BY <2>1, PresenceAbout
      <4>2. QED
        BY <2>2, <4>1 DEF Settles, Lacks
    <3>4. QED
      BY <1>1, <2>1, <3>1, <3>2, <3>3 DEF Present
  <2>3. CASE ~Lacks(down, About(u))
    <3>1. /\ u \in server.buddies /\ Settles(down, About(u), Presence(u, online[u]))
          /\ Lacks(up, Removes(u))
      BY <2>1, <2>3 DEF Present
    <3>2. \/ Settles(Tail(down), About(u), Presence(u, online[u]))
          \/ p = Presence(u, online[u]) /\ Lacks(Tail(down), About(u))
      BY <1>1, <3>1, ReadSettles DEF p
    <3>3. \/ Settles(down', About(u), Presence(u, online[u]))
          \/ Lacks(down', About(u)) /\ status'[u] = online[u]
      BY <1>1, <1>6, <3>2
    <3>4. QED
      BY <1>1, <3>1, <3>3 DEF Present
  <2>4. QED
    BY <2>2, <2>3
<1>8. QED
  BY <1>1, <1>2, <1>3, <1>7 DEF UsersInv

\* What the server says to a packet, and which users it knows after it.
LEMMA ServerAnswers ==
    ASSUME Typed, ServerTakes
    PROVE  /\ up # <<>> /\ Head(up) \in Sent /\ up' = Tail(up)
           /\ \E t \in Seq(Received) :
                /\ down' = down \o t
                /\ Head(up) \notin Asks => Lacks(t, Infos)
                /\ Head(up).type = "SetStatus" => t = <<UserInfo(Head(up).icq)>>
                /\ \A u \in Users :
                     /\ u \in stale.users \ stale'.users =>
                           Head(up) \in Adds(u) /\ online[u] # "OFFLINE" /\ Lacks(up', Removes(u))
                     /\ IF Head(up) \in Adds(u) /\ online[u] # "OFFLINE"
                        THEN Settles(t, About(u), Presence(u, online[u])) ELSE Lacks(t, About(u))
                     /\ Head(up) \notin Removes(u) =>
                           (u \in server'.buddies <=> u \in server.buddies \/ Head(up) \in Adds(u))
<1> DEFINE p == Head(up)
           Said(t) ==
               /\ down' = down \o t
               /\ p \notin Asks => Lacks(t, Infos)
               /\ p.type = "SetStatus" => t = <<UserInfo(p.icq)>>
               /\ \A u \in Users :
                    /\ u \in stale.users \ stale'.users =>
                          p \in Adds(u) /\ online[u] # "OFFLINE" /\ Lacks(up', Removes(u))
                    /\ IF p \in Adds(u) /\ online[u] # "OFFLINE"
                       THEN Settles(t, About(u), Presence(u, online[u])) ELSE Lacks(t, About(u))
                    /\ p \notin Removes(u) => (u \in server'.buddies <=> u \in server.buddies \/ p \in Adds(u))
<1>1. /\ up # <<>> /\ p \in Sent /\ up' = Tail(up) /\ down \in Seq(Received) /\ server \in Sessions
      /\ stale \in Stales /\ up' \in Seq(Sent)
  BY ReadPacket DEF Typed, ServerTakes
<1> SUFFICES \E t \in Seq(Received) : Said(t)
  BY <1>1
<1>2. \/ p.type = "InfoRequest" /\ down' = Append(down, UserInfo(server.info)) /\ UNCHANGED <<server, stale>>
      \/ /\ p.type = "AddBuddy"
         /\ server' = [server EXCEPT !.buddies = @ \cup p.users] /\ down' = down \o ToldOnline(p.users)
         /\ Fresh({u \in p.users : online[u] # "OFFLINE"})
      \/ /\ p.type = "RemoveBuddy"
         /\ server' = [server EXCEPT !.buddies = @ \ {p.user}] /\ UNCHANGED <<down, stale>>
      \/ /\ p.type = "SetStatus"
         /\ server' = [server EXCEPT !.info = p.icq] /\ down' = Append(down, UserInfo(p.icq)) /\ UNCHANGED stale
      \/ /\ p.type = "AddVisible"
         /\ server' = [server EXCEPT !.visible = TRUE] /\ UNCHANGED <<down, stale>>
      \/ /\ p.type = "AddInvisible"
         /\ server' = [server EXCEPT !.invisible = TRUE] /\ UNCHANGED <<down, stale>>
  BY DEF ServerTakes, ToldOnline
<1> HIDE DEF p
<1>3. CASE p.type \in {"InfoRequest", "SetStatus"}
  <2>1. PICK icq \in SUBSET Nat : /\ down' = Append(down, UserInfo(icq)) /\ server'.buddies = server.buddies
                                  /\ UNCHANGED stale
                                  /\ p.type = "SetStatus" => icq = p.icq
    BY <1>1, <1>2, <1>3 DEF Sent, Sessions
  <2>2. /\ p \in Asks /\ \A u \in Users : p \notin Adds(u)
        /\ UserInfo(icq) \in Received /\ \A u \in Users : UserInfo(icq) \notin About(u)
    BY <1>1, <1>3, InfoAbout DEF Asks, Adds, Infos
  <2> DEFINE t == <<UserInfo(icq)>>
  <2>3. t \in Seq(Received) /\ down' = down \o t /\ \A u \in Users : Lacks(t, About(u))
    BY <1>1, <2>1, <2>2, OneMoreSettles, OneSettles
  <2>4. Said(t)
    BY <2>1, <2>2, <2>3
  <2>5. QED
    BY <2>3, <2>4
<1>4. CASE p.type \in {"RemoveBuddy", "AddVisible", "AddInvisible"}
  <2>1. down' = down \o <<>> /\ UNCHANGED stale
    BY <1>1, <1>2, <1>4, ConcatEmptySeq
  <2>2. \A u \in Users : p \notin Removes(u) => (u \in server'.buddies <=> u \in server.buddies)
    BY <1>1, <1>2, <1>4 DEF Sessions, Removes
  <2>3. \A u \in Users : p \notin Adds(u)
    BY <1>4 DEF Adds
  <2>4. Said(<<>>)
    BY <1>4, <2>1, <2>2, <2>3, OneSettles
  <2>5. <<>> \in Seq(Received)
    BY EmptySeq
  <2>6. QED
    BY <2>4, <2>5
<1>5. CASE p.type = "AddBuddy"
  <2>1. p.users \in SUBSET Users
    BY <1>1, <1>5 DEF Sent
  <2>2. \A u \in Users : p \in Adds(u) <=> u \in p.users
    BY <1>1, <1>5 DEF Adds
  <2>3. down' = down \o ToldOnline(p.users) /\ server'.buddies = server.buddies \cup p.users
    BY <1>1, <1>2, <1>5 DEF Sessions
  <2>4. ASSUME NEW u \in Users, u \in stale.users \ stale'.users
        PROVE  p \in Adds(u) /\ online[u] # "OFFLINE" /\ Lacks(up', Removes(u))
    <3>1. Fresh({v \in p.users : online[v] # "OFFLINE"})
      BY <1>2, <1>5
    <3>2. /\ u \in {v \in p.users : online[v] # "OFFLINE"}
          /\ ~ \E x \in ToSet(up') : x.type = "RemoveBuddy" /\ x.user = u
      BY <1>1, <2>4, <3>1, FreshStale
    <3>3. ASSUME NEW i \in 1 .. Len(up'), up'[i] \in Removes(u) PROVE FALSE
      <4>1. up'[i] \in ToSet(up')
        <5>1. i \in DOMAIN up'
          BY <1>1
        <5>2. QED
          BY <5>1 DEF ToSet
      <4>2. QED
        BY <3>2, <3>3, <4>1 DEF Removes
    <3>4. QED
      BY <2>2, <3>2, <3>3 DEF Lacks
  <2>5. Said(ToldOnline(p.users))
    BY <1>5, <2>1, <2>2, <2>3, <2>4, AnnouncedAbout
  <2>6. QED
    BY <2>1, <2>5, AnnouncedAbout
<1>6. QED
  BY <1>2, <1>3, <1>4, <1>5

LEMMA ServerTakesUsers ==
    ASSUME Typed, IdleInv, UsersInv, ServerTakes
    PROVE  UsersInv'
<1> DEFINE p == Head(up)
<1>1. /\ up \in Seq(Sent) /\ up # <<>> /\ up' = Tail(up) /\ down \in Seq(Received)
      /\ UNCHANGED <<m_state, member, status, online>>
  BY DEF Typed, ServerTakes, treeVars
<1>2. PICK t \in Seq(Received) :
        /\ down' = down \o t
        /\ \A u \in Users :
             /\ u \in stale.users \ stale'.users =>
                   p \in Adds(u) /\ online[u] # "OFFLINE" /\ Lacks(up', Removes(u))
             /\ IF p \in Adds(u) /\ online[u] # "OFFLINE"
                THEN Settles(t, About(u), Presence(u, online[u])) ELSE Lacks(t, About(u))
             /\ p \notin Removes(u) => (u \in server'.buddies <=> u \in server.buddies \/ p \in Adds(u))
  BY ServerAnswers
<1>3. LoggedIn /\ LoggedIn' /\ InTree' = InTree /\ InTree \subseteq Users
  BY <1>1 DEF IdleInv, LoggedIn, InTree
<1>4. \A K : Lacks(up, K) <=> p \notin K /\ Lacks(up', K)
  BY <1>1, ReadLacks
<1>5. \A K : Lacks(down', K) <=> Lacks(down, K) /\ Lacks(t, K)
  BY <1>1, <1>2, JoinedLacks
<1>6. \A u \in Users : p \in Adds(u) => p \notin Removes(u)
  BY DEF Adds, Removes
<1> HIDE DEF p
<1>7. ASSUME NEW u \in InTree \ stale'.users PROVE Present(u)'
  <2> DEFINE x == Presence(u, online[u])
  <2>1. u \in Users
    BY <1>3
  <2>2. Settles(t, About(u), x) \/ (Settles(down, About(u), x) /\ Lacks(t, About(u)))
           => Settles(down', About(u), x)
    BY <1>1, <1>2, JoinedSettles
  <2>3. Lacks(up', Removes(u)) /\ p \notin Removes(u)
    <3>1. CASE u \in stale.users
      BY <1>2, <1>6, <1>7, <2>1, <3>1
    <3>2. CASE u \notin stale.users
      BY <1>3, <1>4, <3>2 DEF UsersInv, Present
    <3>3. QED
      BY <3>1, <3>2
  <2>4. u \in server'.buddies <=> u \in server.buddies \/ p \in Adds(u)
    BY <1>2, <2>1, <2>3
  <2>5. CASE p \in Adds(u) /\ online[u] # "OFFLINE"
    BY <1>1, <1>2, <2>1, <2>2, <2>3, <2>4, <2>5 DEF Present
  <2>6. CASE ~(p \in Adds(u) /\ online[u] # "OFFLINE")
    <3>1. Present(u) /\ Lacks(t, About(u))
      BY <1>2, <1>3, <1>7, <2>1, <2>6 DEF UsersInv
    <3>2. CASE u \in server.buddies /\ Settles(down, About(u), x)
      BY <1>1, <2>2, <2>3, <2>4, <3>1, <3>2 DEF Present
    <3>3. CASE u \in server.buddies /\ Lacks(down, About(u)) /\ status[u] = online[u]
      BY <1>1, <1>5, <2>3, <2>4, <3>1, <3>3 DEF Present
    <3>4. CASE ~Lacks(up, Adds(u)) /\ Lacks(down, About(u)) /\ status[u] = "OFFLINE"
      <4>1. CASE p \in Adds(u)
        BY <1>1, <1>5, <2>3, <2>4, <2>6, <3>1, <3>4, <4>1 DEF Present
      <4>2. CASE p \notin Adds(u)
        BY <1>1, <1>4, <1>5, <2>3, <3>1, <3>4, <4>2 DEF Present
      <4>3. QED
        BY <4>1, <4>2
    <3>5. QED
      BY <3>1, <3>2, <3>3, <3>4 DEF Present
  <2>7. QED
    BY <2>5, <2>6
<1>8. QED
  BY <1>1, <1>3, <1>7 DEF UsersInv

LEMMA UserMovesUsers ==
    ASSUME Typed, TreeInv, IdleInv, UsersInv, NEW u \in Users, NEW st, UserMoves(u, st)
    PROVE  UsersInv'
<1> DEFINE p == Presence(u, st)
<1>1. /\ UNCHANGED <<m_state, member, status, up, server>>
      /\ online' = [online EXCEPT ![u] = st]
      /\ down' = IF u \in server.buddies THEN Append(down, p) ELSE down
      /\ IF u \in server.buddies THEN Fresh({u}) ELSE UNCHANGED stale
  BY DEF UserMoves, treeVars
<1>2. p \in Received /\ \A v \in Users : p \in About(v) <=> v = u
  BY PresenceAbout
<1> SUFFICES ASSUME LoggedIn PROVE UsersInv'
  BY <1>1 DEF UsersInv, LoggedIn
<1>3. InTree' = InTree /\ InTree \subseteq Users
  BY <1>1 DEF InTree
<1> HIDE DEF p
<1>4. /\ u \notin server.buddies => down' = down
      /\ u \in server.buddies =>
           \A K : /\ Lacks(down', K) <=> Lacks(down, K) /\ p \notin K
                 /\ Settles(down', K, p)
                 /\ \A x : Settles(down, K, x) /\ p \notin K => Settles(down', K, x)
  <2>1. u \in server.buddies => down' = down \o <<p>>
    BY <1>1, <1>2, OneMoreSettles DEF Typed
  <2>2. down \in Seq(Received)
    BY DEF Typed
  <2>3. \A K : /\ Lacks(down \o <<p>>, K) <=> Lacks(down, K) /\ p \notin K
              /\ Settles(down \o <<p>>, K, p)
              /\ \A x : Settles(down, K, x) /\ p \notin K => Settles(down \o <<p>>, K, x)
    BY <1>2, <2>2, OneMoreSettles
  <2>4. QED
    BY <1>1, <2>1, <2>3
<1>5. ASSUME NEW v \in Users, v # u PROVE /\ online'[v] = online[v]
                                          /\ Lacks(down', About(v)) <=> Lacks(down, About(v))
                                          /\ \A x : Settles(down, About(v), x) => Settles(down', About(v), x)
  <2>1. online'[v] = online[v]
    BY <1>1, <1>5 DEF TreeInv
  <2>2. p \notin About(v)
    BY <1>2, <1>5
  <2>3. QED
    BY <1>4, <2>1, <2>2
<1>6. ASSUME NEW v \in Users, v \in stale.users \ stale'.users
      PROVE  v = u /\ u \in server.buddies /\ Lacks(up, Removes(u))
  <2>1. stale \in Stales /\ up \in Seq(Sent)
    BY DEF Typed
  <2>2. u \in server.buddies /\ Fresh({u})
    BY <1>1, <1>6
  <2>3. v \in {u} /\ ~ \E x \in ToSet(up') : x.type = "RemoveBuddy" /\ x.user = v
    BY <1>6, <2>1, <2>2, FreshStale
  <2>4. ASSUME NEW i \in 1 .. Len(up), up[i] \in Removes(u) PROVE FALSE
    <3>1. up[i] \in ToSet(up)
      BY <2>1 DEF ToSet
    <3>2. QED
      BY <1>1, <2>3, <2>4, <3>1 DEF Removes
  <2>5. QED
    BY <2>2, <2>3, <2>4 DEF Lacks
<1>7. ASSUME NEW v \in InTree \ stale'.users PROVE Present(v)'
  <2>1. v \in Users
    BY <1>3
  <2>2. CASE v = u
    <3>1. online'[u] = st
      BY <1>1 DEF TreeInv
    <3>2. u \in server.buddies => Settles(down', About(u), p)
      BY <1>4
    <3>3. Lacks(up, Removes(u)) /\ (u \notin server.buddies => Present(u))
      <4>1. CASE u \in stale.users
        BY <1>6, <1>7, <2>2, <4>1
      <4>2. CASE u \notin stale.users
        BY <1>7, <2>2, <4>2 DEF UsersInv, Present
      <4>3. QED
        BY <4>1, <4>2
    <3>4. QED
      BY <1>1, <2>2, <3>1, <3>2, <3>3 DEF Present, p
  <2>3. CASE v # u
    <3>1. Present(v)
      BY <1>6, <1>7, <2>1, <2>3 DEF UsersInv
    <3>2. QED
      BY <1>1, <1>5, <2>1, <2>3, <3>1 DEF Present
  <2>4. QED
    BY <2>2, <2>3
<1>8. QED
  BY <1>1, <1>3, <1>7 DEF UsersInv

LEMMA UsersNext ==
    ASSUME Typed, TreeInv, IdleInv, UsersInv, wanted.invisible \in BOOLEAN, [ContactsNext]_contactsVars
    PROVE  UsersInv'
<1>1. ASSUME InTree' \subseteq InTree, UNCHANGED <<m_state, up, down, server, online, status, stale>> PROVE UsersInv'
  BY <1>1, UsersKept DEF LoggedIn
<1>2. ASSUME NEW g \in Groups, add_group(g) \/ remove_group(g) PROVE UsersInv'
  <2>1. InTree' \subseteq InTree
    BY <1>2 DEF add_group, remove_group, InTree, TreeInv
  <2>2. UNCHANGED <<m_state, up, down, server, online, status, stale>>
    BY <1>2 DEF add_group, remove_group
  <2>3. QED
    BY <1>1, <2>1, <2>2
<1>3. ASSUME NEW u \in Users, NEW g \in Groups, relocate_contact(u, g) PROVE UsersInv'
  <2>1. InTree' \subseteq InTree
    BY <1>3 DEF relocate_contact, InTree, TreeInv
  <2>2. UNCHANGED <<m_state, up, down, server, online, status, stale>>
    BY <1>3 DEF relocate_contact
  <2>3. QED
    BY <1>1, <2>1, <2>2
<1>4. ASSUME NEW st, NEW inv \in BOOLEAN, Request(st, inv) PROVE UsersInv'
  <2>1. UNCHANGED <<member, down, server, online, status>> /\ (LoggedIn' => LoggedIn) /\ stale'.users = stale.users
    BY <1>4 DEF Request, treeVars, LoggedIn, Typed, Stales
  <2>2. InTree' = InTree /\ InTree \subseteq Users
    BY <2>1 DEF InTree
  <2>3. ASSUME LoggedIn
        PROVE  \A u \in Users : /\ Lacks(up', Adds(u)) <=> Lacks(up, Adds(u))
                                /\ Lacks(up', Removes(u)) <=> Lacks(up, Removes(u))
    <3> DEFINE before == ~m_self.invisible /\ inv
               after == m_self.invisible /\ ~inv
    <3>1. up' = up \o If(before, AddVisible) \o OwnStatus(st, inv) \o If(after, AddInvisible)
      BY <1>4, <2>3 DEF Request
    <3>2. before \in BOOLEAN /\ after \in BOOLEAN /\ up \in Seq(Sent)
      BY DEF Typed
    <3> HIDE DEF before, after
    <3>3. QED
      BY <3>1, <3>2, StatusSettles
  <2>4. CASE LoggedIn
    BY <2>1, <2>2, <2>3, <2>4, UsersKept
  <2>5. CASE ~LoggedIn
    BY <2>1, <2>5 DEF UsersInv
  <2>6. QED
    BY <2>4, <2>5
<1>5. CASE Lost \/ \E inv \in BOOLEAN : RequestOffline(inv)
  <2>1. Disconnect \/ UNCHANGED <<m_state, treeVars, up, down, server, online, status, stale>>
    BY <1>5 DEF Lost, RequestOffline
  <2>2. CASE Disconnect
    BY <2>2 DEF Disconnect, UsersInv, LoggedIn
  <2>3. CASE UNCHANGED <<m_state, treeVars, up, down, server, online, status, stale>>
    BY <1>1, <2>3 DEF treeVars, InTree
  <2>4. QED
    BY <2>1, <2>2, <2>3
<1>6. CASE UNCHANGED contactsVars
  BY <1>1, <1>6 DEF contactsVars, treeVars, InTree
<1>7. ASSUME NEW u \in Users, NEW g \in Groups, add(u, g, "OFFLINE") \/ add(u, g, status[u]) PROVE UsersInv'
  BY <1>7, AddUsers
<1>8. QED
  BY <1>2, <1>3, <1>4, <1>5, <1>6, <1>7, RemoveUsers, LoginUsers, ParseCh2Users, ServerTakesUsers,
     UserMovesUsers DEF ContactsNext

-----------------------------------------------------------------------------
(* The client's own status: what was asked for last, and what is said of it. *)

\* Neither is there more of it to the server, nor from it.
LEMMA SelfKept ==
    ASSUME Typed, SelfInv, UNCHANGED <<wanted, m_self>>, LoggedIn' => LoggedIn,
           m_state' # "NOT_CONNECTED" => m_state # "NOT_CONNECTED",
           NEW s \in Seq(Sent), up' = up \o s, Lacks(s, Asks),
           NEW t \in Seq(Received), down' = down \o t, Lacks(t, Infos)
    PROVE  SelfInv'
<1>1. /\ Lacks(up, Asks) => Lacks(up', Asks)
      /\ Lacks(down, Infos) => Lacks(down', Infos)
      /\ \A p : Settles(up, Asks, p) => Settles(up', Asks, p)
      /\ \A p : Settles(down, Infos, p) => Settles(down', Infos, p)
  BY JoinedLacks, JoinedSettles DEF Typed
<1>2. WantedFlags' = WantedFlags
  BY DEF WantedFlags
<1>3. CASE LoggedIn'
  <2>1. LoggedIn /\ wanted' = wanted /\ m_self' = m_self
    BY <1>3
  <2>2. \/ Settles(up', Asks, [type |-> "SetStatus", icq |-> WantedFlags])
        \/ /\ Lacks(up', Asks)
           /\ \/ Settles(down', Infos, UserInfo(WantedFlags))
              \/ Lacks(down', Infos) /\ m_self = wanted
    BY <1>1, <2>1 DEF SelfInv
  <2>3. QED
    BY <1>2, <2>1, <2>2 DEF SelfInv
<1>4. CASE ~LoggedIn'
  BY <1>4 DEF SelfInv
<1>5. QED
  BY <1>3, <1>4

\* Packets about users.
LEMMA SelfUntouched ==
    ASSUME Typed, SelfInv, UNCHANGED <<m_state, wanted, m_self>>,
           up' = up \/ \E p \in Sent \ Asks : up' = up \o <<p>>,
           down' = down \/ \E p \in Received \ Infos : down' = down \o <<p>>
    PROVE  SelfInv'
<1>1. up \in Seq(Sent) /\ down \in Seq(Received)
  BY DEF Typed
<1>2. PICK s \in Seq(Sent) : up' = up \o s /\ Lacks(s, Asks)
  <2>1. CASE up' = up
    <3>1. <<>> \in Seq(Sent) /\ up' = up \o <<>>
      BY <1>1, <2>1, ConcatEmptySeq, EmptySeq
    <3>2. QED
      BY <3>1, OneSettles
  <2>2. ASSUME NEW p \in Sent \ Asks, up' = up \o <<p>> PROVE \E s \in Seq(Sent) : up' = up \o s /\ Lacks(s, Asks)
    <3>1. <<p>> \in Seq(Sent) /\ Lacks(<<p>>, Asks)
      BY OneSettles
    <3>2. QED
      BY <2>2, <3>1
  <2>3. QED
    BY <2>1, <2>2
<1>3. PICK t \in Seq(Received) : down' = down \o t /\ Lacks(t, Infos)
  <2>1. CASE down' = down
    <3>1. <<>> \in Seq(Received) /\ down' = down \o <<>>
      BY <1>1, <2>1, ConcatEmptySeq, EmptySeq
    <3>2. QED
      BY <3>1, OneSettles
  <2>2. ASSUME NEW p \in Received \ Infos, down' = down \o <<p>>
        PROVE  \E t \in Seq(Received) : down' = down \o t /\ Lacks(t, Infos)
    <3>1. <<p>> \in Seq(Received) /\ Lacks(<<p>>, Infos)
      BY OneSettles
    <3>2. QED
      BY <2>2, <3>1
  <2>3. QED
    BY <2>1, <2>2
<1>4. QED
  BY <1>2, <1>3, SelfKept DEF LoggedIn

LEMMA RequestSelf ==
    ASSUME Typed, IdleInv, SelfInv, NEW st \in OwnStatuses, NEW inv \in BOOLEAN, Request(st, inv)
    PROVE  SelfInv'
<1>1. /\ wanted' = [status |-> st, invisible |-> inv] /\ st \in Shown
      /\ wanted' \in [status : AnyStatus, invisible : BOOLEAN]
  BY StatusesShown DEF Request, AnyStatus
<1>2. wanted'.status = st /\ WantedFlags' = MapStatusToICQStatus(st, inv)
  BY <1>1 DEF WantedFlags
<1> SUFFICES ASSUME LoggedIn' PROVE Settles(up', Asks, [type |-> "SetStatus", icq |-> MapStatusToICQStatus(st, inv)])
  BY <1>1, <1>2 DEF SelfInv
<1>3. LoggedIn
  BY DEF Request, LoggedIn
<1> DEFINE before == ~m_self.invisible /\ inv
           after == m_self.invisible /\ ~inv
<1>4. up' = up \o If(before, AddVisible) \o OwnStatus(st, inv) \o If(after, AddInvisible)
  BY <1>3 DEF Request
<1>5. before \in BOOLEAN /\ after \in BOOLEAN /\ up \in Seq(Sent)
  BY DEF Typed
<1> HIDE DEF before, after
<1>6. QED
  BY <1>4, <1>5, StatusSettles

LEMMA LoginSelf ==
    ASSUME SelfInv, Login
    PROVE  SelfInv'
<1> DEFINE info == [type |-> "InfoRequest"]
           all == [type |-> "AddBuddy", users |-> InTree]
           buddies == If(m_groups # {}, <<all>>)
           s == <<info>> \o buddies
<1>1. /\ up' = s \o If(wanted.invisible, AddVisible) \o OwnStatus(wanted.status, wanted.invisible)
                \o If(~wanted.invisible, AddInvisible)
      /\ wanted' = wanted /\ wanted.status \in Shown /\ wanted.invisible \in BOOLEAN
  BY DEF Login, SendLogin, SelfInv, ownVars
<1>2. info \in Sent /\ all \in Sent
  BY DEF Sent, InTree
<1>3. buddies = IF m_groups # {} THEN <<all>> ELSE <<>>
  BY DEF If
<1> HIDE DEF info, all, buddies
<1>4. <<info>> \in Seq(Sent) /\ buddies \in Seq(Sent)
  BY <1>2, <1>3
<1>5. s \in Seq(Sent)
  BY <1>4, Joined
<1> HIDE DEF s
<1>6. Settles(up', Asks, [type |-> "SetStatus", icq |-> WantedFlags])
  BY <1>1, <1>5, StatusSettles DEF WantedFlags
<1>7. WantedFlags' = WantedFlags
  BY <1>1 DEF WantedFlags
<1>8. QED
  BY <1>1, <1>6, <1>7 DEF SelfInv

LEMMA ServerTakesSelf ==
    ASSUME Typed, SelfInv, ServerTakes
    PROVE  SelfInv'
<1> DEFINE p == Head(up)
           settled == [type |-> "SetStatus", icq |-> WantedFlags]
<1>1. /\ up \in Seq(Sent) /\ up # <<>> /\ up' = Tail(up) /\ down \in Seq(Received)
      /\ UNCHANGED <<m_state, wanted, m_self>>
  BY DEF Typed, ServerTakes, ownVars
<1>2. PICK t \in Seq(Received) : /\ p \in Sent /\ down' = down \o t
                                 /\ p \notin Asks => Lacks(t, Infos)
                                 /\ p.type = "SetStatus" => t = <<UserInfo(p.icq)>>
  BY ServerAnswers
<1>3. WantedFlags' = WantedFlags
  BY <1>1 DEF WantedFlags
<1> SUFFICES ASSUME LoggedIn
    PROVE  \/ Settles(up', Asks, settled)
           \/ /\ Lacks(up', Asks)
              /\ \/ Settles(down', Infos, UserInfo(WantedFlags))
                 \/ Lacks(down', Infos) /\ m_self = wanted
  BY <1>1, <1>3 DEF SelfInv, LoggedIn
<1>4. CASE Settles(up, Asks, settled)
  <2>1. Settles(up', Asks, settled) \/ (p = settled /\ Lacks(up', Asks))
    BY <1>1, <1>4, ReadSettles
  <2>2. CASE p = settled /\ Lacks(up', Asks)
    <3>1. t = <<UserInfo(WantedFlags)>>
      BY <1>2, <2>2
    <3> DEFINE i == UserInfo(WantedFlags)
    <3>2. Settles(t, Infos, i)
      <4> HIDE DEF i
      <4>1. QED
        BY <3>1, OneSettles DEF i
    <3>3. Settles(down', Infos, i)
      BY <1>1, <1>2, <3>2, JoinedSettles
    <3>4. QED
      BY <2>2, <3>3
  <2>3. QED
    BY <2>1, <2>2
<1>5. CASE /\ Lacks(up, Asks)
           /\ \/ Settles(down, Infos, UserInfo(WantedFlags))
              \/ Lacks(down, Infos) /\ m_self = wanted
  <2>1. p \notin Asks /\ Lacks(up', Asks)
    BY <1>1, <1>5, ReadLacks
  <2>2. Lacks(t, Infos)
    BY <1>2, <2>1
  <2>3. /\ Lacks(down, Infos) => Lacks(down', Infos)
        /\ \A x : Settles(down, Infos, x) => Settles(down', Infos, x)
    BY <1>1, <1>2, <2>2, JoinedLacks, JoinedSettles
  <2>4. QED
    BY <1>5, <2>1, <2>3
<1>6. QED
  BY <1>4, <1>5 DEF SelfInv

LEMMA ParseCh2Self ==
    ASSUME Typed, IdleInv, SelfInv, ParseCh2
    PROVE  SelfInv'
<1> DEFINE p == Head(down)
           said == UserInfo(WantedFlags)
<1>1. /\ down \in Seq(Received) /\ down # <<>> /\ down' = Tail(down) /\ p \in Received
      /\ UNCHANGED <<m_state, wanted, up>>
  BY ReadPacket DEF Typed, ParseCh2
<1>2. WantedFlags' = WantedFlags
  BY <1>1 DEF WantedFlags
<1> SUFFICES ASSUME LoggedIn PROVE SelfInv'
  BY <1>1 DEF SelfInv, LoggedIn
<1>3. LoggedIn /\ m_state # "NOT_CONNECTED" /\ wanted.status \in Shown /\ wanted.invisible \in BOOLEAN
  BY <1>1 DEF LoggedIn, SelfInv
<1>4. \/ p \notin Infos /\ m_self' = m_self
      \/ m_self' = [status |-> MapICQStatusToStatus(p.icq), invisible |-> MapICQStatusToInvisible(p.icq)]
         /\ p \in Infos
  BY <1>1 DEF ParseCh2, HandleUserInfoSNAC, Infos
<1>5. p = said => m_self' = wanted
  <2>1. SUFFICES ASSUME p = said PROVE m_self' = wanted
    OBVIOUS
  <2>2. p \in Infos /\ p.icq = WantedFlags
    <3>1. WantedFlags \in SUBSET Nat
      BY <1>3, StatusFlags DEF WantedFlags
    <3>2. said \in Infos /\ said.icq = WantedFlags
      BY <3>1, InfoAbout DEF UserInfo
    <3>3. QED
      BY <2>1, <3>2
  <2> HIDE DEF p, said
  <2>3. m_self' = [status |-> MapICQStatusToStatus(WantedFlags), invisible |-> MapICQStatusToInvisible(WantedFlags)]
    BY <1>4, <2>2
  <2>4. /\ MapICQStatusToStatus(WantedFlags) = wanted.status
        /\ MapICQStatusToInvisible(WantedFlags) = wanted.invisible
    BY <1>3, StatusOfStatus DEF WantedFlags
  <2>5. wanted = [status |-> wanted.status, invisible |-> wanted.invisible]
    BY DEF SelfInv
  <2>6. QED
    BY <2>3, <2>4, <2>5
<1>6. CASE Settles(down, Infos, said)
  <2>1. Settles(down', Infos, said) \/ (p = said /\ Lacks(down', Infos))
    BY <1>1, <1>6, ReadSettles
  <2> HIDE DEF said
  <2>2. QED
    BY <1>1, <1>2, <1>5, <2>1 DEF SelfInv, LoggedIn, said
<1>7. CASE Lacks(down, Infos)
  <2>1. p \notin Infos /\ Lacks(down', Infos)
    BY <1>1, <1>7, ReadLacks
  <2>2. ~Settles(down, Infos, said)
    <3>1. WantedFlags \in SUBSET Nat
      BY <1>3, StatusFlags DEF WantedFlags
    <3>2. said \in Infos
      BY <3>1, InfoAbout
    <3>3. QED
      BY <1>7, <3>2 DEF Settles, Lacks
  <2>3. m_self' = m_self
    BY <1>4, <2>1
  <2>4. QED
    BY <1>1, <1>2, <2>1, <2>2, <2>3 DEF SelfInv, LoggedIn
<1>8. CASE Settles(up, Asks, [type |-> "SetStatus", icq |-> WantedFlags])
  BY <1>1, <1>2, <1>8 DEF SelfInv, LoggedIn
<1>9. QED
  BY <1>3, <1>6, <1>7, <1>8 DEF SelfInv

LEMMA SelfNext ==
    ASSUME Typed, IdleInv, SelfInv, [ContactsNext]_contactsVars
    PROVE  SelfInv'
<1>1. up \in Seq(Sent) /\ down \in Seq(Received)
  BY DEF Typed
<1>2. ASSUME NEW g \in Groups, add_group(g) \/ remove_group(g) PROVE SelfInv'
  BY <1>2, SelfUntouched DEF add_group, remove_group, ownVars
<1>3. ASSUME NEW u \in Users, NEW g \in Groups, NEW st, add(u, g, st) PROVE SelfInv'
  <2> DEFINE p == [type |-> "AddBuddy", users |-> {u}]
  <2>1. p \in Sent \ Asks
    BY DEF Sent, Asks
  <2>2. up' = up \o (IF LoggedIn THEN <<p>> ELSE <<>>) /\ UNCHANGED <<m_state, wanted, m_self, down>>
    BY <1>3 DEF add, AddBuddies, ownVars
  <2> HIDE DEF p
  <2>3. up' = up \/ up' = up \o <<p>>
    BY <1>1, <2>2, ConcatEmptySeq
  <2>4. QED
    BY <2>1, <2>2, <2>3, SelfUntouched
<1>4. ASSUME NEW u \in Users, remove(u) PROVE SelfInv'
  <2> DEFINE p == [type |-> "RemoveBuddy", user |-> u]
  <2>1. p \in Sent \ Asks
    BY DEF Sent, Asks
  <2>2. up' = (IF LoggedIn THEN Append(up, p) ELSE up) /\ UNCHANGED <<m_state, wanted, m_self, down>>
    BY <1>4 DEF remove, ownVars
  <2> HIDE DEF p
  <2>3. up' = up \/ up' = up \o <<p>>
    BY <1>1, <2>1, <2>2, OneMoreSettles
  <2>4. QED
    BY <2>1, <2>2, <2>3, SelfUntouched
<1>5. ASSUME NEW u \in Users, NEW g \in Groups, relocate_contact(u, g) PROVE SelfInv'
  BY <1>5, SelfUntouched DEF relocate_contact, ownVars
<1>6. ASSUME NEW inv \in BOOLEAN, RequestOffline(inv) PROVE SelfInv'
  <2>1. wanted' \in [status : AnyStatus, invisible : BOOLEAN] /\ m_state' = "NOT_CONNECTED"
    BY <1>6 DEF RequestOffline, Disconnect, AnyStatus
  <2>2. QED
    BY <2>1 DEF SelfInv, LoggedIn
<1>7. CASE Lost
  BY <1>7 DEF Lost, Disconnect, SelfInv, LoggedIn
<1>8. ASSUME NEW u \in Users, NEW st, UserMoves(u, st) PROVE SelfInv'
  <2> DEFINE p == Presence(u, st)
  <2>1. p \in Received \ Infos
    BY PresenceAbout
  <2>2. (down' = down \/ down' = Append(down, p)) /\ UNCHANGED <<m_state, wanted, m_self, up>>
    BY <1>8 DEF UserMoves, ownVars
  <2> HIDE DEF p
  <2>3. down' = down \/ down' = down \o <<p>>
    BY <1>1, <2>1, <2>2, OneMoreSettles
  <2>4. QED
    BY <2>1, <2>2, <2>3, SelfUntouched
<1>9. CASE UNCHANGED contactsVars
  BY <1>9, SelfUntouched DEF contactsVars, ownVars
<1>10. QED
  BY <1>2, <1>3, <1>4, <1>5, <1>6, <1>7, <1>8, <1>9, RequestSelf, LoginSelf, ServerTakesSelf, ParseCh2Self DEF ContactsNext

-----------------------------------------------------------------------------

LEMMA InitPresence == ContactsInit => PresenceInv
<1> SUFFICES ASSUME ContactsInit PROVE PresenceInv
  OBVIOUS
<1>1. TreeInv
  BY DEF ContactsInit, TreeInv, InTree, AnyStatus
<1>2. IdleInv
  BY DEF ContactsInit, IdleInv, NoSession, InTree, LoggedIn, NothingStale
<1>3. UsersInv /\ SelfInv
  BY DEF ContactsInit, UsersInv, SelfInv, LoggedIn, AnyStatus
<1>4. QED
  BY <1>1, <1>2, <1>3 DEF PresenceInv

\* With nothing on its way, what is to come has come.
LEMMA NothingToCome == ContactsInv /\ PresenceInv => PresenceSettles
<1> SUFFICES ASSUME ContactsInv, PresenceInv PROVE PresenceSettles
  OBVIOUS
<1>1. \A K : Lacks(<<>>, K) /\ \A p : ~Settles(<<>>, K, p)
  BY OneSettles
<1>2. ASSUME Quiet PROVE (\A u \in InTree \ stale.users : status[u] = online[u]) /\ m_self = wanted
  <2>1. LoggedIn /\ up = <<>> /\ down = <<>>
    BY <1>2 DEF Quiet
  <2>2. ASSUME NEW u \in InTree \ stale.users PROVE status[u] = online[u]
    <3>1. Present(u)
      BY <2>1 DEF PresenceInv, UsersInv
    <3>2. QED
      BY <1>1, <2>1, <3>1 DEF Present
  <2>3. m_self = wanted
    <3>1. \/ Settles(<<>>, Asks, [type |-> "SetStatus", icq |-> WantedFlags])
          \/ Settles(<<>>, Infos, UserInfo(WantedFlags))
          \/ m_self = wanted
      BY <2>1 DEF PresenceInv, SelfInv
    <3>2. QED
      BY <1>1, <3>1
  <2>4. QED
    BY <2>2, <2>3
<1>3. m_state = "NOT_CONNECTED" => /\ \A u \in InTree \ stale.users : status[u] = "OFFLINE"
                                   /\ m_self.status = "OFFLINE" \/ stale.self
  BY DEF PresenceInv, IdleInv, LoggedIn
<1>4. \A u \in InTree : wired[u] # None => told[u] = status[u]
  BY DEF PresenceInv, TreeInv, InTree
<1>5. QED
  BY <1>2, <1>3, <1>4 DEF PresenceSettles

(* When nothing is on its way, every contact in the tree has the status its  *)
(* user has and the client has the one it was last asked for; without a      *)
(* connection all are offline; the application was told (Client::SendLogin,  *)
(* contactlist_cb, setStatus, SignalUserOnline, SignalUserOffline,           *)
(* HandleUserInfoSNAC), whatever is added, removed, added again or asked     *)
(* for while packets are on their way; but for the users a packet of before  *)
(* may have set, until the server speaks of them.                            *)
THEOREM PresenceAlwaysSettles == ContactsSpec => []PresenceSettles
<1>1. ContactsInit => ContactsInv /\ PresenceInv
  BY InitInv, InitPresence DEF ContactsInit, ContactsInv
<1>2. ContactsInv /\ PresenceInv /\ [ContactsNext]_contactsVars => (ContactsInv /\ PresenceInv)'
  <2>1. SUFFICES ASSUME ContactsInv, PresenceInv, [ContactsNext]_contactsVars PROVE ContactsInv' /\ PresenceInv'
    OBVIOUS
  <2>2. ContactsInv' /\ Typed /\ wanted.invisible \in BOOLEAN
    BY <2>1, NextInv DEF ContactsInv, Inv
  <2>3. TreeInv' /\ IdleInv' /\ UsersInv' /\ SelfInv'
    BY <2>1, <2>2, TreeNext, IdleNext, UsersNext, SelfNext DEF PresenceInv
  <2>4. QED
    BY <2>2, <2>3 DEF PresenceInv
<1>3. QED
  BY <1>1, <1>2, NothingToCome, PTL DEF ContactsSpec

-----------------------------------------------------------------------------
(* The request and its answer: who can still have a client, and which states *)
(* the events can still reach.                                               *)

Sender == ftc["sender"]
Receiver == ftc["receiver"]
Alive(s) == ftc[s].m_state # "NONE"

\* States of the sender's event before an answer was acted on.
Asking == {"NOT_CONNECTED", "WAIT_RESPONS", "TIMEOUT", "REJECTED"}

\* States of the receiver's event before a connection was accepted or cancelled.
Asked == {"NONE", "NOT_CONNECTED", "RECEIVE", "TIMEOUT"}

\* A request was made: its totals are set.
Requested == seq > 0 \/ queued > 0 \/ ev["receiver"].state # "NONE"

\* The type invariant, without what the proofs do not look at.
CoreOK ==
    /\ sent \in FileLists /\ m_files \in Seq([kind : Kinds, size : Nat])
    /\ direct \in BOOLEAN /\ answered \in BOOLEAN /\ undefined \in BOOLEAN
    /\ seq \in Nat /\ queued \in Nat /\ asked \in Nat /\ aside \subseteq Nat
    /\ ev \in [Sides -> Events] /\ cached \in [Sides -> SUBSET Nat] /\ ftc \in [Sides -> Clients]
    /\ control \in [Sides -> Seq(Messages)]
    /\ data \in [Sides -> Seq(Packets)]
    /\ stored \in Seq([dir : BOOLEAN, got : Nat])

\* What is in a sequence.
Mail(q) == {q[i] : i \in DOMAIN q}

\* Requests have numbers that were given; an ACCEPT is the answer to `asked`.
ControlInv ==
    /\ \A m \in Mail(control["receiver"]) :
         /\ m.number <= seq
         /\ m.type = "REQUEST" => m.number # 0
         /\ m.type = "CANCEL" => direct
    /\ \A m \in Mail(control["sender"]) : m.type = "ACCEPT" => answered /\ m.number = asked

ClientsInv ==
    /\ \A s \in Sides : ~Alive(s) => ftc[s] = NoClient
    /\ \A s \in Sides : Alive(s) => answered
    /\ ev["receiver"].state = "NONE" => ~answered
    /\ ~answered => ev["sender"].state \in Asking
    /\ ev["sender"].state = "ACCEPTED" => direct /\ ~Alive("sender")
    /\ ~direct => /\ ev["sender"].state \in Asking /\ ~Alive("sender")
                  /\ ev["receiver"].state \in Asked /\ Receiver.m_socket # "CONNECTED"

EventInv ==
    /\ ev["sender"].state # "NONE"
    /\ ev["receiver"].state \in Asked \cup Ended
    /\ ev["receiver"].state = "COMPLETE" => answered

\* A request is answered before there is a client: while `asked` is cached, none
\* of the sender is.
CacheInv ==
    /\ asked <= seq /\ cached["sender"] \subseteq 1 .. seq /\ cached["receiver"] \subseteq {asked}
    /\ asked \in cached["sender"] => ~Alive("sender") /\ ev["sender"].state # "ACCEPTED"
    /\ cached["receiver"] # {} => ev["receiver"].state # "NONE"
    /\ cached["receiver"] # {} /\ direct => ev["receiver"].state = "NOT_CONNECTED" /\ ~Alive("receiver")

RequestInv == CoreOK /\ ControlInv /\ ClientsInv /\ EventInv /\ CacheInv /\ EndedIsToldAndGone

-----------------------------------------------------------------------------
(* The transfer: what is under way between the two clients, and what the     *)
(* receiver has stored when it has read it.                                  *)

Down == data["receiver"]
Up == data["sender"]
Held == Len(stored)

\* The sums of the sizes of the first entries of a list.
Sums(list) ==
    LET f[i \in 0..Len(list)] == IF i = 0 THEN 0 ELSE f[i-1] + list[i].size
    IN  f

\* No client of the sender has connected, and none of the receiver was found.
Unused ==
    /\ m_files = sent /\ stored = <<>> /\ Up = <<>> /\ Down = <<>>
    /\ ~Alive("sender") /\ Receiver.m_state \in {"NONE", "WAITING_FOR_INIT"} /\ Receiver.m_socket \in Unset

UnusedInv == ~answered \/ asked \in cached["sender"] \/ ev["sender"].state = "ACCEPTED" => Unused

\* What both events say of the transfer.
SenderCount == ev["sender"].totalSize = Content(sent) /\ ev["sender"].totalFiles = Len(sent)
ReceiverCount ==
    /\ ev["receiver"].totalSize = Content(sent)
    /\ ev["receiver"].currFile = Held
    /\ ev["receiver"].totalPos = IF Held = 0 THEN 0 ELSE Sums(sent)[Held-1] + stored[Held].got

CountInv ==
    /\ Requested => SenderCount
    /\ ev["receiver"].state # "NONE" /\ (answered => Alive("receiver")) => ReceiverCount

AllCount == [type |-> "0x00", files |-> Len(sent), size |-> Content(sent)]
Announce(i) == [type |-> "0x02", dir |-> sent[i].kind = "dir", size |-> sent[i].size]
Piece(i) == [type |-> "0x06", length |-> IF sent[i].size = 0 THEN 0 ELSE 1]

\* What is stored of the last entry when d more pieces of it are.
After(d) == IF sent[Held].size = 0 THEN 0 ELSE stored[Held].got + d

\* Only pieces of the last entry are under way to the receiver, or these and
\* the announcement of the next entry.
Pieces(d) ==
    /\ d > 0 => Held > 0 /\ After(d) <= sent[Held].size
    /\ \A i \in 1..d : Down[i] = Piece(Held)
OnlyPieces == Pieces(Len(Down))
ThenAnnounced ==
    /\ Down # <<>> /\ Pieces(Len(Down) - 1)
    /\ Held + 1 <= Len(sent) /\ Down[Len(Down)] = Announce(Held + 1)
    /\ Held > 0 => After(Len(Down) - 1) = sent[Held].size
LastIsSent == Held > 0 /\ OnlyPieces /\ After(Len(Down)) = sent[Held].size

InitPackets == [type : {"INIT"}, version : {7}, long : BOOLEAN]
InitIn(q) == Len(q) = 1 /\ q[1] \in InitPackets
Ack == [type |-> "ACK"]

\* What is under way to a receiver, by the state of its client.
ReceiverInv ==
    /\ ~Alive("receiver") => Down = <<>>
    /\ Receiver.m_state = "WAITING_FOR_INIT" =>
         stored = <<>> /\ (Down = <<>> \/ InitIn(Down))
    /\ Receiver.m_state = "WAITING_FOR_INIT_ACK" => stored = <<>> /\ Down \in {<<>>, <<Ack, AllCount>>}
    /\ Receiver.m_state = "CONNECTED" => \/ stored = <<>> /\ Down = <<AllCount>>
                                         \/ OnlyPieces
                                         \/ ThenAnnounced
    /\ Alive("receiver") /\ Receiver.m_socket # "CONNECTED" => Receiver.m_state = "WAITING_FOR_INIT"

\* The sender has announced the first k entries.
Left(k) == k <= Len(sent) /\ Len(m_files) = Len(sent) - k /\ \A i \in 1..Len(m_files) : m_files[i] = sent[k + i]

Greeting ==
    /\ Sender.m_msgqueue /\ m_files = sent /\ stored = <<>>
    /\ ~Sender.m_continue /\ ~Sender.m_more
    /\ Sender.m_state = "WAITING_FOR_INIT_ACK" =>
         \/ Receiver.m_state = "WAITING_FOR_INIT" /\ Up = <<>>
            /\ (Sender.m_socket # "CONNECTED" => Receiver.m_socket # "CONNECTED" /\ Down = <<>>)
         \/ Receiver.m_state = "WAITING_FOR_INIT_ACK" /\ Down = <<>> /\ Sender.m_socket = "CONNECTED"
            /\ Len(Up) = 2 /\ Up[1] = Ack /\ Up[2] \in InitPackets
    /\ Sender.m_state = "WAITING_FOR_INIT" =>
         Receiver.m_state = "WAITING_FOR_INIT_ACK" /\ Down = <<>> /\ InitIn(Up)

Opening ==
    /\ ~Sender.m_continue /\ ~Sender.m_more /\ m_files = sent /\ stored = <<>>
    /\ \/ Receiver.m_state = "WAITING_FOR_INIT_ACK" /\ Down = <<Ack, AllCount>> /\ Up = <<>>
       \/ Receiver.m_state = "CONNECTED" /\ Down = <<AllCount>> /\ Up = <<>>
       \/ Receiver.m_state = "CONNECTED" /\ Down = <<>>
          /\ Up \in {<<[type |-> "0x05"], [type |-> "0x01"]>>, <<[type |-> "0x01"]>>}

Open(i) == Sender.m_senddir = (sent[i].kind = "dir") /\ ev["sender"].size = sent[i].size
                    /\ sent[i].kind # "other"

Announced ==
    /\ Receiver.m_state = "CONNECTED" /\ Up = <<>> /\ ~Sender.m_continue /\ ~Sender.m_more
    /\ ThenAnnounced /\ Left(Held + 1) /\ Open(Held + 1)

Replied ==
    /\ Receiver.m_state = "CONNECTED" /\ Down = <<>> /\ ~Sender.m_continue /\ ~Sender.m_more
    /\ Up = <<[type |-> "0x03", files |-> Held]>> /\ Held > 0 /\ Left(Held) /\ stored[Held].got = 0 /\ Open(Held)

Sending ==
    /\ Receiver.m_state = "CONNECTED" /\ Up = <<>> /\ Sender.m_continue /\ Held > 0 /\ Left(Held)
    /\ OnlyPieces /\ ev["sender"].currFile = Held
    /\ IF Sender.m_more
       THEN /\ Open(Held) /\ ev["sender"].pos = After(Len(Down))
            /\ sent[Held].size > 0 => After(Len(Down)) < sent[Held].size
       ELSE LastIsSent

\* An entry was passed over: nothing more is sent.
Passed == Receiver.m_state = "CONNECTED" /\ Up = <<>> /\ ~Sender.m_continue /\ ~Sender.m_more /\ OnlyPieces

Dialogue == ~Sender.m_msgqueue /\ (Opening \/ Announced \/ Replied \/ Sending \/ Passed)

SenderInv ==
    /\ ~Alive("sender") => Up = <<>>
    /\ Sender.m_socket # "CONNECTED" /\ Alive("sender") => Sender.m_state = "WAITING_FOR_INIT_ACK"
    /\ Alive("sender") /\ Alive("receiver") =>
         IF Sender.m_state = "CONNECTED" THEN Dialogue ELSE Greeting

\* What the sender has left to announce, whether or not the receiver still lives.
LeftInv ==
    Alive("sender") =>
        /\ Sender.m_continue => Left(ev["sender"].currFile)
        /\ \A i \in 1..Len(Up) :
             Up[i].type \in {"0x01", "0x03"} =>
                 /\ i = Len(Up)
                 /\ Up[i].type = "0x01" => m_files = sent /\ ~Sender.m_continue
                 /\ Up[i].type = "0x03" => Left(Up[i].files)

CompleteInv ==
    ev["sender"].state = "COMPLETE" /\ Alive("receiver") =>
        Receiver.m_state = "CONNECTED" /\ Held = Len(sent) /\ LastIsSent

\* What the receiver has given to mkdir and write is the list up to some point.
HandedInOrder ==
    /\ Len(stored) <= Len(sent)
    /\ \A i \in 1..Len(stored) :
         /\ stored[i].dir = (sent[i].kind = "dir")
         /\ stored[i].got <= sent[i].size
         /\ i < Len(stored) => stored[i].got = sent[i].size

\* A receiver that says COMPLETE was handed all of the data.
CompleteWasHanded ==
    ev["receiver"].state = "COMPLETE" =>
        /\ \A i \in 1..Len(sent) : sent[i].size > 0 => i <= Len(stored) /\ stored[i].got = sent[i].size
        /\ sent # <<>> /\ sent[Len(sent)].size > 0 => stored = Whole(sent)

TransferInv == UnusedInv /\ CountInv /\ ReceiverInv /\ SenderInv /\ LeftInv /\ CompleteInv
               /\ HandedInOrder /\ CompleteWasHanded

IInv == RequestInv /\ TransferInv

-----------------------------------------------------------------------------
(* Natural numbers: the least of a set, and induction over a set of them.    *)

LEMMA LeastOf ==
    ASSUME NEW C, C \subseteq Nat, C # {}
    PROVE  \E n \in C : \A m \in C : n <= m
<1> DEFINE T == {1 .. n : n \in C}
<1>1. IsWellFoundedOn(StrictSubsetOrdering(Nat), FiniteSubsetsOf(Nat))
  BY FS_StrictSubsetOrderingWellFounded
<1>2. T \subseteq FiniteSubsetsOf(Nat)
  <2>1. \A n \in C : IsFiniteSet(1 .. n)
    <3>1. SUFFICES ASSUME NEW n \in C PROVE IsFiniteSet(1 .. n)
      OBVIOUS
    <3>2. 1 \in Int /\ n \in Int
      OBVIOUS
    <3>3. QED
      BY <3>2, FS_Interval
  <2>2. \A n \in C : 1 .. n \in SUBSET Nat
    OBVIOUS
  <2>3. QED
    BY <2>1, <2>2 DEF FiniteSubsetsOf
<1>3. T # {}
  OBVIOUS
<1> HIDE DEF T
<1>4. PICK x \in T : \A y \in T : ~ (<<y, x>> \in StrictSubsetOrdering(Nat))
  BY <1>1, <1>2, <1>3, WFMin
<1>5. PICK n \in C : x = 1 .. n
  BY <1>4 DEF T
<1>6. ASSUME NEW m \in C, ~(n <= m) PROVE FALSE
  <2>1. 1 .. m \in T /\ 1 .. m \subseteq 1 .. n /\ n \in 1 .. n /\ n \notin 1 .. m
    BY <1>6 DEF T
  <2>2. 1 .. m \in SUBSET Nat /\ 1 .. n \in SUBSET Nat
    OBVIOUS
  <2>3. <<1 .. m, 1 .. n>> \in (SUBSET Nat) \X (SUBSET Nat) /\ 1 .. m # 1 .. n
    BY <2>1, <2>2
  <2>4. <<1 .. m, 1 .. n>> \in StrictSubsetOrdering(Nat)
    BY <2>1, <2>3 DEF StrictSubsetOrdering
  <2>5. QED
    BY <1>4, <1>5, <2>1, <2>4
<1>7. QED
  BY <1>6

LEMMA SetInduction ==
    ASSUME NEW S, 0 \in S, \A n \in Nat : n \in S => n + 1 \in S
    PROVE  Nat \subseteq S
<1> DEFINE C == Nat \ S
<1>1. SUFFICES ASSUME C # {} PROVE FALSE
  OBVIOUS
<1>2. PICK n \in C : \A m \in C : n <= m
  BY <1>1, LeastOf
<1>3. n \in Nat /\ n # 0
  BY <1>2
<1>4. n - 1 \in Nat /\ n - 1 \in S /\ (n - 1) + 1 = n
  BY <1>2, <1>3
<1>5. QED
  BY <1>2, <1>4

-----------------------------------------------------------------------------
(* The sums of the sizes of a list.                                          *)

Entries == [kind : Kinds, size : Nat]

LEMMA SumsAre ==
    ASSUME NEW list \in Seq(Entries)
    PROVE  /\ Content(list) = Sums(list)[Len(list)] /\ Sums(list)[0] = 0
           /\ \A i \in 1 .. Len(list) : Sums(list)[i] = Sums(list)[i - 1] + list[i].size
           /\ \A i \in 0 .. Len(list) : Sums(list)[i] \in Nat
<1> DEFINE Step(i, f) == IF i = 0 THEN 0 ELSE f[i - 1] + list[i].size
           N == 0 .. Len(list)
           Good(k, f) == f \in [0 .. k -> Nat] /\ \A i \in 0 .. k : f[i] = Step(i, f)
           S == {k \in Nat : k <= Len(list) => \E f : Good(k, f)}
<1>1. Len(list) \in Nat /\ \A i \in 1 .. Len(list) : list[i].size \in Nat
  <2>1. Len(list) \in Nat /\ \A i \in 1 .. Len(list) : list[i] \in Entries
    BY LenProperties, ElementOfSeq
  <2>2. QED
    BY <2>1 DEF Entries
<1>2. 0 \in S
  <2>1. Good(0, [i \in 0 .. 0 |-> 0])
    OBVIOUS
  <2> HIDE DEF Good
  <2>2. QED
    BY <2>1
<1>3. ASSUME NEW k \in Nat, k + 1 <= Len(list), NEW f, Good(k, f)
      PROVE  \E g : Good(k + 1, g)
  <2> DEFINE new == Step(k + 1, f)
             g == [i \in 0 .. k + 1 |-> IF i <= k THEN f[i] ELSE new]
  <2>1. k \in 0 .. k /\ f[k] \in Nat /\ list[k + 1].size \in Nat
    BY <1>1, <1>3
  <2>2. new \in Nat
    BY <2>1
  <2>3. g \in [0 .. k + 1 -> Nat]
    <3> HIDE DEF new
    <3>1. QED
      BY <1>3, <2>2
  <2>4. ASSUME NEW i \in 0 .. k PROVE g[i] = Step(i, g)
    <3>1. g[i] = f[i] /\ f[i] = Step(i, f)
      BY <1>3, <2>4
    <3>2. i # 0 => i - 1 \in 0 .. k /\ g[i - 1] = f[i - 1]
      BY <2>4
    <3> HIDE DEF g
    <3>3. QED
      BY <3>1, <3>2
  <2>5. g[k + 1] = Step(k + 1, g)
    <3>1. g[k + 1] = Step(k + 1, f)
      OBVIOUS
    <3>2. g[(k + 1) - 1] = f[(k + 1) - 1]
      OBVIOUS
    <3> HIDE DEF g
    <3>3. QED
      BY <3>1, <3>2
  <2>6. \A i \in 0 .. k + 1 : i \in 0 .. k \/ i = k + 1
    OBVIOUS
  <2> HIDE DEF g
  <2>7. \A i \in 0 .. k + 1 : g[i] = Step(i, g)
    BY <2>4, <2>5, <2>6
  <2>8. QED
    BY <2>3, <2>7
<1>4. Len(list) \in S
  <2>1. \A k \in Nat : k \in S => k + 1 \in S
    <3> HIDE DEF Good
    <3>1. QED
      BY <1>3
  <2> HIDE DEF S
  <2>2. QED
    BY <1>1, <1>2, <2>1, SetInduction
<1>5. PICK f : Good(Len(list), f)
  <2> HIDE DEF Good
  <2>1. QED
    BY <1>4
<1>6. f = [i \in N |-> Step(i, f)]
  BY <1>5
<1> DEFINE sums[i \in N] == Step(i, sums)
<1>7. sums = [i \in N |-> Step(i, sums)]
  <2> DEFINE Solves(g) == g = [i \in N |-> Step(i, g)]
  <2>1. Solves(f)
    BY <1>6
  <2>2. sums = CHOOSE g : Solves(g)
    BY DEF sums
  <2> HIDE DEF Solves, sums
  <2>3. Solves(sums)
    BY <2>1, <2>2, Zenon
  <2>4. QED
    BY <2>3 DEF Solves
<1>8. Sums(list) = sums /\ Content(list) = sums[Len(list)]
  BY DEF Sums, Content
<1> HIDE DEF sums
<1>9. \A i \in N : sums[i] = Step(i, sums)
  <2> HIDE DEF Step
  <2>1. QED
    BY <1>7
<1>10. /\ sums[0] = 0
       /\ \A i \in 1 .. Len(list) : sums[i] = sums[i - 1] + list[i].size
  BY <1>1, <1>9
<1>11. \A i \in N : sums[i] \in Nat
  <2> DEFINE T == {k \in Nat : k <= Len(list) => sums[k] \in Nat}
  <2>1. 0 \in T
    BY <1>10
  <2>2. ASSUME NEW k \in Nat, k \in T PROVE k + 1 \in T
    <3>1. SUFFICES ASSUME k + 1 <= Len(list) PROVE sums[k + 1] \in Nat
      OBVIOUS
    <3>2. sums[k] \in Nat /\ k + 1 \in 1 .. Len(list) /\ list[k + 1].size \in Nat
      BY <1>1, <2>2, <3>1
    <3>3. sums[k + 1] = sums[(k + 1) - 1] + list[k + 1].size
      BY <1>10, <3>2
    <3>4. QED
      BY <3>2, <3>3
  <2> HIDE DEF T
  <2>3. Nat \subseteq T
    BY <2>1, <2>2, SetInduction
  <2>4. QED
    BY <2>3, <1>1 DEF T
<1>12. QED
  BY <1>8, <1>10, <1>11

\* The sums grow, and by every size.
LEMMA SumsGrow ==
    ASSUME NEW list \in Seq(Entries), NEW i \in 0 .. Len(list), NEW j \in 0 .. Len(list), i <= j
    PROVE  /\ Sums(list)[i] <= Sums(list)[j]
           /\ \A k \in i + 1 .. j : Sums(list)[i] + list[k].size <= Sums(list)[j]
<1>1. PICK sums : sums = Sums(list)
  OBVIOUS
<1>2. /\ \A k \in 1 .. Len(list) : sums[k] = sums[k - 1] + list[k].size
      /\ \A k \in 0 .. Len(list) : sums[k] \in Nat
  BY <1>1, SumsAre
<1>3. Len(list) \in Nat /\ \A k \in 1 .. Len(list) : list[k].size \in Nat
  <2>1. Len(list) \in Nat /\ \A k \in 1 .. Len(list) : list[k] \in Entries
    BY LenProperties, ElementOfSeq
  <2>2. QED
    BY <2>1 DEF Entries
<1> DEFINE Right(d) == /\ sums[i] <= sums[i + d]
                       /\ \A k \in i + 1 .. i + d : sums[i] + list[k].size <= sums[i + d]
           T == {d \in Nat : i + d <= Len(list) => Right(d)}
<1>4. 0 \in T
  BY <1>2
<1>5. ASSUME NEW d \in Nat, d \in T PROVE d + 1 \in T
  <2>1. SUFFICES ASSUME i + (d + 1) <= Len(list) PROVE Right(d + 1)
    OBVIOUS
  <2>2. PICK m : m = i + d
    OBVIOUS
  <2>3. /\ m \in 0 .. Len(list) /\ m + 1 \in 1 .. Len(list) /\ (m + 1) - 1 = m
        /\ i + (d + 1) = m + 1 /\ m \in Nat
    BY <1>3, <2>1, <2>2
  <2>4. /\ sums[i] <= sums[m]
        /\ \A k \in i + 1 .. m : sums[i] + list[k].size <= sums[m]
    BY <1>5, <2>1, <2>2, <2>3
  <2>5. sums[m + 1] = sums[m] + list[m + 1].size /\ sums[m] \in Nat /\ list[m + 1].size \in Nat /\ sums[i] \in Nat
    BY <1>2, <1>3, <2>3
  <2>6. sums[i] <= sums[m + 1]
    BY <2>4, <2>5
  <2>7. ASSUME NEW k \in i + 1 .. m + 1 PROVE sums[i] + list[k].size <= sums[m + 1]
    <3>1. CASE k = m + 1
      BY <2>4, <2>5, <3>1
    <3>2. CASE k # m + 1
      <4>1. k \in i + 1 .. m /\ k \in 1 .. Len(list)
        BY <2>3, <3>2
      <4>2. list[k].size \in Nat
        BY <1>3, <4>1
      <4>3. QED
        BY <2>4, <2>5, <4>1, <4>2
    <3>3. QED
      BY <3>1, <3>2
  <2>8. QED
    BY <2>3, <2>6, <2>7
<1>6. Nat \subseteq T
  <2> HIDE DEF T
  <2>1. QED
    BY <1>4, <1>5, SetInduction
<1>7. j - i \in Nat /\ i + (j - i) = j
  OBVIOUS
<1>8. j - i \in T
  BY <1>6, <1>7
<1>9. QED
  BY <1>1, <1>7, <1>8

-----------------------------------------------------------------------------
(* The two sides, events and clients.                                        *)

LEMMA TwoSides ==
    /\ Sides = {"sender", "receiver"} /\ "sender" # "receiver"
    /\ Other("sender") = "receiver" /\ Other("receiver") = "sender"
  BY DEF Sides, Other

\* What is told of an event when its state is set.
LEMMA ToldEvent ==
    ASSUME NEW e \in Events, NEW st \in EventStates
    PROVE  LET f == Told([e EXCEPT !.state = st])
           IN  /\ f \in Events /\ f.state = st /\ f.told = st
               /\ f.size = e.size /\ f.pos = e.pos /\ f.currFile = e.currFile
               /\ f.totalSize = e.totalSize /\ f.totalFiles = e.totalFiles /\ f.totalPos = e.totalPos
  BY DEF Events, Told

LEMMA ToldTyped ==
    ASSUME NEW e \in Events
    PROVE  /\ Told(e) \in Events /\ Told(e).state = e.state /\ Told(e).told = e.state
           /\ Told(e).size = e.size /\ Told(e).pos = e.pos /\ Told(e).currFile = e.currFile
           /\ Told(e).totalSize = e.totalSize /\ Told(e).totalFiles = e.totalFiles
           /\ Told(e).totalPos = e.totalPos
  BY DEF Events, Told

LEMMA NoClientTyped ==
    /\ NoClient \in Clients /\ NoClient.m_state = "NONE" /\ NoClient.m_socket = "ZERO"
    /\ ~NoClient.m_continue /\ ~NoClient.m_more /\ ~NoClient.m_msgqueue
  BY DEF NoClient, Client, Clients, ClientStates, Sockets

LEMMA NewClientTyped ==
    ASSUME NEW st \in ClientStates, NEW so \in Sockets
    PROVE  /\ Client(st, so) \in Clients /\ Client(st, so).m_state = st /\ Client(st, so).m_socket = so
           /\ ~Client(st, so).m_continue /\ ~Client(st, so).m_more
  BY DEF Client, Clients

-----------------------------------------------------------------------------
(* Requests.                                                                 *)

SameCounts ==
    \A s \in Sides : /\ ev'[s].size = ev[s].size /\ ev'[s].pos = ev[s].pos
                     /\ ev'[s].currFile = ev[s].currFile /\ ev'[s].totalPos = ev[s].totalPos
                     /\ ev'[s].totalSize = ev[s].totalSize /\ ev'[s].totalFiles = ev[s].totalFiles

\* The event of side s gets the state st, and the application is told.
Tells(s, st) ==
    /\ ev' \in [Sides -> Events]
    /\ ev'[s].state = st /\ ev'[s].told = st
    /\ ev'[Other(s)] = ev[Other(s)]
    /\ SameCounts

LEMMA TellsStep ==
    ASSUME CoreOK, NEW s \in Sides, NEW st \in EventStates,
           ev' = [ev EXCEPT ![s] = Told([ev[s] EXCEPT !.state = st])]
    PROVE  Tells(s, st)
<1>1. ev \in [Sides -> Events]
  BY DEF CoreOK
<1>2. PICK f : f = Told([ev[s] EXCEPT !.state = st])
  OBVIOUS
<1>3. /\ f \in Events /\ f.state = st /\ f.told = st
      /\ f.size = ev[s].size /\ f.pos = ev[s].pos /\ f.currFile = ev[s].currFile
      /\ f.totalSize = ev[s].totalSize /\ f.totalFiles = ev[s].totalFiles /\ f.totalPos = ev[s].totalPos
  BY <1>1, <1>2, ToldEvent
<1>4. ev' = [ev EXCEPT ![s] = f]
  BY <1>2
<1>5. s = "sender" \/ s = "receiver"
  BY TwoSides
<1>6. QED
  BY <1>1, <1>3, <1>4, <1>5, TwoSides DEF Tells, SameCounts

\* Sequences of one and two elements.
LEMMA OneTuple ==
    ASSUME NEW X, NEW x \in X
    PROVE  /\ <<x>> \in Seq(X) /\ Len(<<x>>) = 1 /\ <<x>>[1] = x /\ <<x>> # <<>>
           /\ Head(<<x>>) = x /\ Tail(<<x>>) = <<>>
           /\ Append(<<>>, x) = <<x>>
<1>1. <<x>> \in Seq(X) /\ Len(<<x>>) = 1 /\ <<x>>[1] = x /\ <<x>> # <<>>
  OBVIOUS
<1>2. Head(<<x>>) = x
  OBVIOUS
<1>3. Tail(<<x>>) = <<>>
  OBVIOUS
<1>4. Append(<<>>, x) = <<x>>
  OBVIOUS
<1>5. QED
  BY <1>1, <1>2, <1>3, <1>4

LEMMA TwoTuple ==
    ASSUME NEW X, NEW x \in X, NEW y \in X
    PROVE  /\ <<x, y>> \in Seq(X) /\ Len(<<x, y>>) = 2 /\ <<x, y>>[1] = x /\ <<x, y>>[2] = y
           /\ <<x, y>> # <<>>
           /\ Head(<<x, y>>) = x /\ Tail(<<x, y>>) = <<y>>
           /\ Append(<<x>>, y) = <<x, y>> /\ <<x>> \o <<y>> = <<x, y>>
<1>1. <<x, y>> \in Seq(X) /\ Len(<<x, y>>) = 2 /\ <<x, y>>[1] = x /\ <<x, y>>[2] = y /\ <<x, y>> # <<>>
  OBVIOUS
<1>2. Head(<<x, y>>) = x
  OBVIOUS
<1>3. Tail(<<x, y>>) = <<y>>
  OBVIOUS
<1> DEFINE one == <<x>>
           two == <<x, y>>
<1>4. Append(<<x>>, y) = <<x, y>>
  <2>1. one \in Seq(X) /\ Len(one) = 1 /\ one[1] = x /\ two \in Seq(X) /\ Len(two) = 2 /\ two[1] = x /\ two[2] = y
    BY <1>1
  <2> HIDE DEF one, two
  <2>2. /\ Append(one, y) \in Seq(X) /\ Len(Append(one, y)) = 2
        /\ Append(one, y)[1] = x /\ Append(one, y)[2] = y
    <3>1. /\ Append(one, y) \in Seq(X) /\ Len(Append(one, y)) = Len(one) + 1
          /\ \A i \in 1 .. Len(one) : Append(one, y)[i] = one[i]
          /\ Append(one, y)[Len(one) + 1] = y
      BY <2>1, AppendProperties
    <3>2. QED
      BY <2>1, <3>1
  <2>3. \A i \in 1 .. 2 : i = 1 \/ i = 2
    OBVIOUS
  <2>4. Append(one, y) = two
    BY <2>1, <2>2, <2>3, SeqEqual
  <2>5. QED
    BY <2>4 DEF one, two
<1>5. <<x>> \o <<y>> = <<x, y>>
  <2>1. one \in Seq(X)
    OBVIOUS
  <2> HIDE DEF one
  <2>2. Append(one, y) = one \o <<y>>
    BY <2>1, AppendIsConcat
  <2>3. QED
    BY <1>4, <2>2 DEF one
<1>6. QED
  BY <1>1, <1>2, <1>3, <1>4, <1>5

-----------------------------------------------------------------------------
(* Requests, answers and cancellations keep who can have a client.           *)

\* What is in a sequence when it grows or shrinks.
LEMMA MailOf ==
    ASSUME NEW q \in Seq(Messages)
    PROVE  /\ Mail(q) \subseteq Messages /\ <<>> \in Seq(Messages) /\ Mail(<<>>) = {}
           /\ q # <<>> => /\ Head(q) \in Mail(q) /\ Tail(q) \in Seq(Messages)
                          /\ Mail(Tail(q)) \subseteq Mail(q)
           /\ \A x \in Messages : Append(q, x) \in Seq(Messages) /\ Mail(Append(q, x)) \subseteq Mail(q) \cup {x}
           /\ \A r \in Seq(Messages) : q \o r \in Seq(Messages) /\ Mail(q \o r) \subseteq Mail(q) \cup Mail(r)
<1>1. DOMAIN q = 1 .. Len(q) /\ Len(q) \in Nat /\ \A i \in 1 .. Len(q) : q[i] \in Messages
  OBVIOUS
<1>2. Mail(q) \subseteq Messages
  BY <1>1 DEF Mail
<1>3. <<>> \in Seq(Messages) /\ Mail(<<>>) = {}
  BY DEF Mail
<1>4. ASSUME q # <<>> PROVE Head(q) \in Mail(q) /\ Tail(q) \in Seq(Messages) /\ Mail(Tail(q)) \subseteq Mail(q)
  <2>1. 1 \in DOMAIN q /\ Head(q) = q[1]
    BY <1>4
  <2>2. /\ Tail(q) \in Seq(Messages) /\ Len(Tail(q)) = Len(q) - 1
        /\ \A i \in 1 .. Len(Tail(q)) : Tail(q)[i] = q[i + 1]
    BY <1>4, HeadTailProperties
  <2>3. \A i \in DOMAIN Tail(q) : i + 1 \in DOMAIN q /\ Tail(q)[i] = q[i + 1]
    BY <1>1, <2>2
  <2>4. QED
    BY <2>1, <2>2, <2>3 DEF Mail
<1>5. ASSUME NEW x \in Messages PROVE Append(q, x) \in Seq(Messages) /\ Mail(Append(q, x)) \subseteq Mail(q) \cup {x}
  <2>1. /\ Append(q, x) \in Seq(Messages) /\ Len(Append(q, x)) = Len(q) + 1
        /\ \A i \in 1 .. Len(q) : Append(q, x)[i] = q[i]
        /\ Append(q, x)[Len(q) + 1] = x
    BY AppendProperties
  <2>2. \A i \in DOMAIN Append(q, x) : Append(q, x)[i] = x \/ (i \in DOMAIN q /\ Append(q, x)[i] = q[i])
    BY <1>1, <2>1
  <2>3. QED
    BY <2>1, <2>2 DEF Mail
<1>6. ASSUME NEW r \in Seq(Messages) PROVE q \o r \in Seq(Messages) /\ Mail(q \o r) \subseteq Mail(q) \cup Mail(r)
  <2>1. /\ q \o r \in Seq(Messages) /\ Len(q \o r) = Len(q) + Len(r)
        /\ \A i \in 1 .. Len(q) + Len(r) : (q \o r)[i] = IF i <= Len(q) THEN q[i] ELSE r[i - Len(q)]
    BY ConcatProperties
  <2>2. Len(r) \in Nat /\ DOMAIN r = 1 .. Len(r)
    OBVIOUS
  <2>3. \A i \in DOMAIN (q \o r) :
           \/ i \in DOMAIN q /\ (q \o r)[i] = q[i]
           \/ i - Len(q) \in DOMAIN r /\ (q \o r)[i] = r[i - Len(q)]
    BY <1>1, <2>1, <2>2
  <2>4. QED
    BY <2>1, <2>3 DEF Mail
<1>7. QED
  BY <1>2, <1>3, <1>4, <1>5, <1>6

-----------------------------------------------------------------------------
(* Requests, answers and cancellations keep who can have a client.           *)

\* Requests that are sent get new numbers.
LEMMA SendsStep ==
    ASSUME CoreOK, NEW k \in Nat, k > 0, SendPacketEvents(k)
    PROVE  /\ seq' = seq + k /\ seq' \in Nat
           /\ cached' \in [Sides -> SUBSET Nat] /\ cached'["receiver"] = cached["receiver"]
           /\ cached'["sender"] = cached["sender"] \cup (seq + 1) .. (seq + k)
           /\ control' \in [Sides -> Seq(Messages)] /\ control'["sender"] = control["sender"]
           /\ \A m \in Mail(control'["receiver"]) :
                m \in Mail(control["receiver"]) \/ (m.type = "REQUEST" /\ m.number \in (seq + 1) .. (seq + k))
<1>1. PICK r : r = [i \in 1 .. k |-> [type |-> "REQUEST", number |-> seq + i]]
  OBVIOUS
<1>2. /\ seq \in Nat /\ cached \in [Sides -> SUBSET Nat] /\ control \in [Sides -> Seq(Messages)]
  BY DEF CoreOK
<1>3. r \in Seq(Messages) /\ \A m \in Mail(r) : m.type = "REQUEST" /\ m.number \in (seq + 1) .. (seq + k)
  <2>1. \A i \in 1 .. k : r[i] \in Messages /\ r[i].type = "REQUEST" /\ r[i].number \in (seq + 1) .. (seq + k)
    BY <1>1, <1>2 DEF Messages
  <2>2. DOMAIN r = 1 .. k
    BY <1>1
  <2>3. r \in Seq(Messages)
    <3>1. r \in [1 .. k -> Messages]
      BY <1>1, <2>1
    <3>2. QED
      BY <3>1
  <2>4. QED
    BY <2>1, <2>2, <2>3 DEF Mail
<1>4. PICK q \in Seq(Messages) : q = control["receiver"]
  BY <1>2, TwoSides
<1>5. q \o r \in Seq(Messages) /\ Mail(q \o r) \subseteq Mail(q) \cup Mail(r)
  BY <1>3, MailOf
<1>6. control' = [control EXCEPT !["receiver"] = q \o r]
  BY <1>1, <1>4 DEF SendPacketEvents
<1>7. control' \in [Sides -> Seq(Messages)] /\ control'["sender"] = control["sender"] /\ control'["receiver"] = q \o r
  BY <1>2, <1>5, <1>6, TwoSides
<1>8. (seq + 1) .. (seq + k) \subseteq Nat
  BY <1>2
<1>9. cached' = [cached EXCEPT !["sender"] = cached["sender"] \cup (seq + 1) .. (seq + k)]
  BY DEF SendPacketEvents
<1>10. /\ cached' \in [Sides -> SUBSET Nat] /\ cached'["receiver"] = cached["receiver"]
       /\ cached'["sender"] = cached["sender"] \cup (seq + 1) .. (seq + k)
  BY <1>2, <1>8, <1>9, TwoSides
<1>11. seq' = seq + k /\ seq' \in Nat
  BY <1>2 DEF SendPacketEvents
<1>12. QED
  BY <1>3, <1>4, <1>5, <1>7, <1>10, <1>11

\* The answer to `asked` finds no client of the sender.
LEMMA handleIncomingFTACKKeepsRequest ==
    ASSUME RequestInv, handleIncomingFTACK
    PROVE  RequestInv'
<1>1. CoreOK /\ ControlInv /\ ClientsInv /\ EventInv /\ CacheInv /\ EndedIsToldAndGone
  BY DEF RequestInv
<1>2. UNCHANGED <<sent, direct, answered, seq, asked, queued, aside, m_files, ftc, data, stored, undefined>>
  BY DEF handleIncomingFTACK, requestVars, askVars, askedVars
<1>3. PICK q \in Seq(Messages) : q = control["sender"] /\ q # <<>>
  BY <1>1, TwoSides DEF handleIncomingFTACK, CoreOK
<1>4. PICK answer : answer = Head(q)
  OBVIOUS
<1>5. answer \in Mail(q) /\ answer \in Messages /\ Tail(q) \in Seq(Messages) /\ Mail(Tail(q)) \subseteq Mail(q)
  BY <1>3, <1>4, MailOf
<1>6. /\ control' \in [Sides -> Seq(Messages)] /\ control'["sender"] = Tail(q)
      /\ control'["receiver"] = control["receiver"]
  BY <1>1, <1>3, <1>5, TwoSides DEF handleIncomingFTACK, CoreOK
<1>7. ControlInv'
  <2>1. \A m \in Mail(control'["sender"]) : m \in Mail(control["sender"])
    BY <1>3, <1>5, <1>6
  <2>2. QED
    BY <1>1, <1>2, <1>6, <2>1 DEF ControlInv
<1>8. CASE answer.number \in cached["sender"] /\ direct
  <2>1. PICK st : st = IF answer.type = "ACCEPT" THEN "ACCEPTED" ELSE "REJECTED"
    OBVIOUS
  <2>2. ev' = [ev EXCEPT !["sender"] = Told([ev["sender"] EXCEPT !.state = st])]
    BY <1>3, <1>4, <1>8, <2>1 DEF handleIncomingFTACK
  <2>3. Tells("sender", st)
    BY <1>1, <2>1, <2>2, TellsStep, TwoSides DEF EventStates
  <2>4. /\ ev' \in [Sides -> Events] /\ ev'["sender"].state = st /\ ev'["sender"].told = st
        /\ ev'["receiver"] = ev["receiver"]
    BY <2>3, TwoSides DEF Tells
  <2>5. cached' = [cached EXCEPT !["sender"] = cached["sender"] \ {answer.number}]
    BY <1>3, <1>4, <1>8 DEF handleIncomingFTACK
  <2>6. /\ cached' \in [Sides -> SUBSET Nat] /\ cached'["sender"] = cached["sender"] \ {answer.number}
        /\ cached'["receiver"] = cached["receiver"]
    BY <1>1, <2>5, TwoSides DEF CoreOK
  <2>7. CoreOK'
    BY <1>1, <1>2, <1>6, <2>4, <2>6 DEF CoreOK
  <2>8. st = "ACCEPTED" => answered /\ answer.number = asked /\ ~Alive("sender")
    BY <1>1, <1>3, <1>5, <1>8, <2>1 DEF ControlInv, CacheInv
  <2>9. CacheInv'
    BY <1>1, <1>2, <2>4, <2>6, <2>8 DEF CacheInv, Alive
  <2>10. st \in {"ACCEPTED", "REJECTED"}
    BY <2>1
  <2>11. ClientsInv' /\ EventInv' /\ EndedIsToldAndGone'
    BY <1>1, <1>2, <1>8, <2>4, <2>8, <2>10, TwoSides
    DEF ClientsInv, EventInv, EndedIsToldAndGone, Alive, Asking, Receiver, Ended
  <2>12. QED
    BY <1>7, <2>7, <2>9, <2>11 DEF RequestInv
<1>9. CASE ~(answer.number \in cached["sender"] /\ direct)
  <2>1. ev' = ev /\ cached' = cached
    BY <1>3, <1>4, <1>9 DEF handleIncomingFTACK
  <2>2. CoreOK'
    BY <1>1, <1>2, <1>6, <2>1 DEF CoreOK
  <2>3. CacheInv' /\ ClientsInv' /\ EventInv' /\ EndedIsToldAndGone'
    BY <1>1, <1>2, <2>1, TwoSides
    DEF CacheInv, ClientsInv, EventInv, EndedIsToldAndGone, Alive, Receiver
  <2>4. QED
    BY <1>7, <2>2, <2>3 DEF RequestInv
<1>10. QED
  BY <1>8, <1>9

\* The event of the sender when a request is made.
LEMMA AsksStep ==
    ASSUME CoreOK, SendRequest
    PROVE  /\ ev' \in [Sides -> Events] /\ ev'["receiver"] = ev["receiver"]
           /\ ev'["sender"].state = "WAIT_RESPONS" /\ ev'["sender"].currFile = 0
           /\ ev'["sender"].totalSize = Content(sent) /\ ev'["sender"].totalFiles = Len(sent)
           /\ ev'["sender"].size = ev["sender"].size /\ ev'["sender"].pos = ev["sender"].pos
<1>1. m_files = sent
  BY DEF SendRequest
<1>2. Content(m_files) \in Nat /\ Len(m_files) \in Nat
  <2>1. m_files \in Seq(Entries)
    BY DEF CoreOK, Entries
  <2>2. Len(m_files) \in 0 .. Len(m_files)
    BY <2>1, LenProperties
  <2>3. QED
    BY <2>1, <2>2, SumsAre
<1>3. PICK size \in Nat, files \in Nat : size = Content(m_files) /\ files = Len(m_files)
  BY <1>2
<1>4. PICK x \in Events : x = ev["sender"]
  BY TwoSides DEF CoreOK
<1>5. PICK y : y = [x EXCEPT !.state = "WAIT_RESPONS", !.totalSize = size, !.totalFiles = files, !.currFile = 0]
  OBVIOUS
<1>6. /\ y \in Events /\ y.state = "WAIT_RESPONS" /\ y.totalSize = size /\ y.totalFiles = files
      /\ y.currFile = 0 /\ y.size = x.size /\ y.pos = x.pos
  BY <1>3, <1>4, <1>5 DEF Events, EventStates
<1>7. PICK z : z = Told(y)
  OBVIOUS
<1>8. /\ z \in Events /\ z.state = "WAIT_RESPONS" /\ z.totalSize = size /\ z.totalFiles = files
      /\ z.currFile = 0 /\ z.size = x.size /\ z.pos = x.pos
  BY <1>6, <1>7, ToldTyped
<1>9. ev \in [Sides -> Events] /\ ev' = [ev EXCEPT !["sender"] = z]
  BY <1>3, <1>4, <1>5, <1>7 DEF SendRequest, CoreOK
<1>10. QED
  BY <1>1, <1>3, <1>4, <1>8, <1>9, TwoSides

LEMMA SendRequestKeepsRequest ==
    ASSUME RequestInv, SendRequest
    PROVE  RequestInv' /\ cached["sender"] \subseteq cached'["sender"]
           /\ (asked \in cached'["sender"] => asked \in cached["sender"])
<1>1. CoreOK /\ ControlInv /\ ClientsInv /\ EventInv /\ CacheInv /\ EndedIsToldAndGone
  BY DEF RequestInv
<1>2. /\ UNCHANGED <<sent, direct>> /\ UNCHANGED <<answered, asked, aside, m_files, ftc, data, stored, undefined>>
  BY DEF SendRequest, askedVars
<1>3. ev["sender"].state = "NOT_CONNECTED"
  BY DEF SendRequest
<1>4. /\ ev' \in [Sides -> Events] /\ ev'["sender"].state = "WAIT_RESPONS"
      /\ ev'["receiver"] = ev["receiver"]
  BY <1>1, AsksStep
<1>5. PICK k \in {0, 1} :
        /\ seq' = seq + k /\ seq' \in Nat /\ queued' \in Nat
        /\ cached' \in [Sides -> SUBSET Nat] /\ cached'["receiver"] = cached["receiver"]
        /\ cached'["sender"] = cached["sender"] \cup (seq + 1) .. (seq + k)
        /\ control' \in [Sides -> Seq(Messages)] /\ control'["sender"] = control["sender"]
        /\ \A m \in Mail(control'["receiver"]) :
             m \in Mail(control["receiver"]) \/ (m.type = "REQUEST" /\ m.number \in (seq + 1) .. (seq + k))
  <2>1. seq \in Nat /\ queued \in Nat
    BY <1>1 DEF CoreOK
  <2>2. CASE queued' = queued + 1 /\ UNCHANGED <<seq, cached, control>>
    <3>1. (seq + 1) .. (seq + 0) = {} /\ seq + 0 = seq /\ queued' \in Nat
      BY <2>1, <2>2
    <3>2. QED
      BY <1>1, <2>1, <2>2, <3>1 DEF CoreOK
  <2>3. CASE SendPacketEvents(1) /\ UNCHANGED queued
    <3>1. 1 \in Nat /\ 1 > 0
      OBVIOUS
    <3>2. QED
      BY <1>1, <2>1, <2>3, <3>1, SendsStep
  <2>4. QED
    BY <2>2, <2>3 DEF SendRequest
<1>6. CoreOK'
  BY <1>1, <1>2, <1>4, <1>5 DEF CoreOK
<1>7. seq \in Nat /\ asked \in Nat
  BY <1>1 DEF CoreOK
<1>8. ControlInv'
  <2>1. \A m \in Mail(control["receiver"]) : m \in Messages
    BY <1>1, TwoSides, MailOf DEF CoreOK
  <2>2. \A m \in Mail(control'["receiver"]) :
          m.number <= seq' /\ (m.type = "REQUEST" => m.number # 0) /\ (m.type = "CANCEL" => direct)
    BY <1>1, <1>5, <1>7, <2>1 DEF ControlInv, Messages
  <2>3. QED
    BY <1>1, <1>2, <1>5, <2>2 DEF ControlInv
<1>9. CacheInv' /\ (asked \in cached'["sender"] => asked \in cached["sender"])
  <2>1. asked \in cached'["sender"] => asked \in cached["sender"]
    BY <1>1, <1>5, <1>7 DEF CacheInv
  <2>2. asked' <= seq' /\ cached'["sender"] \subseteq 1 .. seq'
    BY <1>1, <1>2, <1>5, <1>7 DEF CacheInv
  <2>3. QED
    BY <1>1, <1>2, <1>4, <1>5, <2>1, <2>2 DEF CacheInv, Alive
<1>10. ClientsInv' /\ EventInv' /\ EndedIsToldAndGone'
  BY <1>1, <1>2, <1>3, <1>4, TwoSides
  DEF ClientsInv, EventInv, EndedIsToldAndGone, Alive, Asking, Receiver, Ended
<1>11. QED
  BY <1>5, <1>6, <1>8, <1>9, <1>10 DEF RequestInv

LEMMA flush_queueKeepsRequest ==
    ASSUME RequestInv, flush_queue
    PROVE  RequestInv' /\ (asked \in cached'["sender"] => asked \in cached["sender"])
<1>1. CoreOK /\ ControlInv /\ ClientsInv /\ EventInv /\ CacheInv /\ EndedIsToldAndGone
  BY DEF RequestInv
<1>2. UNCHANGED <<sent, direct>> /\ UNCHANGED <<answered, asked, aside, m_files, ev, ftc, data, stored, undefined>>
  BY DEF flush_queue, askedVars
<1>3. queued \in Nat /\ queued > 0 /\ queued' = 0 /\ seq \in Nat /\ asked \in Nat
  BY <1>1 DEF flush_queue, CoreOK
<1>4. /\ seq' = seq + queued /\ seq' \in Nat
      /\ cached' \in [Sides -> SUBSET Nat] /\ cached'["receiver"] = cached["receiver"]
      /\ cached'["sender"] = cached["sender"] \cup (seq + 1) .. (seq + queued)
      /\ control' \in [Sides -> Seq(Messages)] /\ control'["sender"] = control["sender"]
      /\ \A m \in Mail(control'["receiver"]) :
           m \in Mail(control["receiver"]) \/ (m.type = "REQUEST" /\ m.number \in (seq + 1) .. (seq + queued))
  BY <1>1, <1>3, SendsStep DEF flush_queue
<1>5. CoreOK'
  BY <1>1, <1>2, <1>3, <1>4 DEF CoreOK
<1>6. ControlInv'
  <2>1. \A m \in Mail(control["receiver"]) : m \in Messages
    BY <1>1, TwoSides, MailOf DEF CoreOK
  <2>2. \A m \in Mail(control'["receiver"]) :
          m.number <= seq' /\ (m.type = "REQUEST" => m.number # 0) /\ (m.type = "CANCEL" => direct)
    BY <1>1, <1>3, <1>4, <2>1 DEF ControlInv, Messages
  <2>3. QED
    BY <1>1, <1>2, <1>4, <2>2 DEF ControlInv
<1>7. asked \in cached'["sender"] => asked \in cached["sender"]
  BY <1>1, <1>3, <1>4 DEF CacheInv
<1>8. CacheInv'
  <2>1. asked' <= seq' /\ cached'["sender"] \subseteq 1 .. seq'
    BY <1>1, <1>2, <1>3, <1>4 DEF CacheInv
  <2>2. QED
    BY <1>1, <1>2, <1>4, <1>7, <2>1 DEF CacheInv, Alive
<1>9. ClientsInv' /\ EventInv' /\ EndedIsToldAndGone'
  BY <1>1, <1>2, TwoSides DEF ClientsInv, EventInv, EndedIsToldAndGone, Alive, Receiver
<1>10. QED
  BY <1>5, <1>6, <1>7, <1>8, <1>9 DEF RequestInv

LEMMA QueueExpiresKeepsRequest ==
    ASSUME RequestInv, QueueExpires
    PROVE  RequestInv'
<1>1. CoreOK /\ ControlInv /\ ClientsInv /\ EventInv /\ CacheInv /\ EndedIsToldAndGone
  BY DEF RequestInv
<1>2. UNCHANGED <<sent, direct>> /\ UNCHANGED <<answered, asked, aside, seq, m_files, cached, control, ftc, data, stored, undefined>>
  BY DEF QueueExpires, askedVars
<1>3. Tells("sender", "TIMEOUT")
  <2>1. ev' = [ev EXCEPT !["sender"] = Told([ev["sender"] EXCEPT !.state = "TIMEOUT"])]
    BY DEF QueueExpires
  <2>2. QED
    BY <1>1, <2>1, TellsStep, TwoSides DEF EventStates
<1>4. ev' \in [Sides -> Events] /\ ev'["sender"].state = "TIMEOUT" /\ ev'["receiver"] = ev["receiver"]
  BY <1>3, TwoSides DEF Tells
<1>5. queued' \in Nat
  BY DEF QueueExpires
<1>6. CoreOK'
  BY <1>1, <1>2, <1>4, <1>5 DEF CoreOK
<1>7. ControlInv' /\ CacheInv' /\ ClientsInv' /\ EventInv' /\ EndedIsToldAndGone'
  BY <1>1, <1>2, <1>4, TwoSides
  DEF ControlInv, CacheInv, ClientsInv, EventInv, EndedIsToldAndGone, Alive, Asking, Receiver, Ended
<1>8. QED
  BY <1>6, <1>7 DEF RequestInv

\* A request reaches the receiver: its event is new, unless it is left aside.
LEMMA IncomingStep ==
    ASSUME CoreOK, handleIncomingFT
    PROVE  /\ UNCHANGED <<direct, sent, answered, seq, queued, m_files, ftc, data, stored, undefined>>
           /\ aside' \subseteq Nat
           /\ control' \in [Sides -> Seq(Messages)] /\ control'["sender"] = control["sender"]
           /\ Mail(control'["receiver"]) \subseteq Mail(control["receiver"])
           /\ \E m \in Mail(control["receiver"]) :
                /\ m \in Messages /\ m.type = "REQUEST"
                /\ \/ /\ ~answered /\ asked' = m.number
                      /\ ev' \in [Sides -> Events] /\ ev'["sender"] = ev["sender"]
                      /\ ev'["receiver"].state = "NOT_CONNECTED" /\ ev'["receiver"].currFile = 0
                      /\ ev'["receiver"].totalPos = 0 /\ ev'["receiver"].totalSize = ev["sender"].totalSize
                      /\ cached' \in [Sides -> SUBSET Nat] /\ cached'["sender"] = cached["sender"]
                      /\ cached'["receiver"] = {m.number}
                   \/ UNCHANGED <<asked, ev, cached>>
<1>1. UNCHANGED <<direct, sent, answered, seq, queued, m_files, ftc, data, stored, undefined>>
  BY DEF handleIncomingFT, askVars
<1>2. PICK q \in Seq(Messages) : q = control["receiver"] /\ q # <<>>
  BY TwoSides DEF handleIncomingFT, CoreOK
<1>3. PICK m : m = Head(q)
  OBVIOUS
<1>4. m \in Mail(q) /\ m \in Messages /\ Tail(q) \in Seq(Messages) /\ Mail(Tail(q)) \subseteq Mail(q) /\ m.number \in Nat
  <2>1. m \in Mail(q) /\ m \in Messages /\ Tail(q) \in Seq(Messages) /\ Mail(Tail(q)) \subseteq Mail(q)
    BY <1>2, <1>3, MailOf
  <2>2. QED
    BY <2>1 DEF Messages
<1>5. /\ control' \in [Sides -> Seq(Messages)] /\ control'["receiver"] = Tail(q)
      /\ control'["sender"] = control["sender"] /\ m.type = "REQUEST"
  BY <1>2, <1>3, <1>4, TwoSides DEF handleIncomingFT, CoreOK
<1>6. ev["sender"].totalSize \in Nat
  BY TwoSides DEF CoreOK, Events
<1>7. PICK e : e = [Event("NOT_CONNECTED", 0) EXCEPT !.totalSize = ev["sender"].totalSize]
  OBVIOUS
<1>8. /\ e \in Events /\ e.state = "NOT_CONNECTED" /\ e.currFile = 0 /\ e.totalPos = 0
      /\ e.totalSize = ev["sender"].totalSize
  BY <1>6, <1>7 DEF Event, Events, EventStates
<1>9. \/ /\ ~answered /\ asked' = m.number /\ ev' = [ev EXCEPT !["receiver"] = e]
         /\ cached' = [cached EXCEPT !["receiver"] = {m.number}]
      \/ UNCHANGED <<asked, ev, cached>>
  BY <1>2, <1>3, <1>7 DEF handleIncomingFT
<1>12. aside' \subseteq Nat
  <2>1. aside' \subseteq aside \cup {asked, m.number}
    BY <1>2, <1>3 DEF handleIncomingFT
  <2>2. QED
    BY <1>4, <2>1 DEF CoreOK
<1>10. ASSUME ~answered, asked' = m.number, ev' = [ev EXCEPT !["receiver"] = e],
              cached' = [cached EXCEPT !["receiver"] = {m.number}]
       PROVE  /\ ev' \in [Sides -> Events] /\ ev'["sender"] = ev["sender"] /\ ev'["receiver"] = e
              /\ cached' \in [Sides -> SUBSET Nat] /\ cached'["sender"] = cached["sender"]
              /\ cached'["receiver"] = {m.number}
  BY <1>4, <1>8, <1>10, TwoSides DEF CoreOK
<1>11. QED
  BY <1>1, <1>2, <1>4, <1>5, <1>8, <1>9, <1>10, <1>12

LEMMA handleIncomingFTKeepsRequest ==
    ASSUME RequestInv, handleIncomingFT
    PROVE  RequestInv'
<1>1. CoreOK /\ ControlInv /\ ClientsInv /\ EventInv /\ CacheInv /\ EndedIsToldAndGone
  BY DEF RequestInv
<1>2. /\ UNCHANGED <<sent, direct>> /\ UNCHANGED <<answered, seq, queued, m_files, ftc, data, stored, undefined>>
      /\ aside' \subseteq Nat
      /\ control' \in [Sides -> Seq(Messages)] /\ control'["sender"] = control["sender"]
      /\ Mail(control'["receiver"]) \subseteq Mail(control["receiver"])
  BY <1>1, IncomingStep
<1>3. PICK m \in Mail(control["receiver"]) :
        /\ m \in Messages /\ m.type = "REQUEST"
        /\ \/ /\ ~answered /\ asked' = m.number
              /\ ev' \in [Sides -> Events] /\ ev'["sender"] = ev["sender"]
              /\ ev'["receiver"].state = "NOT_CONNECTED"
              /\ cached' \in [Sides -> SUBSET Nat] /\ cached'["sender"] = cached["sender"]
              /\ cached'["receiver"] = {m.number}
           \/ UNCHANGED <<asked, ev, cached>>
  BY <1>1, IncomingStep
<1>4. CASE /\ ~answered /\ asked' = m.number
           /\ ev' \in [Sides -> Events] /\ ev'["sender"] = ev["sender"]
           /\ ev'["receiver"].state = "NOT_CONNECTED"
           /\ cached' \in [Sides -> SUBSET Nat] /\ cached'["sender"] = cached["sender"]
           /\ cached'["receiver"] = {m.number}
  <2>1. m.number \in Nat /\ m.number <= seq
    BY <1>1, <1>3 DEF ControlInv, Messages
  <2>2. CoreOK'
    BY <1>1, <1>2, <1>4, <2>1 DEF CoreOK
  <2>3. \A x \in Mail(control["sender"]) : x.type # "ACCEPT"
    BY <1>1, <1>4 DEF ControlInv
  <2>4. ControlInv'
    BY <1>1, <1>2, <2>3 DEF ControlInv
  <2>5. ~Alive("sender") /\ ~Alive("receiver") /\ ev["sender"].state # "ACCEPTED"
    BY <1>1, <1>4, TwoSides DEF ClientsInv, Asking
  <2>6. CacheInv'
    BY <1>1, <1>2, <1>4, <2>1, <2>5 DEF CacheInv, Alive
  <2>7. ClientsInv' /\ EventInv' /\ EndedIsToldAndGone'
    BY <1>1, <1>2, <1>4, TwoSides
    DEF ClientsInv, EventInv, EndedIsToldAndGone, Alive, Asking, Asked, Receiver, Ended
  <2>8. QED
    BY <2>2, <2>4, <2>6, <2>7 DEF RequestInv
<1>5. CASE UNCHANGED <<asked, ev, cached>>
  <2>1. CoreOK'
    BY <1>1, <1>2, <1>5 DEF CoreOK
  <2>2. ControlInv' /\ CacheInv' /\ ClientsInv' /\ EventInv' /\ EndedIsToldAndGone'
    BY <1>1, <1>2, <1>5, TwoSides
    DEF ControlInv, CacheInv, ClientsInv, EventInv, EndedIsToldAndGone, Alive, Receiver
  <2>3. QED
    BY <2>1, <2>2 DEF RequestInv
<1>6. QED
  BY <1>3, <1>4, <1>5

\* A cancellation takes its message.
LEMMA CancelArrives ==
    ASSUME CoreOK, ControlInv, handleIncomingFTCancel
    PROVE  /\ direct
           /\ UNCHANGED <<sent, direct, answered, seq, asked, queued, aside, m_files, ftc, data, stored, undefined>>
           /\ control' \in [Sides -> Seq(Messages)] /\ control'["sender"] = control["sender"]
           /\ Mail(control'["receiver"]) \subseteq Mail(control["receiver"])
           /\ \/ /\ cached["receiver"] # {} /\ Tells("receiver", "CANCELLED")
                 /\ cached' \in [Sides -> SUBSET Nat] /\ cached'["sender"] = cached["sender"]
                 /\ \E n \in cached["receiver"] : cached'["receiver"] = cached["receiver"] \ {n}
              \/ UNCHANGED <<ev, cached>>
<1>1. UNCHANGED <<sent, direct, answered, seq, asked, queued, aside, m_files, ftc, data, stored, undefined>>
  BY DEF handleIncomingFTCancel, requestVars, askVars, askedVars
<1>2. PICK q \in Seq(Messages) : q = control["receiver"] /\ q # <<>>
  BY TwoSides DEF handleIncomingFTCancel, CoreOK
<1>3. PICK m : m = Head(q)
  OBVIOUS
<1>4. m \in Mail(q) /\ m \in Messages /\ Tail(q) \in Seq(Messages) /\ Mail(Tail(q)) \subseteq Mail(q) /\ m.number \in Nat
  <2>1. m \in Mail(q) /\ m \in Messages /\ Tail(q) \in Seq(Messages) /\ Mail(Tail(q)) \subseteq Mail(q)
    BY <1>2, <1>3, MailOf
  <2>2. QED
    BY <2>1 DEF Messages
<1>5. /\ control' \in [Sides -> Seq(Messages)] /\ control'["receiver"] = Tail(q)
      /\ control'["sender"] = control["sender"] /\ m.type = "CANCEL"
  BY <1>2, <1>3, <1>4, TwoSides DEF handleIncomingFTCancel, CoreOK
<1>6. direct
  BY <1>2, <1>4, <1>5 DEF ControlInv
<1>7. \/ /\ m.number \in cached["receiver"]
         /\ ev' = [ev EXCEPT !["receiver"] = Told([ev["receiver"] EXCEPT !.state = "CANCELLED"])]
         /\ cached' = [cached EXCEPT !["receiver"] = cached["receiver"] \ {m.number}]
      \/ UNCHANGED <<ev, cached>>
  BY <1>2, <1>3 DEF handleIncomingFTCancel
<1>8. ASSUME m.number \in cached["receiver"],
             ev' = [ev EXCEPT !["receiver"] = Told([ev["receiver"] EXCEPT !.state = "CANCELLED"])],
             cached' = [cached EXCEPT !["receiver"] = cached["receiver"] \ {m.number}]
      PROVE  /\ cached["receiver"] # {} /\ Tells("receiver", "CANCELLED")
             /\ cached' \in [Sides -> SUBSET Nat] /\ cached'["sender"] = cached["sender"]
             /\ cached'["receiver"] = cached["receiver"] \ {m.number}
  <2>1. Tells("receiver", "CANCELLED")
    BY <1>8, TellsStep, TwoSides DEF EventStates
  <2>2. QED
    BY <1>8, <2>1, TwoSides DEF CoreOK
<1>9. QED
  BY <1>1, <1>2, <1>4, <1>5, <1>6, <1>7, <1>8

\* A cancellation finds the event cached only before the answer was given.
LEMMA handleIncomingFTCancelKeepsRequest ==
    ASSUME RequestInv, handleIncomingFTCancel
    PROVE  RequestInv'
<1>1. CoreOK /\ ControlInv /\ ClientsInv /\ EventInv /\ CacheInv /\ EndedIsToldAndGone
  BY DEF RequestInv
<1>2. UNCHANGED <<sent, direct, answered, seq, asked, queued, aside, m_files, ftc, data, stored, undefined>>
  BY DEF handleIncomingFTCancel, requestVars, askVars, askedVars
<1>3. /\ direct
      /\ control' \in [Sides -> Seq(Messages)] /\ control'["sender"] = control["sender"]
      /\ Mail(control'["receiver"]) \subseteq Mail(control["receiver"])
  BY <1>1, CancelArrives
<1>4. \/ /\ cached["receiver"] # {} /\ Tells("receiver", "CANCELLED")
         /\ cached' \in [Sides -> SUBSET Nat] /\ cached'["sender"] = cached["sender"]
         /\ \E n \in cached["receiver"] : cached'["receiver"] = cached["receiver"] \ {n}
      \/ UNCHANGED <<ev, cached>>
  BY <1>1, CancelArrives
<1>5. CASE UNCHANGED <<ev, cached>>
  <2>1. CoreOK'
    BY <1>1, <1>2, <1>3, <1>5 DEF CoreOK
  <2>2. ControlInv' /\ CacheInv' /\ ClientsInv' /\ EventInv' /\ EndedIsToldAndGone'
    BY <1>1, <1>2, <1>3, <1>5, TwoSides
    DEF ControlInv, CacheInv, ClientsInv, EventInv, EndedIsToldAndGone, Alive, Receiver
  <2>3. QED
    BY <2>1, <2>2 DEF RequestInv
<1>6. CASE /\ cached["receiver"] # {} /\ Tells("receiver", "CANCELLED")
           /\ cached' \in [Sides -> SUBSET Nat] /\ cached'["sender"] = cached["sender"]
           /\ \E n \in cached["receiver"] : cached'["receiver"] = cached["receiver"] \ {n}
  <2>1. /\ ev' \in [Sides -> Events] /\ ev'["receiver"].state = "CANCELLED" /\ ev'["receiver"].told = "CANCELLED"
        /\ ev'["sender"] = ev["sender"]
    BY <1>6, TwoSides DEF Tells
  <2>2. CoreOK'
    BY <1>1, <1>2, <1>3, <1>6, <2>1 DEF CoreOK
  <2>3. ControlInv'
    BY <1>1, <1>2, <1>3 DEF ControlInv
  <2>4. ~Alive("receiver") /\ ev["receiver"].state # "NONE" /\ cached["receiver"] \subseteq {asked}
    BY <1>1, <1>3, <1>6 DEF CacheInv
  <2>5. CacheInv'
    <3>1. cached'["receiver"] = {}
      BY <1>6, <2>4
    <3>2. QED
      BY <1>1, <1>2, <1>6, <2>1, <3>1 DEF CacheInv, Alive
  <2>6. ClientsInv' /\ EventInv' /\ EndedIsToldAndGone'
    BY <1>1, <1>2, <1>3, <2>1, <2>4, TwoSides
    DEF ClientsInv, EventInv, EndedIsToldAndGone, Alive, Asking, Asked, Receiver, Ended
  <2>7. QED
    BY <2>2, <2>3, <2>5, <2>6 DEF RequestInv
<1>7. QED
  BY <1>4, <1>5, <1>6

\* The answer is given once, and the client it creates is the only one of the
\* receiver.
LEMMA SendFileTransferACKKeepsRequest ==
    ASSUME RequestInv, SendFileTransferACK
    PROVE  RequestInv'
<1>1. CoreOK /\ ControlInv /\ ClientsInv /\ EventInv /\ CacheInv /\ EndedIsToldAndGone
  BY DEF RequestInv
<1>2. UNCHANGED <<sent, direct, seq, asked, queued, aside, m_files, data, stored, undefined>> /\ answered' = TRUE
  BY DEF SendFileTransferACK, askVars
<1>3. /\ ev["receiver"].state \in {"NOT_CONNECTED", "TIMEOUT"} /\ ~answered
      /\ cached' = [cached EXCEPT !["receiver"] = IF direct THEN {} ELSE cached["receiver"]]
  BY DEF SendFileTransferACK
<1>4. PICK accept \in BOOLEAN, socket \in Unset :
         /\ ftc' = IF accept
                   THEN [ftc EXCEPT !["receiver"] = Client("WAITING_FOR_INIT", socket)]
                   ELSE ftc
         /\ control' = [control EXCEPT !["sender"] =
                          Append(control["sender"], [type |-> IF accept THEN "ACCEPT" ELSE "DENY", number |-> asked])]
         /\ ev' = [ev EXCEPT !["receiver"] =
                     Told([ev["receiver"] EXCEPT !.state = IF accept THEN "RECEIVE" ELSE "NOT_CONNECTED"])]
  BY DEF SendFileTransferACK
<1>5. PICK m : m = [type |-> IF accept THEN "ACCEPT" ELSE "DENY", number |-> asked]
  OBVIOUS
<1>6. PICK st : st = IF accept THEN "RECEIVE" ELSE "NOT_CONNECTED"
  OBVIOUS
<1>7. /\ control' \in [Sides -> Seq(Messages)] /\ Mail(control'["sender"]) \subseteq Mail(control["sender"]) \cup {m}
      /\ control'["receiver"] = control["receiver"] /\ m.number = asked
  <2>1. m \in Messages /\ m.number = asked
    BY <1>1, <1>5 DEF CoreOK, Messages
  <2>2. PICK q \in Seq(Messages) : q = control["sender"]
    BY <1>1, TwoSides DEF CoreOK
  <2>3. Append(q, m) \in Seq(Messages) /\ Mail(Append(q, m)) \subseteq Mail(q) \cup {m}
    BY <2>1, <2>2, MailOf
  <2>4. control' = [control EXCEPT !["sender"] = Append(q, m)]
    BY <1>4, <1>5, <2>2
  <2>5. control' \in [Sides -> Seq(Messages)] /\ control'["sender"] = Append(q, m) /\ control'["receiver"] = control["receiver"]
    BY <1>1, <2>3, <2>4, TwoSides DEF CoreOK
  <2>6. QED
    BY <2>1, <2>2, <2>3, <2>5
<1>8. /\ ev' \in [Sides -> Events] /\ ev'["receiver"].state = st /\ ev'["sender"] = ev["sender"]
  <2>1. st \in EventStates
    BY <1>6 DEF EventStates
  <2>2. ev' = [ev EXCEPT !["receiver"] = Told([ev["receiver"] EXCEPT !.state = st])]
    BY <1>4, <1>6
  <2>3. Tells("receiver", st)
    BY <1>1, <2>1, <2>2, TellsStep, TwoSides
  <2>4. QED
    BY <2>3, TwoSides DEF Tells
<1>9. /\ ftc' \in [Sides -> Clients] /\ ftc'["sender"] = ftc["sender"]
      /\ IF accept THEN ftc'["receiver"].m_state = "WAITING_FOR_INIT" /\ ftc'["receiver"].m_socket # "CONNECTED"
                   ELSE ftc'["receiver"] = ftc["receiver"]
  <2>1. ftc \in [Sides -> Clients]
    BY <1>1 DEF CoreOK
  <2>2. PICK c : c = Client("WAITING_FOR_INIT", socket)
    OBVIOUS
  <2>3. c \in Clients /\ c.m_state = "WAITING_FOR_INIT" /\ c.m_socket # "CONNECTED"
    BY <2>2, NewClientTyped DEF ClientStates, Sockets, Unset
  <2>4. QED
    BY <1>4, <2>1, <2>2, <2>3, TwoSides
<1>10. /\ cached' \in [Sides -> SUBSET Nat] /\ cached'["sender"] = cached["sender"]
       /\ cached'["receiver"] \subseteq cached["receiver"] /\ (direct => cached'["receiver"] = {})
  BY <1>1, <1>3, TwoSides DEF CoreOK
<1>11. CoreOK'
  BY <1>1, <1>2, <1>7, <1>8, <1>9, <1>10 DEF CoreOK
<1>12. ControlInv'
  BY <1>1, <1>2, <1>3, <1>7 DEF ControlInv
<1>13. EventInv'
  BY <1>1, <1>6, <1>8 DEF EventInv, Asked
<1>14. ~Alive("sender") /\ ~Alive("receiver") /\ ftc["receiver"] = NoClient /\ ftc["sender"] = NoClient
  BY <1>1, <1>3, TwoSides DEF ClientsInv
<1>15. ClientsInv' /\ EndedIsToldAndGone'
  BY <1>1, <1>2, <1>3, <1>6, <1>8, <1>9, <1>14, TwoSides, NoClientTyped
  DEF ClientsInv, EndedIsToldAndGone, Alive, Asking, Asked, Receiver, Ended
<1>16. CacheInv'
  BY <1>1, <1>2, <1>3, <1>6, <1>8, <1>9, <1>10 DEF CacheInv, Alive
<1>17. QED
  BY <1>11, <1>12, <1>13, <1>15, <1>16 DEF RequestInv

\* A refusal of an event that was left aside accepts nothing.
LEMMA RefuseAsideKeepsRequest ==
    ASSUME RequestInv, RefuseAside
    PROVE  RequestInv'
<1>1. CoreOK /\ ControlInv /\ ClientsInv /\ EventInv /\ CacheInv /\ EndedIsToldAndGone
  BY DEF RequestInv
<1>2. UNCHANGED <<direct, sent, answered, seq, asked, queued, m_files, ev, cached, ftc, data, stored, undefined>>
  BY DEF RefuseAside, askVars
<1>3. PICK n \in aside : /\ aside' = aside \ {n}
                       /\ control' = [control EXCEPT !["sender"] = Append(control["sender"], [type |-> "DENY", number |-> n])]
  BY DEF RefuseAside
<1>4. PICK m : m = [type |-> "DENY", number |-> n]
  OBVIOUS
<1>5. m \in Messages /\ m.type = "DENY" /\ aside' \subseteq Nat
  BY <1>1, <1>3, <1>4 DEF CoreOK, Messages
<1>6. PICK q \in Seq(Messages) : q = control["sender"]
  BY <1>1, TwoSides DEF CoreOK
<1>7. Append(q, m) \in Seq(Messages) /\ Mail(Append(q, m)) \subseteq Mail(q) \cup {m}
  BY <1>5, <1>6, MailOf
<1>8. control' = [control EXCEPT !["sender"] = Append(q, m)]
  BY <1>3, <1>4, <1>6
<1>9. control' \in [Sides -> Seq(Messages)] /\ control'["sender"] = Append(q, m) /\ control'["receiver"] = control["receiver"]
  BY <1>1, <1>7, <1>8, TwoSides DEF CoreOK
<1>10. CoreOK'
  BY <1>1, <1>2, <1>5, <1>9 DEF CoreOK
<1>11. ControlInv'
  <2>1. \A x \in Mail(control'["sender"]) : x \in Mail(control["sender"]) \/ x.type = "DENY"
    BY <1>5, <1>6, <1>7, <1>9
  <2>2. QED
    BY <1>1, <1>2, <1>9, <2>1 DEF ControlInv
<1>12. CacheInv' /\ ClientsInv' /\ EventInv' /\ EndedIsToldAndGone'
  BY <1>1, <1>2, TwoSides
  DEF CacheInv, ClientsInv, EventInv, EndedIsToldAndGone, Alive, Receiver
<1>13. QED
  BY <1>10, <1>11, <1>12 DEF RequestInv

LEMMA AnswerNotSentKeepsRequest ==
    ASSUME RequestInv, AnswerNotSent
    PROVE  RequestInv'
<1>1. CoreOK /\ ControlInv /\ ClientsInv /\ EventInv /\ CacheInv /\ EndedIsToldAndGone
  BY DEF RequestInv
<1>2. UNCHANGED <<sent, direct, seq, asked, queued, aside, m_files, cached, control, ftc, data, stored, undefined>> /\ answered' = TRUE
  BY DEF AnswerNotSent, askVars
<1>3. ev["receiver"].state = "TIMEOUT" /\ ~answered /\ direct
  BY DEF AnswerNotSent
<1>4. Tells("receiver", "ERROR")
  <2>1. ev' = [ev EXCEPT !["receiver"] = Told([ev["receiver"] EXCEPT !.state = "ERROR"])]
    BY DEF AnswerNotSent
  <2>2. QED
    BY <1>1, <2>1, TellsStep, TwoSides DEF EventStates
<1>5. /\ ev' \in [Sides -> Events] /\ ev'["receiver"].state = "ERROR" /\ ev'["receiver"].told = "ERROR"
      /\ ev'["sender"] = ev["sender"]
  BY <1>4, TwoSides DEF Tells
<1>6. CoreOK'
  BY <1>1, <1>2, <1>5 DEF CoreOK
<1>7. ControlInv' /\ CacheInv' /\ ClientsInv' /\ EventInv' /\ EndedIsToldAndGone'
  BY <1>1, <1>2, <1>3, <1>5, TwoSides
  DEF ControlInv, CacheInv, ClientsInv, EventInv, EndedIsToldAndGone, Alive,
      Asking, Asked, Receiver, Ended
<1>8. QED
  BY <1>6, <1>7 DEF RequestInv

LEMMA ExpireKeepsRequest ==
    ASSUME RequestInv, NEW s \in Sides, Expire(s)
    PROVE  RequestInv' /\ Tells(s, "TIMEOUT") /\ ev[s].state # "NONE"
           /\ cached'["sender"] \subseteq cached["sender"]
<1>1. CoreOK /\ ControlInv /\ ClientsInv /\ EventInv /\ CacheInv /\ EndedIsToldAndGone
  BY DEF RequestInv
<1>2. UNCHANGED <<sent, direct, answered, seq, asked, queued, aside, m_files, control, ftc, data, stored, undefined>>
  BY DEF Expire, requestVars, askVars, askedVars
<1>3. PICK n \in cached[s] : cached' = [cached EXCEPT ![s] = cached[s] \ {n}]
  BY DEF Expire
<1>4. Tells(s, "TIMEOUT")
  <2>1. ev' = [ev EXCEPT ![s] = Told([ev[s] EXCEPT !.state = "TIMEOUT"])]
    BY DEF Expire
  <2>2. QED
    BY <1>1, <2>1, TellsStep DEF EventStates
<1>5. /\ ev' \in [Sides -> Events] /\ ev'[s].state = "TIMEOUT"
      /\ ev'[Other(s)] = ev[Other(s)]
  BY <1>4 DEF Tells
<1>6. cached' \in [Sides -> SUBSET Nat] /\ cached'[s] = cached[s] \ {n} /\ cached'[Other(s)] = cached[Other(s)]
  BY <1>1, <1>3, TwoSides DEF CoreOK
<1>7. CoreOK'
  BY <1>1, <1>2, <1>5, <1>6 DEF CoreOK
<1>8. ControlInv'
  BY <1>1, <1>2 DEF ControlInv
<1>9. CASE s = "sender"
  <2>1. /\ ev'["sender"].state = "TIMEOUT" /\ ev'["receiver"] = ev["receiver"]
        /\ cached'["sender"] = cached["sender"] \ {n} /\ cached'["receiver"] = cached["receiver"]
    BY <1>5, <1>6, <1>9, TwoSides
  <2>2. CacheInv'
    BY <1>1, <1>2, <2>1 DEF CacheInv, Alive
  <2>3. ClientsInv' /\ EventInv' /\ EndedIsToldAndGone'
    BY <1>1, <1>2, <2>1, TwoSides
    DEF ClientsInv, EventInv, EndedIsToldAndGone, Alive, Asking, Asked, Receiver, Ended
  <2>4. ev["sender"].state # "NONE"
    BY <1>1 DEF EventInv
  <2>5. QED
    BY <1>4, <1>7, <1>8, <1>9, <2>1, <2>2, <2>3, <2>4 DEF RequestInv
<1>10. CASE s = "receiver"
  <2>1. /\ ev'["receiver"].state = "TIMEOUT" /\ ev'["sender"] = ev["sender"]
        /\ cached'["receiver"] = cached["receiver"] \ {n} /\ cached'["sender"] = cached["sender"]
        /\ n \in cached["receiver"]
    BY <1>3, <1>5, <1>6, <1>10, TwoSides
  <2>2. ev["receiver"].state # "NONE" /\ cached'["receiver"] = {}
    BY <1>1, <2>1 DEF CacheInv
  <2>3. CacheInv'
    BY <1>1, <1>2, <2>1, <2>2 DEF CacheInv, Alive
  <2>4. ClientsInv' /\ EventInv'
    BY <1>1, <1>2, <2>1, <2>2, TwoSides DEF ClientsInv, EventInv, Alive, Asking, Asked, Receiver
  <2>5. EndedIsToldAndGone'
    BY <1>1, <1>2, <2>1, TwoSides DEF EndedIsToldAndGone, Ended
  <2>6. QED
    BY <1>4, <1>7, <1>8, <1>10, <2>1, <2>2, <2>3, <2>4, <2>5 DEF RequestInv
<1>11. QED
  BY <1>9, <1>10, TwoSides

LEMMA ControlLostKeepsRequest ==
    ASSUME RequestInv, NEW s \in Sides, ControlLost(s)
    PROVE  RequestInv'
<1>1. CoreOK /\ ControlInv /\ ClientsInv /\ EventInv /\ CacheInv /\ EndedIsToldAndGone
  BY DEF RequestInv
<1>2. UNCHANGED <<sent, direct, answered, seq, asked, queued, aside, m_files, ev, cached, ftc, data, stored, undefined>>
  BY DEF ControlLost, requestVars, askVars, askedVars
<1>3. control' \in [Sides -> Seq(Messages)] /\ control'[s] = <<>> /\ control'[Other(s)] = control[Other(s)]
  <2>1. control \in [Sides -> Seq(Messages)] /\ <<>> \in Seq(Messages)
    BY <1>1 DEF CoreOK
  <2>2. QED
    BY <2>1, TwoSides DEF ControlLost
<1>4. CoreOK'
  BY <1>1, <1>2, <1>3 DEF CoreOK
<1>5. ControlInv'
  <2>1. Mail(<<>>) = {}
    BY DEF Mail
  <2>2. QED
    BY <1>1, <1>2, <1>3, <2>1, TwoSides DEF ControlInv
<1>6. CacheInv' /\ ClientsInv' /\ EventInv' /\ EndedIsToldAndGone'
  BY <1>1, <1>2 DEF CacheInv, ClientsInv, EventInv, EndedIsToldAndGone, Alive, Receiver
<1>7. QED
  BY <1>4, <1>5, <1>6 DEF RequestInv

-----------------------------------------------------------------------------
(* What the end of a client and what a step of it leave.                     *)

\* What the other side still gets of a side that has closed its socket.
LEMMA CloseSocketStep ==
    ASSUME CoreOK, NEW s \in Sides, NEW rest, NEW packets \in Seq(Packets), CloseSocket(s, rest, packets)
    PROVE  /\ data' \in [Sides -> Seq(Packets)] /\ data'[s] = <<>>
           /\ data'[Other(s)] = <<>> \/ data'[Other(s)] = data[Other(s)] \o packets
           /\ rest = <<>> /\ Alive(Other(s)) => data'[Other(s)] = data[Other(s)] \o packets
           /\ ~Alive(Other(s)) => data'[Other(s)] = <<>>
<1>1. PICK lost \in IF rest = <<>> THEN {FALSE} ELSE BOOLEAN :
        data' = [data EXCEPT
                   ![s] = <<>>,
                   ![Other(s)] = IF lost \/ ftc[Other(s)].m_state = "NONE" THEN <<>>
                                 ELSE data[Other(s)] \o packets]
  BY TwoSides DEF CloseSocket
<1>2. data \in [Sides -> Seq(Packets)] /\ <<>> \in Seq(Packets) /\ Other(s) \in Sides /\ Other(s) # s
  BY TwoSides DEF CoreOK
<1>3. PICK arrives : arrives = IF lost \/ ftc[Other(s)].m_state = "NONE" THEN <<>>
                                 ELSE data[Other(s)] \o packets
  OBVIOUS
<1>4. data[Other(s)] \o packets \in Seq(Packets)
  BY <1>2, ConcatProperties
<1>5. data' = [data EXCEPT ![s] = <<>>, ![Other(s)] = arrives]
  BY <1>1, <1>3
<1>6. arrives \in Seq(Packets)
  BY <1>2, <1>3, <1>4
<1>7. data' \in [Sides -> Seq(Packets)] /\ data'[s] = <<>> /\ data'[Other(s)] = arrives
  BY <1>2, <1>5, <1>6
<1>8. QED
  BY <1>1, <1>3, <1>7 DEF Alive

LEMMA NothingIsSent ==
    ASSUME NEW q \in Seq(Packets)
    PROVE  <<>> \in Seq(Packets) /\ q \o <<>> = q
  BY ConcatEmptySeq

\* A client that goes on, in the words of the two sides.
LEMMA ContinueStep ==
    ASSUME CoreOK, NEW s \in Sides, NEW c \in Clients, NEW e \in Events,
           NEW rest \in Seq(Packets), NEW packets \in Seq(Packets), Continue(s, c, e, rest, packets)
    PROVE  /\ ftc' \in [Sides -> Clients] /\ ftc'[s] = c /\ ftc'[Other(s)] = ftc[Other(s)]
           /\ ev' \in [Sides -> Events] /\ ev'[s] = e /\ ev'[Other(s)] = ev[Other(s)]
           /\ data' \in [Sides -> Seq(Packets)] /\ data'[s] = rest
           /\ data'[Other(s)] = IF Alive(Other(s)) THEN data[Other(s)] \o packets ELSE data[Other(s)]
<1>1. Other(s) \in Sides /\ Other(s) # s
  BY TwoSides
<1>2. /\ data \in [Sides -> Seq(Packets)] /\ ev \in [Sides -> Events] /\ ftc \in [Sides -> Clients]
  BY DEF CoreOK
<1>3. /\ ftc' \in [Sides -> Clients] /\ ftc'[s] = c /\ ftc'[Other(s)] = ftc[Other(s)]
      /\ ev' \in [Sides -> Events] /\ ev'[s] = e /\ ev'[Other(s)] = ev[Other(s)]
  BY <1>1, <1>2 DEF Continue
<1>4. PICK arrives : arrives = IF ftc[Other(s)].m_state = "NONE" THEN data[Other(s)]
                                 ELSE data[Other(s)] \o packets
  OBVIOUS
<1>5. data[Other(s)] \o packets \in Seq(Packets)
  BY <1>1, <1>2, ConcatProperties
<1>6. arrives \in Seq(Packets)
  BY <1>1, <1>2, <1>4, <1>5
<1>7. data' = [data EXCEPT ![s] = rest, ![Other(s)] = arrives]
  BY <1>1, <1>4 DEF Continue
<1>8. data' \in [Sides -> Seq(Packets)] /\ data'[s] = rest /\ data'[Other(s)] = arrives
  BY <1>1, <1>2, <1>6, <1>7
<1>9. QED
  BY <1>3, <1>4, <1>8 DEF Alive

\* A client that is deleted: its event has an end state, and is told.
LEMMA DisconnectStep ==
    ASSUME CoreOK, NEW s \in Sides, NEW e \in Events, NEW rest, NEW packets \in Seq(Packets),
           DisconnectDirectConn(s, e, rest, packets)
    PROVE  /\ ftc' \in [Sides -> Clients] /\ ftc'[s] = NoClient /\ ftc'[Other(s)] = ftc[Other(s)]
           /\ ev' \in [Sides -> Events] /\ ev'[Other(s)] = ev[Other(s)]
           /\ ev'[s].state = IF e.state \in {"COMPLETE", "ERROR"} THEN e.state ELSE "CANCELLED"
           /\ ev'[s].told = ev'[s].state
           /\ ev'[s].totalSize = e.totalSize /\ ev'[s].totalFiles = e.totalFiles
           /\ data' \in [Sides -> Seq(Packets)] /\ data'[s] = <<>>
           /\ data'[Other(s)] = <<>> \/ data'[Other(s)] = data[Other(s)] \o packets
           /\ rest = <<>> /\ Alive(Other(s)) => data'[Other(s)] = data[Other(s)] \o packets
           /\ ~Alive(Other(s)) => data'[Other(s)] = <<>>
<1>1. Other(s) \in Sides /\ Other(s) # s
  BY TwoSides
<1>2. /\ ev \in [Sides -> Events] /\ ftc \in [Sides -> Clients]
  BY DEF CoreOK
<1>3. PICK st : st = IF e.state \in {"COMPLETE", "ERROR"} THEN e.state ELSE "CANCELLED"
  OBVIOUS
<1>4. st \in EventStates
  BY <1>3 DEF EventStates
<1>5. PICK f : f = Told([e EXCEPT !.state = st])
  OBVIOUS
<1>6. f \in Events /\ f.state = st /\ f.told = st /\ f.totalSize = e.totalSize /\ f.totalFiles = e.totalFiles
  BY <1>4, <1>5, ToldEvent
<1>7. ev' = [ev EXCEPT ![s] = f] /\ ftc' = [ftc EXCEPT ![s] = NoClient] /\ CloseSocket(s, rest, packets)
  BY <1>3, <1>5 DEF DisconnectDirectConn
<1>8. /\ ftc' \in [Sides -> Clients] /\ ftc'[s] = NoClient /\ ftc'[Other(s)] = ftc[Other(s)]
      /\ ev' \in [Sides -> Events] /\ ev'[s] = f /\ ev'[Other(s)] = ev[Other(s)]
  BY <1>1, <1>2, <1>6, <1>7, NoClientTyped
<1>9. /\ data' \in [Sides -> Seq(Packets)] /\ data'[s] = <<>>
      /\ data'[Other(s)] = <<>> \/ data'[Other(s)] = data[Other(s)] \o packets
      /\ rest = <<>> /\ Alive(Other(s)) => data'[Other(s)] = data[Other(s)] \o packets
      /\ ~Alive(Other(s)) => data'[Other(s)] = <<>>
  BY <1>7, CloseSocketStep
<1>10. QED
  BY <1>3, <1>6, <1>8, <1>9

\* What is sent or taken out when an event is cancelled.
LEMMA CancelsStep ==
    ASSUME RequestInv, NEW s \in Sides, CancelFileTransfer(s)
    PROVE  /\ control' \in [Sides -> Seq(Messages)] /\ control'["sender"] = control["sender"]
           /\ \A m \in Mail(control'["receiver"]) :
                m \in Mail(control["receiver"]) \/ (m.type = "CANCEL" /\ m.number = seq /\ direct)
           /\ cached' \in [Sides -> SUBSET Nat] /\ cached'["receiver"] = cached["receiver"]
           /\ cached'["sender"] \subseteq cached["sender"]
           /\ queued' \in {0, queued}
<1>1. CoreOK
  BY DEF RequestInv
<1>2. /\ control \in [Sides -> Seq(Messages)] /\ cached \in [Sides -> SUBSET Nat] /\ seq \in Nat
  BY <1>1 DEF CoreOK
<1>3. CASE /\ direct
           /\ control' = [control EXCEPT !["receiver"] = Append(control["receiver"], [type |-> "CANCEL", number |-> seq])]
           /\ cached' = [cached EXCEPT !["sender"] = cached["sender"] \ {seq}]
           /\ UNCHANGED queued
  <2>1. PICK m : m = [type |-> "CANCEL", number |-> seq]
    OBVIOUS
  <2>2. m \in Messages /\ m.type = "CANCEL" /\ m.number = seq
    BY <1>2, <2>1 DEF Messages
  <2>3. PICK q \in Seq(Messages) : q = control["receiver"]
    BY <1>2, TwoSides
  <2>4. Append(q, m) \in Seq(Messages) /\ Mail(Append(q, m)) \subseteq Mail(q) \cup {m}
    BY <2>2, <2>3, MailOf
  <2>5. control' = [control EXCEPT !["receiver"] = Append(q, m)]
    BY <1>3, <2>1, <2>3
  <2>6. control' \in [Sides -> Seq(Messages)] /\ control'["sender"] = control["sender"] /\ control'["receiver"] = Append(q, m)
    BY <1>2, <2>4, <2>5, TwoSides
  <2>7. QED
    BY <1>2, <1>3, <2>2, <2>3, <2>4, <2>6, TwoSides
<1>4. CASE cached' = [cached EXCEPT !["sender"] = {}] /\ queued' = 0 /\ UNCHANGED control
  BY <1>2, <1>4, TwoSides
<1>5. CASE UNCHANGED <<control, cached, queued>>
  BY <1>2, <1>5, TwoSides
<1>6. QED
  BY <1>3, <1>4, <1>5 DEF CancelFileTransfer

\* The cancellation of an event whose client is listening is undefined: only a
\* client with a socket is deleted.
LEMMA CancelFileTransferKeepsRequest ==
    ASSUME RequestInv, NEW s \in Sides, CancelFileTransfer(s)
    PROVE  RequestInv'
<1>1. CoreOK /\ ControlInv /\ ClientsInv /\ EventInv /\ CacheInv /\ EndedIsToldAndGone
  BY DEF RequestInv
<1>2. UNCHANGED <<direct, sent, answered, asked, aside, seq, m_files, stored>> /\ ev[s].state # "NONE"
  BY DEF CancelFileTransfer, askedVars
<1>3. Tells(s, "NOT_CONNECTED")
  <2>1. ev' = [ev EXCEPT ![s] = Told([ev[s] EXCEPT !.state = "NOT_CONNECTED"])]
    BY DEF CancelFileTransfer
  <2>2. QED
    BY <1>1, <2>1, TellsStep DEF EventStates
<1>4. /\ ev' \in [Sides -> Events] /\ ev'[s].state = "NOT_CONNECTED"
      /\ ev'[Other(s)] = ev[Other(s)]
  BY <1>3 DEF Tells
<1>5. /\ data' \in [Sides -> Seq(Packets)] /\ undefined' \in BOOLEAN
      /\ ftc' \in [Sides -> Clients] /\ ftc'[Other(s)] = ftc[Other(s)]
      /\ ftc'[s] = ftc[s] \/ ftc'[s] = NoClient
  <2>1. ftc \in [Sides -> Clients] /\ Other(s) # s /\ Other(s) \in Sides
    BY <1>1, TwoSides DEF CoreOK
  <2>2. CASE UNCHANGED <<ftc, data>> /\ (undefined' = TRUE \/ UNCHANGED undefined)
    BY <1>1, <2>1, <2>2 DEF CoreOK
  <2>3. CASE ftc' = [ftc EXCEPT ![s] = NoClient] /\ CloseSocket(s, data[s], <<>>) /\ UNCHANGED undefined
    <3>1. data' \in [Sides -> Seq(Packets)]
      <4>1. <<>> \in Seq(Packets)
        OBVIOUS
      <4>2. QED
        BY <1>1, <2>3, <4>1, CloseSocketStep
    <3>2. undefined' \in BOOLEAN
      BY <1>1, <2>3 DEF CoreOK
    <3>3. QED
      BY <2>1, <2>3, <3>1, <3>2, NoClientTyped
  <2>4. QED
    BY <2>2, <2>3 DEF CancelFileTransfer
<1>6. /\ control' \in [Sides -> Seq(Messages)] /\ control'["sender"] = control["sender"]
      /\ \A m \in Mail(control'["receiver"]) :
           m \in Mail(control["receiver"]) \/ (m.type = "CANCEL" /\ m.number = seq /\ direct)
      /\ cached' \in [Sides -> SUBSET Nat] /\ cached'["receiver"] = cached["receiver"]
      /\ cached'["sender"] \subseteq cached["sender"]
      /\ queued' \in {0, queued}
  BY CancelsStep
<1>7. CoreOK'
  BY <1>1, <1>2, <1>4, <1>5, <1>6 DEF CoreOK
<1>8. ControlInv'
  <2>1. seq \in Nat
    BY <1>1 DEF CoreOK
  <2>2. \A m \in Mail(control'["receiver"]) :
          m.number <= seq /\ (m.type = "REQUEST" => m.number # 0) /\ (m.type = "CANCEL" => direct)
    BY <1>1, <1>6, <2>1 DEF ControlInv
  <2>3. QED
    BY <1>1, <1>2, <1>6, <2>2 DEF ControlInv
<1>9. CASE s = "sender"
  <2>1. /\ ev'["sender"].state = "NOT_CONNECTED" /\ ev'["receiver"] = ev["receiver"]
        /\ ftc'["receiver"] = ftc["receiver"] /\ (ftc'["sender"] = ftc["sender"] \/ ftc'["sender"] = NoClient)
    BY <1>4, <1>5, <1>9, TwoSides
  <2>2. CacheInv'
    BY <1>1, <1>2, <1>6, <2>1, NoClientTyped DEF CacheInv, Alive
  <2>3. ClientsInv' /\ EventInv' /\ EndedIsToldAndGone'
    BY <1>1, <1>2, <2>1, TwoSides, NoClientTyped
    DEF ClientsInv, EventInv, EndedIsToldAndGone, Alive, Asking, Asked, Receiver, Ended
  <2>4. QED
    BY <1>7, <1>8, <2>2, <2>3 DEF RequestInv
<1>10. CASE s = "receiver"
  <2>1. /\ ev'["receiver"].state = "NOT_CONNECTED" /\ ev'["sender"] = ev["sender"]
        /\ ftc'["sender"] = ftc["sender"] /\ (ftc'["receiver"] = ftc["receiver"] \/ ftc'["receiver"] = NoClient)
    BY <1>4, <1>5, <1>10, TwoSides
  <2>2. ev["receiver"].state # "NONE"
    BY <1>2, <1>10
  <2>3. CacheInv'
    BY <1>1, <1>2, <1>6, <2>1, <2>2, NoClientTyped DEF CacheInv, Alive
  <2>4. ClientsInv' /\ EventInv' /\ EndedIsToldAndGone'
    BY <1>1, <1>2, <2>1, <2>2, TwoSides, NoClientTyped
    DEF ClientsInv, EventInv, EndedIsToldAndGone, Alive, Asking, Asked, Receiver, Ended
  <2>5. QED
    BY <1>7, <1>8, <2>3, <2>4 DEF RequestInv
<1>11. QED
  BY <1>9, <1>10, TwoSides

LEMMA DisconnectDirectConnsKeepsRequest ==
    ASSUME RequestInv, NEW s \in Sides, DisconnectDirectConns(s)
    PROVE  RequestInv'
<1>1. CoreOK /\ ControlInv /\ ClientsInv /\ EventInv /\ CacheInv /\ EndedIsToldAndGone
  BY DEF RequestInv
<1>2. UNCHANGED <<sent, direct, answered, seq, asked, queued, aside, m_files, ev, cached, control, stored>>
  BY DEF DisconnectDirectConns, requestVars, askVars, askedVars
<1>3. /\ data' \in [Sides -> Seq(Packets)] /\ undefined' \in BOOLEAN
      /\ ftc' \in [Sides -> Clients] /\ ftc'[Other(s)] = ftc[Other(s)]
      /\ ftc'[s] = ftc[s] \/ ftc'[s] = NoClient
  <2>1. ftc \in [Sides -> Clients] /\ Other(s) # s /\ Other(s) \in Sides
    BY <1>1, TwoSides DEF CoreOK
  <2>2. CASE UNCHANGED <<ftc, data>> /\ undefined' = TRUE
    BY <1>1, <2>1, <2>2 DEF CoreOK
  <2>3. CASE ftc' = [ftc EXCEPT ![s] = NoClient] /\ CloseSocket(s, data[s], <<>>) /\ UNCHANGED undefined
    <3>1. data' \in [Sides -> Seq(Packets)]
      <4>1. <<>> \in Seq(Packets)
        OBVIOUS
      <4>2. QED
        BY <1>1, <2>3, <4>1, CloseSocketStep
    <3>2. undefined' \in BOOLEAN
      BY <1>1, <2>3 DEF CoreOK
    <3>3. QED
      BY <2>1, <2>3, <3>1, <3>2, NoClientTyped
  <2>4. QED
    BY <2>2, <2>3 DEF DisconnectDirectConns
<1>4. CoreOK'
  BY <1>1, <1>2, <1>3 DEF CoreOK
<1>5. \A t \in Sides : ftc'[t] = ftc[t] \/ ftc'[t] = NoClient
  BY <1>3, TwoSides
<1>6. ControlInv' /\ ClientsInv' /\ EventInv' /\ CacheInv' /\ EndedIsToldAndGone'
  BY <1>1, <1>2, <1>5, TwoSides, NoClientTyped
  DEF ControlInv, ClientsInv, EventInv, CacheInv, EndedIsToldAndGone, Alive,
      Asking, Asked, Receiver, Ended
<1>7. QED
  BY <1>4, <1>6 DEF RequestInv

LEMMA ConnectKeepsRequest ==
    ASSUME RequestInv, Connect
    PROVE  RequestInv'
<1>1. CoreOK /\ ControlInv /\ ClientsInv /\ EventInv /\ CacheInv /\ EndedIsToldAndGone
  BY DEF RequestInv
<1>2. UNCHANGED <<sent, direct, answered, seq, asked, queued, aside, m_files, cached, control, data, stored, undefined>>
  BY DEF Connect, requestVars, askVars, askedVars
<1>3. ev["sender"].state = "ACCEPTED" /\ ~Alive("sender")
  BY DEF Connect, Alive
<1>4. direct /\ answered
  BY <1>1, <1>3 DEF ClientsInv, Asking
<1>5. \E st \in {"SEND", "ERROR"} :
        /\ Tells("sender", st) /\ ftc' \in [Sides -> Clients] /\ ftc'["receiver"] = ftc["receiver"]
        /\ ftc'["sender"].m_state = "NONE" => ftc'["sender"] = ftc["sender"]
        /\ st = "ERROR" => ftc'["sender"] = ftc["sender"]
  <2>1. CASE \E socket \in {"NONBLOCKING_CONNECT", "CONNECTED"}, version \in Published :
               /\ ftc' = [ftc EXCEPT !["sender"] =
                         [Client("WAITING_FOR_INIT_ACK", socket) EXCEPT
                            !.m_msgqueue = TRUE, !.m_remote_tcp_version = version]]
               /\ ev' = [ev EXCEPT !["sender"] = Told([ev["sender"] EXCEPT !.state = "SEND"])]
    <3>1. PICK socket \in {"NONBLOCKING_CONNECT", "CONNECTED"}, version \in Published :
               /\ ftc' = [ftc EXCEPT !["sender"] =
                         [Client("WAITING_FOR_INIT_ACK", socket) EXCEPT
                            !.m_msgqueue = TRUE, !.m_remote_tcp_version = version]]
               /\ ev' = [ev EXCEPT !["sender"] = Told([ev["sender"] EXCEPT !.state = "SEND"])]
      BY <2>1
    <3>2. PICK c : c = [Client("WAITING_FOR_INIT_ACK", socket) EXCEPT
                            !.m_msgqueue = TRUE, !.m_remote_tcp_version = version]
      OBVIOUS
    <3>3. version \in Nat
      BY Lists
    <3>4. c \in Clients /\ c.m_state = "WAITING_FOR_INIT_ACK"
      BY <3>2, <3>3 DEF Client, Clients, ClientStates, Sockets
    <3>5. ftc \in [Sides -> Clients] /\ ftc' = [ftc EXCEPT !["sender"] = c]
      BY <1>1, <3>1, <3>2 DEF CoreOK
    <3>6. Tells("sender", "SEND")
      BY <1>1, <3>1, TellsStep, TwoSides DEF EventStates
    <3>7. QED
      BY <3>4, <3>5, <3>6, TwoSides
  <2>2. CASE ev' = [ev EXCEPT !["sender"] = Told([ev["sender"] EXCEPT !.state = "ERROR"])] /\ UNCHANGED ftc
    <3>1. Tells("sender", "ERROR")
      BY <1>1, <2>2, TellsStep, TwoSides DEF EventStates
    <3>2. QED
      BY <1>1, <2>2, <3>1 DEF CoreOK
  <2>3. QED
    BY <2>1, <2>2 DEF Connect
<1>6. PICK st \in {"SEND", "ERROR"} :
        /\ Tells("sender", st) /\ ftc' \in [Sides -> Clients] /\ ftc'["receiver"] = ftc["receiver"]
        /\ ftc'["sender"].m_state = "NONE" => ftc'["sender"] = ftc["sender"]
        /\ st = "ERROR" => ftc'["sender"] = ftc["sender"]
  BY <1>5
<1>7. /\ ev' \in [Sides -> Events] /\ ev'["sender"].state = st /\ ev'["sender"].told = st
      /\ ev'["receiver"] = ev["receiver"]
  BY <1>6, TwoSides DEF Tells
<1>8. CoreOK'
  BY <1>1, <1>2, <1>6, <1>7 DEF CoreOK
<1>9. ControlInv' /\ ClientsInv' /\ EventInv' /\ CacheInv' /\ EndedIsToldAndGone'
  BY <1>1, <1>2, <1>3, <1>4, <1>6, <1>7, TwoSides
  DEF ControlInv, ClientsInv, EventInv, CacheInv, EndedIsToldAndGone, Alive,
      Asking, Asked, Receiver, Ended
<1>10. QED
  BY <1>8, <1>9 DEF RequestInv

-----------------------------------------------------------------------------
(* A step of a client: it goes on, or it ends and that is told.              *)

GoesOn(s) == ftc'[s].m_state # "NONE" /\ ev'[s].state = ev[s].state
IsEnded(s) == ftc'[s] = NoClient /\ ev'[s].state \in Ended /\ ev'[s].told = ev'[s].state

SocketStep(s) ==
    /\ Alive(s) /\ (s = "receiver" => Receiver.m_socket = "CONNECTED")
    /\ ftc' \in [Sides -> Clients] /\ ftc'[Other(s)] = ftc[Other(s)]
    /\ ev' \in [Sides -> Events] /\ ev'[Other(s)] = ev[Other(s)]
    /\ data' \in [Sides -> Seq(Packets)]
    /\ m_files' \in Seq(Entries) /\ stored' \in Seq([dir : BOOLEAN, got : Nat]) /\ undefined' \in BOOLEAN
    /\ GoesOn(s) \/ IsEnded(s)
    /\ UNCHANGED <<sent, direct, answered, seq, asked, queued, aside, cached, control>>

\* A client that goes on or ends changes nothing in the requests.
LEMMA SocketStepKeepsRequest ==
    ASSUME RequestInv, NEW s \in Sides, SocketStep(s)
    PROVE  RequestInv'
<1>1. CoreOK /\ ControlInv /\ ClientsInv /\ EventInv /\ CacheInv /\ EndedIsToldAndGone
  BY DEF RequestInv
<1>2. UNCHANGED <<sent, direct, answered, seq, asked, queued, aside, cached, control>>
  BY DEF SocketStep
<1>3. CoreOK'
  BY <1>1, <1>2 DEF CoreOK, SocketStep, Entries
<1>4. answered /\ direct
  <2>1. answered
    BY <1>1 DEF SocketStep, ClientsInv
  <2>2. direct
    BY <1>1, TwoSides DEF SocketStep, ClientsInv
  <2>3. QED
    BY <2>1, <2>2
<1>5. CASE s = "sender"
  <2>1. /\ ftc["sender"].m_state # "NONE" /\ ftc'["receiver"] = ftc["receiver"] /\ ev'["receiver"] = ev["receiver"]
        /\ \/ ftc'["sender"].m_state # "NONE" /\ ev'["sender"].state = ev["sender"].state
           \/ ftc'["sender"] = NoClient /\ ev'["sender"].state \in Ended /\ ev'["sender"].told = ev'["sender"].state
    BY <1>5, TwoSides DEF SocketStep, GoesOn, IsEnded, Alive
  <2>2. ControlInv' /\ ClientsInv' /\ EventInv' /\ CacheInv' /\ EndedIsToldAndGone'
    BY <1>1, <1>2, <1>4, <2>1, TwoSides, NoClientTyped
    DEF ControlInv, ClientsInv, EventInv, CacheInv, EndedIsToldAndGone, Alive,
        Asking, Asked, Receiver, Ended
  <2>3. QED
    BY <1>3, <2>2 DEF RequestInv
<1>6. CASE s = "receiver"
  <2>1. /\ ftc["receiver"].m_state # "NONE" /\ ftc'["sender"] = ftc["sender"] /\ ev'["sender"] = ev["sender"]
        /\ \/ ftc'["receiver"].m_state # "NONE" /\ ev'["receiver"].state = ev["receiver"].state
           \/ ftc'["receiver"] = NoClient /\ ev'["receiver"].state \in Ended /\ ev'["receiver"].told = ev'["receiver"].state
    BY <1>6, TwoSides DEF SocketStep, GoesOn, IsEnded, Alive
  <2>2. ControlInv' /\ ClientsInv' /\ EventInv' /\ CacheInv' /\ EndedIsToldAndGone'
    BY <1>1, <1>2, <1>4, <2>1, TwoSides, NoClientTyped
    DEF ControlInv, ClientsInv, EventInv, CacheInv, EndedIsToldAndGone, Alive,
        Asking, Asked, Receiver, Ended
  <2>3. QED
    BY <1>3, <2>2 DEF RequestInv
<1>7. QED
  BY <1>5, <1>6, TwoSides

LEMMA AcceptKeepsRequest ==
    ASSUME RequestInv, Accept
    PROVE  /\ RequestInv'
           /\ ftc'["sender"] = ftc["sender"] /\ Alive("sender")
           /\ ftc'["receiver"].m_state = ftc["receiver"].m_state /\ ftc'["receiver"].m_socket = "CONNECTED"
<1>1. CoreOK /\ ControlInv /\ ClientsInv /\ EventInv /\ CacheInv /\ EndedIsToldAndGone
  BY DEF RequestInv
<1>2. UNCHANGED <<sent, direct, answered, seq, asked, queued, aside, m_files, ev, cached, control, data, stored, undefined>>
  BY DEF Accept, requestVars, askVars, askedVars
<1>3. Alive("receiver") /\ ftc["sender"].m_socket = "CONNECTED"
  BY DEF Accept, Alive
<1>4. Alive("sender") /\ direct
  BY <1>1, <1>3, TwoSides, NoClientTyped DEF ClientsInv
<1>5. PICK c : c = [ftc["receiver"] EXCEPT !.m_socket = "CONNECTED"]
  OBVIOUS
<1>6. c \in Clients /\ c.m_state = ftc["receiver"].m_state /\ c.m_socket = "CONNECTED"
  <2>1. PICK x \in Clients : x = ftc["receiver"]
    BY <1>1, TwoSides DEF CoreOK
  <2>2. c = [x EXCEPT !.m_socket = "CONNECTED"]
    BY <1>5, <2>1
  <2>3. c \in Clients /\ c.m_state = x.m_state /\ c.m_socket = "CONNECTED"
    BY <2>1, <2>2 DEF Clients, Sockets
  <2>4. QED
    BY <2>1, <2>3
<1>7. ftc' = [ftc EXCEPT !["receiver"] = c]
  BY <1>1, <1>5, TwoSides DEF Accept, CoreOK
<1>8. ftc' \in [Sides -> Clients] /\ ftc'["receiver"] = c /\ ftc'["sender"] = ftc["sender"]
  BY <1>1, <1>6, <1>7, TwoSides DEF CoreOK
<1>9. CoreOK'
  BY <1>1, <1>2, <1>8 DEF CoreOK
<1>10. ControlInv' /\ ClientsInv' /\ EventInv' /\ CacheInv' /\ EndedIsToldAndGone'
  BY <1>1, <1>2, <1>3, <1>4, <1>6, <1>8, TwoSides
  DEF ControlInv, ClientsInv, EventInv, CacheInv, EndedIsToldAndGone, Alive,
      Asking, Asked, Receiver
<1>11. QED
  BY <1>4, <1>6, <1>8, <1>9, <1>10 DEF RequestInv

LEMMA ClientTimeoutKeepsRequest ==
    ASSUME RequestInv, NEW s \in Sides, ClientTimeout(s)
    PROVE  /\ RequestInv' /\ SameCounts
           /\ ev'[s].state = "TIMEOUT" /\ ev'[Other(s)] = ev[Other(s)] /\ Alive(s)
<1>1. CoreOK /\ ControlInv /\ ClientsInv /\ EventInv /\ CacheInv /\ EndedIsToldAndGone
  BY DEF RequestInv
<1>2. UNCHANGED <<sent, direct, answered, seq, asked, queued, aside, m_files, cached, control, ftc, data, stored, undefined>>
  BY DEF ClientTimeout, requestVars, askVars, askedVars
<1>3. Alive(s)
  BY DEF ClientTimeout, Alive
<1>4. PICK x \in Events : x = ev[s]
  BY <1>1 DEF CoreOK
<1>5. PICK y : y = [x EXCEPT !.state = "TIMEOUT"]
  OBVIOUS
<1>6. /\ y \in Events /\ y.state = "TIMEOUT" /\ y.size = x.size /\ y.pos = x.pos
      /\ y.currFile = x.currFile /\ y.totalPos = x.totalPos
      /\ y.totalSize = x.totalSize /\ y.totalFiles = x.totalFiles
  BY <1>4, <1>5 DEF Events, EventStates
<1>7. PICK f \in {y, Told(y)} : ev' = [ev EXCEPT ![s] = f]
  BY <1>4, <1>5 DEF ClientTimeout
<1>8. /\ f \in Events /\ f.state = "TIMEOUT" /\ f.size = x.size /\ f.pos = x.pos
      /\ f.currFile = x.currFile /\ f.totalPos = x.totalPos
      /\ f.totalSize = x.totalSize /\ f.totalFiles = x.totalFiles
  BY <1>6, <1>7, ToldTyped
<1>9. /\ ev' \in [Sides -> Events] /\ ev'[s] = f /\ ev'[Other(s)] = ev[Other(s)]
  <2>1. ev \in [Sides -> Events]
    BY <1>1 DEF CoreOK
  <2>2. QED
    BY <1>7, <1>8, <2>1, TwoSides
<1>10. SameCounts /\ ev'[s].state = "TIMEOUT"
  BY <1>4, <1>8, <1>9, TwoSides DEF SameCounts
<1>11. CoreOK'
  BY <1>1, <1>2, <1>9 DEF CoreOK
<1>12. answered /\ (s = "sender" => direct)
  BY <1>1, <1>3 DEF ClientsInv
<1>13. CASE s = "sender"
  <2>1. ev'["sender"].state = "TIMEOUT" /\ ev'["receiver"] = ev["receiver"]
    BY <1>9, <1>10, <1>13, TwoSides
  <2>2. ControlInv' /\ ClientsInv' /\ EventInv' /\ CacheInv' /\ EndedIsToldAndGone'
    BY <1>1, <1>2, <1>3, <1>12, <1>13, <2>1, TwoSides
    DEF ControlInv, ClientsInv, EventInv, CacheInv, EndedIsToldAndGone, Alive,
        Asking, Asked, Receiver, Ended
  <2>3. QED
    BY <1>3, <1>9, <1>10, <1>11, <2>2 DEF RequestInv
<1>14. CASE s = "receiver"
  <2>1. ev'["receiver"].state = "TIMEOUT" /\ ev'["sender"] = ev["sender"]
    BY <1>9, <1>10, <1>14, TwoSides
  <2>2. ev["receiver"].state # "NONE"
    BY <1>1, <1>12 DEF ClientsInv
  <2>3. ControlInv' /\ ClientsInv' /\ EventInv' /\ CacheInv' /\ EndedIsToldAndGone'
    BY <1>1, <1>2, <1>3, <1>12, <1>14, <2>1, <2>2, TwoSides
    DEF ControlInv, ClientsInv, EventInv, CacheInv, EndedIsToldAndGone, Alive,
        Asking, Asked, Receiver, Ended
  <2>4. QED
    BY <1>3, <1>9, <1>10, <1>11, <2>3 DEF RequestInv
<1>15. QED
  BY <1>13, <1>14, TwoSides

-----------------------------------------------------------------------------
(* What keeps the transfer as it is.                                         *)

SameFiles == UNCHANGED <<sent, m_files, data, stored>>

LEMMA ReceiverFrame ==
    ASSUME ReceiverInv, UNCHANGED <<sent, stored>>, ftc'["receiver"] = ftc["receiver"],
           data'["receiver"] = data["receiver"]
    PROVE  ReceiverInv'
  BY DEF ReceiverInv, Receiver, Alive, Down, Held, AllCount, OnlyPieces, ThenAnnounced, Pieces,
         After, Piece, Announce

LEMMA DialogueFrame ==
    ASSUME UNCHANGED <<Sender, Receiver, Up, Down>>, UNCHANGED <<sent, m_files, stored>>,
           ev'["sender"].size = ev["sender"].size, ev'["sender"].pos = ev["sender"].pos,
           ev'["sender"].currFile = ev["sender"].currFile
    PROVE  (Greeting => Greeting') /\ (Dialogue => Dialogue')
<1>1. Held' = Held
  BY DEF Held
<1>2. Greeting => Greeting'
  BY <1>1 DEF Greeting
<1>3. Opening => Opening'
  BY <1>1 DEF Opening, AllCount
<1>4. (OnlyPieces => OnlyPieces') /\ (ThenAnnounced => ThenAnnounced') /\ (LastIsSent => LastIsSent')
  BY <1>1 DEF OnlyPieces, ThenAnnounced, LastIsSent, Pieces, After, Piece, Announce
<1>5. Announced => Announced'
  BY <1>1, <1>4 DEF Announced, Left, Open
<1>6. Replied => Replied'
  BY <1>1 DEF Replied, Left, Open
<1>7. Sending => Sending'
  BY <1>1, <1>4 DEF Sending, Left, Open, After
<1>8. Passed => Passed'
  BY <1>1, <1>4 DEF Passed
<1>9. QED
  BY <1>2, <1>3, <1>5, <1>6, <1>7, <1>8 DEF Dialogue

LEMMA SenderFrame ==
    ASSUME SenderInv, SameFiles, UNCHANGED ftc,
           ev'["sender"].size = ev["sender"].size, ev'["sender"].pos = ev["sender"].pos,
           ev'["sender"].currFile = ev["sender"].currFile
    PROVE  SenderInv'
<1>1. UNCHANGED <<Sender, Receiver, Up, Down>> /\ UNCHANGED <<sent, m_files, stored>>
  BY DEF SameFiles, Sender, Receiver, Up, Down
<1>2. (Greeting => Greeting') /\ (Dialogue => Dialogue')
  BY <1>1, DialogueFrame
<1>3. QED
  BY <1>1, <1>2 DEF SenderInv, Alive, Sender, Receiver

\* What the sender has left is of no matter once it has ended.
LEMMA LeftFrame ==
    ASSUME LeftInv, UNCHANGED <<sent, m_files>>,
           Alive("sender")' => /\ ftc'["sender"] = ftc["sender"]
                               /\ ev'["sender"].currFile = ev["sender"].currFile
                               /\ data'["sender"] = data["sender"] \/ data'["sender"] = <<>>
    PROVE  LeftInv'
<1>1. SUFFICES ASSUME Alive("sender")' PROVE LeftInv'
  BY DEF LeftInv
<1>2. /\ Alive("sender") /\ Sender' = Sender /\ ev'["sender"].currFile = ev["sender"].currFile
      /\ Up' = Up \/ Up' = <<>>
  BY <1>1 DEF Alive, Sender, Up
<1>3. CASE Up' = Up
  BY <1>1, <1>2, <1>3 DEF LeftInv, Left
<1>4. CASE Up' = <<>>
  BY <1>1, <1>2, <1>4 DEF LeftInv, Left
<1>5. QED
  BY <1>2, <1>3, <1>4

\* An action on the requests leaves the files alone.
LEMMA RequestFrame ==
    ASSUME IInv, RequestInv', SameFiles, UNCHANGED <<direct, ftc>>,
           ev'["sender"].size = ev["sender"].size, ev'["sender"].pos = ev["sender"].pos,
           ev'["sender"].currFile = ev["sender"].currFile,
           \A s \in Sides : ev'[s].state = "COMPLETE" => ev[s].state = "COMPLETE",
           UnusedInv', CountInv'
    PROVE  TransferInv'
<1>1. TransferInv
  BY DEF IInv
<1>2. ReceiverInv'
  BY <1>1, ReceiverFrame DEF TransferInv, SameFiles
<1>3. SenderInv'
  BY <1>1, SenderFrame, TwoSides DEF TransferInv
<1>4. CompleteInv'
  <2>1. ev'["sender"].state = "COMPLETE" => ev["sender"].state = "COMPLETE"
    BY TwoSides
  <2>2. UNCHANGED <<Sender, Receiver, Down, Held>> /\ UNCHANGED <<sent, stored>>
    BY DEF SameFiles, Sender, Receiver, Down, Held
  <2>3. LastIsSent => LastIsSent'
    BY <2>2 DEF OnlyPieces, LastIsSent, Pieces, After, Piece
  <2>4. Alive("receiver")' <=> Alive("receiver")
    BY DEF Alive
  <2>5. QED
    BY <1>1, <2>1, <2>2, <2>3, <2>4 DEF TransferInv, CompleteInv
<1>5. HandedInOrder'
  BY <1>1 DEF TransferInv, HandedInOrder, SameFiles
<1>6. CompleteWasHanded'
  <2>1. ev'["receiver"].state = "COMPLETE" => ev["receiver"].state = "COMPLETE"
    BY TwoSides
  <2>2. QED
    BY <1>1, <2>1 DEF TransferInv, CompleteWasHanded, SameFiles, Whole
<1>7. LeftInv'
  BY <1>1, LeftFrame DEF TransferInv, SameFiles
<1>8. QED
  BY <1>2, <1>3, <1>4, <1>5, <1>6, <1>7 DEF TransferInv

\* A receiver that is not alive gets nothing, and its event is of no matter.
LEMMA SameCountsFrame ==
    ASSUME IInv, SameCounts, UNCHANGED <<sent, stored>>,
           Requested' => Requested,
           ev'["receiver"].state # "NONE" /\ (answered' => Alive("receiver")') =>
             ev["receiver"].state # "NONE" /\ (answered => Alive("receiver"))
    PROVE  CountInv'
<1>1. CountInv
  BY DEF IInv, TransferInv
<1>2. (SenderCount => SenderCount') /\ (ReceiverCount => ReceiverCount')
  BY TwoSides DEF SameCounts, SenderCount, ReceiverCount, Held
<1>3. QED
  BY <1>1, <1>2 DEF CountInv

LEMMA UnusedFrame ==
    ASSUME IInv, SameFiles, UNCHANGED ftc,
           ~answered' \/ asked' \in cached'["sender"] \/ ev'["sender"].state = "ACCEPTED" =>
             ~answered \/ asked \in cached["sender"] \/ ev["sender"].state = "ACCEPTED"
    PROVE  UnusedInv'
<1>1. UnusedInv
  BY DEF IInv, TransferInv
<1>2. Unused => Unused'
  BY DEF Unused, SameFiles, Up, Down, Alive, Receiver
<1>3. QED
  BY <1>1, <1>2 DEF UnusedInv

-----------------------------------------------------------------------------
(* Requests, answers and cancellations keep the transfer.                    *)

\* The parts of the invariant.
LEMMA TransferParts ==
    ASSUME IInv
    PROVE  /\ CoreOK /\ ControlInv /\ ClientsInv /\ EventInv /\ CacheInv /\ EndedIsToldAndGone
           /\ UnusedInv /\ CountInv /\ ReceiverInv /\ SenderInv /\ LeftInv /\ CompleteInv
           /\ HandedInOrder /\ CompleteWasHanded
  BY DEF IInv, RequestInv, TransferInv

\* Neither an event nor the caches are touched.
LEMMA NothingToldKeeps ==
    ASSUME IInv, RequestInv', SameFiles,
           UNCHANGED <<direct, answered, asked, seq, queued, ftc, ev, cached>>
    PROVE  IInv'
<1>1. SameCounts
  BY DEF SameCounts
<1>2. UnusedInv'
  BY UnusedFrame
<1>3. CountInv'
  BY <1>1, SameCountsFrame DEF Requested, SameFiles, Alive
<1>4. TransferInv'
  BY <1>2, <1>3, RequestFrame
<1>5. QED
  BY <1>4 DEF IInv

\* Nothing is said of the size or the number of the files, and the state that
\* is told is not COMPLETE.
LEMMA ToldKeeps ==
    ASSUME IInv, RequestInv', NEW s \in Sides, NEW st \in EventStates \ {"COMPLETE", "ACCEPTED", "NONE"},
           Tells(s, st), SameFiles, UNCHANGED <<direct, ftc>>, ev[s].state # "NONE",
           answered => answered', cached'["sender"] \subseteq cached["sender"],
           UNCHANGED <<seq, asked>>, queued' \in {0, queued},
           ~answered /\ answered' => ~Alive("receiver")
    PROVE  IInv'
<1>0. Requested' => ev'["receiver"].state # "NONE" \/ Requested
  <2>1. queued \in Nat
    BY DEF IInv, RequestInv, CoreOK
  <2>2. QED
    BY <2>1 DEF Requested
<1>1. CASE s = "sender"
  <2>1. /\ ev'["sender"].state = st /\ ev'["receiver"] = ev["receiver"] /\ SameCounts
    BY <1>1, TwoSides DEF Tells
  <2>2. UnusedInv'
    BY <2>1, UnusedFrame
  <2>3. (answered' => Alive("receiver")') => (answered => Alive("receiver"))
    BY DEF Alive
  <2>9. Requested' => Requested
    BY <1>0, <2>1 DEF Requested
  <2>4. CountInv'
    BY <2>1, <2>3, <2>9, SameCountsFrame DEF SameFiles
  <2>5. TransferInv'
    BY <2>1, <2>2, <2>4, RequestFrame, TwoSides DEF SameCounts
  <2>6. QED
    BY <2>5 DEF IInv
<1>2. CASE s = "receiver"
  <2>1. /\ ev'["receiver"].state = st /\ ev'["sender"] = ev["sender"] /\ SameCounts
        /\ ev["receiver"].state # "NONE"
    BY <1>2, TwoSides DEF Tells
  <2>2. UnusedInv'
    BY <2>1, UnusedFrame
  <2>3. (answered' => Alive("receiver")') => (answered => Alive("receiver"))
    BY DEF Alive
  <2>9. Requested' => Requested
    BY <1>0, <2>1 DEF Requested
  <2>4. CountInv'
    BY <2>1, <2>3, <2>9, SameCountsFrame DEF SameFiles
  <2>5. TransferInv'
    BY <2>1, <2>2, <2>4, RequestFrame, TwoSides DEF SameCounts
  <2>6. QED
    BY <2>5 DEF IInv
<1>3. QED
  BY <1>1, <1>2, TwoSides

LEMMA handleIncomingFTACKKeeps ==
    ASSUME IInv, handleIncomingFTACK
    PROVE  IInv'
<1>1. RequestInv /\ RequestInv'
  BY handleIncomingFTACKKeepsRequest DEF IInv
<1>2. CoreOK /\ ControlInv /\ CacheInv /\ UnusedInv
  BY TransferParts
<1>3. UNCHANGED <<sent, direct, answered, seq, asked, queued, aside, m_files, ftc, data, stored, undefined>> /\ SameFiles
  BY <1>2, TwoSides DEF handleIncomingFTACK, requestVars, askVars, askedVars, SameFiles, CoreOK
<1>4. PICK q \in Seq(Messages) : q = control["sender"] /\ q # <<>>
  BY <1>2, TwoSides DEF handleIncomingFTACK, CoreOK
<1>5. PICK answer : answer = Head(q)
  OBVIOUS
<1>6. answer \in Mail(q)
  BY <1>4, <1>5, MailOf
<1>7. CASE answer.number \in cached["sender"] /\ direct
  <2>1. PICK st : st = IF answer.type = "ACCEPT" THEN "ACCEPTED" ELSE "REJECTED"
    OBVIOUS
  <2>2. ev' = [ev EXCEPT !["sender"] = Told([ev["sender"] EXCEPT !.state = st])]
    BY <1>4, <1>5, <1>7, <2>1 DEF handleIncomingFTACK
  <2>3. Tells("sender", st)
    BY <1>2, <2>1, <2>2, TellsStep, TwoSides DEF EventStates
  <2>4. /\ SameCounts /\ ev'["sender"].state = st /\ ev'["receiver"] = ev["receiver"]
    BY <2>3, TwoSides DEF Tells
  <2>5. cached'["sender"] \subseteq cached["sender"]
    BY <1>2, <1>4, <1>5, <1>7, TwoSides DEF handleIncomingFTACK, CoreOK
  <2>6. st = "ACCEPTED" => asked \in cached["sender"]
    BY <1>2, <1>4, <1>6, <1>7, <2>1 DEF ControlInv
  <2>7. UnusedInv'
    BY <1>3, <2>4, <2>5, <2>6, UnusedFrame
  <2>8. Requested' => Requested
    BY <1>3, <2>4 DEF Requested
  <2>9. CountInv'
    BY <1>3, <2>4, <2>8, SameCountsFrame DEF Alive
  <2>10. st # "COMPLETE"
    BY <2>1
  <2>11. TransferInv'
    BY <1>1, <1>3, <2>4, <2>7, <2>9, <2>10, RequestFrame, TwoSides DEF SameCounts
  <2>12. QED
    BY <1>1, <2>11 DEF IInv
<1>8. CASE ~(answer.number \in cached["sender"] /\ direct)
  <2>1. UNCHANGED <<ev, cached>>
    BY <1>4, <1>5, <1>8 DEF handleIncomingFTACK
  <2>2. QED
    BY <1>1, <1>3, <2>1, NothingToldKeeps
<1>9. QED
  BY <1>7, <1>8

LEMMA handleIncomingFTCancelKeeps ==
    ASSUME IInv, handleIncomingFTCancel
    PROVE  IInv'
<1>1. RequestInv /\ RequestInv'
  BY handleIncomingFTCancelKeepsRequest DEF IInv
<1>2. CoreOK /\ ControlInv /\ CacheInv
  BY TransferParts
<1>3. UNCHANGED <<sent, direct, answered, seq, asked, queued, aside, m_files, ftc, data, stored, undefined>> /\ SameFiles
  BY DEF handleIncomingFTCancel, requestVars, askVars, askedVars, SameFiles
<1>4. \/ /\ cached["receiver"] # {} /\ Tells("receiver", "CANCELLED") /\ cached'["sender"] = cached["sender"]
      \/ UNCHANGED <<ev, cached>>
  BY <1>2, CancelArrives
<1>5. CASE /\ cached["receiver"] # {} /\ Tells("receiver", "CANCELLED") /\ cached'["sender"] = cached["sender"]
  <2>1. ev["receiver"].state # "NONE"
    BY <1>2, <1>5 DEF CacheInv
  <2>2. "CANCELLED" \in EventStates \ {"COMPLETE", "ACCEPTED", "NONE"} /\ "receiver" \in Sides
    BY TwoSides DEF EventStates
  <2>3. QED
    BY <1>1, <1>3, <1>5, <2>1, <2>2, ToldKeeps
<1>6. CASE UNCHANGED <<ev, cached>>
  BY <1>1, <1>3, <1>6, NothingToldKeeps
<1>7. QED
  BY <1>4, <1>5, <1>6

LEMMA RefuseAsideKeeps ==
    ASSUME IInv, RefuseAside
    PROVE  IInv'
<1>1. RequestInv /\ RequestInv'
  BY RefuseAsideKeepsRequest DEF IInv
<1>2. UNCHANGED <<direct, sent, answered, seq, asked, queued, m_files, ev, cached, ftc, data, stored>> /\ SameFiles
  BY DEF RefuseAside, askVars, SameFiles
<1>3. QED
  BY <1>1, <1>2, NothingToldKeeps

LEMMA AnswerNotSentKeeps ==
    ASSUME IInv, AnswerNotSent
    PROVE  IInv'
<1>1. RequestInv /\ RequestInv'
  BY AnswerNotSentKeepsRequest DEF IInv
<1>2. CoreOK /\ ClientsInv
  BY TransferParts
<1>3. UNCHANGED <<sent, direct, seq, asked, queued, aside, m_files, cached, control, ftc, data, stored, undefined>> /\ SameFiles
      /\ answered' /\ ~answered /\ ev["receiver"].state = "TIMEOUT"
  BY DEF AnswerNotSent, SameFiles, askVars
<1>4. Tells("receiver", "ERROR")
  <2>1. ev' = [ev EXCEPT !["receiver"] = Told([ev["receiver"] EXCEPT !.state = "ERROR"])]
    BY DEF AnswerNotSent
  <2>2. QED
    BY <1>2, <2>1, TellsStep, TwoSides DEF EventStates
<1>5. ~Alive("receiver") /\ "receiver" \in Sides
  BY <1>2, <1>3, TwoSides DEF ClientsInv
<1>6. SameCounts /\ ev'["sender"] = ev["sender"] /\ ev'["receiver"].state = "ERROR"
  BY <1>4, TwoSides DEF Tells
<1>7. UnusedInv'
  BY <1>3, <1>6, UnusedFrame
<1>8. Requested' => Requested
  BY <1>3 DEF Requested
<1>9. ~Alive("receiver")'
  BY <1>3, <1>5 DEF Alive
<1>10. CountInv'
  BY <1>3, <1>6, <1>8, <1>9, SameCountsFrame
<1>11. TransferInv'
  BY <1>1, <1>3, <1>6, <1>7, <1>10, RequestFrame, TwoSides DEF SameCounts
<1>12. QED
  BY <1>1, <1>11 DEF IInv

LEMMA ExpireKeeps ==
    ASSUME IInv, NEW s \in Sides, Expire(s)
    PROVE  IInv'
<1>1. RequestInv /\ RequestInv' /\ Tells(s, "TIMEOUT") /\ ev[s].state # "NONE"
      /\ cached'["sender"] \subseteq cached["sender"]
  BY ExpireKeepsRequest DEF IInv
<1>2. UNCHANGED <<sent, direct, answered, seq, asked, queued, aside, m_files, control, ftc, data, stored, undefined>> /\ SameFiles
  BY DEF Expire, requestVars, askVars, askedVars, SameFiles
<1>3. "TIMEOUT" \in EventStates \ {"COMPLETE", "ACCEPTED", "NONE"}
  BY DEF EventStates
<1>4. QED
  BY <1>1, <1>2, <1>3, ToldKeeps

LEMMA QueueExpiresKeeps ==
    ASSUME IInv, QueueExpires
    PROVE  IInv'
<1>1. RequestInv /\ RequestInv'
  BY QueueExpiresKeepsRequest DEF IInv
<1>2. CoreOK /\ EventInv
  BY TransferParts
<1>3. UNCHANGED <<direct, sent, answered, asked, seq, m_files, cached, ftc, data, stored>> /\ SameFiles /\ queued' = 0
  BY DEF QueueExpires, askedVars, SameFiles
<1>4. Tells("sender", "TIMEOUT")
  <2>1. ev' = [ev EXCEPT !["sender"] = Told([ev["sender"] EXCEPT !.state = "TIMEOUT"])]
    BY DEF QueueExpires
  <2>2. QED
    BY <1>2, <2>1, TellsStep, TwoSides DEF EventStates
<1>5. "TIMEOUT" \in EventStates \ {"COMPLETE", "ACCEPTED", "NONE"} /\ "sender" \in Sides
      /\ ev["sender"].state # "NONE"
  BY <1>2, TwoSides DEF EventStates, EventInv
<1>6. QED
  BY <1>1, <1>3, <1>4, <1>5, ToldKeeps

LEMMA ControlLostKeeps ==
    ASSUME IInv, NEW s \in Sides, ControlLost(s)
    PROVE  IInv'
<1>1. RequestInv /\ RequestInv'
  BY ControlLostKeepsRequest DEF IInv
<1>2. UNCHANGED <<sent, direct, answered, seq, asked, queued, aside, m_files, ev, cached, ftc, data, stored, undefined>> /\ SameFiles
  BY DEF ControlLost, requestVars, askVars, askedVars, SameFiles
<1>3. QED
  BY <1>1, <1>2, NothingToldKeeps

LEMMA ClientTimeoutKeeps ==
    ASSUME IInv, NEW s \in Sides, ClientTimeout(s)
    PROVE  IInv'
<1>1. RequestInv /\ RequestInv' /\ SameCounts /\ ev'[s].state = "TIMEOUT" /\ ev'[Other(s)] = ev[Other(s)] /\ Alive(s)
  BY ClientTimeoutKeepsRequest DEF IInv
<1>2. ClientsInv
  BY TransferParts
<1>3. UNCHANGED <<sent, direct, answered, seq, asked, queued, aside, m_files, cached, control, ftc, data, stored, undefined>> /\ SameFiles
  BY DEF ClientTimeout, requestVars, askVars, askedVars, SameFiles
<1>4. \A t \in Sides : /\ ev'[t].state \in {"TIMEOUT", ev[t].state}
                       /\ ev[t].state = "NONE" => ev'[t].state = ev[t].state \/ t = "sender"
  BY <1>1, <1>2, TwoSides DEF ClientsInv
<1>5. UnusedInv'
  BY <1>3, <1>4, TwoSides, UnusedFrame
<1>6. Requested' => Requested
  BY <1>3, <1>4, TwoSides DEF Requested
<1>7. ev'["receiver"].state # "NONE" => ev["receiver"].state # "NONE"
  BY <1>4, TwoSides
<1>8. CountInv'
  BY <1>1, <1>3, <1>6, <1>7, SameCountsFrame DEF Alive
<1>9. TransferInv'
  BY <1>1, <1>3, <1>4, <1>5, <1>8, RequestFrame, TwoSides DEF SameCounts
<1>10. QED
  BY <1>1, <1>9 DEF IInv

\* A request is made anew while a client is at work: nothing was announced yet.
LEMMA SendRequestKeeps ==
    ASSUME IInv, SendRequest
    PROVE  IInv'
<1>1. RequestInv /\ RequestInv' /\ (asked \in cached'["sender"] => asked \in cached["sender"])
  BY SendRequestKeepsRequest DEF IInv
<1>2. CoreOK /\ ClientsInv /\ UnusedInv /\ CountInv /\ ReceiverInv /\ SenderInv /\ LeftInv /\ CompleteInv
      /\ HandedInOrder /\ CompleteWasHanded
  BY TransferParts
<1>3. UNCHANGED <<sent, direct>> /\ UNCHANGED <<answered, asked, m_files, ftc, data, stored, undefined>> /\ SameFiles
      /\ m_files = sent
  BY DEF SendRequest, askedVars, SameFiles
<1>4. /\ ev'["receiver"] = ev["receiver"] /\ ev'["sender"].state = "WAIT_RESPONS" /\ ev'["sender"].currFile = 0
      /\ ev'["sender"].totalSize = Content(sent) /\ ev'["sender"].totalFiles = Len(sent)
  BY <1>2, AsksStep
<1>5. ReceiverInv'
  BY <1>2, <1>3, ReceiverFrame DEF SameFiles
<1>6. Len(sent) \in Nat
  <2>1. m_files \in Seq(Entries)
    BY <1>2 DEF CoreOK, Entries
  <2>2. QED
    BY <1>3, <2>1, LenProperties
<1>7. Held \in Nat
  <2>1. stored \in Seq([dir : BOOLEAN, got : Nat])
    BY <1>2 DEF CoreOK
  <2>2. Len(stored) \in Nat
    BY <2>1, LenProperties
  <2>3. QED
    BY <2>2 DEF Held
<1>8. \A k \in Nat : Left(k) => k = 0
  BY <1>3, <1>6 DEF Left
<1>9. /\ UNCHANGED <<Sender, Receiver, Up, Down, Held>>
  BY <1>3 DEF Sender, Receiver, Up, Down, Held
<1>10. SenderInv'
  <2>1. Greeting => Greeting'
    BY <1>3, <1>9 DEF Greeting
  <2>2. Dialogue => Opening \/ Passed
    BY <1>7, <1>8 DEF Dialogue, Announced, Replied, Sending
  <2>3. Opening => Opening'
    BY <1>3, <1>9 DEF Opening, AllCount
  <2>4. Passed => Passed'
    BY <1>3, <1>9 DEF Passed, OnlyPieces, Pieces, After, Piece
  <2>5. Dialogue => Dialogue'
    BY <1>9, <2>2, <2>3, <2>4 DEF Dialogue
  <2>6. QED
    BY <1>2, <1>3, <1>9, <2>1, <2>5 DEF SenderInv, Alive, Sender, Receiver
<1>11. LeftInv'
  <2>1. Left(0)'
    BY <1>3, <1>6 DEF Left
  <2>2. QED
    BY <1>2, <1>3, <1>4, <1>9, <2>1 DEF LeftInv, Alive, Left
<1>12. UnusedInv'
  BY <1>1, <1>3, <1>4, UnusedFrame
<1>13. CountInv'
  <2>1. SenderCount'
    BY <1>3, <1>4 DEF SenderCount
  <2>2. ReceiverCount => ReceiverCount'
    BY <1>3, <1>4, <1>9 DEF ReceiverCount
  <2>3. QED
    BY <1>2, <1>3, <1>4, <2>1, <2>2 DEF CountInv, Alive
<1>14. CompleteInv' /\ HandedInOrder' /\ CompleteWasHanded'
  BY <1>2, <1>3, <1>4 DEF CompleteInv, HandedInOrder, CompleteWasHanded, Whole
<1>15. QED
  BY <1>1, <1>5, <1>10, <1>11, <1>12, <1>13, <1>14 DEF IInv, TransferInv

LEMMA flush_queueKeeps ==
    ASSUME IInv, flush_queue
    PROVE  IInv'
<1>1. RequestInv /\ RequestInv' /\ (asked \in cached'["sender"] => asked \in cached["sender"])
  BY flush_queueKeepsRequest DEF IInv
<1>2. UNCHANGED <<sent, direct>> /\ UNCHANGED <<answered, asked, m_files, ev, ftc, data, stored, undefined>> /\ SameFiles
      /\ queued > 0
  BY DEF flush_queue, askedVars, SameFiles
<1>3. SameCounts
  BY <1>2 DEF SameCounts
<1>4. UnusedInv'
  BY <1>1, <1>2, UnusedFrame
<1>5. Requested
  BY <1>2 DEF Requested
<1>6. CountInv'
  BY <1>2, <1>3, <1>5, SameCountsFrame DEF Alive
<1>7. TransferInv'
  BY <1>1, <1>2, <1>4, <1>6, RequestFrame, TwoSides
<1>8. QED
  BY <1>1, <1>7 DEF IInv

LEMMA handleIncomingFTKeeps ==
    ASSUME IInv, handleIncomingFT
    PROVE  IInv'
<1>1. RequestInv /\ RequestInv'
  BY handleIncomingFTKeepsRequest DEF IInv
<1>2. CoreOK /\ ControlInv /\ ClientsInv /\ UnusedInv /\ CountInv
  BY TransferParts
<1>3. UNCHANGED <<direct, sent, answered, seq, queued, m_files, ftc, data, stored, undefined>> /\ SameFiles
  BY <1>2, IncomingStep DEF SameFiles
<1>4. PICK m \in Mail(control["receiver"]) :
        /\ m \in Messages /\ m.type = "REQUEST"
        /\ \/ /\ ~answered /\ asked' = m.number
              /\ ev' \in [Sides -> Events] /\ ev'["sender"] = ev["sender"]
              /\ ev'["receiver"].state = "NOT_CONNECTED" /\ ev'["receiver"].currFile = 0
              /\ ev'["receiver"].totalPos = 0 /\ ev'["receiver"].totalSize = ev["sender"].totalSize
              /\ cached' \in [Sides -> SUBSET Nat] /\ cached'["sender"] = cached["sender"]
              /\ cached'["receiver"] = {m.number}
           \/ UNCHANGED <<asked, ev, cached>>
  BY <1>2, IncomingStep
<1>5. CASE UNCHANGED <<asked, ev, cached>>
  BY <1>1, <1>3, <1>5, NothingToldKeeps
<1>6. CASE /\ ~answered /\ ev'["sender"] = ev["sender"]
           /\ ev'["receiver"].state = "NOT_CONNECTED" /\ ev'["receiver"].currFile = 0
           /\ ev'["receiver"].totalPos = 0 /\ ev'["receiver"].totalSize = ev["sender"].totalSize
  <2>1. seq > 0
    BY <1>2, <1>4 DEF ControlInv, Messages, CoreOK
  <2>2. Unused /\ SenderCount
    BY <1>2, <1>6, <2>1 DEF UnusedInv, CountInv, Requested
  <2>3. Held = 0
    BY <2>2 DEF Unused, Held
  <2>4. SenderCount' /\ ReceiverCount'
    BY <1>3, <1>6, <2>2, <2>3 DEF SenderCount, ReceiverCount, Held
  <2>5. CountInv'
    BY <2>4 DEF CountInv
  <2>6. UnusedInv'
    BY <1>3, <1>6, UnusedFrame
  <2>7. \A s \in Sides : ev'[s].state = "COMPLETE" => ev[s].state = "COMPLETE"
    BY <1>6, TwoSides
  <2>8. TransferInv'
    BY <1>1, <1>3, <1>6, <2>5, <2>6, <2>7, RequestFrame
  <2>9. QED
    BY <1>1, <2>8 DEF IInv
<1>7. QED
  BY <1>4, <1>5, <1>6

LEMMA SendFileTransferACKKeeps ==
    ASSUME IInv, SendFileTransferACK
    PROVE  IInv'
<1>1. RequestInv /\ RequestInv'
  BY SendFileTransferACKKeepsRequest DEF IInv
<1>2. CoreOK /\ ControlInv /\ ClientsInv /\ UnusedInv /\ CountInv
      /\ HandedInOrder /\ CompleteWasHanded
  BY TransferParts
<1>3. UNCHANGED <<sent, direct, seq, asked, queued, aside, m_files, data, stored, undefined>>
      /\ ev["receiver"].state \in {"NOT_CONNECTED", "TIMEOUT"} /\ ~answered
      /\ control' = [control EXCEPT !["sender"] = control'["sender"]]
  BY <1>2, TwoSides DEF SendFileTransferACK, CoreOK, askVars
<1>4. Unused /\ SenderCount /\ ReceiverCount
  BY <1>2, <1>3 DEF UnusedInv, CountInv, Requested
<1>5. PICK st \in {"RECEIVE", "NOT_CONNECTED"} : Tells("receiver", st)
  <2>1. PICK st \in {"RECEIVE", "NOT_CONNECTED"} :
          ev' = [ev EXCEPT !["receiver"] = Told([ev["receiver"] EXCEPT !.state = st])]
    BY DEF SendFileTransferACK
  <2>2. Tells("receiver", st)
    BY <1>2, <2>1, TellsStep, TwoSides DEF EventStates
  <2>3. QED
    BY <2>2
<1>6. SameCounts /\ ev'["sender"] = ev["sender"] /\ ev'["receiver"].state = st
  BY <1>5, TwoSides DEF Tells
<1>7. /\ ftc'["sender"] = ftc["sender"]
      /\ \/ ftc'["receiver"] = ftc["receiver"]
         \/ ftc'["receiver"].m_state = "WAITING_FOR_INIT" /\ ftc'["receiver"].m_socket \in Unset
  <2>1. PICK accept \in BOOLEAN, socket \in Unset :
          ftc' = IF accept THEN [ftc EXCEPT !["receiver"] = Client("WAITING_FOR_INIT", socket)] ELSE ftc
    BY DEF SendFileTransferACK
  <2>2. PICK c : c = Client("WAITING_FOR_INIT", socket)
    OBVIOUS
  <2>3. c.m_state = "WAITING_FOR_INIT" /\ c.m_socket = socket
    BY <2>2, NewClientTyped DEF ClientStates, Sockets, Unset
  <2>4. QED
    BY <1>2, <2>1, <2>2, <2>3, TwoSides DEF CoreOK
<1>8. (SenderCount => SenderCount') /\ (ReceiverCount => ReceiverCount')
  BY <1>3, <1>6, TwoSides DEF SameCounts, SenderCount, ReceiverCount, Held
<1>9. CountInv'
  BY <1>4, <1>8 DEF CountInv
<1>10. Unused'
  BY <1>3, <1>4, <1>7 DEF Unused, Up, Down, Alive, Receiver
<1>11. UnusedInv'
  BY <1>10 DEF UnusedInv
<1>12. ReceiverInv' /\ SenderInv'
  BY <1>10 DEF Unused, ReceiverInv, SenderInv, Alive, Receiver, Sender, Unset
<1>13. ev'["sender"].state # "COMPLETE"
  BY <1>2, <1>3, <1>6 DEF ClientsInv, Asking
<1>14. CompleteInv' /\ HandedInOrder' /\ CompleteWasHanded'
  BY <1>2, <1>3, <1>6, <1>13 DEF CompleteInv, HandedInOrder, CompleteWasHanded
<1>15. LeftInv'
  BY <1>10 DEF LeftInv, Unused
<1>16. QED
  BY <1>1, <1>9, <1>11, <1>12, <1>14, <1>15 DEF IInv, TransferInv

LEMMA ConnectKeeps ==
    ASSUME IInv, Connect
    PROVE  IInv'
<1>1. RequestInv /\ RequestInv'
  BY ConnectKeepsRequest DEF IInv
<1>2. CoreOK /\ ClientsInv /\ CacheInv /\ UnusedInv /\ CountInv /\ ReceiverInv
      /\ HandedInOrder /\ CompleteWasHanded
  BY TransferParts
<1>3. UNCHANGED <<sent, direct, answered, seq, asked, queued, aside, m_files, cached, control, data, stored, undefined>>
      /\ ev["sender"].state = "ACCEPTED" /\ ftc["sender"].m_state = "NONE"
  BY DEF Connect, requestVars, askVars, askedVars
<1>4. Unused /\ answered /\ asked \notin cached["sender"]
  BY <1>2, <1>3 DEF UnusedInv, ClientsInv, CacheInv, Asking
<1>5. \E st \in {"SEND", "ERROR"} :
        /\ Tells("sender", st) /\ ftc'["receiver"] = ftc["receiver"]
        /\ \/ ftc'["sender"] = ftc["sender"]
           \/ LET c == ftc'["sender"]
              IN  c.m_state = "WAITING_FOR_INIT_ACK" /\ c.m_msgqueue /\ ~c.m_more /\ ~c.m_continue
  <2>1. CASE \E socket \in {"NONBLOCKING_CONNECT", "CONNECTED"}, version \in Published :
               /\ ftc' = [ftc EXCEPT !["sender"] =
                         [Client("WAITING_FOR_INIT_ACK", socket) EXCEPT
                            !.m_msgqueue = TRUE, !.m_remote_tcp_version = version]]
               /\ ev' = [ev EXCEPT !["sender"] = Told([ev["sender"] EXCEPT !.state = "SEND"])]
    <3>1. PICK socket \in {"NONBLOCKING_CONNECT", "CONNECTED"}, version \in Published :
               /\ ftc' = [ftc EXCEPT !["sender"] =
                         [Client("WAITING_FOR_INIT_ACK", socket) EXCEPT
                            !.m_msgqueue = TRUE, !.m_remote_tcp_version = version]]
               /\ ev' = [ev EXCEPT !["sender"] = Told([ev["sender"] EXCEPT !.state = "SEND"])]
      BY <2>1
    <3>2. PICK c : c = [Client("WAITING_FOR_INIT_ACK", socket) EXCEPT
                            !.m_msgqueue = TRUE, !.m_remote_tcp_version = version]
      OBVIOUS
    <3>3. c.m_state = "WAITING_FOR_INIT_ACK" /\ c.m_msgqueue /\ ~c.m_more /\ ~c.m_continue
      BY <3>2 DEF Client
    <3>4. ftc \in [Sides -> Clients] /\ ftc' = [ftc EXCEPT !["sender"] = c]
      BY <1>2, <3>1, <3>2 DEF CoreOK
    <3>5. Tells("sender", "SEND")
      BY <1>2, <3>1, TellsStep, TwoSides DEF EventStates
    <3>6. QED
      BY <3>3, <3>4, <3>5, TwoSides
  <2>2. CASE ev' = [ev EXCEPT !["sender"] = Told([ev["sender"] EXCEPT !.state = "ERROR"])] /\ UNCHANGED ftc
    <3>1. Tells("sender", "ERROR")
      BY <1>2, <2>2, TellsStep, TwoSides DEF EventStates
    <3>2. QED
      BY <2>2, <3>1
  <2>3. QED
    BY <2>1, <2>2 DEF Connect
<1>6. PICK st \in {"SEND", "ERROR"} :
        /\ Tells("sender", st) /\ ftc'["receiver"] = ftc["receiver"]
        /\ \/ ftc'["sender"] = ftc["sender"]
           \/ LET c == ftc'["sender"]
              IN  c.m_state = "WAITING_FOR_INIT_ACK" /\ c.m_msgqueue /\ ~c.m_more /\ ~c.m_continue
  BY <1>5
<1>7. SameCounts /\ ev'["receiver"] = ev["receiver"] /\ ev'["sender"].state = st
  BY <1>6, TwoSides DEF Tells
<1>8. (SenderCount => SenderCount') /\ (ReceiverCount => ReceiverCount')
  BY <1>3, <1>7, TwoSides DEF SameCounts, SenderCount, ReceiverCount, Held
<1>9. CountInv'
  BY <1>2, <1>3, <1>6, <1>7, <1>8 DEF CountInv, Requested, Alive
<1>10. ReceiverInv'
  BY <1>2, <1>3, <1>6, ReceiverFrame
<1>11. UnusedInv'
  BY <1>3, <1>4, <1>7 DEF UnusedInv
<1>12. UNCHANGED <<Up, Down, Receiver>> /\ Up = <<>> /\ Down = <<>> /\ m_files' = sent' /\ stored' = <<>>
       /\ Receiver.m_state \in {"NONE", "WAITING_FOR_INIT"} /\ Receiver.m_socket \in Unset
  BY <1>3, <1>4, <1>6 DEF Unused, Up, Down, Receiver
<1>13. SenderInv'
  <2>1. CASE ftc'["sender"] = ftc["sender"]
    BY <1>3, <1>12, <2>1 DEF SenderInv, Sender, Alive
  <2>2. CASE LET c == ftc'["sender"]
             IN  c.m_state = "WAITING_FOR_INIT_ACK" /\ c.m_msgqueue /\ ~c.m_more /\ ~c.m_continue
    <3>1. Alive("receiver")' => Receiver'.m_state = "WAITING_FOR_INIT" /\ Receiver'.m_socket # "CONNECTED"
      BY <1>12 DEF Alive, Receiver, Unset
    <3>2. Alive("receiver")' => Greeting'
      BY <1>12, <2>2, <3>1 DEF Greeting, Sender
    <3>3. QED
      BY <1>12, <2>2, <3>2 DEF SenderInv, Sender, Alive
  <2>3. QED
    BY <1>6, <2>1, <2>2
<1>14. LeftInv'
  <2>1. Alive("sender")' => ~Sender'.m_continue
    BY <1>3, <1>6 DEF Alive, Sender
  <2>2. QED
    BY <1>12, <2>1 DEF LeftInv
<1>15. CompleteInv' /\ HandedInOrder' /\ CompleteWasHanded'
  BY <1>2, <1>3, <1>7 DEF CompleteInv, HandedInOrder, CompleteWasHanded
<1>16. QED
  BY <1>1, <1>9, <1>10, <1>11, <1>13, <1>14, <1>15 DEF IInv, TransferInv

LEMMA AcceptKeeps ==
    ASSUME IInv, Accept
    PROVE  IInv'
<1>1. /\ RequestInv' /\ ftc'["sender"] = ftc["sender"] /\ Alive("sender")
      /\ ftc'["receiver"].m_state = ftc["receiver"].m_state /\ ftc'["receiver"].m_socket = "CONNECTED"
  BY AcceptKeepsRequest DEF IInv
<1>2. ClientsInv /\ CacheInv /\ UnusedInv /\ CountInv /\ ReceiverInv /\ SenderInv /\ LeftInv /\ CompleteInv
      /\ HandedInOrder /\ CompleteWasHanded
  BY TransferParts
<1>3. UNCHANGED <<sent, direct, answered, seq, asked, queued, aside, m_files, ev, cached, control, data, stored, undefined>>
      /\ ftc["receiver"].m_socket = "ZERO" /\ ftc["sender"].m_socket = "CONNECTED" /\ Alive("receiver")
  BY DEF Accept, requestVars, askVars, askedVars, Alive
<1>4. answered /\ asked \notin cached["sender"] /\ ev["sender"].state # "ACCEPTED"
  BY <1>1, <1>2, TwoSides DEF ClientsInv, CacheInv
<1>5. UnusedInv'
  BY <1>3, <1>4 DEF UnusedInv
<1>6. CountInv'
  <2>1. (SenderCount => SenderCount') /\ (ReceiverCount => ReceiverCount')
    BY <1>3 DEF SenderCount, ReceiverCount, Held
  <2>2. QED
    BY <1>1, <1>2, <1>3, <2>1 DEF CountInv, Requested, Alive
<1>7. Receiver.m_state = "WAITING_FOR_INIT" /\ Receiver'.m_state = "WAITING_FOR_INIT"
      /\ Receiver'.m_socket = "CONNECTED" /\ UNCHANGED <<Up, Down, Sender>>
  BY <1>1, <1>2, <1>3 DEF ReceiverInv, Receiver, Up, Down, Sender
<1>8. ReceiverInv'
  BY <1>2, <1>3, <1>7 DEF ReceiverInv, Alive, Receiver
<1>9. SenderInv'
  <2>1. Sender.m_socket = "CONNECTED" /\ ~Dialogue
    BY <1>3, <1>7 DEF Sender, Dialogue, Opening, Announced, Replied, Sending, Passed
  <2>2. Greeting /\ Sender.m_state # "CONNECTED"
    BY <1>1, <1>2, <1>3, <2>1 DEF SenderInv
  <2>3. Greeting'
    BY <1>3, <1>7, <2>1, <2>2 DEF Greeting
  <2>4. QED
    BY <1>1, <1>2, <1>7, <2>1, <2>2, <2>3 DEF SenderInv, Alive, Sender
<1>10. CompleteInv'
  BY <1>2, <1>3, <1>7 DEF CompleteInv, Alive, Receiver
<1>11. HandedInOrder' /\ CompleteWasHanded'
  BY <1>2, <1>3 DEF HandedInOrder, CompleteWasHanded, Whole
<1>12. LeftInv'
  BY <1>1, <1>2, <1>3, LeftFrame
<1>13. QED
  BY <1>1, <1>5, <1>6, <1>8, <1>9, <1>10, <1>11, <1>12 DEF IInv, TransferInv

-----------------------------------------------------------------------------
(* The end of a client.                                                      *)

\* Less is under way to the receiver than before.
LEMMA ReceiverCut ==
    ASSUME ReceiverInv, UNCHANGED <<sent, stored>>, ftc'["receiver"] = ftc["receiver"],
           Down' = <<>> \/ Down' = Down
    PROVE  ReceiverInv'
<1>1. CASE Down' = Down
  BY <1>1, ReceiverFrame DEF Down
<1>2. CASE Down' = <<>>
  <2>1. OnlyPieces'
    BY <1>2 DEF OnlyPieces, Pieces
  <2>2. QED
    BY <1>2, <2>1 DEF ReceiverInv, Receiver, Alive
<1>3. QED
  BY <1>1, <1>2

\* A side that is deleted at once takes what is under way to it along.
LEMMA ClientCut ==
    ASSUME ReceiverInv, SenderInv, NEW s \in Sides, UNCHANGED <<sent, m_files, stored>>,
           ftc'[s] = NoClient, ftc'[Other(s)] = ftc[Other(s)], data'[s] = <<>>,
           (data'[Other(s)] = <<>> \/ data'[Other(s)] = data[Other(s)]),
           ~Alive(Other(s)) => data'[Other(s)] = <<>>
    PROVE  ReceiverInv' /\ SenderInv'
<1>1. CASE s = "sender"
  <2>1. /\ ftc'["sender"] = NoClient /\ ftc'["receiver"] = ftc["receiver"] /\ Up' = <<>>
        /\ Down' = <<>> \/ Down' = Down
    BY <1>1, TwoSides DEF Up, Down
  <2>2. ReceiverInv'
    BY <2>1, ReceiverCut
  <2>3. SenderInv'
    BY <2>1, NoClientTyped DEF SenderInv, Alive, Sender
  <2>4. QED
    BY <2>2, <2>3
<1>2. CASE s = "receiver"
  <2>1. /\ ftc'["receiver"] = NoClient /\ ftc'["sender"] = ftc["sender"] /\ Down' = <<>>
        /\ ~Alive("sender") => Up' = <<>>
    BY <1>2, TwoSides DEF Up, Down
  <2>2. ReceiverInv'
    BY <2>1, NoClientTyped DEF ReceiverInv, Alive, Receiver
  <2>3. SenderInv'
    BY <2>1, NoClientTyped DEF SenderInv, Alive, Sender
  <2>4. QED
    BY <2>2, <2>3
<1>3. QED
  BY <1>1, <1>2, TwoSides

LEMMA CutStep ==
    ASSUME CoreOK, NEW s \in Sides, ftc' = [ftc EXCEPT ![s] = NoClient], CloseSocket(s, data[s], <<>>)
    PROVE  /\ ftc'[s] = NoClient /\ ftc'[Other(s)] = ftc[Other(s)]
           /\ data'[s] = <<>> /\ (data'[Other(s)] = <<>> \/ data'[Other(s)] = data[Other(s)])
           /\ ~Alive(Other(s)) => data'[Other(s)] = <<>>
<1>1. ftc \in [Sides -> Clients] /\ Other(s) # s /\ Other(s) \in Sides /\ data \in [Sides -> Seq(Packets)]
  BY TwoSides DEF CoreOK
<1>2. data[Other(s)] \o <<>> = data[Other(s)] /\ <<>> \in Seq(Packets)
  BY <1>1, NothingIsSent
<1>3. /\ data'[s] = <<>>
      /\ data'[Other(s)] = <<>> \/ data'[Other(s)] = data[Other(s)] \o <<>>
      /\ ~Alive(Other(s)) => data'[Other(s)] = <<>>
  BY <1>2, CloseSocketStep
<1>4. ftc'[s] = NoClient /\ ftc'[Other(s)] = ftc[Other(s)]
  BY <1>1
<1>5. QED
  BY <1>2, <1>3, <1>4

LEMMA DisconnectDirectConnsKeeps ==
    ASSUME IInv, NEW s \in Sides, DisconnectDirectConns(s)
    PROVE  IInv'
<1>1. RequestInv' /\ RequestInv
  BY DisconnectDirectConnsKeepsRequest DEF IInv
<1>2. CoreOK /\ ClientsInv /\ CacheInv /\ EndedIsToldAndGone /\ UnusedInv /\ CountInv /\ ReceiverInv /\ SenderInv
      /\ LeftInv /\ CompleteInv /\ HandedInOrder /\ CompleteWasHanded
  BY TransferParts
<1>3. UNCHANGED <<sent, direct, answered, seq, asked, queued, aside, m_files, ev, cached, control, stored>> /\ Alive(s)
  BY DEF DisconnectDirectConns, requestVars, askVars, askedVars, Alive
<1>4. \/ UNCHANGED <<ftc, data>>
      \/ /\ ftc'[s] = NoClient /\ ftc'[Other(s)] = ftc[Other(s)]
         /\ data'[s] = <<>> /\ (data'[Other(s)] = <<>> \/ data'[Other(s)] = data[Other(s)])
         /\ ~Alive(Other(s)) => data'[Other(s)] = <<>>
  <2>1. UNCHANGED <<ftc, data>> \/ (ftc' = [ftc EXCEPT ![s] = NoClient] /\ CloseSocket(s, data[s], <<>>))
    BY DEF DisconnectDirectConns
  <2>2. QED
    BY <1>2, <2>1, CutStep
<1>5. ReceiverInv' /\ SenderInv'
  <2>1. CASE UNCHANGED <<ftc, data>>
    BY <1>2, <1>3, <2>1, ReceiverFrame, SenderFrame DEF SameFiles
  <2>2. CASE ~UNCHANGED <<ftc, data>>
    BY <1>2, <1>3, <1>4, <2>2, ClientCut
  <2>3. QED
    BY <2>1, <2>2
<1>6. UnusedInv'
  <2>1. CASE s = "sender"
    BY <1>2, <1>3, <2>1 DEF UnusedInv, ClientsInv, CacheInv
  <2>2. CASE s = "receiver"
    <3>1. Unused => Unused'
      <4>1. /\ ftc'["sender"] = ftc["sender"]
            /\ ftc'["receiver"] = ftc["receiver"] \/ ftc'["receiver"] = NoClient
            /\ Up' = <<>> \/ Up' = Up
            /\ Down' = <<>> \/ Down' = Down
        BY <1>4, <2>2, TwoSides DEF Up, Down
      <4>2. QED
        BY <1>3, <4>1, NoClientTyped DEF Unused, Alive, Receiver, Unset
    <3>2. QED
      BY <1>2, <1>3, <3>1 DEF UnusedInv
  <2>3. QED
    BY <2>1, <2>2, TwoSides
<1>7. Alive("receiver")' => Alive("receiver") /\ ftc'["receiver"] = ftc["receiver"]
  BY <1>4, TwoSides, NoClientTyped DEF Alive
<1>8. CountInv'
  <2>1. (SenderCount => SenderCount') /\ (ReceiverCount => ReceiverCount')
    BY <1>3 DEF SenderCount, ReceiverCount, Held
  <2>2. QED
    BY <1>2, <1>3, <1>7, <2>1 DEF CountInv, Requested
<1>9. CompleteInv'
  <2>1. CASE s = "sender"
    <3>1. ev["sender"].state # "COMPLETE"
      BY <1>2, <1>3, <2>1 DEF EndedIsToldAndGone, Ended, Alive
    <3>2. QED
      BY <1>3, <3>1 DEF CompleteInv
  <2>2. CASE s = "receiver"
    <3>1. Alive("receiver")' => UNCHANGED <<ftc, data>>
      BY <1>4, <2>2, TwoSides, NoClientTyped DEF Alive
    <3>2. CASE UNCHANGED <<ftc, data>>
      <4>1. UNCHANGED <<Receiver, Down, Held>>
        BY <1>3, <3>2 DEF Receiver, Down, Held
      <4>2. LastIsSent => LastIsSent'
        BY <1>3, <4>1 DEF OnlyPieces, LastIsSent, Pieces, After, Piece
      <4>3. QED
        BY <1>2, <1>3, <1>7, <4>1, <4>2 DEF CompleteInv
    <3>3. QED
      BY <3>1, <3>2 DEF CompleteInv
  <2>3. QED
    BY <2>1, <2>2, TwoSides
<1>10. HandedInOrder' /\ CompleteWasHanded'
  BY <1>2, <1>3 DEF HandedInOrder, CompleteWasHanded, Whole
<1>11. LeftInv'
  <2>1. Alive("sender")' => ftc'["sender"] = ftc["sender"] /\ (data'["sender"] = data["sender"] \/ data'["sender"] = <<>>)
    BY <1>4, TwoSides, NoClientTyped DEF Alive
  <2>2. QED
    BY <1>2, <1>3, <2>1, LeftFrame
<1>12. QED
  BY <1>1, <1>5, <1>6, <1>8, <1>9, <1>10, <1>11 DEF IInv, TransferInv

LEMMA CancelFileTransferKeeps ==
    ASSUME IInv, NEW s \in Sides, CancelFileTransfer(s)
    PROVE  IInv'
<1>1. RequestInv' /\ RequestInv
  BY CancelFileTransferKeepsRequest DEF IInv
<1>2. CoreOK /\ ControlInv /\ ClientsInv /\ CacheInv /\ EventInv /\ UnusedInv /\ CountInv /\ ReceiverInv /\ SenderInv
      /\ LeftInv /\ CompleteInv /\ HandedInOrder /\ CompleteWasHanded
  BY TransferParts
<1>3. UNCHANGED <<sent, direct, answered, seq, asked, aside, m_files, stored>> /\ ev[s].state # "NONE"
  BY DEF CancelFileTransfer, askedVars
<1>4. Tells(s, "NOT_CONNECTED")
  <2>1. ev' = [ev EXCEPT ![s] = Told([ev[s] EXCEPT !.state = "NOT_CONNECTED"])]
    BY DEF CancelFileTransfer
  <2>2. QED
    BY <1>2, <2>1, TellsStep DEF EventStates
<1>5. SameCounts /\ ev'[s].state = "NOT_CONNECTED" /\ ev'[Other(s)] = ev[Other(s)]
  BY <1>4 DEF Tells
<1>6. cached'["sender"] \subseteq cached["sender"] /\ queued' \in {0, queued} /\ queued \in Nat
  BY <1>1, <1>2, CancelsStep DEF CoreOK
<1>7. Requested' => Requested \/ ev'["receiver"].state # "NONE"
  BY <1>3, <1>6 DEF Requested
<1>8. \/ UNCHANGED <<ftc, data>>
      \/ /\ ftc'[s] = NoClient /\ ftc'[Other(s)] = ftc[Other(s)] /\ Alive(s)
         /\ data'[s] = <<>> /\ (data'[Other(s)] = <<>> \/ data'[Other(s)] = data[Other(s)])
         /\ ~Alive(Other(s)) => data'[Other(s)] = <<>>
  <2>1. UNCHANGED <<ftc, data>> \/ (Alive(s) /\ ftc' = [ftc EXCEPT ![s] = NoClient] /\ CloseSocket(s, data[s], <<>>))
    BY DEF CancelFileTransfer, Alive
  <2>2. QED
    BY <1>2, <2>1, CutStep
<1>9. CASE UNCHANGED <<ftc, data>>
  <2>1. "NOT_CONNECTED" \in EventStates \ {"COMPLETE", "ACCEPTED", "NONE"}
    BY DEF EventStates
  <2>2. SameFiles
    BY <1>3, <1>9 DEF SameFiles
  <2>3. QED
    BY <1>1, <1>3, <1>4, <1>6, <1>9, <2>1, <2>2, ToldKeeps
<1>10. CASE ~UNCHANGED <<ftc, data>>
  <2>1. ReceiverInv' /\ SenderInv'
    BY <1>2, <1>3, <1>8, <1>10, ClientCut
  <2>2. /\ ev'["sender"].state \in {"NOT_CONNECTED", ev["sender"].state}
        /\ ev'["receiver"].state \in {"NOT_CONNECTED", ev["receiver"].state}
        /\ ev'["receiver"].state # "NONE" => ev["receiver"].state # "NONE"
    BY <1>3, <1>5, TwoSides
  <2>3. UnusedInv'
    <3>1. CASE s = "sender"
      BY <1>2, <1>3, <1>5, <1>6, <1>8, <1>10, <3>1 DEF UnusedInv, ClientsInv, CacheInv
    <3>2. CASE s = "receiver"
      <4>1. /\ ftc'["sender"] = ftc["sender"] /\ ftc'["receiver"] = NoClient
            /\ ev'["sender"] = ev["sender"]
            /\ Up' = <<>> \/ Up' = Up
            /\ Down' = <<>> \/ Down' = Down
        BY <1>5, <1>8, <1>10, <3>2, TwoSides DEF Up, Down
      <4>2. Unused => Unused'
        BY <1>3, <4>1, NoClientTyped DEF Unused, Alive, Receiver, Unset
      <4>3. QED
        BY <1>2, <1>3, <1>6, <4>1, <4>2 DEF UnusedInv
    <3>3. QED
      BY <3>1, <3>2, TwoSides
  <2>4. CountInv'
    <3>1. Requested' => Requested
      BY <1>7, <2>2 DEF Requested
    <3>2. Alive("receiver")' => Alive("receiver")
      BY <1>8, TwoSides, NoClientTyped DEF Alive
    <3>3. QED
      BY <1>3, <1>5, <2>2, <3>1, <3>2, SameCountsFrame
  <2>5. CompleteInv'
    <3>1. CASE s = "sender"
      BY <1>5, <3>1 DEF CompleteInv
    <3>2. CASE s = "receiver"
      BY <1>8, <1>10, <3>2, NoClientTyped DEF CompleteInv, Alive
    <3>3. QED
      BY <3>1, <3>2, TwoSides
  <2>6. HandedInOrder' /\ CompleteWasHanded'
    BY <1>2, <1>3, <2>2 DEF HandedInOrder, CompleteWasHanded, Whole
  <2>7. LeftInv'
    <3>1. Alive("sender")' => /\ ftc'["sender"] = ftc["sender"] /\ ev'["sender"].currFile = ev["sender"].currFile
                              /\ (data'["sender"] = data["sender"] \/ data'["sender"] = <<>>)
      BY <1>5, <1>8, TwoSides, NoClientTyped DEF Alive, SameCounts
    <3>2. QED
      BY <1>2, <1>3, <3>1, LeftFrame
  <2>8. QED
    BY <1>1, <2>1, <2>3, <2>4, <2>5, <2>6, <2>7 DEF IInv, TransferInv
<1>11. QED
  BY <1>9, <1>10

-----------------------------------------------------------------------------
(* What is left to show of a step of a client.                               *)

\* A client that works is of an event that is neither cached nor ACCEPTED.
LEMMA SocketUnused ==
    ASSUME IInv, NEW s \in Sides, SocketStep(s)
    PROVE  UnusedInv'
<1>1. ClientsInv /\ CacheInv /\ UnusedInv
  BY TransferParts
<1>2. /\ Alive(s) /\ (s = "receiver" => Receiver.m_socket = "CONNECTED") /\ UNCHANGED <<answered, asked, cached>>
      /\ ev'[Other(s)] = ev[Other(s)] /\ (ev'[s].state = ev[s].state \/ ev'[s].state \in Ended)
  BY DEF SocketStep, GoesOn, IsEnded
<1>3. CASE s = "sender"
  BY <1>1, <1>2, <1>3 DEF UnusedInv, ClientsInv, CacheInv, Ended
<1>4. CASE s = "receiver"
  <2>1. ev'["sender"] = ev["sender"]
    BY <1>2, <1>4, TwoSides
  <2>2. ~Unused
    BY <1>2, <1>4 DEF Unused, Unset
  <2>3. QED
    BY <1>1, <1>2, <2>1, <2>2 DEF UnusedInv
<1>5. QED
  BY <1>3, <1>4, TwoSides

\* A sender that goes on keeps the invariant if it keeps the dialogue.
LEMMA SenderGoes ==
    ASSUME IInv, SocketStep("sender"), GoesOn("sender"), UNCHANGED stored,
           ev'["sender"].totalSize = ev["sender"].totalSize,
           ev'["sender"].totalFiles = ev["sender"].totalFiles,
           ftc'["sender"].m_socket = "CONNECTED" \/ ftc'["sender"].m_state = "WAITING_FOR_INIT_ACK",
           ~Alive("receiver") => data'["receiver"] = data["receiver"],
           Alive("receiver") => ReceiverInv' /\ IF Sender'.m_state = "CONNECTED" THEN Dialogue' ELSE Greeting',
           LeftInv'
    PROVE  IInv'
<1>1. RequestInv' /\ UnusedInv'
  BY SocketStepKeepsRequest, SocketUnused, TwoSides DEF IInv
<1>2. EndedIsToldAndGone /\ CountInv /\ ReceiverInv /\ HandedInOrder /\ CompleteWasHanded
  BY TransferParts
<1>3. /\ Alive("sender") /\ ftc'["receiver"] = ftc["receiver"] /\ ev'["receiver"] = ev["receiver"]
      /\ UNCHANGED <<sent, direct, answered, seq, asked, queued, aside, cached, control>>
      /\ ftc'["sender"].m_state # "NONE" /\ ev'["sender"].state = ev["sender"].state
  BY TwoSides DEF SocketStep, GoesOn
<1>4. CountInv'
  <2>1. (SenderCount => SenderCount') /\ (ReceiverCount => ReceiverCount')
    BY <1>3 DEF SenderCount, ReceiverCount, Held
  <2>2. QED
    BY <1>2, <1>3, <2>1 DEF CountInv, Requested, Alive
<1>5. ReceiverInv'
  <2>1. CASE Alive("receiver")
    BY <2>1
  <2>2. CASE ~Alive("receiver")
    BY <1>2, <1>3, <2>2, ReceiverFrame
  <2>3. QED
    BY <2>1, <2>2
<1>6. SenderInv'
  <2>1. Alive("sender")' /\ (Alive("receiver")' <=> Alive("receiver"))
    BY <1>3 DEF Alive
  <2>2. Sender' = ftc'["sender"]
    BY DEF Sender
  <2>3. QED
    BY <2>1, <2>2 DEF SenderInv
<1>7. CompleteInv'
  <2>1. ev["sender"].state # "COMPLETE"
    BY <1>2, <1>3, TwoSides DEF EndedIsToldAndGone, Alive, Ended
  <2>2. QED
    BY <1>3, <2>1 DEF CompleteInv
<1>8. HandedInOrder' /\ CompleteWasHanded'
  BY <1>2, <1>3 DEF HandedInOrder, CompleteWasHanded, Whole
<1>9. QED
  BY <1>1, <1>4, <1>5, <1>6, <1>7, <1>8 DEF IInv, TransferInv

\* A sender that ends keeps it if what it has sent is in order.
LEMMA SenderEnds ==
    ASSUME IInv, SocketStep("sender"), IsEnded("sender"), UNCHANGED stored,
           ev'["sender"].totalSize = ev["sender"].totalSize,
           ev'["sender"].totalFiles = ev["sender"].totalFiles,
           data'["sender"] = <<>>, ReceiverInv', CompleteInv'
    PROVE  IInv'
<1>1. RequestInv' /\ UnusedInv'
  BY SocketStepKeepsRequest, SocketUnused, TwoSides DEF IInv
<1>2. CountInv /\ HandedInOrder /\ CompleteWasHanded
  BY TransferParts
<1>3. /\ Alive("sender") /\ ftc'["receiver"] = ftc["receiver"] /\ ev'["receiver"] = ev["receiver"]
      /\ UNCHANGED <<sent, direct, answered, seq, asked, queued, aside, cached, control>>
      /\ ftc'["sender"] = NoClient
  BY TwoSides DEF SocketStep, IsEnded
<1>4. CountInv'
  <2>1. (SenderCount => SenderCount') /\ (ReceiverCount => ReceiverCount')
    BY <1>3 DEF SenderCount, ReceiverCount, Held
  <2>2. QED
    BY <1>2, <1>3, <2>1 DEF CountInv, Requested, Alive
<1>5. SenderInv'
  BY <1>3, NoClientTyped DEF SenderInv, Alive, Sender, Up
<1>6. HandedInOrder' /\ CompleteWasHanded'
  BY <1>2, <1>3 DEF HandedInOrder, CompleteWasHanded, Whole
<1>7. LeftInv'
  BY <1>3, NoClientTyped DEF LeftInv, Alive
<1>8. QED
  BY <1>1, <1>4, <1>5, <1>6, <1>7 DEF IInv, TransferInv

\* A receiver that goes on keeps it if what it stores and answers is in order.
LEMMA ReceiverGoes ==
    ASSUME IInv, SocketStep("receiver"), GoesOn("receiver"),
           ReceiverInv', HandedInOrder', ReceiverCount', CompleteInv', LeftInv',
           ~Alive("sender") => data'["sender"] = data["sender"],
           Alive("sender") => IF Sender.m_state = "CONNECTED" THEN Dialogue' ELSE Greeting'
    PROVE  IInv'
<1>1. RequestInv' /\ UnusedInv'
  BY SocketStepKeepsRequest, SocketUnused, TwoSides DEF IInv
<1>2. EndedIsToldAndGone /\ CountInv /\ SenderInv
  BY TransferParts
<1>3. /\ Alive("receiver") /\ ftc'["sender"] = ftc["sender"] /\ ev'["sender"] = ev["sender"]
      /\ UNCHANGED <<sent, direct, answered, seq, asked, queued, aside, cached, control>>
      /\ ftc'["receiver"].m_state # "NONE" /\ ev'["receiver"].state = ev["receiver"].state
  BY TwoSides DEF SocketStep, GoesOn
<1>4. CountInv'
  <2>1. SenderCount => SenderCount'
    BY <1>3 DEF SenderCount
  <2>2. QED
    BY <1>2, <1>3, <2>1 DEF CountInv, Requested
<1>5. SenderInv'
  <2>1. Alive("sender")' <=> Alive("sender")
    BY <1>3 DEF Alive
  <2>2. Sender' = Sender
    BY <1>3 DEF Sender
  <2>3. ~Alive("sender") => Up' = Up
    BY DEF Up
  <2>4. QED
    BY <1>2, <2>1, <2>2, <2>3 DEF SenderInv
<1>6. CompleteWasHanded'
  <2>1. ev["receiver"].state # "COMPLETE"
    BY <1>2, <1>3, TwoSides DEF EndedIsToldAndGone, Alive, Ended
  <2>2. QED
    BY <1>3, <2>1 DEF CompleteWasHanded
<1>7. QED
  BY <1>1, <1>4, <1>5, <1>6 DEF IInv, TransferInv

\* A receiver that ends keeps it if what it has stored is in order.
LEMMA ReceiverEnds ==
    ASSUME IInv, SocketStep("receiver"), IsEnded("receiver"),
           data'["receiver"] = <<>>, ~Alive("sender") => data'["sender"] = <<>>,
           data'["sender"] = <<>> \/ data'["sender"] = data["sender"], UNCHANGED m_files,
           HandedInOrder', CompleteWasHanded'
    PROVE  IInv'
<1>1. RequestInv' /\ UnusedInv'
  BY SocketStepKeepsRequest, SocketUnused, TwoSides DEF IInv
<1>2. ClientsInv /\ CountInv /\ SenderInv /\ LeftInv
  BY TransferParts
<1>3. /\ Alive("receiver") /\ ftc'["sender"] = ftc["sender"] /\ ev'["sender"] = ev["sender"]
      /\ UNCHANGED <<sent, direct, answered, seq, asked, queued, aside, cached, control>>
      /\ ftc'["receiver"] = NoClient /\ answered
  BY <1>2, TwoSides DEF SocketStep, IsEnded, ClientsInv
<1>4. ~Alive("receiver")' /\ (Alive("sender")' <=> Alive("sender")) /\ Sender' = Sender
  BY <1>3, NoClientTyped DEF Alive, Sender
<1>5. CountInv'
  <2>1. SenderCount => SenderCount'
    BY <1>3 DEF SenderCount
  <2>2. Requested
    BY <1>2, <1>3 DEF Requested, ClientsInv
  <2>3. QED
    BY <1>2, <1>3, <1>4, <2>1, <2>2 DEF CountInv
<1>6. SenderInv'
  BY <1>2, <1>4 DEF SenderInv, Up
<1>7. ReceiverInv'
  BY <1>3, <1>4, NoClientTyped DEF ReceiverInv, Receiver, Down
<1>8. CompleteInv'
  BY <1>4 DEF CompleteInv
<1>9. LeftInv'
  BY <1>2, <1>3, LeftFrame
<1>10. QED
  BY <1>1, <1>5, <1>6, <1>7, <1>8, <1>9 DEF IInv, TransferInv

\* Nothing but the dialogue of side s changes.
OnlyFiles(s) ==
    /\ UNCHANGED <<sent, direct, answered, seq, asked, queued, aside, cached, control>>
    /\ m_files' \in Seq(Entries) /\ stored' \in Seq([dir : BOOLEAN, got : Nat]) /\ undefined' \in BOOLEAN
    /\ Alive(s) /\ (s = "receiver" => Receiver.m_socket = "CONNECTED")

\* Both ends of a step in the dialogue are steps of the socket of that side.
LEMMA ContinueIsStep ==
    ASSUME CoreOK, NEW s \in Sides, OnlyFiles(s), NEW c \in Clients, NEW e \in Events,
           NEW rest \in Seq(Packets), NEW packets \in Seq(Packets), Continue(s, c, e, rest, packets),
           c.m_state # "NONE", e.state = ev[s].state
    PROVE  /\ SocketStep(s) /\ GoesOn(s)
           /\ ftc'[s] = c /\ ftc'[Other(s)] = ftc[Other(s)]
           /\ ev'[s] = e /\ ev'[Other(s)] = ev[Other(s)]
           /\ data'[s] = rest
           /\ data'[Other(s)] = IF Alive(Other(s)) THEN data[Other(s)] \o packets ELSE data[Other(s)]
<1>1. /\ ftc' \in [Sides -> Clients] /\ ftc'[s] = c /\ ftc'[Other(s)] = ftc[Other(s)]
      /\ ev' \in [Sides -> Events] /\ ev'[s] = e /\ ev'[Other(s)] = ev[Other(s)]
      /\ data' \in [Sides -> Seq(Packets)] /\ data'[s] = rest
      /\ data'[Other(s)] = IF Alive(Other(s)) THEN data[Other(s)] \o packets ELSE data[Other(s)]
  BY ContinueStep
<1>2. GoesOn(s)
  BY <1>1 DEF GoesOn
<1>3. SocketStep(s)
  BY <1>1, <1>2 DEF SocketStep, OnlyFiles
<1>4. QED
  BY <1>1, <1>2, <1>3

LEMMA DisconnectIsStep ==
    ASSUME CoreOK, NEW s \in Sides, OnlyFiles(s), NEW e \in Events, NEW rest, NEW packets \in Seq(Packets),
           DisconnectDirectConn(s, e, rest, packets)
    PROVE  /\ SocketStep(s) /\ IsEnded(s)
           /\ ftc'[s] = NoClient /\ ftc'[Other(s)] = ftc[Other(s)] /\ ev'[Other(s)] = ev[Other(s)]
           /\ ev'[s].state = IF e.state \in {"COMPLETE", "ERROR"} THEN e.state ELSE "CANCELLED"
           /\ ev'[s].totalSize = e.totalSize /\ ev'[s].totalFiles = e.totalFiles
           /\ data'[s] = <<>>
           /\ data'[Other(s)] = <<>> \/ data'[Other(s)] = data[Other(s)] \o packets
           /\ rest = <<>> /\ Alive(Other(s)) => data'[Other(s)] = data[Other(s)] \o packets
           /\ ~Alive(Other(s)) => data'[Other(s)] = <<>>
<1>1. /\ ftc' \in [Sides -> Clients] /\ ftc'[s] = NoClient /\ ftc'[Other(s)] = ftc[Other(s)]
      /\ ev' \in [Sides -> Events] /\ ev'[Other(s)] = ev[Other(s)]
      /\ ev'[s].state = IF e.state \in {"COMPLETE", "ERROR"} THEN e.state ELSE "CANCELLED"
      /\ ev'[s].told = ev'[s].state
      /\ ev'[s].totalSize = e.totalSize /\ ev'[s].totalFiles = e.totalFiles
      /\ data' \in [Sides -> Seq(Packets)] /\ data'[s] = <<>>
      /\ data'[Other(s)] = <<>> \/ data'[Other(s)] = data[Other(s)] \o packets
      /\ rest = <<>> /\ Alive(Other(s)) => data'[Other(s)] = data[Other(s)] \o packets
      /\ ~Alive(Other(s)) => data'[Other(s)] = <<>>
  BY DisconnectStep
<1>2. IsEnded(s)
  BY <1>1 DEF IsEnded, Ended
<1>3. SocketStep(s)
  BY <1>1, <1>2 DEF SocketStep, OnlyFiles
<1>4. QED
  BY <1>1, <1>2, <1>3

LEMMA SidesTyped ==
    ASSUME IInv
    PROVE  /\ Sender \in Clients /\ Receiver \in Clients
           /\ ev["sender"] \in Events /\ ev["receiver"] \in Events
           /\ Up \in Seq(Packets) /\ Down \in Seq(Packets) /\ m_files \in Seq(Entries)
           /\ stored \in Seq([dir : BOOLEAN, got : Nat]) /\ undefined \in BOOLEAN
           /\ Held \in Nat /\ sent \in Seq(Entries) /\ Len(sent) \in Nat /\ sent # <<>>
           /\ \A i \in 1 .. Len(sent) : /\ sent[i].size \in Nat /\ sent[i].kind \in Kinds
                                        /\ sent[i].kind = "dir" => sent[i].size = 0
           /\ \A i \in 1 .. Held : stored[i].dir \in BOOLEAN /\ stored[i].got \in Nat
<1>1. CoreOK
  BY TransferParts
<1>2. sent \in FileLists
  BY <1>1 DEF CoreOK
<1>3. sent \in Seq(Entries) /\ sent # <<>>
  BY <1>2, Lists DEF Entries
<1>4. \A i \in 1 .. Len(sent) : sent[i].kind = "dir" => sent[i].size = 0
  BY <1>2, Lists
<1>5. Len(sent) \in Nat /\ \A i \in 1 .. Len(sent) : sent[i] \in Entries
  BY <1>3, LenProperties, ElementOfSeq
<1>6. stored \in Seq([dir : BOOLEAN, got : Nat])
  BY <1>1 DEF CoreOK
<1>7. Held \in Nat /\ \A i \in 1 .. Held : stored[i] \in [dir : BOOLEAN, got : Nat]
  BY <1>6, LenProperties, ElementOfSeq DEF Held
<1>8. m_files \in Seq(Entries)
  BY <1>1 DEF CoreOK, Entries
<1>9. QED
  BY <1>1, <1>3, <1>4, <1>5, <1>6, <1>7, <1>8, TwoSides DEF CoreOK, Sender, Receiver, Up, Down,
                                                            Entries

\* The sender ends, and has sent nothing more, and the transfer was not complete.
LEMMA SenderCutKeeps ==
    ASSUME IInv, OnlyFiles("sender"), UNCHANGED stored, NEW e \in Events, NEW rest,
           DisconnectDirectConn("sender", e, rest, <<>>),
           e.state # "COMPLETE", e.totalSize = ev["sender"].totalSize, e.totalFiles = ev["sender"].totalFiles
    PROVE  IInv'
<1>1. CoreOK /\ ReceiverInv
  BY TransferParts
<1>2. Down \in Seq(Packets) /\ Down \o <<>> = Down /\ <<>> \in Seq(Packets)
  BY SidesTyped, NothingIsSent
<1>3. /\ SocketStep("sender") /\ IsEnded("sender")
      /\ ftc'["receiver"] = ftc["receiver"]
      /\ ev'["sender"].state # "COMPLETE"
      /\ ev'["sender"].totalSize = e.totalSize /\ ev'["sender"].totalFiles = e.totalFiles
      /\ data'["sender"] = <<>>
      /\ data'["receiver"] = <<>> \/ data'["receiver"] = data["receiver"] \o <<>>
  BY <1>1, <1>2, DisconnectIsStep, TwoSides
<1>4. Down' = <<>> \/ Down' = Down
  BY <1>2, <1>3 DEF Down
<1>5. ReceiverInv'
  BY <1>1, <1>3, <1>4, ReceiverCut DEF OnlyFiles
<1>6. CompleteInv'
  BY <1>3 DEF CompleteInv
<1>7. QED
  BY <1>3, <1>5, <1>6, SenderEnds

\* The receiver ends without a word of completeness.
LEMMA ReceiverCutKeeps ==
    ASSUME IInv, OnlyFiles("receiver"), UNCHANGED <<m_files, stored>>, NEW e \in Events, NEW rest,
           DisconnectDirectConn("receiver", e, rest, <<>>), e.state # "COMPLETE"
    PROVE  IInv'
<1>1. CoreOK /\ HandedInOrder
  BY TransferParts
<1>2. <<>> \in Seq(Packets) /\ data["sender"] \o <<>> = data["sender"]
  BY SidesTyped, NothingIsSent DEF Up
<1>3. /\ SocketStep("receiver") /\ IsEnded("receiver")
      /\ ev'["receiver"].state # "COMPLETE"
      /\ data'["receiver"] = <<>>
      /\ ~Alive("sender") => data'["sender"] = <<>>
      /\ data'["sender"] = <<>> \/ data'["sender"] = data["sender"] \o <<>>
  BY <1>1, <1>2, DisconnectIsStep, TwoSides
<1>4. HandedInOrder' /\ CompleteWasHanded'
  BY <1>1, <1>3 DEF HandedInOrder, CompleteWasHanded, OnlyFiles
<1>5. QED
  BY <1>2, <1>3, <1>4, ReceiverEnds

\* An event with a client is neither ended nor without an answer.
LEMMA AliveIsNotEnded ==
    ASSUME IInv, NEW s \in Sides, Alive(s)
    PROVE  ev[s].state \notin Ended /\ ev[s].state # "COMPLETE" /\ answered /\ ev["receiver"].state # "NONE"
<1>1. EndedIsToldAndGone /\ ClientsInv
  BY TransferParts
<1>2. QED
  BY <1>1 DEF EndedIsToldAndGone, ClientsInv, Alive, Ended

\* The end of file is the end of a transfer that is not complete.
LEMMA EndOfFileKeeps ==
    ASSUME IInv, NEW s \in Sides, EndOfFile(s)
    PROVE  IInv'
<1>1. /\ ftc[s].m_socket = "CONNECTED" /\ DisconnectDirectConn(s, ev[s], <<>>, <<>>)
      /\ UNCHANGED <<sent, direct, answered, seq, asked, queued, aside, m_files, cached, control, stored, undefined>>
  BY DEF EndOfFile, requestVars, askVars, askedVars
<1>2. Alive(s)
  BY <1>1, TransferParts, NoClientTyped DEF ClientsInv
<1>3. ev[s] \in Events /\ ev[s].state # "COMPLETE"
  BY <1>2, AliveIsNotEnded, SidesTyped, TwoSides
<1>4. OnlyFiles(s)
  BY <1>1, <1>2, SidesTyped DEF OnlyFiles, Receiver
<1>5. CASE s = "sender"
  BY <1>1, <1>3, <1>4, <1>5, SenderCutKeeps
<1>6. CASE s = "receiver"
  BY <1>1, <1>3, <1>4, <1>6, ReceiverCutKeeps
<1>7. QED
  BY <1>5, <1>6, TwoSides

\* The same two lemmas in the words of each side.
LEMMA SenderContinues ==
    ASSUME IInv, OnlyFiles("sender"), NEW c \in Clients, NEW e \in Events,
           NEW rest \in Seq(Packets), NEW packets \in Seq(Packets), Continue("sender", c, e, rest, packets),
           c.m_state # "NONE", e.state = ev["sender"].state
    PROVE  /\ SocketStep("sender") /\ GoesOn("sender")
           /\ Sender' = c /\ Receiver' = Receiver
           /\ ev'["sender"] = e /\ ev'["receiver"] = ev["receiver"]
           /\ Up' = rest /\ Down' = IF Alive("receiver") THEN Down \o packets ELSE Down
           /\ Alive("receiver")' <=> Alive("receiver")
<1>1. CoreOK /\ "sender" \in Sides /\ Other("sender") = "receiver"
  BY TransferParts, TwoSides
<1>2. /\ SocketStep("sender") /\ GoesOn("sender")
      /\ ftc'["sender"] = c /\ ftc'["receiver"] = ftc["receiver"]
      /\ ev'["sender"] = e /\ ev'["receiver"] = ev["receiver"]
      /\ data'["sender"] = rest
      /\ data'["receiver"] = IF Alive("receiver") THEN data["receiver"] \o packets ELSE data["receiver"]
  BY <1>1, ContinueIsStep
<1>3. QED
  BY <1>2 DEF Sender, Receiver, Up, Down, Alive

LEMMA ReceiverContinues ==
    ASSUME IInv, OnlyFiles("receiver"), NEW c \in Clients, NEW e \in Events,
           NEW rest \in Seq(Packets), NEW packets \in Seq(Packets), Continue("receiver", c, e, rest, packets),
           c.m_state # "NONE", e.state = ev["receiver"].state
    PROVE  /\ SocketStep("receiver") /\ GoesOn("receiver")
           /\ Receiver' = c /\ Sender' = Sender
           /\ ev'["receiver"] = e /\ ev'["sender"] = ev["sender"]
           /\ Down' = rest /\ Up' = IF Alive("sender") THEN Up \o packets ELSE Up
           /\ Alive("sender")' <=> Alive("sender")
<1>1. CoreOK /\ "receiver" \in Sides /\ Other("receiver") = "sender"
  BY TransferParts, TwoSides
<1>2. /\ SocketStep("receiver") /\ GoesOn("receiver")
      /\ ftc'["receiver"] = c /\ ftc'["sender"] = ftc["sender"]
      /\ ev'["receiver"] = e /\ ev'["sender"] = ev["sender"]
      /\ data'["receiver"] = rest
      /\ data'["sender"] = IF Alive("sender") THEN data["sender"] \o packets ELSE data["sender"]
  BY <1>1, ContinueIsStep
<1>3. QED
  BY <1>2 DEF Sender, Receiver, Up, Down, Alive

LEMMA SenderDisconnects ==
    ASSUME IInv, OnlyFiles("sender"), NEW e \in Events, NEW packets \in Seq(Packets),
           DisconnectDirectConn("sender", e, <<>>, packets)
    PROVE  /\ SocketStep("sender") /\ IsEnded("sender")
           /\ ftc'["receiver"] = ftc["receiver"]
           /\ ev'["sender"].totalSize = e.totalSize /\ ev'["sender"].totalFiles = e.totalFiles
           /\ data'["sender"] = <<>>
           /\ Alive("receiver") => data'["receiver"] = data["receiver"] \o packets
           /\ ~Alive("receiver") => data'["receiver"] = <<>>
<1>1. CoreOK /\ "sender" \in Sides /\ Other("sender") = "receiver"
  BY TransferParts, TwoSides
<1>2. QED
  BY <1>1, DisconnectIsStep

-----------------------------------------------------------------------------
(* The connection of the sender, and its side of the handshake.              *)

LEMMA UnchangedKeeps ==
    ASSUME IInv, UNCHANGED <<sent, direct, answered, seq, asked, queued, aside, m_files, ev, cached, control, ftc, data, stored>>,
           undefined' \in BOOLEAN
    PROVE  IInv'
<1>1. /\ CoreOK /\ ControlInv /\ ClientsInv /\ EventInv /\ CacheInv /\ EndedIsToldAndGone
      /\ UnusedInv /\ CountInv /\ ReceiverInv /\ SenderInv /\ CompleteInv
      /\ HandedInOrder /\ CompleteWasHanded
  BY TransferParts
<1>2. CoreOK'
  BY <1>1 DEF CoreOK
<1>3. ControlInv' /\ ClientsInv' /\ EventInv' /\ CacheInv' /\ EndedIsToldAndGone'
  BY <1>1 DEF ControlInv, ClientsInv, EventInv, CacheInv, EndedIsToldAndGone,
              Alive, Receiver
<1>4. RequestInv'
  BY <1>2, <1>3 DEF RequestInv
<1>5. SameFiles
  BY DEF SameFiles
<1>6. UnusedInv' /\ CountInv'
  <2>1. SameCounts
    BY DEF SameCounts
  <2>2. Requested' => Requested
    BY DEF Requested
  <2>3. Alive("receiver")' <=> Alive("receiver")
    BY DEF Alive
  <2>4. QED
    BY <1>5, <2>1, <2>2, <2>3, SameCountsFrame, UnusedFrame
<1>7. QED
  BY <1>4, <1>5, <1>6, RequestFrame DEF IInv

LEMMA InitPacketTyped ==
    ASSUME NEW c \in Clients
    PROVE  SendInitPacket(c) \in InitPackets /\ SendInitPacket(c) \in Packets
<1>1. SendInitPacket(c) \in InitPackets
  BY DEF SendInitPacket, InitPackets
<1>2. InitPackets \subseteq Packets
  BY DEF InitPackets, Packets
<1>3. QED
  BY <1>1, <1>2

\* The connect completes: the first packet under way to the receiver is INIT.
LEMMA FinishNonBlockingConnectKeeps ==
    ASSUME IInv, FinishNonBlockingConnect
    PROVE  IInv'
<1>1. CoreOK /\ ClientsInv /\ ReceiverInv /\ SenderInv /\ LeftInv
  BY TransferParts
<1>2. /\ ftc["sender"].m_socket = "NONBLOCKING_CONNECT"
      /\ UNCHANGED <<sent, direct, answered, seq, asked, queued, aside, m_files, cached, control, stored>>
  BY DEF FinishNonBlockingConnect, requestVars, askVars, askedVars
<1>3. Alive("sender") /\ Sender.m_state = "WAITING_FOR_INIT_ACK" /\ Sender.m_socket # "CONNECTED"
  BY <1>1, <1>2, NoClientTyped, TwoSides DEF ClientsInv, SenderInv, Sender
<1>4. ev["sender"] \in Events /\ Up \in Seq(Packets) /\ Down \in Seq(Packets)
  BY SidesTyped
<1>5. CASE /\ Alive("receiver") /\ Receiver.m_socket \in Unset /\ UNCHANGED undefined
           /\ Continue("sender", [ftc["sender"] EXCEPT !.m_socket = "CONNECTED"],
                       ev["sender"], data["sender"], <<SendInitPacket(ftc["sender"])>>)
  <2>1. PICK x \in Clients : x = ftc["sender"]
    BY <1>1, TwoSides DEF CoreOK
  <2>2. PICK c : c = [x EXCEPT !.m_socket = "CONNECTED"]
    OBVIOUS
  <2>3. /\ c \in Clients /\ c.m_socket = "CONNECTED" /\ c.m_state = x.m_state
        /\ c.m_msgqueue = x.m_msgqueue /\ c.m_continue = x.m_continue /\ c.m_more = x.m_more
    BY <2>2 DEF Clients, Sockets
  <2>4. PICK p : p = SendInitPacket(x)
    OBVIOUS
  <2>5. p \in InitPackets /\ p \in Packets
    BY <2>4, InitPacketTyped
  <2>6. /\ <<p>> \in Seq(Packets) /\ Len(<<p>>) = 1 /\ <<p>>[1] = p /\ <<>> \o <<p>> = <<p>>
    BY <2>5
  <2>7. Continue("sender", c, ev["sender"], Up, <<p>>)
    BY <1>5, <2>1, <2>2, <2>4 DEF Up
  <2>8. OnlyFiles("sender")
    BY <1>2, <1>3, <1>5, SidesTyped DEF OnlyFiles
  <2>9. /\ SocketStep("sender") /\ GoesOn("sender")
        /\ Sender' = c /\ Receiver' = Receiver
        /\ ev'["sender"] = ev["sender"] /\ Up' = Up
        /\ Down' = IF Alive("receiver") THEN Down \o <<p>> ELSE Down
        /\ Alive("receiver")' <=> Alive("receiver")
    <3>1. c.m_state # "NONE"
      BY <1>3, <2>1, <2>3 DEF Sender
    <3>2. QED
      BY <1>4, <2>3, <2>6, <2>7, <2>8, <3>1, SenderContinues
  <2>10. Greeting /\ Receiver.m_state = "WAITING_FOR_INIT"
    BY <1>1, <1>3, <1>5 DEF SenderInv, ReceiverInv, Unset
  <2>11. Down = <<>> /\ stored = <<>>
    BY <1>3, <2>10 DEF Greeting
  <2>12. Down' = <<p>> /\ Receiver' = Receiver /\ Sender' = c /\ Up' = Up
    BY <1>5, <2>6, <2>9, <2>11
  <2>13. InitIn(Down)'
    BY <2>5, <2>6, <2>12 DEF InitIn
  <2>14. ReceiverInv'
    BY <1>1, <1>2, <1>5, <2>9, <2>10, <2>11, <2>12, <2>13 DEF ReceiverInv, Held
  <2>15. Greeting'
    BY <1>2, <1>3, <2>1, <2>3, <2>10, <2>12 DEF Greeting, Sender
  <2>16. Sender'.m_state = "WAITING_FOR_INIT_ACK"
    BY <1>3, <2>1, <2>3, <2>12 DEF Sender
  <2>17. ftc'["sender"].m_socket = "CONNECTED"
    BY <2>3, <2>9 DEF Sender
  <2>18. LeftInv'
    BY <1>1, <1>2, <1>3, <2>1, <2>3, <2>9, <2>12 DEF LeftInv, Left, Sender
  <2>19. QED
    BY <1>2, <1>5, <2>9, <2>14, <2>15, <2>16, <2>17, <2>18, SenderGoes
<1>6. CASE undefined' = TRUE /\ UNCHANGED <<ftc, ev, data>>
  BY <1>2, <1>6, UnchangedKeeps
<1>7. CASE DisconnectDirectConn("sender", ev["sender"], <<>>, <<>>) /\ UNCHANGED undefined
  <2>1. OnlyFiles("sender")
    BY <1>2, <1>3, <1>7, SidesTyped DEF OnlyFiles
  <2>2. ev["sender"].state # "COMPLETE"
    BY <1>3, AliveIsNotEnded, TwoSides
  <2>3. QED
    BY <1>2, <1>4, <1>7, <2>1, <2>2, SenderCutKeeps
<1>8. QED
  BY <1>5, <1>6, <1>7 DEF FinishNonBlockingConnect, Alive, Receiver

-----------------------------------------------------------------------------
(* The sender goes on: what it announces and sends.                          *)

LEMMA SenderContinuesKeeps ==
    ASSUME IInv, OnlyFiles("sender"), UNCHANGED stored, NEW c \in Clients, NEW e \in Events,
           NEW rest \in Seq(Packets), NEW packets \in Seq(Packets), Continue("sender", c, e, rest, packets),
           c.m_state # "NONE", c.m_socket = "CONNECTED", e.state = ev["sender"].state,
           e.totalSize = ev["sender"].totalSize, e.totalFiles = ev["sender"].totalFiles,
           Alive("receiver") => ReceiverInv' /\ IF c.m_state = "CONNECTED" THEN Dialogue' ELSE Greeting',
           LeftInv'
    PROVE  IInv'
<1>1. /\ SocketStep("sender") /\ GoesOn("sender") /\ Sender' = c
      /\ ev'["sender"] = e /\ Down' = IF Alive("receiver") THEN Down \o packets ELSE Down
  BY SenderContinues
<1>2. ftc'["sender"].m_socket = "CONNECTED" /\ (~Alive("receiver") => data'["receiver"] = data["receiver"])
  BY <1>1 DEF Sender, Down
<1>3. QED
  BY <1>1, <1>2, SenderGoes

\* One packet more under way.
LEMMA OneMore ==
    ASSUME NEW q \in Seq(Packets), NEW p \in Packets
    PROVE  /\ q \o <<p>> \in Seq(Packets) /\ Len(q \o <<p>>) = Len(q) + 1 /\ q \o <<p>> # <<>>
           /\ \A i \in 1 .. Len(q) : (q \o <<p>>)[i] = q[i]
           /\ (q \o <<p>>)[Len(q) + 1] = p
           /\ Len(q) \in Nat /\ <<p>> \in Seq(Packets)
<1>1. PICK one : one = <<p>>
  OBVIOUS
<1>2. one \in Seq(Packets) /\ Len(one) = 1 /\ one[1] = p
  BY <1>1
<1>3. /\ q \o one \in Seq(Packets) /\ Len(q \o one) = Len(q) + Len(one)
      /\ \A i \in 1 .. Len(q) + Len(one) : (q \o one)[i] = IF i <= Len(q) THEN q[i] ELSE one[i - Len(q)]
  BY <1>2, ConcatProperties
<1>4. Len(q) \in Nat
  OBVIOUS
<1>5. /\ \A i \in 1 .. Len(q) : (q \o one)[i] = q[i]
      /\ (q \o one)[Len(q) + 1] = p
  BY <1>2, <1>3, <1>4
<1>6. q \o one # <<>>
  BY <1>2, <1>3, <1>4
<1>7. QED
  BY <1>1, <1>2, <1>3, <1>4, <1>5, <1>6

\* The next entry is the one after those announced.
LEMMA LeftNext ==
    ASSUME NEW k \in Nat, m_files \in Seq(Entries), m_files # <<>>, Left(k), sent' = sent,
           m_files' = Tail(m_files), Len(sent) \in Nat
    PROVE  Left(k + 1)' /\ Head(m_files) = sent[k + 1] /\ k + 1 <= Len(sent)
<1>1. PICK q : q = m_files
  OBVIOUS
<1>2. /\ q \in Seq(Entries) /\ q # <<>> /\ k <= Len(sent) /\ Len(q) = Len(sent) - k
      /\ \A i \in 1 .. Len(q) : q[i] = sent[k + i]
  BY <1>1 DEF Left
<1>3. PICK t : t = Tail(q)
  OBVIOUS
<1>4. Len(q) \in Nat /\ Len(q) > 0 /\ Head(q) = q[1] /\ Len(t) = Len(q) - 1 /\ \A i \in 1 .. Len(t) : t[i] = q[i + 1]
  BY <1>2, <1>3
<1>5. k + 1 <= Len(sent) /\ Len(t) = Len(sent) - (k + 1)
  BY <1>2, <1>4
<1>6. ASSUME NEW i \in 1 .. Len(t) PROVE t[i] = sent[(k + 1) + i]
  <2>1. i + 1 \in 1 .. Len(q) /\ t[i] = q[i + 1] /\ k + (i + 1) = (k + 1) + i
    BY <1>4
  <2>2. QED
    BY <1>2, <2>1
<1>7. Head(q) = sent[k + 1]
  BY <1>2, <1>4
<1>8. m_files' = t
  BY <1>1, <1>3
<1>9. QED
  BY <1>1, <1>5, <1>6, <1>7, <1>8 DEF Left

\* The next entry is announced after the last piece of the one before, passed
\* over, or cannot be opened.
LEMMA SendPacket0x02Keeps ==
    ASSUME IInv, Alive("sender"), UNCHANGED <<sent, direct, answered, seq, asked, queued, aside, cached, control, stored, undefined>>,
           NEW c \in Clients, c.m_state = "CONNECTED", c.m_socket = "CONNECTED", ~c.m_continue,
           NEW e \in Events, e.state = ev["sender"].state,
           e.totalSize = ev["sender"].totalSize, e.totalFiles = ev["sender"].totalFiles,
           m_files # <<>>, SendPacket0x02(c, e, <<>>, <<>>),
           Alive("receiver") => /\ ~c.m_msgqueue /\ ~c.m_more /\ Receiver.m_state = "CONNECTED"
                                /\ OnlyPieces /\ Left(Held)
                                /\ Held > 0 => After(Len(Down)) = sent[Held].size
    PROVE  IInv'
<1>1. PICK f : f = Head(m_files)
  OBVIOUS
<1>2. /\ Down \in Seq(Packets) /\ Up \in Seq(Packets) /\ m_files \in Seq(Entries) /\ Held \in Nat /\ Len(sent) \in Nat
      /\ stored \in Seq([dir : BOOLEAN, got : Nat]) /\ undefined \in BOOLEAN
  BY SidesTyped
<1>3. f \in Entries /\ Tail(m_files) \in Seq(Entries) /\ m_files' = Tail(m_files)
  BY <1>1, <1>2 DEF SendPacket0x02
<1>4. OnlyFiles("sender")
  BY <1>2, <1>3 DEF OnlyFiles
<1>5. ReceiverInv /\ <<>> \in Seq(Packets) /\ Down \o <<>> = Down
  BY <1>2, TransferParts, NothingIsSent
<1> PICK k \in Nat : k = Held
  BY <1>2
<1>6. Alive("receiver") => Left(k + 1)' /\ f = sent[k + 1] /\ k + 1 <= Len(sent)
  BY <1>1, <1>2, <1>3, LeftNext
<1>7. Held' = k /\ (OnlyPieces /\ Down' = Down => OnlyPieces')
  BY DEF Held, OnlyPieces, Pieces, After, Piece
<1>8. CASE /\ f.kind # "other"
           /\ Continue("sender", [c EXCEPT !.m_senddir = (f.kind = "dir")],
                       Told([e EXCEPT !.currFile = e.currFile + 1, !.pos = 0, !.size = f.size]),
                       <<>>, Append(<<>>, [type |-> "0x02", dir |-> f.kind = "dir", size |-> f.size]))
  <2>1. PICK d : d = [c EXCEPT !.m_senddir = (f.kind = "dir")]
    OBVIOUS
  <2>2. /\ d \in Clients /\ d.m_state = "CONNECTED" /\ d.m_socket = "CONNECTED" /\ ~d.m_continue
        /\ d.m_msgqueue = c.m_msgqueue /\ d.m_more = c.m_more /\ d.m_senddir = (f.kind = "dir")
    BY <2>1 DEF Clients
  <2>3. PICK g : g = Told([e EXCEPT !.currFile = e.currFile + 1, !.pos = 0, !.size = f.size])
    OBVIOUS
  <2>4. /\ g \in Events /\ g.state = e.state /\ g.totalSize = e.totalSize /\ g.totalFiles = e.totalFiles
        /\ g.size = f.size
    <3>1. PICK next \in Nat, size \in Nat : next = e.currFile + 1 /\ size = f.size
      BY <1>3 DEF Events, Entries
    <3>2. PICK h : h = [e EXCEPT !.currFile = next, !.pos = 0, !.size = size]
      OBVIOUS
    <3>3. /\ h \in Events /\ h.state = e.state /\ h.totalSize = e.totalSize /\ h.totalFiles = e.totalFiles
          /\ h.size = size
      BY <3>2 DEF Events
    <3>4. g = Told(h)
      BY <2>3, <3>1, <3>2
    <3>5. QED
      BY <3>1, <3>3, <3>4, ToldTyped
  <2>5. PICK p : p = [type |-> "0x02", dir |-> f.kind = "dir", size |-> f.size]
    OBVIOUS
  <2>6. p \in Packets
    BY <1>3, <2>5 DEF Packets, Entries
  <2>7. Append(<<>>, p) = <<p>> /\ <<p>> \in Seq(Packets)
    BY <2>6, OneTuple
  <2>8. Continue("sender", d, g, <<>>, <<p>>)
    BY <1>8, <2>1, <2>3, <2>5, <2>7
  <2>9. /\ Sender' = d /\ Receiver' = Receiver /\ ev'["sender"] = g
        /\ Up' = <<>> /\ Down' = IF Alive("receiver") THEN Down \o <<p>> ELSE Down
        /\ Alive("receiver")' <=> Alive("receiver")
    BY <1>4, <1>5, <2>2, <2>4, <2>7, <2>8, SenderContinues
  <2>10. ASSUME Alive("receiver") PROVE ReceiverInv' /\ Dialogue'
    <3>1. /\ Down' = Down \o <<p>> /\ Len(Down') = Len(Down) + 1 /\ Down' # <<>> /\ Len(Down) \in Nat
          /\ \A i \in 1 .. Len(Down) : Down'[i] = Down[i]
          /\ Down'[Len(Down) + 1] = p
      BY <1>2, <2>6, <2>9, <2>10, OneMore
    <3>2. p = Announce(k + 1)
      BY <1>6, <2>5, <2>10 DEF Announce
    <3> PICK n : n = Len(Down)
      OBVIOUS
    <3>3. n \in Nat /\ Len(Down') = n + 1 /\ Len(Down') - 1 = n
      BY <3>1
    <3>4. Pieces(n)' /\ (k > 0 => After(n)' = sent[k].size)
      BY <1>7, <2>10, <3>1, <3>3 DEF OnlyPieces, Pieces, After, Piece
    <3>5. ThenAnnounced'
      <4>1. Down'[Len(Down')] = Announce(k + 1)'
        BY <3>1, <3>2, <3>3 DEF Announce
      <4>2. QED
        BY <1>6, <1>7, <2>10, <3>1, <3>3, <3>4, <4>1 DEF ThenAnnounced
    <3>6. Receiver'.m_state = "CONNECTED"
      BY <2>9, <2>10
    <3>7. ReceiverInv'
      BY <1>5, <2>9, <2>10, <3>5, <3>6 DEF ReceiverInv
    <3>8. Announced'
      BY <1>6, <1>7, <2>2, <2>4, <2>9, <2>10, <3>5, <3>6, <1>8 DEF Announced, Open
    <3>9. QED
      BY <2>2, <2>9, <2>10, <3>7, <3>8 DEF Dialogue
  <2>11. LeftInv'
    BY <2>2, <2>9 DEF LeftInv
  <2>12. QED
    BY <1>4, <1>5, <2>2, <2>4, <2>7, <2>8, <2>10, <2>11, SenderContinuesKeeps
<1>9. CASE f.kind = "other" /\ Continue("sender", c, Told(e), <<>>, <<>>)
  <2>1. PICK g : g = Told(e)
    OBVIOUS
  <2>2. /\ g \in Events /\ g.state = e.state /\ g.totalSize = e.totalSize /\ g.totalFiles = e.totalFiles
    BY <2>1, ToldTyped
  <2>3. Continue("sender", c, g, <<>>, <<>>)
    BY <1>9, <2>1
  <2>4. /\ Sender' = c /\ Receiver' = Receiver /\ Up' = <<>> /\ Down' = Down
        /\ Alive("receiver")' <=> Alive("receiver")
    <3>1. /\ Sender' = c /\ Receiver' = Receiver
          /\ Up' = <<>> /\ Down' = IF Alive("receiver") THEN Down \o <<>> ELSE Down
          /\ Alive("receiver")' <=> Alive("receiver")
      BY <1>4, <1>5, <2>2, <2>3, SenderContinues
    <3>2. QED
      BY <1>5, <3>1
  <2>5. ASSUME Alive("receiver") PROVE ReceiverInv' /\ Dialogue'
    <3>1. OnlyPieces'
      BY <1>7, <2>4, <2>5
    <3>2. ReceiverInv'
      BY <2>4, <2>5, <1>5, <3>1 DEF ReceiverInv
    <3>3. Passed'
      BY <2>4, <2>5, <3>1 DEF Passed
    <3>4. QED
      BY <2>4, <2>5, <3>2, <3>3 DEF Dialogue
  <2>6. LeftInv'
    BY <2>4 DEF LeftInv
  <2>7. QED
    BY <1>4, <1>5, <2>2, <2>3, <2>5, <2>6, SenderContinuesKeeps
<1>10. CASE DisconnectDirectConn("sender", [e EXCEPT !.state = "ERROR"], <<>>, <<>>)
  <2>1. PICK g : g = [e EXCEPT !.state = "ERROR"]
    OBVIOUS
  <2>2. g \in Events /\ g.state = "ERROR" /\ g.totalSize = e.totalSize /\ g.totalFiles = e.totalFiles
    BY <2>1 DEF Events, EventStates
  <2>3. QED
    BY <1>4, <1>10, <2>1, <2>2, SenderCutKeeps
<1>11. QED
  BY <1>1, <1>8, <1>9, <1>10 DEF SendPacket0x02

\* One more piece is sent, and the last piece of the last entry ends the sender
\* with everything of the list stored or under way.
LEMMA SendPacket0x06Keeps ==
    ASSUME IInv, Alive("sender"), UNCHANGED <<sent, direct, answered, seq, asked, queued, aside, m_files, cached, control, stored, undefined>>,
           NEW c \in Clients, c.m_state = "CONNECTED", c.m_socket = "CONNECTED", c.m_continue,
           NEW e \in Events, e.state = ev["sender"].state,
           e.totalSize = ev["sender"].totalSize, e.totalFiles = ev["sender"].totalFiles,
           Left(e.currFile), SendPacket0x06(c, e, <<>>),
           Alive("receiver") => /\ ~c.m_msgqueue /\ Receiver.m_state = "CONNECTED" /\ OnlyPieces
                                /\ Held > 0 /\ e.currFile = Held
                                /\ c.m_senddir = (sent[Held].kind = "dir") /\ e.size = sent[Held].size
                                /\ sent[Held].kind # "other" /\ e.pos = After(Len(Down))
                                /\ sent[Held].size > 0 => After(Len(Down)) < sent[Held].size
    PROVE  IInv'
<1>1. /\ Down \in Seq(Packets) /\ Up \in Seq(Packets) /\ m_files \in Seq(Entries) /\ Held \in Nat /\ Len(sent) \in Nat
      /\ stored \in Seq([dir : BOOLEAN, got : Nat]) /\ undefined \in BOOLEAN
      /\ \A i \in 1 .. Len(sent) : sent[i].size \in Nat
      /\ \A i \in 1 .. Held : stored[i].got \in Nat
  BY SidesTyped
<1>2. OnlyFiles("sender")
  BY <1>1 DEF OnlyFiles
<1>3. ReceiverInv /\ HandedInOrder /\ Held <= Len(sent)
  BY TransferParts DEF HandedInOrder, Held
<1> PICK k \in Nat : k = Held
  BY <1>1
<1> PICK n \in Nat : n = Len(Down)
  BY <1>1
<1> PICK len \in {0, 1} : len = IF e.pos < e.size THEN 1 ELSE 0
  OBVIOUS
<1>4. PICK pos \in Nat, total \in Nat : pos = e.pos + len /\ total = e.totalPos + len
  BY DEF Events
<1>5. PICK g : g = [e EXCEPT !.pos = e.pos + len, !.totalPos = e.totalPos + len]
  OBVIOUS
<1>6. PICK p : p = [type |-> "0x06", length |-> len]
  OBVIOUS
<1>7. /\ g \in Events /\ g.state = e.state /\ g.totalSize = e.totalSize /\ g.totalFiles = e.totalFiles
      /\ g.pos = pos /\ g.size = e.size /\ g.currFile = e.currFile
  <2>1. g = [e EXCEPT !.pos = pos, !.totalPos = total]
    BY <1>4, <1>5
  <2>2. QED
    BY <2>1 DEF Events
<1>8. p \in Packets /\ <<p>> \in Seq(Packets)
  BY <1>6 DEF Packets
<1>9. PICK more \in BOOLEAN : more = (g.pos < e.size)
  <2>1. g.pos \in Nat /\ e.size \in Nat
    BY <1>7 DEF Events
  <2>2. (g.pos < e.size) \in BOOLEAN
    BY <2>1
  <2>3. QED
    BY <2>2
<1>10. ASSUME Alive("receiver"), Down' = Down \o <<p>>
      PROVE  /\ OnlyPieces' /\ Len(Down') = n + 1 /\ pos = After(n + 1)'
             /\ ~more => After(n + 1)' = sent[k].size
             /\ more => After(n + 1)' < sent[k].size
  <2>1. /\ Len(Down') = n + 1 /\ \A i \in 1 .. n : Down'[i] = Down[i]
        /\ Down'[n + 1] = p
    BY <1>1, <1>8, <1>10, OneMore
  <2>2. k \in 1 .. Len(sent) /\ k \in 1 .. Held
    BY <1>1, <1>3, <1>10
  <2>3. sent[k].size \in Nat /\ stored[k].got \in Nat
    BY <1>1, <2>2
  <2> PICK size \in Nat, got \in Nat : size = sent[k].size /\ got = stored[k].got
    BY <2>3
  <2>4. PICK x, y : x = After(n) /\ y = After(n + 1)'
    OBVIOUS
  <2>5. /\ x = (IF size = 0 THEN 0 ELSE got + n)
        /\ y = (IF size = 0 THEN 0 ELSE got + (n + 1))
    BY <2>4 DEF After, Held
  <2>6. /\ e.size = size /\ e.pos = x /\ (size > 0 => x < size) /\ g.pos = pos /\ pos = x + len
         /\ len = (IF x < size THEN 1 ELSE 0)
    BY <1>7, <1>10, <1>4, <2>4
  <2>7. pos = y /\ len = (IF size = 0 THEN 0 ELSE 1) /\ y <= size /\ (~more => y = size) /\ (more => y < size)
    <3>1. more <=> pos < size
      BY <1>9, <2>6
    <3>2. CASE size = 0
      BY <2>5, <2>6, <3>1, <3>2
    <3>3. CASE size > 0
      <4>1. x = got + n /\ y = got + (n + 1)
        BY <2>5, <3>3
      <4>2. x < size
        BY <2>6, <3>3
      <4>3. x \in Nat /\ y = x + 1 /\ x < size
        <5>1. PICK sum \in Nat : sum = got + n
          OBVIOUS
        <5>2. got + (n + 1) = sum + 1
          BY <5>1
        <5>3. QED
          BY <4>1, <4>2, <5>1, <5>2
      <4>4. len = 1 /\ pos = y
        BY <2>6, <4>3
      <4>5. y <= size /\ y \in Nat
        BY <4>3
      <4>6. more <=> y < size
        BY <3>1, <4>4
      <4>7. (~more => y = size) /\ (more => y < size)
        BY <4>5, <4>6
      <4>8. QED
        BY <3>3, <4>4, <4>5, <4>7
    <3>4. size = 0 \/ size > 0
      OBVIOUS
    <3>5. QED
      BY <3>2, <3>3, <3>4, Zenon
  <2>8. /\ pos = After(n + 1)' /\ len = (IF size = 0 THEN 0 ELSE 1)
        /\ After(n + 1)' <= size /\ (~more => After(n + 1)' = size) /\ (more => After(n + 1)' < size)
    BY <2>4, <2>7
  <2>9. p = Piece(k) /\ p = Piece(k)'
    BY <1>6, <2>8 DEF Piece
  <2>10. \A i \in 1 .. n : Down[i] = Piece(k)
    BY <1>10 DEF OnlyPieces, Pieces
  <2>11. \A i \in 1 .. n + 1 : Down'[i] = Piece(k)'
    <3>1. \A i \in 1 .. n + 1 : i \in 1 .. n \/ i = n + 1
      OBVIOUS
    <3>2. QED
      BY <2>1, <2>9, <2>10, <3>1
  <2>12. Held' = k /\ k > 0
    BY <1>10 DEF Held
  <2>13. Pieces(n + 1)'
    BY <2>8, <2>11, <2>12 DEF Pieces
  <2>14. OnlyPieces'
    BY <2>1, <2>13 DEF OnlyPieces
  <2>15. QED
    BY <2>1, <2>8, <2>14
<1>11. CASE (more \/ m_files # <<>>) /\ Continue("sender", [c EXCEPT !.m_more = more], Told(g), <<>>, <<p>>)
  <2>1. PICK d : d = [c EXCEPT !.m_more = more]
    OBVIOUS
  <2>2. /\ d \in Clients /\ d.m_state = "CONNECTED" /\ d.m_socket = "CONNECTED" /\ d.m_continue
        /\ d.m_msgqueue = c.m_msgqueue /\ d.m_more = more /\ d.m_senddir = c.m_senddir
    BY <2>1 DEF Clients
  <2>3. PICK h : h = Told(g)
    OBVIOUS
  <2>4. /\ h \in Events /\ h.state = e.state /\ h.totalSize = e.totalSize /\ h.totalFiles = e.totalFiles
        /\ h.pos = pos /\ h.size = e.size /\ h.currFile = e.currFile
    BY <1>7, <2>3, ToldTyped
  <2>5. Continue("sender", d, h, <<>>, <<p>>) /\ <<>> \in Seq(Packets)
    BY <1>1, <1>11, <2>1, <2>3, NothingIsSent
  <2>6. /\ Sender' = d /\ Receiver' = Receiver /\ ev'["sender"] = h
        /\ Up' = <<>> /\ Down' = IF Alive("receiver") THEN Down \o <<p>> ELSE Down
        /\ Alive("receiver")' <=> Alive("receiver")
    BY <1>2, <1>8, <2>2, <2>4, <2>5, SenderContinues
  <2>7. ASSUME Alive("receiver") PROVE ReceiverInv' /\ Dialogue'
    <3>1. /\ OnlyPieces' /\ Len(Down') = n + 1 /\ pos = After(n + 1)'
          /\ ~more => After(n + 1)' = sent[k].size
          /\ more => After(n + 1)' < sent[k].size
      BY <1>10, <2>6, <2>7
    <3>2. ReceiverInv'
      BY <1>3, <2>6, <2>7, <3>1 DEF ReceiverInv
    <3>3. Held' = k /\ k > 0 /\ Left(k)'
      BY <2>7 DEF Held, Left
    <3>4. Sending'
      <4>1. ~more => LastIsSent'
        BY <3>1, <3>3 DEF LastIsSent
      <4>2. more => Open(k)' /\ ev'["sender"].pos = After(n + 1)' /\ After(n + 1)' < sent[k].size
        BY <2>2, <2>4, <2>6, <2>7, <3>1 DEF Open
      <4>3. QED
        BY <2>2, <2>4, <2>6, <2>7, <3>1, <3>3, <4>1, <4>2 DEF Sending
    <3>5. QED
      BY <2>2, <2>6, <2>7, <3>2, <3>4 DEF Dialogue
  <2>8. LeftInv'
    BY <2>4, <2>6 DEF LeftInv, Left
  <2>9. QED
    BY <1>2, <1>8, <2>2, <2>4, <2>5, <2>7, <2>8, SenderContinuesKeeps
<1>12. CASE /\ ~(more \/ m_files # <<>>)
           /\ DisconnectDirectConn("sender", [g EXCEPT !.state = "COMPLETE"], <<>>, <<p>>)
  <2>1. PICK h : h = [g EXCEPT !.state = "COMPLETE"]
    OBVIOUS
  <2>2. h \in Events /\ h.state = "COMPLETE" /\ h.totalSize = e.totalSize /\ h.totalFiles = e.totalFiles
    BY <1>7, <2>1 DEF Events, EventStates
  <2>3. DisconnectDirectConn("sender", h, <<>>, <<p>>) /\ CoreOK
    BY <1>12, <2>1, TransferParts
  <2>4. /\ SocketStep("sender") /\ IsEnded("sender")
        /\ ftc'["receiver"] = ftc["receiver"]
        /\ ev'["sender"].totalSize = h.totalSize /\ ev'["sender"].totalFiles = h.totalFiles
        /\ data'["sender"] = <<>>
        /\ Alive("receiver") => data'["receiver"] = data["receiver"] \o <<p>>
        /\ ~Alive("receiver") => data'["receiver"] = <<>>
    BY <1>2, <1>8, <2>2, <2>3, SenderDisconnects
  <2>5. /\ Receiver' = Receiver /\ (Alive("receiver")' <=> Alive("receiver"))
        /\ Down' = IF Alive("receiver") THEN Down \o <<p>> ELSE <<>>
    BY <2>4 DEF Receiver, Down, Alive
  <2>6. CASE Alive("receiver")
    <3>1. OnlyPieces' /\ Len(Down') = n + 1 /\ After(n + 1)' = sent[k].size
      BY <1>10, <1>12, <2>5, <2>6
    <3>2. ReceiverInv'
      BY <1>3, <2>5, <2>6, <3>1 DEF ReceiverInv
    <3>3. Held' = k /\ k > 0 /\ k = Len(sent)
      <4>1. Len(m_files) = 0 /\ Left(k)
        BY <1>12, <2>6
      <4>2. QED
        BY <1>1, <2>6, <4>1 DEF Held, Left
    <3>4. LastIsSent'
      BY <3>1, <3>3 DEF LastIsSent
    <3>5. CompleteInv'
      BY <2>5, <2>6, <3>3, <3>4 DEF CompleteInv
    <3>6. QED
      BY <2>2, <2>4, <3>2, <3>5, SenderEnds
  <2>7. CASE ~Alive("receiver")
    <3>1. ReceiverInv' /\ CompleteInv'
      BY <2>5, <2>7 DEF ReceiverInv, CompleteInv, Alive, Receiver
    <3>2. QED
      BY <2>2, <2>4, <3>1, SenderEnds
  <2>8. QED
    BY <2>6, <2>7
<1>13. CASE DisconnectDirectConn("sender", [e EXCEPT !.state = "ERROR"], <<>>, <<>>)
  <2>1. PICK h : h = [e EXCEPT !.state = "ERROR"]
    OBVIOUS
  <2>2. h \in Events /\ h.state = "ERROR" /\ h.totalSize = e.totalSize /\ h.totalFiles = e.totalFiles
    BY <2>1 DEF Events, EventStates
  <2>3. QED
    BY <1>2, <1>13, <2>1, <2>2, SenderCutKeeps
<1>14. QED
  BY <1>11, <1>12, <1>13, <1>5, <1>6, <1>9 DEF SendPacket0x06

\* The sender announces the count of the list that was asked for.
LEMMA SenderTotals ==
    ASSUME IInv, Alive("sender")
    PROVE  ev["sender"].totalFiles = Len(sent) /\ ev["sender"].totalSize = Content(sent)
<1>1. CountInv /\ Requested
  BY AliveIsNotEnded, TransferParts, TwoSides DEF Requested
<1>2. QED
  BY <1>1 DEF CountInv, SenderCount

LEMMA TotalsTyped ==
    ASSUME NEW e \in Events
    PROVE  Totals(e) \in Packets /\ <<Totals(e)>> \in Seq(Packets)
<1>1. Totals(e) \in Packets
  BY DEF Totals, Events, Packets
<1>2. QED
  BY <1>1

\* SendFile in a sender that may go on with the last entry announced.
LEMMA SendFileKeeps ==
    ASSUME IInv, Alive("sender"), UNCHANGED <<sent, direct, answered, seq, asked, queued, aside, cached, control, stored, undefined>>,
           NEW c \in Clients, c.m_state = "CONNECTED", c.m_socket = "CONNECTED",
           NEW e \in Events, e.state = ev["sender"].state,
           e.totalSize = ev["sender"].totalSize, e.totalFiles = ev["sender"].totalFiles,
           c.m_continue \/ c.m_msgqueue, c.m_continue => Left(e.currFile), SendFile(c, e, <<>>),
           Alive("receiver") => /\ ~c.m_msgqueue /\ Receiver.m_state = "CONNECTED" /\ OnlyPieces
                                /\ Held > 0 /\ Left(Held) /\ e.currFile = Held
                                /\ c.m_more =>
                                     /\ c.m_senddir = (sent[Held].kind = "dir") /\ e.size = sent[Held].size
                                     /\ sent[Held].kind # "other" /\ e.pos = After(Len(Down))
                                     /\ sent[Held].size > 0 => After(Len(Down)) < sent[Held].size
                                /\ ~c.m_more => LastIsSent
    PROVE  IInv'
<1>1. /\ Down \in Seq(Packets) /\ Up \in Seq(Packets) /\ m_files \in Seq(Entries) /\ Held \in Nat /\ Len(sent) \in Nat
      /\ stored \in Seq([dir : BOOLEAN, got : Nat]) /\ undefined \in BOOLEAN
      /\ <<>> \in Seq(Packets) /\ Down \o <<>> = Down
  BY SidesTyped, NothingIsSent
<1>2. ReceiverInv /\ e.totalFiles = Len(sent)
  BY TransferParts, SenderTotals
<1>3. UNCHANGED m_files => OnlyFiles("sender")
  BY <1>1 DEF OnlyFiles
<1>4. CASE /\ c.m_msgqueue
           /\ Continue("sender", [c EXCEPT !.m_msgqueue = FALSE], Told(e), <<>>, <<Totals(e)>>)
           /\ UNCHANGED m_files
  <2>1. PICK d : d = [c EXCEPT !.m_msgqueue = FALSE]
    OBVIOUS
  <2>2. /\ d \in Clients /\ d.m_state = "CONNECTED" /\ d.m_socket = "CONNECTED" /\ d.m_continue = c.m_continue
    BY <2>1 DEF Clients
  <2>3. PICK g : g = Told(e)
    OBVIOUS
  <2>4. /\ g \in Events /\ g.state = e.state /\ g.totalSize = e.totalSize /\ g.totalFiles = e.totalFiles
        /\ g.currFile = e.currFile
    BY <2>3, ToldTyped
  <2>5. PICK ps : ps = <<Totals(e)>>
    OBVIOUS
  <2>6. ps \in Seq(Packets) /\ Continue("sender", d, g, <<>>, ps)
    BY <1>4, <2>1, <2>3, <2>5, TotalsTyped
  <2>7. Sender' = d /\ ev'["sender"] = g /\ Up' = <<>>
    BY <1>1, <1>3, <1>4, <2>2, <2>4, <2>6, SenderContinues
  <2>8. LeftInv'
    BY <1>4, <2>2, <2>4, <2>7 DEF LeftInv, Left
  <2>9. QED
    BY <1>1, <1>3, <1>4, <2>2, <2>4, <2>6, <2>8, SenderContinuesKeeps
<1>5. CASE ~c.m_msgqueue /\ c.m_continue /\ c.m_more /\ SendPacket0x06(c, e, <<>>) /\ UNCHANGED m_files
  BY <1>5, SendPacket0x06Keeps
<1>6. CASE /\ ~c.m_msgqueue /\ c.m_continue /\ ~c.m_more /\ e.currFile < e.totalFiles
           /\ SendPacket0x02([c EXCEPT !.m_continue = FALSE], e, <<>>, <<>>)
  <2>1. PICK d : d = [c EXCEPT !.m_continue = FALSE]
    OBVIOUS
  <2>2. /\ d \in Clients /\ d.m_state = "CONNECTED" /\ d.m_socket = "CONNECTED" /\ ~d.m_continue
        /\ d.m_msgqueue = c.m_msgqueue /\ d.m_more = c.m_more
    BY <2>1 DEF Clients
  <2>3. m_files # <<>>
    <3>1. Left(e.currFile) /\ e.currFile < Len(sent) /\ e.currFile \in Nat
      BY <1>2, <1>6 DEF Events
    <3>2. Len(m_files) # 0
      BY <1>1, <3>1 DEF Left
    <3>3. QED
      BY <3>2
  <2>4. Alive("receiver") => (Held > 0 => After(Len(Down)) = sent[Held].size)
    BY <1>6 DEF LastIsSent
  <2>5. SendPacket0x02(d, e, <<>>, <<>>)
    BY <1>6, <2>1
  <2>6. QED
    BY <1>6, <2>2, <2>3, <2>4, <2>5, SendPacket0x02Keeps
<1>7. CASE /\ ~c.m_msgqueue /\ c.m_continue /\ ~c.m_more /\ e.currFile >= e.totalFiles
           /\ DisconnectDirectConn("sender", [e EXCEPT !.state = "COMPLETE"], <<>>, <<>>)
           /\ UNCHANGED m_files
  <2>1. PICK h : h = [e EXCEPT !.state = "COMPLETE"]
    OBVIOUS
  <2>2. h \in Events /\ h.state = "COMPLETE" /\ h.totalSize = e.totalSize /\ h.totalFiles = e.totalFiles
    BY <2>1 DEF Events, EventStates
  <2>3. DisconnectDirectConn("sender", h, <<>>, <<>>)
    BY <1>7, <2>1
  <2>4. /\ SocketStep("sender") /\ IsEnded("sender")
        /\ ftc'["receiver"] = ftc["receiver"]
        /\ ev'["sender"].totalSize = h.totalSize /\ ev'["sender"].totalFiles = h.totalFiles
        /\ data'["sender"] = <<>>
        /\ Alive("receiver") => data'["receiver"] = data["receiver"] \o <<>>
        /\ ~Alive("receiver") => data'["receiver"] = <<>>
    BY <1>1, <1>3, <1>7, <2>2, <2>3, SenderDisconnects
  <2>5. /\ Receiver' = Receiver /\ (Alive("receiver")' <=> Alive("receiver"))
        /\ Down' = IF Alive("receiver") THEN Down ELSE <<>>
    BY <1>1, <2>4 DEF Receiver, Down, Alive
  <2>6. Down' = <<>> \/ Down' = Down
    BY <2>5
  <2>7. ReceiverInv'
    BY <1>2, <2>4, <2>6, ReceiverCut
  <2>8. CompleteInv'
    <3>1. CASE Alive("receiver")
      <4>1. Held = Len(sent) /\ LastIsSent
        BY <1>1, <1>2, <1>7, <3>1 DEF Left
      <4>2. Held' = Held /\ Down' = Down /\ sent' = sent /\ stored' = stored
        BY <2>5, <3>1 DEF Held
      <4>3. LastIsSent'
        BY <4>1, <4>2 DEF LastIsSent, OnlyPieces, Pieces, After, Piece
      <4>4. QED
        BY <2>5, <3>1, <4>1, <4>2, <4>3 DEF CompleteInv
    <3>2. CASE ~Alive("receiver")
      BY <2>5, <3>2 DEF CompleteInv
    <3>3. QED
      BY <3>1, <3>2
  <2>9. QED
    BY <2>2, <2>4, <2>7, <2>8, SenderEnds
<1>8. QED
  BY <1>4, <1>5, <1>6, <1>7 DEF SendFile

-----------------------------------------------------------------------------
(* What the sender reads.                                                    *)

LEMMA ReceiverSame ==
    ASSUME ReceiverInv, UNCHANGED <<sent, stored>>, Receiver' = Receiver, Down' = Down
    PROVE  ReceiverInv'
  BY ReceiverFrame DEF Receiver, Down

\* What is left to announce is the same when one packet less is under way.
LEMMA LeftTail ==
    ASSUME LeftInv, Alive("sender"), UNCHANGED <<sent, m_files>>, Up \in Seq(Packets), Up # <<>>, Up' = Tail(Up),
           Sender'.m_continue = Sender.m_continue, ev'["sender"].currFile = ev["sender"].currFile
    PROVE  LeftInv'
<1>1. PICK q : q = Up
  OBVIOUS
<1>2. PICK t : t = Tail(q)
  OBVIOUS
<1>3. q \in Seq(Packets) /\ q # <<>> /\ Up' = t
  BY <1>1, <1>2
<1>4. Len(t) = Len(q) - 1 /\ Len(q) \in Nat /\ \A i \in 1 .. Len(t) : t[i] = q[i + 1]
  BY <1>2, <1>3
<1>5. /\ Sender.m_continue => Left(ev["sender"].currFile)
      /\ \A i \in 1..Len(q) :
             q[i].type \in {"0x01", "0x03"} =>
                 /\ i = Len(q)
                 /\ q[i].type = "0x01" => m_files = sent /\ ~Sender.m_continue
                 /\ q[i].type = "0x03" => Left(q[i].files)
  BY <1>1 DEF LeftInv
<1>6. \A i \in 1 .. Len(t) : i + 1 \in 1 .. Len(q)
  BY <1>4
<1>7. \A i \in 1..Len(t) :
             t[i].type \in {"0x01", "0x03"} =>
                 /\ i = Len(t)
                 /\ t[i].type = "0x01" => m_files = sent /\ ~Sender.m_continue
                 /\ t[i].type = "0x03" => Left(t[i].files)
  BY <1>4, <1>5, <1>6
<1>8. \A x : Left(x) => Left(x)'
  BY DEF Left
<1>9. QED
  BY <1>3, <1>5, <1>7, <1>8 DEF LeftInv

\* The sender reads the first packet of those under way.
LEMMA SenderReads ==
    ASSUME IInv, ftc["sender"].m_socket = "CONNECTED", data["sender"] # <<>>
    PROVE  /\ Alive("sender") /\ Up # <<>> /\ Up \in Seq(Packets)
           /\ Head(Up) \in Packets /\ Tail(Up) \in Seq(Packets) /\ Head(Up) = Up[1]
           /\ Len(Tail(Up)) = Len(Up) - 1 /\ Len(Up) \in Nat /\ Len(Up) > 0
           /\ \A i \in 1 .. Len(Tail(Up)) : Tail(Up)[i] = Up[i + 1]
           /\ Sender \in Clients /\ Sender.m_socket = "CONNECTED" /\ ev["sender"] \in Events
           /\ <<>> \in Seq(Packets) /\ Down \o <<>> = Down
<1>1. Up \in Seq(Packets) /\ Down \in Seq(Packets) /\ Sender \in Clients /\ ev["sender"] \in Events
  BY SidesTyped
<1>2. Alive("sender")
  BY TransferParts, NoClientTyped, TwoSides DEF ClientsInv
<1>3. PICK q : q = Up
  OBVIOUS
<1>4. q \in Seq(Packets) /\ q # <<>>
  BY <1>1, <1>3 DEF Up
<1>5. /\ Head(q) \in Packets /\ Tail(q) \in Seq(Packets) /\ Head(q) = q[1]
      /\ Len(Tail(q)) = Len(q) - 1 /\ Len(q) \in Nat /\ Len(q) > 0
      /\ \A i \in 1 .. Len(Tail(q)) : Tail(q)[i] = q[i + 1]
  BY <1>4
<1>6. QED
  BY <1>1, <1>2, <1>3, <1>4, <1>5, NothingIsSent DEF Sender

\* The ACK of the receiver: its INIT follows.
LEMMA SenderReadsACK ==
    ASSUME IInv, ftc["sender"].m_socket = "CONNECTED", data["sender"] # <<>>, OnlyFiles("sender"),
           UNCHANGED <<m_files, stored>>, Sender.m_state = "WAITING_FOR_INIT_ACK",
           Continue("sender", [Sender EXCEPT !.m_state = "WAITING_FOR_INIT"], ev["sender"], Tail(Up), <<>>)
    PROVE  IInv'
<1>1. /\ Alive("sender") /\ Up # <<>> /\ Up \in Seq(Packets)
      /\ Tail(Up) \in Seq(Packets) /\ Len(Tail(Up)) = Len(Up) - 1 /\ Len(Up) \in Nat
      /\ \A i \in 1 .. Len(Tail(Up)) : Tail(Up)[i] = Up[i + 1]
      /\ Sender \in Clients /\ Sender.m_socket = "CONNECTED" /\ ev["sender"] \in Events
      /\ <<>> \in Seq(Packets) /\ Down \o <<>> = Down
  BY SenderReads
<1>2. ReceiverInv /\ SenderInv /\ LeftInv
  BY TransferParts
<1>3. PICK x \in Clients, e \in Events, rest \in Seq(Packets) : x = Sender /\ e = ev["sender"] /\ rest = Tail(Up)
  BY <1>1
<1>4. PICK d : d = [x EXCEPT !.m_state = "WAITING_FOR_INIT"]
  OBVIOUS
<1>5. /\ d \in Clients /\ d.m_state = "WAITING_FOR_INIT" /\ d.m_socket = "CONNECTED"
      /\ d.m_continue = x.m_continue /\ d.m_more = x.m_more /\ d.m_msgqueue = x.m_msgqueue
  BY <1>1, <1>3, <1>4 DEF Clients, ClientStates
<1>6. Continue("sender", d, e, rest, <<>>)
  BY <1>3, <1>4
<1>7. /\ Sender' = d /\ Receiver' = Receiver /\ ev'["sender"] = e /\ Up' = rest
      /\ Down' = IF Alive("receiver") THEN Down \o <<>> ELSE Down
      /\ Alive("receiver")' <=> Alive("receiver")
  BY <1>1, <1>3, <1>5, <1>6, SenderContinues
<1>8. ASSUME Alive("receiver") PROVE ReceiverInv' /\ Greeting'
  <2>1. ReceiverInv'
    BY <1>1, <1>2, <1>7, ReceiverSame DEF OnlyFiles
  <2>2. Greeting
    BY <1>1, <1>2, <1>8 DEF SenderInv
  <2>3. Receiver.m_state = "WAITING_FOR_INIT_ACK" /\ Down = <<>> /\ Len(Up) = 2 /\ Up[2] \in InitPackets
    BY <1>1, <2>2 DEF Greeting
  <2>4. InitIn(Up)'
    <3>1. Len(rest) = 1 /\ \A i \in 1 .. Len(rest) : rest[i] = Up[i + 1]
      BY <1>1, <1>3, <2>3
    <3>2. rest[1] = Up[2]
      BY <3>1
    <3>3. Len(Up') = 1 /\ Up'[1] \in InitPackets
      BY <1>7, <2>3, <3>1, <3>2
    <3>4. QED
      BY <3>3 DEF InitIn, InitPackets
  <2>5. Greeting'
    BY <1>1, <1>3, <1>5, <1>7, <2>2, <2>3, <2>4 DEF Greeting, OnlyFiles
  <2>6. QED
    BY <2>1, <2>5
<1>9. LeftInv'
  BY <1>1, <1>2, <1>3, <1>5, <1>7, LeftTail DEF OnlyFiles
<1>10. QED
  BY <1>1, <1>3, <1>5, <1>6, <1>8, <1>9, SenderContinuesKeeps

\* The INIT of the receiver: the totals are sent.
LEMMA SenderReadsInit ==
    ASSUME IInv, ftc["sender"].m_socket = "CONNECTED", data["sender"] # <<>>, OnlyFiles("sender"),
           UNCHANGED <<m_files, stored>>, Sender.m_state = "WAITING_FOR_INIT",
           Continue("sender", [Sender EXCEPT !.m_state = "CONNECTED", !.m_msgqueue = FALSE],
                    IF Sender.m_msgqueue THEN Told(ev["sender"]) ELSE ev["sender"], Tail(Up),
                    <<[type |-> "ACK"]>> \o IF Sender.m_msgqueue THEN <<Totals(ev["sender"])>> ELSE <<>>)
    PROVE  IInv'
<1>1. /\ Alive("sender") /\ Up # <<>> /\ Up \in Seq(Packets)
      /\ Tail(Up) \in Seq(Packets) /\ Len(Tail(Up)) = Len(Up) - 1 /\ Len(Up) \in Nat
      /\ Sender \in Clients /\ Sender.m_socket = "CONNECTED" /\ ev["sender"] \in Events
      /\ <<>> \in Seq(Packets)
  BY SenderReads
<1>2. ReceiverInv /\ SenderInv /\ LeftInv
  BY TransferParts
<1>3. PICK x \in Clients, e \in Events, rest \in Seq(Packets) : x = Sender /\ e = ev["sender"] /\ rest = Tail(Up)
  BY <1>1
<1>4. PICK d : d = [x EXCEPT !.m_state = "CONNECTED", !.m_msgqueue = FALSE]
  OBVIOUS
<1>5. /\ d \in Clients /\ d.m_state = "CONNECTED" /\ d.m_socket = "CONNECTED"
      /\ d.m_continue = x.m_continue /\ d.m_more = x.m_more /\ ~d.m_msgqueue
  BY <1>1, <1>3, <1>4 DEF Clients, ClientStates
<1>6. PICK g : g = IF x.m_msgqueue THEN Told(e) ELSE e
  OBVIOUS
<1>7. /\ g \in Events /\ g.state = e.state /\ g.totalSize = e.totalSize /\ g.totalFiles = e.totalFiles
      /\ g.currFile = e.currFile
  BY <1>6, ToldTyped
<1>8. PICK ack, total : ack = [type |-> "ACK"] /\ total = Totals(e)
  OBVIOUS
<1>9. ack \in Packets /\ total \in Packets
  BY <1>8, TotalsTyped DEF Packets
<1>10. PICK ps : ps = <<ack>> \o IF x.m_msgqueue THEN <<total>> ELSE <<>>
  OBVIOUS
<1>11. ps \in Seq(Packets) /\ (x.m_msgqueue => ps = <<ack, total>>)
  <2>1. <<ack>> \in Seq(Packets) /\ <<ack>> \o <<>> = <<ack>>
    BY <1>9, OneTuple, NothingIsSent
  <2>2. <<ack>> \o <<total>> = <<ack, total>> /\ <<ack, total>> \in Seq(Packets)
    BY <1>9, TwoTuple
  <2>3. QED
    BY <1>10, <2>1, <2>2
<1>12. Continue("sender", d, g, rest, ps)
  BY <1>3, <1>4, <1>6, <1>8, <1>10
<1>13. /\ Sender' = d /\ Receiver' = Receiver /\ ev'["sender"] = g /\ Up' = rest
       /\ Down' = IF Alive("receiver") THEN Down \o ps ELSE Down
       /\ Alive("receiver")' <=> Alive("receiver")
  BY <1>1, <1>3, <1>5, <1>7, <1>11, <1>12, SenderContinues
<1>14. ASSUME Alive("receiver") PROVE ReceiverInv' /\ Dialogue'
  <2>1. Greeting
    BY <1>1, <1>2, <1>14 DEF SenderInv
  <2>2. Receiver.m_state = "WAITING_FOR_INIT_ACK" /\ Down = <<>> /\ InitIn(Up) /\ x.m_msgqueue
        /\ stored = <<>> /\ ~x.m_continue /\ ~x.m_more /\ m_files = sent
    BY <1>3, <2>1 DEF Greeting
  <2>3. rest = <<>>
    BY <1>1, <1>3, <2>2 DEF InitIn
  <2>4. ps = <<Ack, AllCount>> /\ UNCHANGED AllCount
    BY <1>1, <1>3, <1>8, <1>11, <2>2, SenderTotals DEF Totals, AllCount, Ack, OnlyFiles
  <2>5. Down' = <<Ack, AllCount>>
    <3>1. <<>> \o ps = ps
      BY <1>11, ConcatEmptySeq
    <3>2. QED
      BY <1>13, <1>14, <2>2, <2>4, <3>1
  <2>6. Down' = <<Ack, AllCount>>'
    BY <2>4, <2>5 DEF Ack
  <2>7. Receiver'.m_state = "WAITING_FOR_INIT_ACK" /\ stored' = <<>>
    BY <1>13, <2>2
  <2>8. ReceiverInv'
    BY <1>2, <1>13, <1>14, <2>6, <2>7 DEF ReceiverInv
  <2>9. Opening'
    BY <1>5, <1>3, <1>13, <2>2, <2>3, <2>6, <2>7 DEF Opening, OnlyFiles
  <2>10. QED
    BY <1>5, <1>13, <2>8, <2>9 DEF Dialogue
<1>15. LeftInv'
  BY <1>1, <1>2, <1>3, <1>5, <1>7, <1>13, LeftTail DEF OnlyFiles
<1>16. QED
  BY <1>1, <1>3, <1>5, <1>7, <1>11, <1>12, <1>14, <1>15, SenderContinuesKeeps

\* 0x01: nothing is announced before it.
LEMMA SenderReadsRequest ==
    ASSUME IInv, ftc["sender"].m_socket = "CONNECTED", data["sender"] # <<>>,
           UNCHANGED <<sent, direct, answered, seq, asked, queued, aside, cached, control, stored, undefined>>,
           Sender.m_state = "CONNECTED", Head(Up).type = "0x01",
           SendPacket0x02(Sender, ev["sender"], Tail(Up), <<>>)
    PROVE  IInv'
<1>1. /\ Alive("sender") /\ Up # <<>> /\ Up \in Seq(Packets) /\ Head(Up) = Up[1]
      /\ Tail(Up) \in Seq(Packets) /\ Len(Tail(Up)) = Len(Up) - 1 /\ Len(Up) \in Nat /\ Len(Up) > 0
      /\ Sender \in Clients /\ Sender.m_socket = "CONNECTED" /\ ev["sender"] \in Events
  BY SenderReads
<1>2. SenderInv /\ LeftInv /\ sent # <<>> /\ Len(sent) \in Nat
  BY TransferParts, SidesTyped
<1>3. Len(Up) = 1 /\ m_files = sent /\ ~Sender.m_continue
  <2>1. PICK p : p = Head(Up)
    OBVIOUS
  <2>2. p.type = "0x01" /\ Up[1] = p /\ 1 \in 1 .. Len(Up)
    BY <1>1, <2>1
  <2>3. QED
    BY <1>1, <1>2, <2>2 DEF LeftInv
<1>4. Tail(Up) = <<>>
  <2>1. PICK rest \in Seq(Packets) : rest = Tail(Up)
    BY <1>1
  <2>2. Len(rest) = 0
    BY <1>1, <1>3, <2>1
  <2>3. rest = <<>>
    BY <2>2
  <2>4. QED
    BY <2>1, <2>3
<1>5. ASSUME Alive("receiver")
      PROVE  /\ ~Sender.m_msgqueue /\ ~Sender.m_more /\ Receiver.m_state = "CONNECTED"
             /\ OnlyPieces /\ Left(Held) /\ ~(Held > 0)
  <2>1. Dialogue /\ ~Sender.m_msgqueue
    BY <1>1, <1>2, <1>5 DEF SenderInv, Dialogue
  <2>2. ~Replied
    <3>1. SUFFICES ASSUME Replied PROVE FALSE
      OBVIOUS
    <3>2. PICK k : k = Held
      OBVIOUS
    <3>3. PICK p : p = [type |-> "0x03", files |-> k]
      OBVIOUS
    <3>4. Up = <<p>>
      BY <3>1, <3>2, <3>3 DEF Replied
    <3>5. Head(Up) = p /\ p.type = "0x03"
      BY <3>3, <3>4
    <3>6. QED
      BY <3>5
  <2>3. Opening
    BY <1>1, <2>1, <2>2 DEF Dialogue, Announced, Sending, Passed
  <2>4. Down = <<>> /\ stored = <<>> /\ Receiver.m_state = "CONNECTED" /\ ~Sender.m_more
    BY <1>1, <2>3 DEF Opening
  <2>5. Held = 0 /\ Len(Down) = 0
    BY <2>4 DEF Held
  <2>6. OnlyPieces
    BY <2>5 DEF OnlyPieces, Pieces
  <2>7. Left(0)
    BY <1>2, <1>3 DEF Left
  <2>8. QED
    BY <2>1, <2>4, <2>5, <2>6, <2>7
<1>6. SendPacket0x02(Sender, ev["sender"], <<>>, <<>>)
  BY <1>4
<1>7. PICK x \in Clients, e \in Events : x = Sender /\ e = ev["sender"]
  BY <1>1
<1>8. SendPacket0x02(x, e, <<>>, <<>>)
  BY <1>6, <1>7
<1>9. QED
  BY <1>1, <1>2, <1>3, <1>5, <1>7, <1>8, SendPacket0x02Keeps

\* 0x03: the reply is about the entry that was announced last.
LEMMA SenderReadsReply ==
    ASSUME IInv, ftc["sender"].m_socket = "CONNECTED", data["sender"] # <<>>,
           UNCHANGED <<sent, direct, answered, seq, asked, queued, aside, cached, control, stored, undefined>>,
           Sender.m_state = "CONNECTED", Head(Up).type = "0x03",
           SendFile([Sender EXCEPT !.m_continue = TRUE, !.m_more = Sender.m_more \/ ~Sender.m_senddir],
                    [ev["sender"] EXCEPT !.pos = 0, !.currFile = Head(Up).files], Tail(Up))
    PROVE  IInv'
<1>1. /\ Alive("sender") /\ Up # <<>> /\ Up \in Seq(Packets) /\ Head(Up) = Up[1] /\ Head(Up) \in Packets
      /\ Tail(Up) \in Seq(Packets) /\ Len(Tail(Up)) = Len(Up) - 1 /\ Len(Up) \in Nat /\ Len(Up) > 0
      /\ Sender \in Clients /\ Sender.m_socket = "CONNECTED" /\ ev["sender"] \in Events
  BY SenderReads
<1>2. SenderInv /\ LeftInv /\ HandedInOrder /\ Held \in Nat /\ Len(sent) \in Nat
      /\ \A i \in 1 .. Len(sent) : sent[i].size \in Nat /\ (sent[i].kind = "dir" => sent[i].size = 0)
  BY TransferParts, SidesTyped
<1>3. PICK x \in Clients, e \in Events, p \in Packets : x = Sender /\ e = ev["sender"] /\ p = Head(Up)
  BY <1>1
<1>4. p.type = "0x03" /\ p.files \in Nat
  BY <1>3 DEF Packets
<1>5. Len(Up) = 1 /\ Left(p.files)
  BY <1>1, <1>2, <1>3, <1>4 DEF LeftInv
<1>6. Tail(Up) = <<>>
  <2>1. PICK rest \in Seq(Packets) : rest = Tail(Up)
    BY <1>1
  <2>2. Len(rest) = 0
    BY <1>1, <1>5, <2>1
  <2>3. rest = <<>>
    BY <2>2
  <2>4. QED
    BY <2>1, <2>3
<1>7. PICK more \in BOOLEAN : more = (x.m_more \/ ~x.m_senddir)
  BY DEF Clients
<1>8. PICK c : c = [x EXCEPT !.m_continue = TRUE, !.m_more = more]
  OBVIOUS
<1>9. /\ c \in Clients /\ c.m_state = "CONNECTED" /\ c.m_socket = "CONNECTED" /\ c.m_continue
      /\ c.m_msgqueue = x.m_msgqueue /\ c.m_more = more /\ c.m_senddir = x.m_senddir
  BY <1>1, <1>3, <1>8 DEF Clients
<1>10. PICK files \in Nat : files = p.files
  BY <1>4
<1>11. PICK f : f = [e EXCEPT !.pos = 0, !.currFile = files]
  OBVIOUS
<1>12. /\ f \in Events /\ f.state = e.state /\ f.totalSize = e.totalSize /\ f.totalFiles = e.totalFiles
       /\ f.pos = 0 /\ f.currFile = files /\ f.size = e.size
  BY <1>11 DEF Events
<1>13. SendFile(c, f, <<>>)
  BY <1>3, <1>6, <1>7, <1>8, <1>10, <1>11
<1>14. ASSUME Alive("receiver")
       PROVE  /\ ~c.m_msgqueue /\ Receiver.m_state = "CONNECTED" /\ OnlyPieces
              /\ Held > 0 /\ Left(Held) /\ f.currFile = Held
              /\ c.m_more =>
                   /\ c.m_senddir = (sent[Held].kind = "dir") /\ f.size = sent[Held].size
                   /\ sent[Held].kind # "other" /\ f.pos = After(Len(Down))
                   /\ sent[Held].size > 0 => After(Len(Down)) < sent[Held].size
              /\ ~c.m_more => LastIsSent
  <2>1. Dialogue /\ ~Sender.m_msgqueue
    BY <1>1, <1>2, <1>14 DEF SenderInv, Dialogue
  <2>2. ~Opening
    <3>1. SUFFICES ASSUME Opening PROVE FALSE
      OBVIOUS
    <3>2. PICK one, five : one = [type |-> "0x01"] /\ five = [type |-> "0x05"]
      OBVIOUS
    <3>3. one.type = "0x01" /\ five.type = "0x05" /\ one \in Packets /\ five \in Packets
      BY <3>2 DEF Packets
    <3>4. Up = <<one>> \/ Up = <<five, one>>
      BY <1>1, <3>1, <3>2 DEF Opening
    <3>5. Head(<<one>>) = one /\ Head(<<five, one>>) = five
      BY <3>3, OneTuple, TwoTuple
    <3>6. QED
      BY <1>3, <1>4, <3>3, <3>4, <3>5
  <2>3. Replied
    BY <1>1, <2>1, <2>2 DEF Dialogue, Announced, Sending, Passed
  <2>4. /\ Receiver.m_state = "CONNECTED" /\ Down = <<>> /\ ~Sender.m_more
        /\ Held > 0 /\ Left(Held) /\ stored[Held].got = 0 /\ Open(Held)
    BY <2>3 DEF Replied
  <2>5. files = Held
    <3>1. PICK k : k = Held
      OBVIOUS
    <3>2. PICK q : q = [type |-> "0x03", files |-> k]
      OBVIOUS
    <3>3. Up = <<q>>
      BY <2>3, <3>1, <3>2 DEF Replied
    <3>4. p = q
      BY <1>3, <3>3
    <3>5. QED
      BY <1>10, <3>1, <3>2, <3>4
  <2>6. Held \in 1 .. Len(sent) /\ sent[Held].size \in Nat
    BY <1>2, <2>4 DEF Left
  <2>7. Len(Down) = 0 /\ After(0) = 0
    BY <2>4, <2>6 DEF After
  <2>8. OnlyPieces
    BY <2>7 DEF OnlyPieces, Pieces
  <2>9. x.m_senddir = (sent[Held].kind = "dir") /\ e.size = sent[Held].size /\ sent[Held].kind # "other"
    BY <1>3, <2>4 DEF Open
  <2>10. ~c.m_more => LastIsSent
    <3>1. SUFFICES ASSUME ~c.m_more PROVE LastIsSent
      OBVIOUS
    <3>2. sent[Held].size = 0
      BY <1>2, <1>7, <1>9, <2>6, <2>9, <3>1
    <3>3. QED
      BY <2>4, <2>7, <2>8, <3>2 DEF LastIsSent
  <2>11. sent[Held].size > 0 => After(Len(Down)) < sent[Held].size
    BY <2>6, <2>7
  <2>12. QED
    BY <1>3, <1>9, <1>12, <2>1, <2>4, <2>5, <2>7, <2>8, <2>9, <2>10, <2>11
<1>15. f.state = ev["sender"].state /\ f.totalSize = ev["sender"].totalSize /\ f.totalFiles = ev["sender"].totalFiles
  BY <1>3, <1>12
<1>16. Left(f.currFile)
  BY <1>5, <1>10, <1>12
<1>17. QED
  BY <1>1, <1>9, <1>12, <1>13, <1>14, <1>15, <1>16, SendFileKeeps

\* 0x05: 0x01 follows it.
LEMMA SenderReadsStart ==
    ASSUME IInv, ftc["sender"].m_socket = "CONNECTED", data["sender"] # <<>>, OnlyFiles("sender"),
           UNCHANGED <<m_files, stored>>, Sender.m_state = "CONNECTED", Head(Up).type = "0x05",
           Continue("sender", Sender, ev["sender"], Tail(Up), <<>>)
    PROVE  IInv'
<1>1. /\ Alive("sender") /\ Up # <<>> /\ Up \in Seq(Packets)
      /\ Tail(Up) \in Seq(Packets)
      /\ Sender \in Clients /\ Sender.m_socket = "CONNECTED" /\ ev["sender"] \in Events
      /\ <<>> \in Seq(Packets) /\ Down \o <<>> = Down
  BY SenderReads
<1>2. ReceiverInv /\ SenderInv /\ LeftInv
  BY TransferParts
<1>3. PICK x \in Clients, e \in Events, rest \in Seq(Packets) : x = Sender /\ e = ev["sender"] /\ rest = Tail(Up)
  BY <1>1
<1>4. Continue("sender", x, e, rest, <<>>) /\ x.m_state = "CONNECTED" /\ x.m_socket = "CONNECTED"
  BY <1>1, <1>3
<1>5. /\ Sender' = x /\ Receiver' = Receiver /\ ev'["sender"] = e /\ Up' = rest
      /\ Down' = IF Alive("receiver") THEN Down \o <<>> ELSE Down
      /\ Alive("receiver")' <=> Alive("receiver")
  BY <1>1, <1>3, <1>4, SenderContinues
<1>6. ASSUME Alive("receiver") PROVE ReceiverInv' /\ Dialogue'
  <2>1. ReceiverInv'
    BY <1>1, <1>2, <1>5, ReceiverSame DEF OnlyFiles
  <2>2. Dialogue /\ ~Sender.m_msgqueue
    BY <1>1, <1>2, <1>6 DEF SenderInv, Dialogue
  <2>3. ~Replied
    <3>1. SUFFICES ASSUME Replied PROVE FALSE
      OBVIOUS
    <3>2. PICK k : k = Held
      OBVIOUS
    <3>3. PICK p : p = [type |-> "0x03", files |-> k]
      OBVIOUS
    <3>4. Up = <<p>>
      BY <3>1, <3>2, <3>3 DEF Replied
    <3>5. Head(Up) = p /\ p.type = "0x03"
      BY <3>3, <3>4
    <3>6. QED
      BY <3>5
  <2>4. Opening
    BY <1>1, <2>2, <2>3 DEF Dialogue, Announced, Sending, Passed
  <2>5. PICK one, five : one = [type |-> "0x01"] /\ five = [type |-> "0x05"]
    OBVIOUS
  <2>6. one.type = "0x01" /\ five.type = "0x05" /\ one \in Packets /\ five \in Packets
    BY <2>5 DEF Packets
  <2>7. /\ Receiver.m_state = "CONNECTED" /\ Down = <<>> /\ (Up = <<one>> \/ Up = <<five, one>>)
        /\ ~Sender.m_continue /\ ~Sender.m_more /\ m_files = sent /\ stored = <<>>
    BY <1>1, <2>4, <2>5 DEF Opening
  <2>8. Head(<<one>>) = one /\ Tail(<<five, one>>) = <<one>>
    BY <2>6, OneTuple, TwoTuple
  <2>9. Up = <<five, one>>
    BY <2>6, <2>7, <2>8
  <2>10. Up' = <<[type |-> "0x01"]>>
    BY <1>3, <1>5, <2>5, <2>8, <2>9
  <2>11. Down' = <<>>
    BY <1>1, <1>5, <2>7
  <2>12. Opening'
    BY <1>3, <1>5, <2>7, <2>10, <2>11 DEF Opening, OnlyFiles
  <2>13. QED
    BY <1>3, <1>5, <2>1, <2>2, <2>12 DEF Dialogue
<1>7. LeftInv'
  BY <1>1, <1>2, <1>3, <1>5, LeftTail DEF OnlyFiles
<1>8. QED
  BY <1>1, <1>3, <1>4, <1>6, <1>7, SenderContinuesKeeps

LEMMA SenderReceivesKeeps ==
    ASSUME IInv, SenderReceives
    PROVE  IInv'
<1>1. /\ ftc["sender"].m_socket = "CONNECTED" /\ data["sender"] # <<>>
      /\ UNCHANGED <<sent, direct, answered, seq, asked, queued, aside, cached, control, stored, undefined>>
  BY DEF SenderReceives, requestVars, askVars, askedVars
<1>2. Alive("sender") /\ ev["sender"] \in Events
  BY <1>1, SenderReads
<1>3. UNCHANGED m_files => OnlyFiles("sender")
  BY <1>1, <1>2, SidesTyped DEF OnlyFiles
<1>4. CASE /\ Sender.m_state = "WAITING_FOR_INIT_ACK" /\ UNCHANGED m_files
           /\ Continue("sender", [Sender EXCEPT !.m_state = "WAITING_FOR_INIT"], ev["sender"], Tail(Up), <<>>)
  BY <1>1, <1>3, <1>4, SenderReadsACK
<1>5. CASE DisconnectDirectConn("sender", ev["sender"], Tail(Up), <<>>) /\ UNCHANGED m_files
  <2>1. ev["sender"].state # "COMPLETE"
    BY <1>2, AliveIsNotEnded, TwoSides
  <2>2. QED
    BY <1>1, <1>2, <1>3, <1>5, <2>1, SenderCutKeeps
<1>6. CASE /\ Sender.m_state = "WAITING_FOR_INIT" /\ UNCHANGED m_files
           /\ Continue("sender", [Sender EXCEPT !.m_state = "CONNECTED", !.m_msgqueue = FALSE],
                    IF Sender.m_msgqueue THEN Told(ev["sender"]) ELSE ev["sender"], Tail(Up),
                    <<[type |-> "ACK"]>> \o IF Sender.m_msgqueue THEN <<Totals(ev["sender"])>> ELSE <<>>)
  BY <1>1, <1>3, <1>6, SenderReadsInit
<1>7. CASE /\ Sender.m_state = "CONNECTED" /\ Head(Up).type = "0x01"
           /\ SendPacket0x02(Sender, ev["sender"], Tail(Up), <<>>)
  BY <1>1, <1>7, SenderReadsRequest
<1>8. CASE /\ Sender.m_state = "CONNECTED" /\ Head(Up).type = "0x03"
           /\ SendFile([Sender EXCEPT !.m_continue = TRUE, !.m_more = Sender.m_more \/ ~Sender.m_senddir],
                    [ev["sender"] EXCEPT !.pos = 0, !.currFile = Head(Up).files], Tail(Up))
  BY <1>1, <1>8, SenderReadsReply
<1>9. CASE /\ Sender.m_state = "CONNECTED" /\ Head(Up).type = "0x05" /\ UNCHANGED m_files
           /\ Continue("sender", Sender, ev["sender"], Tail(Up), <<>>)
  BY <1>1, <1>3, <1>9, SenderReadsStart
<1>10. QED
  BY <1>4, <1>5, <1>6, <1>7, <1>8, <1>9 DEF SenderReceives, Sender, Up

\* The socket is writable: only a sender that was answered sends pieces.
LEMMA SenderWritesKeeps ==
    ASSUME IInv, SenderWrites
    PROVE  IInv'
<1>1. /\ ftc["sender"].m_socket = "CONNECTED" /\ Up = <<>>
      /\ UNCHANGED <<sent, direct, answered, seq, asked, queued, aside, cached, control, stored, undefined>>
  BY DEF SenderWrites, requestVars, askVars, askedVars, Up
<1>2. /\ Alive("sender") /\ ev["sender"] \in Events /\ Sender \in Clients /\ Sender.m_socket = "CONNECTED"
      /\ <<>> \in Seq(Packets) /\ Down \o <<>> = Down
  <2>1. Alive("sender")
    BY <1>1, TransferParts, NoClientTyped, TwoSides DEF ClientsInv
  <2>2. QED
    BY <1>1, <2>1, SidesTyped, NothingIsSent DEF Sender
<1>3. UNCHANGED m_files => OnlyFiles("sender")
  BY <1>1, <1>2, SidesTyped DEF OnlyFiles
<1>4. ReceiverInv /\ SenderInv /\ LeftInv
  BY TransferParts
<1>5. PICK x \in Clients, e \in Events : x = Sender /\ e = ev["sender"]
  BY <1>2
<1>6. CASE x.m_state = "CONNECTED" /\ SendFile(x, e, <<>>) /\ (x.m_continue \/ x.m_msgqueue)
  <2>1. x.m_continue => Left(e.currFile)
    BY <1>2, <1>4, <1>5 DEF LeftInv
  <2>2. ASSUME Alive("receiver")
        PROVE  /\ ~x.m_msgqueue /\ Receiver.m_state = "CONNECTED" /\ OnlyPieces
               /\ Held > 0 /\ Left(Held) /\ e.currFile = Held
               /\ x.m_more =>
                     /\ x.m_senddir = (sent[Held].kind = "dir") /\ e.size = sent[Held].size
                     /\ sent[Held].kind # "other" /\ e.pos = After(Len(Down))
                     /\ sent[Held].size > 0 => After(Len(Down)) < sent[Held].size
               /\ ~x.m_more => LastIsSent
    <3>1. Dialogue /\ ~x.m_msgqueue
      BY <1>2, <1>4, <1>5, <1>6, <2>2 DEF SenderInv, Dialogue
    <3>2. x.m_continue
      BY <1>6, <3>1
    <3>3. Sending
      BY <1>5, <3>1, <3>2 DEF Dialogue, Opening, Announced, Replied, Passed
    <3>4. QED
      BY <1>5, <3>1, <3>3 DEF Sending, Open
  <2>3. QED
    BY <1>1, <1>2, <1>5, <1>6, <2>1, <2>2, SendFileKeeps
<1>7. CASE /\ x.m_state = "CONNECTED" /\ ~x.m_msgqueue /\ ~x.m_continue /\ UNCHANGED m_files
           /\ Continue("sender", x, Told(e), <<>>, <<>>)
  <2>1. PICK g : g = Told(e)
    OBVIOUS
  <2>2. /\ g \in Events /\ g.state = e.state /\ g.totalSize = e.totalSize /\ g.totalFiles = e.totalFiles
        /\ g.currFile = e.currFile /\ g.size = e.size /\ g.pos = e.pos
    BY <2>1, ToldTyped
  <2>3. Continue("sender", x, g, <<>>, <<>>)
    BY <1>7, <2>1
  <2>4. /\ Sender' = x /\ Receiver' = Receiver /\ ev'["sender"] = g /\ Up' = <<>>
        /\ Down' = IF Alive("receiver") THEN Down \o <<>> ELSE Down
    BY <1>2, <1>3, <1>5, <1>7, <2>2, <2>3, SenderContinues
  <2>5. ASSUME Alive("receiver") PROVE ReceiverInv' /\ Dialogue'
    <3>1. Dialogue
      BY <1>2, <1>4, <1>5, <1>7, <2>5 DEF SenderInv
    <3>2. UNCHANGED <<Sender, Receiver, Up, Down>>
      BY <1>1, <1>2, <1>5, <2>4
    <3>3. Dialogue'
      BY <1>1, <1>5, <1>7, <2>2, <2>4, <3>1, <3>2, DialogueFrame
    <3>4. ReceiverInv'
      BY <1>1, <1>4, <3>2, ReceiverSame
    <3>5. QED
      BY <3>3, <3>4
  <2>6. LeftInv'
    BY <1>5, <1>7, <2>4 DEF LeftInv
  <2>7. QED
    BY <1>1, <1>2, <1>3, <1>5, <1>7, <2>2, <2>3, <2>5, <2>6, SenderContinuesKeeps
<1>8. CASE /\ x.m_state # "CONNECTED" /\ UNCHANGED m_files
           /\ Continue("sender", [x EXCEPT !.m_msgqueue = TRUE], e, <<>>, <<>>)
  <2>1. PICK d : d = [x EXCEPT !.m_msgqueue = TRUE]
    OBVIOUS
  <2>2. /\ d \in Clients /\ d.m_state = x.m_state /\ d.m_socket = "CONNECTED" /\ d.m_msgqueue
        /\ d.m_continue = x.m_continue /\ d.m_more = x.m_more /\ d.m_state # "NONE"
    BY <1>2, <1>5, <2>1 DEF Clients, Alive, Sender
  <2>3. Continue("sender", d, e, <<>>, <<>>)
    BY <1>8, <2>1
  <2>4. /\ Sender' = d /\ Receiver' = Receiver /\ ev'["sender"] = e /\ Up' = <<>>
        /\ Down' = IF Alive("receiver") THEN Down \o <<>> ELSE Down
    BY <1>2, <1>3, <1>5, <1>8, <2>2, <2>3, SenderContinues
  <2>5. ASSUME Alive("receiver") PROVE ReceiverInv' /\ Greeting'
    <3>1. Greeting
      BY <1>2, <1>4, <1>5, <1>8, <2>5 DEF SenderInv
    <3>2. Receiver' = Receiver /\ Up' = Up /\ Down' = Down
      BY <1>1, <1>2, <2>4
    <3>3. Greeting'
      BY <1>1, <1>2, <1>5, <1>8, <2>2, <2>4, <3>1, <3>2 DEF Greeting
    <3>4. ReceiverInv'
      BY <1>1, <1>4, <3>2, ReceiverSame
    <3>5. QED
      BY <3>3, <3>4
  <2>6. LeftInv'
    BY <1>1, <1>2, <1>4, <1>5, <1>8, <2>2, <2>4 DEF LeftInv, Left
  <2>7. QED
    BY <1>1, <1>2, <1>3, <1>5, <1>8, <2>2, <2>3, <2>5, <2>6, SenderContinuesKeeps
<1>9. QED
  <2>1. \/ x.m_state = "CONNECTED" /\ SendFile(x, e, <<>>)
        \/ /\ x.m_state # "CONNECTED" /\ UNCHANGED m_files
           /\ Continue("sender", [x EXCEPT !.m_msgqueue = TRUE], e, <<>>, <<>>)
    BY <1>5 DEF SenderWrites, Sender
  <2>2. CASE x.m_state = "CONNECTED" /\ SendFile(x, e, <<>>) /\ ~(x.m_continue \/ x.m_msgqueue)
    <3>1. UNCHANGED m_files /\ Continue("sender", x, Told(e), <<>>, <<>>)
      BY <2>2 DEF SendFile
    <3>2. QED
      BY <1>7, <2>2, <3>1
  <2>3. QED
    BY <1>6, <1>8, <2>1, <2>2

-----------------------------------------------------------------------------
(* What the receiver reads.                                                  *)

LEMMA ReceiverContinuesKeeps ==
    ASSUME IInv, OnlyFiles("receiver"), NEW c \in Clients, NEW e \in Events,
           NEW rest \in Seq(Packets), NEW packets \in Seq(Packets), Continue("receiver", c, e, rest, packets),
           c.m_state # "NONE", e.state = ev["receiver"].state,
           ReceiverInv', HandedInOrder', ReceiverCount', CompleteInv', LeftInv',
           Alive("sender") => IF Sender.m_state = "CONNECTED" THEN Dialogue' ELSE Greeting'
    PROVE  IInv'
<1>1. /\ SocketStep("receiver") /\ GoesOn("receiver")
      /\ Up' = IF Alive("sender") THEN Up \o packets ELSE Up
  BY ReceiverContinues
<1>2. ~Alive("sender") => data'["sender"] = data["sender"]
  BY <1>1 DEF Up
<1>3. QED
  BY <1>1, <1>2, ReceiverGoes

\* The receiver reads the first packet of those under way.
LEMMA ReceiverReads ==
    ASSUME IInv, ftc["receiver"].m_socket = "CONNECTED", data["receiver"] # <<>>
    PROVE  /\ Alive("receiver") /\ Down # <<>> /\ Down \in Seq(Packets) /\ Up \in Seq(Packets)
           /\ Head(Down) \in Packets /\ Tail(Down) \in Seq(Packets) /\ Head(Down) = Down[1]
           /\ Len(Tail(Down)) = Len(Down) - 1 /\ Len(Down) \in Nat /\ Len(Down) > 0
           /\ \A i \in 1 .. Len(Tail(Down)) : Tail(Down)[i] = Down[i + 1]
           /\ Receiver \in Clients /\ Receiver.m_socket = "CONNECTED" /\ ev["receiver"] \in Events
           /\ Receiver.m_state # "NONE" /\ ReceiverCount
           /\ <<>> \in Seq(Packets) /\ Up \o <<>> = Up
<1>1. Up \in Seq(Packets) /\ Down \in Seq(Packets) /\ Receiver \in Clients /\ ev["receiver"] \in Events
  BY SidesTyped
<1>2. Alive("receiver")
  BY TransferParts, NoClientTyped, TwoSides DEF ClientsInv
<1>3. PICK q : q = Down
  OBVIOUS
<1>4. q \in Seq(Packets) /\ q # <<>>
  BY <1>1, <1>3 DEF Down
<1>5. /\ Head(q) \in Packets /\ Tail(q) \in Seq(Packets) /\ Head(q) = q[1]
      /\ Len(Tail(q)) = Len(q) - 1 /\ Len(q) \in Nat /\ Len(q) > 0
      /\ \A i \in 1 .. Len(Tail(q)) : Tail(q)[i] = q[i + 1]
  BY <1>4
<1>6. ev["receiver"].state # "NONE"
  BY <1>2, AliveIsNotEnded, TwoSides
<1>7. ReceiverCount
  BY <1>2, <1>6, TransferParts DEF CountInv
<1>8. QED
  BY <1>1, <1>2, <1>3, <1>4, <1>5, <1>7, NothingIsSent DEF Receiver, Alive

\* A sequence that is known element by element.
LEMMA OnlyOne ==
    ASSUME NEW X, NEW q \in Seq(X), Len(q) = 1
    PROVE  q = <<q[1]>> /\ Tail(q) = <<>> /\ Head(q) = q[1]
<1>1. PICK x : x = q[1]
  OBVIOUS
<1>2. PICK one : one = <<x>>
  OBVIOUS
<1>3. x \in X
  <2>1. 1 \in 1 .. Len(q)
    OBVIOUS
  <2>2. QED
    BY <1>1, <2>1, ElementOfSeq
<1>4. one \in Seq(X) /\ Len(one) = 1 /\ one[1] = x
  BY <1>2, <1>3
<1>5. q = one
  BY <1>1, <1>4, SeqEqual
<1>6. Tail(one) = <<>> /\ Head(one) = x
  BY <1>2, <1>3, OneTuple
<1>7. QED
  BY <1>1, <1>2, <1>5, <1>6

\* Both clients talk once the receiver is connected.
LEMMA SenderTalks ==
    ASSUME IInv, Alive("sender"), Alive("receiver"), Receiver.m_state = "CONNECTED"
    PROVE  Sender.m_state = "CONNECTED" /\ Dialogue
<1>1. SenderInv /\ Sender \in Clients /\ Sender.m_state # "NONE"
  BY TransferParts, SidesTyped DEF Alive, Sender
<1>2. Sender.m_state = "CONNECTED" \/ Greeting
  BY <1>1 DEF SenderInv
<1>3. Sender.m_state \in ClientStates
  BY <1>1 DEF Clients
<1>4. ASSUME Sender.m_state # "CONNECTED" PROVE FALSE
  <2>1. Greeting /\ Sender.m_state \in {"WAITING_FOR_INIT", "WAITING_FOR_INIT_ACK"}
    BY <1>1, <1>2, <1>3, <1>4 DEF ClientStates
  <2>2. QED
    BY <2>1 DEF Greeting
<1>5. QED
  BY <1>1, <1>4 DEF SenderInv

\* What a connected receiver reads.
LEMMA FirstOfDown ==
    ASSUME IInv, Receiver.m_state = "CONNECTED", Down # <<>>
    PROVE  \/ Down[1].type = "0x00" /\ stored = <<>> /\ Down = <<AllCount>> /\ Len(Down) = 1 /\ Down[1] = AllCount
           \/ Down[1].type = "0x06" /\ Held > 0 /\ Down[1] = Piece(Held) /\ OnlyPieces
           \/ Down[1].type = "0x06" /\ Held > 0 /\ Down[1] = Piece(Held) /\ ThenAnnounced /\ Len(Down) > 1
           \/ Down[1].type = "0x02" /\ Down[1] = Announce(Held + 1) /\ ThenAnnounced /\ Len(Down) = 1
<1>1. ReceiverInv /\ Down \in Seq(Packets) /\ Held \in Nat
  BY TransferParts, SidesTyped
<1>2. Len(Down) \in Nat /\ Len(Down) > 0
  BY <1>1
<1>3. (stored = <<>> /\ Down = <<AllCount>>) \/ OnlyPieces \/ ThenAnnounced
  BY <1>1 DEF ReceiverInv
<1>4. CASE stored = <<>> /\ Down = <<AllCount>>
  <2>1. PICK p : p = AllCount
    OBVIOUS
  <2>2. p.type = "0x00" /\ Down = <<p>>
    BY <1>4, <2>1 DEF AllCount
  <2>3. Len(Down) = 1 /\ Down[1] = p
    BY <2>2
  <2>4. QED
    BY <1>4, <2>1, <2>2, <2>3
<1>5. \A d \in Nat : Pieces(d) /\ d > 0 => Held > 0 /\ Down[1] = Piece(Held) /\ Down[1].type = "0x06"
  <2>1. SUFFICES ASSUME NEW d \in Nat, Pieces(d), d > 0
                 PROVE  Held > 0 /\ Down[1] = Piece(Held) /\ Down[1].type = "0x06"
    OBVIOUS
  <2>2. 1 \in 1 .. d
    BY <2>1
  <2>3. Down[1] = Piece(Held) /\ Held > 0
    BY <2>1, <2>2 DEF Pieces
  <2>4. QED
    BY <2>3 DEF Piece
<1>6. CASE OnlyPieces
  BY <1>2, <1>5, <1>6 DEF OnlyPieces
<1>7. CASE ThenAnnounced
  <2>1. Pieces(Len(Down) - 1) /\ Down[Len(Down)] = Announce(Held + 1)
    BY <1>7 DEF ThenAnnounced
  <2>2. CASE Len(Down) > 1
    <3>1. Len(Down) - 1 \in Nat /\ Len(Down) - 1 > 0
      BY <1>2, <2>2
    <3>2. QED
      BY <1>5, <1>7, <2>1, <2>2, <3>1
  <2>3. CASE ~(Len(Down) > 1)
    <3>1. Len(Down) = 1
      <4>1. PICK d : d = Len(Down)
        OBVIOUS
      <4>2. d \in Nat /\ d > 0 /\ ~(d > 1)
        BY <1>2, <2>3, <4>1
      <4>3. QED
        BY <4>1, <4>2
    <3>2. Down[1] = Announce(Held + 1)
      BY <2>1, <3>1
    <3>3. Down[1].type = "0x02"
      BY <3>2 DEF Announce
    <3>4. QED
      BY <1>7, <3>1, <3>2, <3>3
  <2>4. QED
    BY <2>2, <2>3
<1>8. QED
  BY <1>3, <1>4, <1>6, <1>7

\* Nothing is stored by a step of the handshake.
LEMMA NothingStored ==
    ASSUME IInv, OnlyFiles("receiver"), UNCHANGED stored, Alive("receiver"),
           ev'["receiver"] = ev["receiver"], ev'["sender"] = ev["sender"]
    PROVE  /\ HandedInOrder' /\ ReceiverCount'
           /\ Receiver.m_state # "CONNECTED" => CompleteInv'
<1>1. HandedInOrder /\ CountInv /\ CompleteInv /\ ev["receiver"].state # "NONE"
  BY TransferParts, AliveIsNotEnded, TwoSides
<1>2. ReceiverCount
  BY <1>1 DEF CountInv
<1>3. HandedInOrder' /\ ReceiverCount'
  BY <1>1, <1>2 DEF HandedInOrder, ReceiverCount, Held, OnlyFiles
<1>4. Receiver.m_state # "CONNECTED" => ev["sender"].state # "COMPLETE"
  BY <1>1 DEF CompleteInv
<1>5. QED
  BY <1>3, <1>4 DEF CompleteInv

\* INIT: both packets of the answer are under way before the ACK is.
LEMMA ReceiverReadsInit ==
    ASSUME IInv, ftc["receiver"].m_socket = "CONNECTED", data["receiver"] # <<>>, OnlyFiles("receiver"),
           UNCHANGED <<m_files, stored>>, Receiver.m_state = "WAITING_FOR_INIT",
           NEW version \in Nat, NEW d,
           d = [Receiver EXCEPT !.m_state = "WAITING_FOR_INIT_ACK", !.m_remote_tcp_version = version],
           Continue("receiver", d, ev["receiver"], Tail(Down), <<[type |-> "ACK"], SendInitPacket(d)>>)
    PROVE  IInv'
<1>1. /\ Alive("receiver") /\ Down # <<>> /\ Down \in Seq(Packets) /\ Up \in Seq(Packets)
      /\ Receiver \in Clients /\ Receiver.m_socket = "CONNECTED" /\ ev["receiver"] \in Events
      /\ <<>> \in Seq(Packets)
  BY ReceiverReads
<1>2. ReceiverInv /\ SenderInv
  BY TransferParts
<1>3. PICK x \in Clients, e \in Events : x = Receiver /\ e = ev["receiver"]
  BY <1>1
<1>4. /\ d \in Clients /\ d.m_state = "WAITING_FOR_INIT_ACK" /\ d.m_socket = "CONNECTED"
  BY <1>1, <1>3 DEF Clients, ClientStates
<1>5. stored = <<>> /\ Tail(Down) = <<>>
  <2>1. stored = <<>> /\ Len(Down) = 1
    BY <1>1, <1>2 DEF ReceiverInv, InitIn
  <2>2. QED
    BY <1>1, <2>1, OnlyOne
<1>6. PICK ack, init : ack = [type |-> "ACK"] /\ init = SendInitPacket(d)
  OBVIOUS
<1>7. ack \in Packets /\ init \in Packets /\ init \in InitPackets /\ ack.type = "ACK" /\ init.type = "INIT"
  BY <1>4, <1>6, InitPacketTyped DEF Packets, InitPackets
<1>8. PICK ps : ps = <<ack, init>>
  OBVIOUS
<1>9. ps \in Seq(Packets) /\ Len(ps) = 2 /\ ps[1] = ack /\ ps[2] = init
  BY <1>7, <1>8, TwoTuple
<1>10. Continue("receiver", d, e, <<>>, ps)
  BY <1>3, <1>5, <1>6, <1>8
<1>11. /\ Receiver' = d /\ Sender' = Sender /\ ev'["receiver"] = e /\ ev'["sender"] = ev["sender"]
       /\ Down' = <<>> /\ Up' = IF Alive("sender") THEN Up \o ps ELSE Up
       /\ Alive("sender")' <=> Alive("sender")
  BY <1>1, <1>3, <1>4, <1>9, <1>10, ReceiverContinues
<1>12. ReceiverInv'
  BY <1>4, <1>5, <1>11 DEF ReceiverInv
<1>13. HandedInOrder' /\ ReceiverCount' /\ CompleteInv'
  BY <1>1, <1>3, <1>11, NothingStored
<1>14. ASSUME Alive("sender") PROVE Sender.m_state # "CONNECTED" /\ Greeting' /\ LeftInv'
  <2>1. Sender.m_state # "CONNECTED" /\ Greeting
    BY <1>1, <1>2, <1>14 DEF SenderInv, Dialogue, Opening, Announced, Replied, Sending, Passed
  <2>2. Sender \in Clients /\ Sender.m_state \in ClientStates /\ Sender.m_state # "NONE"
    BY <1>14, SidesTyped DEF Clients, Alive, Sender
  <2>3. Sender.m_state = "WAITING_FOR_INIT_ACK"
    BY <2>1, <2>2 DEF Greeting, ClientStates
  <2>4. Up = <<>> /\ Sender.m_socket = "CONNECTED"
    BY <1>1, <2>1, <2>3 DEF Greeting
  <2>5. Up' = ps
    <3>1. <<>> \o ps = ps
      BY <1>9, ConcatEmptySeq
    <3>2. QED
      BY <1>11, <1>14, <2>4, <3>1
  <2>6. Len(Up') = 2 /\ Up'[1] = Ack' /\ Up'[2] \in InitPackets'
    BY <1>6, <1>7, <1>9, <2>5 DEF Ack, InitPackets
  <2>7. Greeting'
    BY <1>4, <1>11, <2>1, <2>3, <2>4, <2>6 DEF Greeting, OnlyFiles
  <2>8. \A i \in 1 .. Len(Up') : Up'[i].type \notin {"0x01", "0x03"}
    <3>1. \A i \in 1 .. 2 : i = 1 \/ i = 2
      OBVIOUS
    <3>2. \A i \in 1 .. 2 : ps[i].type \notin {"0x01", "0x03"}
      BY <1>7, <1>9, <3>1
    <3>3. QED
      BY <1>9, <2>5, <3>2
  <2>9. ~Sender'.m_continue
    BY <1>11, <2>1 DEF Greeting
  <2>10. LeftInv'
    BY <2>8, <2>9 DEF LeftInv
  <2>11. QED
    BY <2>1, <2>7, <2>10
<1>15. LeftInv'
  BY <1>11, <1>14 DEF LeftInv
<1>16. QED
  BY <1>1, <1>3, <1>4, <1>9, <1>10, <1>12, <1>13, <1>14, <1>15, ReceiverContinuesKeeps

\* ACK: the totals follow it.
LEMMA ReceiverReadsACK ==
    ASSUME IInv, ftc["receiver"].m_socket = "CONNECTED", data["receiver"] # <<>>, OnlyFiles("receiver"),
           UNCHANGED <<m_files, stored>>, Receiver.m_state = "WAITING_FOR_INIT_ACK",
           Continue("receiver", [Receiver EXCEPT !.m_state = "CONNECTED"], ev["receiver"], Tail(Down), <<>>)
    PROVE  IInv'
<1>1. /\ Alive("receiver") /\ Down # <<>> /\ Down \in Seq(Packets) /\ Tail(Down) \in Seq(Packets)
      /\ Receiver \in Clients /\ Receiver.m_socket = "CONNECTED" /\ ev["receiver"] \in Events
      /\ <<>> \in Seq(Packets) /\ Up \o <<>> = Up /\ Up \in Seq(Packets)
  BY ReceiverReads
<1>2. ReceiverInv /\ SenderInv /\ LeftInv
  BY TransferParts
<1>3. PICK x \in Clients, e \in Events, rest \in Seq(Packets) : x = Receiver /\ e = ev["receiver"] /\ rest = Tail(Down)
  BY <1>1
<1>4. PICK d : d = [x EXCEPT !.m_state = "CONNECTED"]
  OBVIOUS
<1>5. d \in Clients /\ d.m_state = "CONNECTED" /\ d.m_socket = "CONNECTED"
  BY <1>1, <1>3, <1>4 DEF Clients, ClientStates
<1>6. Down = <<Ack, AllCount>> /\ stored = <<>>
  BY <1>1, <1>2 DEF ReceiverInv
<1>7. rest = <<AllCount>>
  <2>1. PICK ack, total : ack = Ack /\ total = AllCount
    OBVIOUS
  <2>2. PICK two : two = <<ack, total>>
    OBVIOUS
  <2>3. Tail(two) = <<total>>
    BY <2>2
  <2>4. QED
    BY <1>3, <1>6, <2>1, <2>2, <2>3
<1>8. Continue("receiver", d, e, rest, <<>>)
  BY <1>3, <1>4
<1>9. /\ Receiver' = d /\ Sender' = Sender /\ ev'["receiver"] = e /\ ev'["sender"] = ev["sender"]
      /\ Down' = rest /\ Up' = IF Alive("sender") THEN Up \o <<>> ELSE Up
      /\ Alive("sender")' <=> Alive("sender")
  BY <1>1, <1>3, <1>5, <1>8, ReceiverContinues
<1>10. Down' = <<AllCount>>' /\ Up' = Up
  BY <1>1, <1>7, <1>9 DEF AllCount, OnlyFiles
<1>11. ReceiverInv'
  <2>1. Receiver'.m_state = "CONNECTED" /\ Receiver'.m_socket = "CONNECTED" /\ stored' = <<>> /\ Alive("receiver")'
    BY <1>5, <1>6, <1>9 DEF Alive, Receiver
  <2>2. QED
    BY <1>10, <2>1 DEF ReceiverInv
<1>12. HandedInOrder' /\ ReceiverCount' /\ CompleteInv'
  BY <1>1, <1>3, <1>9, NothingStored
<1>13. ASSUME Alive("sender") PROVE Sender.m_state = "CONNECTED" /\ Dialogue'
  <2>1. Sender \in Clients /\ Sender.m_state \in ClientStates /\ Sender.m_state # "NONE"
    BY <1>13, SidesTyped DEF Clients, Alive, Sender
  <2>2. Sender.m_state = "CONNECTED"
    <3>1. SUFFICES ASSUME Sender.m_state # "CONNECTED" PROVE FALSE
      OBVIOUS
    <3>2. Greeting
      BY <1>1, <1>2, <1>13, <3>1 DEF SenderInv
    <3>3. QED
      BY <1>1, <2>1, <3>1, <3>2 DEF Greeting, ClientStates
  <2>3. Dialogue
    BY <1>1, <1>2, <1>13, <2>2 DEF SenderInv
  <2>4. Opening /\ ~Sender.m_msgqueue
    BY <2>3 DEF Dialogue, Announced, Replied, Sending, Passed
  <2>5. Opening'
    BY <1>5, <1>9, <1>10, <2>4 DEF Opening, OnlyFiles
  <2>6. QED
    BY <1>9, <2>2, <2>4, <2>5 DEF Dialogue
<1>14. LeftInv'
  BY <1>2, <1>9, <1>10 DEF LeftInv, Left, OnlyFiles
<1>15. QED
  BY <1>1, <1>3, <1>5, <1>8, <1>11, <1>12, <1>13, <1>14, ReceiverContinuesKeeps

\* 0x00: nothing is stored before it.
LEMMA ReceiverReadsTotals ==
    ASSUME IInv, ftc["receiver"].m_socket = "CONNECTED", data["receiver"] # <<>>, OnlyFiles("receiver"),
           UNCHANGED <<m_files, stored>>, Receiver.m_state = "CONNECTED", Head(Down).type = "0x00",
           Continue("receiver", Receiver,
                    [ev["receiver"] EXCEPT !.totalSize = Head(Down).size, !.totalFiles = Head(Down).files, !.currFile = 0],
                    Tail(Down), <<[type |-> "0x05"], [type |-> "0x01"]>>)
    PROVE  IInv'
<1>1. /\ Alive("receiver") /\ Down # <<>> /\ Down \in Seq(Packets) /\ Up \in Seq(Packets)
      /\ Head(Down) \in Packets /\ Head(Down) = Down[1]
      /\ Receiver \in Clients /\ Receiver.m_socket = "CONNECTED" /\ ev["receiver"] \in Events
      /\ Receiver.m_state # "NONE" /\ ReceiverCount
      /\ <<>> \in Seq(Packets)
  BY ReceiverReads
<1>2. ReceiverInv /\ HandedInOrder /\ CompleteInv
  BY TransferParts
<1>3. PICK x \in Clients, e \in Events, p \in Packets : x = Receiver /\ e = ev["receiver"] /\ p = Head(Down)
  BY <1>1
<1>4. p.type = "0x00" /\ p.size \in Nat /\ p.files \in Nat
  BY <1>3 DEF Packets
<1>5. stored = <<>> /\ Down = <<AllCount>> /\ p = AllCount /\ Tail(Down) = <<>>
  <2>1. stored = <<>> /\ Down = <<AllCount>> /\ Len(Down) = 1 /\ p = AllCount
    BY <1>1, <1>3, <1>4, FirstOfDown
  <2>2. QED
    BY <1>1, <2>1, OnlyOne
<1>6. PICK size \in Nat, files \in Nat : size = p.size /\ files = p.files
  BY <1>4
<1>7. PICK g : g = [e EXCEPT !.totalSize = size, !.totalFiles = files, !.currFile = 0]
  OBVIOUS
<1>8. /\ g \in Events /\ g.state = e.state /\ g.totalSize = size /\ g.currFile = 0 /\ g.totalPos = e.totalPos
  BY <1>7 DEF Events
<1>9. PICK five, one : five = [type |-> "0x05"] /\ one = [type |-> "0x01"]
  OBVIOUS
<1>10. five \in Packets /\ one \in Packets /\ five.type = "0x05" /\ one.type = "0x01"
  BY <1>9 DEF Packets
<1>11. PICK ps : ps = <<five, one>>
  OBVIOUS
<1>12. ps \in Seq(Packets) /\ Len(ps) = 2 /\ ps[1] = five /\ ps[2] = one
  BY <1>10, <1>11, TwoTuple
<1>13. Continue("receiver", x, g, <<>>, ps)
  BY <1>3, <1>5, <1>6, <1>7, <1>9, <1>11
<1>14. x.m_state # "NONE" /\ g.state = ev["receiver"].state
  BY <1>1, <1>3, <1>8
<1>15. /\ Receiver' = x /\ Sender' = Sender /\ ev'["receiver"] = g /\ ev'["sender"] = ev["sender"]
       /\ Down' = <<>> /\ Up' = IF Alive("sender") THEN Up \o ps ELSE Up
       /\ Alive("sender")' <=> Alive("sender")
  BY <1>1, <1>8, <1>12, <1>13, <1>14, ReceiverContinues
<1>16. Held = 0 /\ Held' = 0 /\ Receiver'.m_state = "CONNECTED" /\ Receiver'.m_socket = "CONNECTED"
  BY <1>1, <1>3, <1>5, <1>15 DEF Held
<1>17. ReceiverInv'
  <2>1. Len(Down') = 0
    BY <1>15
  <2>2. OnlyPieces'
    BY <2>1 DEF OnlyPieces, Pieces
  <2>3. QED
    BY <1>15, <1>16, <2>2 DEF ReceiverInv
<1>18. HandedInOrder'
  BY <1>2 DEF HandedInOrder, OnlyFiles
<1>19. ReceiverCount'
  <2>1. g.totalSize = Content(sent)
    BY <1>5, <1>6, <1>8 DEF AllCount
  <2>2. g.totalPos = 0
    BY <1>1, <1>3, <1>8, <1>16 DEF ReceiverCount
  <2>3. QED
    BY <1>8, <1>15, <1>16, <2>1, <2>2 DEF ReceiverCount, OnlyFiles
<1>20. CompleteInv'
  BY <1>1, <1>2, <1>15, <1>16 DEF CompleteInv, LastIsSent
<1>21. ASSUME Alive("sender") PROVE Sender.m_state = "CONNECTED" /\ Dialogue' /\ LeftInv'
  <2>1. Sender.m_state = "CONNECTED" /\ Dialogue /\ ~Sender.m_msgqueue
    BY <1>1, <1>21, SenderTalks DEF Dialogue
  <2>2. ~OnlyPieces /\ ~ThenAnnounced
    <3>1. Down[1] = p /\ p.type = "0x00"
      BY <1>1, <1>3, <1>4
    <3>2. Len(Down) = 1
      BY <1>1, <3>1, FirstOfDown
    <3>3. ~OnlyPieces
      BY <1>16, <3>2 DEF OnlyPieces, Pieces
    <3>4. ~ThenAnnounced
      <4>1. PICK q : q = Announce(Held + 1)
        OBVIOUS
      <4>2. q.type = "0x02"
        BY <4>1 DEF Announce
      <4>3. QED
        BY <3>1, <3>2, <4>1, <4>2 DEF ThenAnnounced
    <3>5. QED
      BY <3>3, <3>4
  <2>3. Opening
    BY <1>1, <2>1, <2>2 DEF Dialogue, Announced, Replied, Sending, Passed
  <2>4. Up = <<>> /\ ~Sender.m_continue /\ ~Sender.m_more /\ m_files = sent
    BY <1>1, <2>3 DEF Opening
  <2>5. Up' = ps
    <3>1. <<>> \o ps = ps
      BY <1>12, ConcatEmptySeq
    <3>2. QED
      BY <1>15, <1>21, <2>4, <3>1
  <2>6. Opening'
    BY <1>5, <1>9, <1>11, <1>15, <1>16, <2>4, <2>5 DEF Opening, OnlyFiles
  <2>7. LeftInv'
    <3>1. \A i \in 1 .. 2 : i = 1 \/ i = 2
      OBVIOUS
    <3>2. \A i \in 1 .. 2 : ps[i].type # "0x03" /\ (ps[i].type = "0x01" => i = 2)
      BY <1>10, <1>12, <3>1
    <3>3. QED
      BY <1>12, <1>15, <2>4, <2>5, <3>2 DEF LeftInv, OnlyFiles
  <2>8. QED
    BY <1>15, <2>1, <2>6, <2>7 DEF Dialogue
<1>22. LeftInv'
  BY <1>15, <1>21 DEF LeftInv
<1>23. QED
  BY <1>1, <1>8, <1>12, <1>13, <1>14, <1>17, <1>18, <1>19, <1>20, <1>21, <1>22, ReceiverContinuesKeeps

\* The next entry is announced and begun.
LEMMA EntryBegun ==
    ASSUME IInv, OnlyFiles("receiver"), NEW dir \in BOOLEAN, ThenAnnounced, Len(Down) = 1,
           stored' = Append(stored, [dir |-> dir, got |-> 0]), dir <=> sent[Held + 1].kind = "dir"
    PROVE  /\ Held + 1 <= Len(sent) /\ Held' = Held + 1 /\ stored'[Held + 1].got = 0
           /\ HandedInOrder'
           /\ Held > 0 => stored[Held].got = sent[Held].size
<1>1. PICK k \in Nat : k = Held
  BY SidesTyped
<1>2. /\ stored \in Seq([dir : BOOLEAN, got : Nat]) /\ Len(sent) \in Nat /\ HandedInOrder
      /\ \A i \in 1 .. Len(sent) : sent[i].size \in Nat
      /\ \A i \in 1 .. k : stored[i].got \in Nat
  BY <1>1, SidesTyped, TransferParts
<1>3. k + 1 <= Len(sent) /\ (k > 0 => After(0) = sent[k].size)
  BY <1>1 DEF ThenAnnounced
<1>4. ASSUME k > 0 PROVE stored[k].got = sent[k].size
  <2>1. k \in 1 .. Len(sent) /\ k \in 1 .. k
    BY <1>3, <1>4
  <2>2. PICK size \in Nat, got \in Nat : size = sent[k].size /\ got = stored[k].got
    BY <1>2, <2>1
  <2>3. got <= size
    BY <1>1, <1>2, <2>1, <2>2 DEF HandedInOrder, Held
  <2>4. size = IF size = 0 THEN 0 ELSE got + 0
    BY <1>1, <1>3, <1>4, <2>2 DEF After
  <2>5. got = size
    BY <2>3, <2>4
  <2>6. QED
    BY <2>2, <2>5
<1>5. PICK entry : entry = [dir |-> dir, got |-> 0]
  OBVIOUS
<1>6. entry \in [dir : BOOLEAN, got : Nat] /\ entry.dir = dir /\ entry.got = 0
  BY <1>5
<1>7. PICK t : t = Append(stored, entry)
  OBVIOUS
<1>8. Len(t) = k + 1 /\ t[k + 1] = entry /\ \A i \in 1 .. k : t[i] = stored[i]
  BY <1>1, <1>2, <1>6, <1>7, AppendProperties DEF Held
<1>9. \A i \in 1 .. k + 1 : i \in 1 .. k \/ i = k + 1
  OBVIOUS
<1>10. ASSUME NEW i \in 1 .. k + 1
       PROVE  /\ t[i].dir = (sent[i].kind = "dir") /\ t[i].got <= sent[i].size
              /\ i < k + 1 => t[i].got = sent[i].size
  <2>1. CASE i = k + 1
    <3>1. sent[k + 1].size \in Nat
      BY <1>2, <1>3
    <3>2. 0 <= sent[k + 1].size /\ ~(i < k + 1)
      BY <2>1, <3>1
    <3>3. t[i].dir = (sent[i].kind = "dir")
      BY <1>1, <1>6, <1>8, <2>1
    <3>4. QED
      BY <1>6, <1>8, <2>1, <3>2, <3>3
  <2>2. CASE i \in 1 .. k
    <3>1. i = k \/ i < k
      BY <2>2
    <3>2. /\ stored[i].dir = (sent[i].kind = "dir") /\ stored[i].got <= sent[i].size
          /\ i < k => stored[i].got = sent[i].size
      BY <1>1, <1>2, <2>2 DEF HandedInOrder, Held
    <3>3. k > 0
      BY <2>2
    <3>4. QED
      BY <1>4, <1>8, <2>2, <3>1, <3>2, <3>3
  <2>3. QED
    BY <1>9, <2>1, <2>2
<1>11. stored' = t
  BY <1>5, <1>7
<1>12. Held' = k + 1 /\ stored'[k + 1].got = 0
  BY <1>6, <1>8, <1>11 DEF Held
<1>13. HandedInOrder'
  BY <1>3, <1>8, <1>10, <1>11 DEF HandedInOrder, OnlyFiles
<1>14. QED
  BY <1>1, <1>3, <1>4, <1>12, <1>13

\* 0x02: the entry before is whole, so the next is begun in order.
LEMMA ReceiverReadsEntry ==
    ASSUME IInv, ftc["receiver"].m_socket = "CONNECTED", data["receiver"] # <<>>, UNCHANGED m_files,
           UNCHANGED <<sent, direct, answered, seq, asked, queued, aside, cached, control, undefined>>,
           Receiver.m_state = "CONNECTED", Head(Down).type = "0x02",
           ParsePacket0x02(Receiver, ev["receiver"], Head(Down), Tail(Down))
    PROVE  IInv'
<1>1. /\ Alive("receiver") /\ Down # <<>> /\ Down \in Seq(Packets) /\ Up \in Seq(Packets)
      /\ Head(Down) \in Packets /\ Head(Down) = Down[1] /\ Tail(Down) \in Seq(Packets)
      /\ Receiver \in Clients /\ Receiver.m_socket = "CONNECTED" /\ ev["receiver"] \in Events
      /\ Receiver.m_state # "NONE" /\ ReceiverCount
      /\ <<>> \in Seq(Packets)
  BY ReceiverReads
<1>2. /\ ReceiverInv /\ CompleteInv /\ m_files \in Seq(Entries) /\ undefined \in BOOLEAN
      /\ stored \in Seq([dir : BOOLEAN, got : Nat])
      /\ sent \in Seq(Entries) /\ Len(sent) \in Nat /\ \A i \in 1 .. Len(sent) : sent[i].size \in Nat
  BY TransferParts, SidesTyped
<1>3. PICK x \in Clients, e \in Events, p \in Packets, rest \in Seq(Packets) :
         x = Receiver /\ e = ev["receiver"] /\ p = Head(Down) /\ rest = Tail(Down)
  BY <1>1
<1>4. p.type = "0x02" /\ p.size \in Nat /\ p.dir \in BOOLEAN
  BY <1>3 DEF Packets
<1>5. PICK k \in Nat : k = Held
  BY SidesTyped
<1>6. ThenAnnounced /\ Len(Down) = 1 /\ p = Announce(k + 1) /\ rest = <<>>
  <2>1. ThenAnnounced /\ Len(Down) = 1 /\ p = Announce(k + 1)
    BY <1>1, <1>3, <1>4, <1>5, FirstOfDown
  <2>2. QED
    BY <1>1, <1>3, <2>1, OnlyOne
<1>7. (p.dir <=> sent[k + 1].kind = "dir") /\ p.size = sent[k + 1].size
  BY <1>6 DEF Announce
<1>8. PICK next \in Nat, size \in Nat, dir \in BOOLEAN :
         next = e.currFile + 1 /\ size = p.size /\ (dir <=> p.dir) /\ dir = p.dir
  BY <1>4 DEF Events
<1>9. PICK h : h = [e EXCEPT !.size = size, !.pos = 0, !.currFile = next]
  OBVIOUS
<1>10. /\ h \in Events /\ h.state = e.state /\ h.totalSize = e.totalSize /\ h.totalPos = e.totalPos
       /\ h.currFile = next
  BY <1>9 DEF Events
<1>11. PICK g : g = Told(h)
  OBVIOUS
<1>12. /\ g \in Events /\ g.state = e.state /\ g.totalSize = e.totalSize /\ g.totalPos = e.totalPos
       /\ g.currFile = next
  BY <1>10, <1>11, ToldTyped
<1>13. CASE /\ stored' = Append(stored, [dir |-> dir, got |-> 0])
            /\ Continue("receiver", x, g, <<>>, <<[type |-> "0x03", files |-> next]>>)
  <2>1. PICK r : r = [type |-> "0x03", files |-> next]
    OBVIOUS
  <2>2. r \in Packets /\ r.type = "0x03" /\ r.files = next
    BY <2>1 DEF Packets
  <2>3. PICK ps : ps = <<r>>
    OBVIOUS
  <2>4. ps \in Seq(Packets) /\ Len(ps) = 1 /\ ps[1] = r
    BY <2>2, <2>3, OneTuple
  <2>5. Continue("receiver", x, g, <<>>, ps)
    BY <1>13, <2>1, <2>3
  <2>6. stored' \in Seq([dir : BOOLEAN, got : Nat])
    <3>1. PICK entry \in [dir : BOOLEAN, got : Nat] : entry = [dir |-> dir, got |-> 0]
      OBVIOUS
    <3>2. QED
      BY <1>2, <1>13, <3>1, AppendProperties
  <2>7. OnlyFiles("receiver")
    BY <1>1, <1>2, <2>6 DEF OnlyFiles
  <2>8. x.m_state # "NONE" /\ g.state = ev["receiver"].state
    BY <1>1, <1>3, <1>12
  <2>9. /\ Receiver' = x /\ Sender' = Sender /\ ev'["receiver"] = g /\ ev'["sender"] = ev["sender"]
        /\ Down' = <<>> /\ Up' = IF Alive("sender") THEN Up \o ps ELSE Up
        /\ Alive("sender")' <=> Alive("sender")
    BY <1>1, <1>12, <2>4, <2>5, <2>7, <2>8, ReceiverContinues
  <2>10. /\ k + 1 <= Len(sent) /\ Held' = k + 1 /\ stored'[k + 1].got = 0
         /\ HandedInOrder'
         /\ k > 0 => stored[k].got = sent[k].size
    BY <1>5, <1>6, <1>7, <1>8, <1>13, <2>7, EntryBegun
  <2>11. Receiver'.m_state = "CONNECTED" /\ Receiver'.m_socket = "CONNECTED"
    BY <1>1, <1>3, <2>9
  <2>12. ReceiverInv'
    <3>1. Len(Down') = 0
      BY <2>9
    <3>2. OnlyPieces'
      BY <3>1 DEF OnlyPieces, Pieces
    <3>3. QED
      BY <2>9, <2>11, <3>2 DEF ReceiverInv
  <2>13. ReceiverCount'
    <3>1. PICK sums : sums = Sums(sent)
      OBVIOUS
    <3>2. /\ sums[0] = 0
          /\ \A i \in 1 .. Len(sent) : sums[i] = sums[i - 1] + sent[i].size
          /\ \A i \in 0 .. Len(sent) : sums[i] \in Nat
      BY <1>2, <3>1, SumsAre
    <3>3. e.totalSize = Content(sent) /\ e.currFile = k
          /\ e.totalPos = IF k = 0 THEN 0 ELSE sums[k - 1] + stored[k].got
      BY <1>1, <1>3, <1>5, <3>1 DEF ReceiverCount
    <3>4. e.totalPos = sums[k]
      <4>1. CASE k = 0
        BY <3>2, <3>3, <4>1
      <4>2. CASE k # 0
        <5>1. k > 0 /\ k \in 1 .. Len(sent)
          BY <1>2, <2>10, <4>2
        <5>2. e.totalPos = sums[k - 1] + sent[k].size
          BY <2>10, <3>3, <4>2, <5>1
        <5>3. QED
          BY <3>2, <5>1, <5>2
      <4>3. QED
        BY <4>1, <4>2
    <3>5. k \in 0 .. Len(sent) /\ sums[k] \in Nat
      BY <1>2, <2>10, <3>2
    <3>6. g.totalPos = sums[(k + 1) - 1] + 0 /\ k + 1 # 0
      <4>1. (k + 1) - 1 = k /\ sums[k] + 0 = sums[k]
        BY <3>5
      <4>2. QED
        BY <1>12, <3>4, <4>1
    <3>7. g.totalSize = Content(sent) /\ g.currFile = k + 1
      BY <1>8, <1>12, <3>3
    <3>8. sent' = sent
      OBVIOUS
    <3>9. QED
      BY <2>9, <2>10, <3>1, <3>6, <3>7, <3>8 DEF ReceiverCount
  <2>14. CompleteInv'
    <3>1. k # Len(sent)
      BY <1>2, <2>10
    <3>2. ev["sender"].state # "COMPLETE"
      BY <1>1, <1>2, <1>5, <3>1 DEF CompleteInv
    <3>3. QED
      BY <2>9, <3>2 DEF CompleteInv
  <2>15. ASSUME Alive("sender") PROVE Sender.m_state = "CONNECTED" /\ Dialogue' /\ LeftInv'
    <3>1. Sender.m_state = "CONNECTED" /\ Dialogue /\ ~Sender.m_msgqueue
      BY <1>1, <2>15, SenderTalks DEF Dialogue
    <3>2. ~OnlyPieces
      <4>1. 1 \in 1 .. 1 /\ Down[1].type = "0x02"
        BY <1>1, <1>3, <1>4
      <4>2. PICK q : q = Piece(k)
        OBVIOUS
      <4>3. q.type = "0x06"
        BY <4>2 DEF Piece
      <4>4. QED
        BY <1>5, <1>6, <4>1, <4>2, <4>3 DEF OnlyPieces, Pieces
    <3>3. ~Opening
      <4>1. SUFFICES ASSUME Opening PROVE FALSE
        OBVIOUS
      <4>2. Down = <<AllCount>>
        BY <1>1, <4>1 DEF Opening
      <4>3. PICK q : q = AllCount
        OBVIOUS
      <4>4. q.type = "0x00" /\ Down = <<q>>
        BY <4>2, <4>3 DEF AllCount
      <4>5. Down[1] = q
        BY <4>4
      <4>6. QED
        BY <1>1, <1>3, <1>4, <4>4, <4>5
    <3>4. Announced
      BY <1>1, <3>1, <3>2, <3>3 DEF Dialogue, Replied, Sending, Passed
    <3>5. Up = <<>> /\ ~Sender.m_continue /\ ~Sender.m_more /\ Left(k + 1) /\ Open(k + 1)
      BY <1>5, <3>4 DEF Announced
    <3>6. Up' = ps
      <4>1. <<>> \o ps = ps
        BY <2>4, ConcatEmptySeq
      <4>2. QED
        BY <2>9, <2>15, <3>5, <4>1
    <3>7. next = k + 1 /\ k + 1 > 0
      BY <1>1, <1>3, <1>5, <1>8 DEF ReceiverCount
    <3>8. (\A i : Left(i) => Left(i)') /\ (\A i : Open(i) => Open(i)')
      BY <2>9 DEF Left, Open
    <3>9. Up' = <<[type |-> "0x03", files |-> Held']>>
      BY <2>1, <2>3, <2>10, <3>6, <3>7
    <3>10. Replied'
      <4>1. PICK m : m = k + 1
        OBVIOUS
      <4>2. Held' = m /\ m > 0 /\ Left(m)' /\ Open(m)' /\ stored'[m].got = 0
        BY <2>10, <3>5, <3>7, <3>8, <4>1
      <4>3. Up' = <<[type |-> "0x03", files |-> Held]>>'
        BY <3>9
      <4>4. QED
        BY <2>9, <2>11, <3>5, <4>2, <4>3 DEF Replied
    <3>11. LeftInv'
      <4>1. \A i \in 1 .. 1 : i = 1
        OBVIOUS
      <4>2. PICK m : m = k + 1
        OBVIOUS
      <4>3. Left(m)' /\ r.files = m
        BY <2>2, <3>5, <3>7, <3>8, <4>2
      <4>4. QED
        BY <2>2, <2>4, <2>9, <3>5, <3>6, <4>1, <4>3 DEF LeftInv
    <3>12. QED
      BY <2>9, <3>1, <3>10, <3>11 DEF Dialogue
  <2>16. LeftInv'
    BY <2>9, <2>15 DEF LeftInv
  <2>17. QED
    BY <1>1, <1>12, <2>4, <2>5, <2>7, <2>8, <2>10, <2>12, <2>13, <2>14, <2>15, <2>16, ReceiverContinuesKeeps
<1>14. CASE UNCHANGED stored /\ DisconnectDirectConn("receiver", [h EXCEPT !.state = "ERROR"], <<>>, <<>>)
  <2>1. PICK f : f = [h EXCEPT !.state = "ERROR"]
    OBVIOUS
  <2>2. f \in Events /\ f.state = "ERROR"
    BY <1>10, <2>1 DEF Events, EventStates
  <2>3. OnlyFiles("receiver")
    BY <1>1, <1>2, <1>14 DEF OnlyFiles
  <2>4. QED
    BY <1>14, <2>1, <2>2, <2>3, ReceiverCutKeeps
<1>15. ParsePacket0x02(x, e, p, <<>>)
  BY <1>3, <1>6
<1>16. QED
  BY <1>8, <1>9, <1>11, <1>13, <1>14, <1>15 DEF ParsePacket0x02, MakesEntry

\* A piece of the last entry is written.
LEMMA PieceStored ==
    ASSUME IInv, UNCHANGED sent, Held > 0, Down # <<>>, OnlyPieces \/ (ThenAnnounced /\ Len(Down) > 1),
           NEW inc, inc = Piece(Held).length,
           stored' = [stored EXCEPT ![Len(stored)].got = stored[Len(stored)].got + inc]
    PROVE  /\ Held \in 1 .. Len(sent) /\ Held' = Held /\ inc \in {0, 1}
           /\ inc = IF sent[Held].size = 0 THEN 0 ELSE 1
           /\ stored[Held].got \in Nat /\ stored'[Held].got = stored[Held].got + inc
           /\ stored' \in Seq([dir : BOOLEAN, got : Nat])
           /\ HandedInOrder'
<1>1. PICK k \in Nat : k = Held
  BY SidesTyped
<1>2. /\ stored \in Seq([dir : BOOLEAN, got : Nat]) /\ Len(sent) \in Nat /\ HandedInOrder
      /\ \A i \in 1 .. Len(sent) : sent[i].size \in Nat
      /\ \A i \in 1 .. k : stored[i].got \in Nat
      /\ Down \in Seq(Packets)
  BY <1>1, SidesTyped, TransferParts
<1>3. k \in 1 .. Len(sent) /\ k \in 1 .. k /\ Len(stored) = k
  BY <1>1, <1>2 DEF HandedInOrder, Held
<1>4. PICK size \in Nat, got \in Nat : size = sent[k].size /\ got = stored[k].got
  BY <1>2, <1>3
<1>5. inc = IF size = 0 THEN 0 ELSE 1
  BY <1>1, <1>4 DEF Piece
<1>6. inc \in {0, 1} /\ got + inc \in Nat
  BY <1>5
<1>7. got + inc <= size
  <2>1. got <= size
    BY <1>2, <1>3, <1>4 DEF HandedInOrder
  <2>2. PICK d \in Nat : d = Len(Down)
    BY <1>2
  <2>3. d > 0
    BY <1>2, <2>2
  <2>4. PICK m \in Nat : m > 0 /\ Pieces(m)
    BY <2>2, <2>3 DEF OnlyPieces, ThenAnnounced
  <2>5. After(m) <= size
    BY <1>1, <1>4, <2>4 DEF Pieces
  <2>6. size # 0 => got + m <= size
    BY <1>1, <1>4, <2>5 DEF After
  <2>7. CASE size = 0
    BY <1>5, <2>1, <2>7
  <2>8. CASE size # 0
    <3>1. inc = 1
      BY <1>5, <2>8
    <3>2. QED
      BY <2>4, <2>6, <2>8, <3>1
  <2>9. QED
    BY <2>7, <2>8
<1>8. PICK written \in Nat : written = got + inc
  BY <1>6
<1>9. PICK entry : entry = [stored[k] EXCEPT !.got = written]
  OBVIOUS
<1>10. stored[k] \in [dir : BOOLEAN, got : Nat]
  BY <1>2, <1>3, ElementOfSeq
<1>11. entry \in [dir : BOOLEAN, got : Nat] /\ entry.dir = stored[k].dir /\ entry.got = written
  BY <1>9, <1>10
<1>12. stored' = [stored EXCEPT ![k] = entry]
  BY <1>3, <1>4, <1>8, <1>9
<1>13. PICK t : t = [stored EXCEPT ![k] = entry]
  OBVIOUS
<1>14. t \in Seq([dir : BOOLEAN, got : Nat]) /\ Len(t) = k /\ \A i \in 1 .. k : t[i] = IF i = k THEN entry ELSE stored[i]
  BY <1>2, <1>3, <1>11, <1>13, ExceptSeq
<1>15. t[k].got = written
  BY <1>3, <1>11, <1>14
<1>16. ASSUME NEW i \in 1 .. k
       PROVE  /\ t[i].dir = (sent[i].kind = "dir") /\ t[i].got <= sent[i].size
              /\ i < k => t[i].got = sent[i].size
  <2>1. /\ stored[i].dir = (sent[i].kind = "dir") /\ stored[i].got <= sent[i].size
        /\ i < k => stored[i].got = sent[i].size
    BY <1>2, <1>3 DEF HandedInOrder
  <2>2. CASE i = k
    <3>1. t[i].dir = stored[i].dir /\ ~(i < k)
      BY <1>3, <1>11, <1>14, <2>2
    <3>2. t[i].got <= sent[i].size
      BY <1>4, <1>7, <1>8, <1>15, <2>2
    <3>3. QED
      BY <2>1, <3>1, <3>2
  <2>3. CASE i # k
    <3>1. t[i] = stored[i]
      BY <1>14, <2>3
    <3>2. QED
      BY <2>1, <3>1
  <2>4. QED
    BY <2>2, <2>3
<1>17. stored' = t
  BY <1>12, <1>13
<1>18. Held' = k
  BY <1>14, <1>17 DEF Held
<1>19. HandedInOrder'
  BY <1>2, <1>3, <1>14, <1>16, <1>17 DEF HandedInOrder
<1>20. QED
  BY <1>1, <1>3, <1>4, <1>5, <1>6, <1>8, <1>14, <1>15, <1>17, <1>18, <1>19

\* What is said of the pieces holds of those that are left.
LEMMA PiecesShift ==
    ASSUME UNCHANGED sent, Held' = Held, Held \in Nat, Held > 0, Held <= Len(sent), Len(sent) \in Nat,
           Down \in Seq(Packets), Down # <<>>, Down' = Tail(Down),
           sent[Held].size \in Nat, stored[Held].got \in Nat,
           NEW inc \in {0, 1}, inc = IF sent[Held].size = 0 THEN 0 ELSE 1,
           stored'[Held].got = stored[Held].got + inc
    PROVE  /\ OnlyPieces => OnlyPieces' /\ After(Len(Down))' = After(Len(Down))
           /\ ThenAnnounced /\ Len(Down) > 1 => ThenAnnounced'
<1>1. PICK k \in Nat, size \in Nat, got \in Nat : k = Held /\ size = sent[k].size /\ got = stored[k].got
  OBVIOUS
<1>2. PICK q, t : q = Down /\ t = Tail(q)
  OBVIOUS
<1>3. q \in Seq(Packets) /\ q # <<>> /\ Down' = t
  BY <1>1, <1>2
<1>4. Len(q) \in Nat /\ Len(q) > 0 /\ Len(t) = Len(q) - 1 /\ \A i \in 1 .. Len(t) : t[i] = q[i + 1]
  BY <1>2, <1>3
<1>5. PICK d \in Nat : Len(t) = d /\ Len(q) = d + 1
  <2>1. Len(q) - 1 \in Nat /\ Len(q) = (Len(q) - 1) + 1
    BY <1>4
  <2>2. QED
    BY <1>4, <2>1
<1>6. ASSUME NEW m \in Nat PROVE After(m)' = After(m + 1)
  <2>1. After(m + 1) = IF size = 0 THEN 0 ELSE got + (m + 1)
    BY <1>1 DEF After
  <2>2. After(m)' = IF size = 0 THEN 0 ELSE (got + inc) + m
    BY <1>1 DEF After
  <2>3. CASE size = 0
    BY <2>1, <2>2, <2>3
  <2>4. CASE size # 0
    <3>1. inc = 1
      BY <1>1, <2>4
    <3>2. (got + 1) + m = got + (m + 1)
      OBVIOUS
    <3>3. QED
      BY <2>1, <2>2, <2>4, <3>1, <3>2
  <2>5. QED
    BY <2>3, <2>4
<1>7. Piece(k)' = Piece(k)
  BY DEF Piece
<1>8. ASSUME NEW m \in Nat, m <= d, Pieces(m + 1) PROVE Pieces(m)'
  <2>1. /\ After(m + 1) <= sent[k].size
        /\ \A i \in 1 .. m + 1 : q[i] = Piece(k)
    BY <1>1, <1>2, <1>8 DEF Pieces
  <2>2. ASSUME NEW i \in 1 .. m PROVE t[i] = Piece(k)
    <3>1. i \in 1 .. Len(t) /\ i + 1 \in 1 .. m + 1
      BY <1>5, <1>8
    <3>2. QED
      BY <1>4, <2>1, <3>1
  <2>3. After(m)' <= sent[k].size
    BY <1>6, <2>1
  <2>4. QED
    BY <1>1, <1>3, <1>7, <2>2, <2>3 DEF Pieces
<1>9. Len(Down) = d + 1 /\ Len(Down') = d
  BY <1>2, <1>3, <1>5
<1>10. ASSUME OnlyPieces PROVE OnlyPieces' /\ After(Len(Down))' = After(Len(Down))
  <2>1. Pieces(d)'
    BY <1>8, <1>9, <1>10 DEF OnlyPieces
  <2>2. After(Len(Down))' = After(d)'
    BY <1>9 DEF After
  <2>3. QED
    BY <1>6, <1>9, <2>1, <2>2 DEF OnlyPieces
<1>11. ASSUME ThenAnnounced, Len(Down) > 1 PROVE ThenAnnounced'
  <2>1. PICK m \in Nat : d = m + 1
    <3>1. d - 1 \in Nat /\ d = (d - 1) + 1
      BY <1>9, <1>11
    <3>2. QED
      BY <3>1
  <2>2. Len(Down) - 1 = m + 1 /\ Len(Down') - 1 = m /\ m <= d
    BY <1>9, <2>1
  <2>3. /\ Pieces(m + 1) /\ k + 1 <= Len(sent) /\ Down[Len(Down)] = Announce(k + 1)
        /\ After(m + 1) = sent[k].size
    BY <1>1, <1>11, <2>2 DEF ThenAnnounced
  <2>4. Pieces(m)' /\ After(m)' = sent[k].size
    BY <1>6, <1>8, <2>2, <2>3
  <2>5. Down'[d] = Announce(k + 1)
    <3>1. d \in 1 .. Len(t)
      BY <1>5, <2>1
    <3>2. t[d] = q[d + 1]
      BY <1>4, <3>1
    <3>3. QED
      BY <1>2, <1>3, <1>9, <2>3, <3>2
  <2>6. Announce(k + 1)' = Announce(k + 1)
    BY DEF Announce
  <2>7. Down' # <<>>
    <3>1. Len(t) # 0
      BY <1>5, <2>1
    <3>2. Len(<<>>) = 0
      OBVIOUS
    <3>3. QED
      BY <1>3, <3>1, <3>2
  <2>8. QED
    BY <1>1, <1>9, <2>2, <2>3, <2>4, <2>5, <2>6, <2>7 DEF ThenAnnounced
<1>12. QED
  BY <1>10, <1>11

\* A function on 1 .. k is a sequence.
LEMMA FunctionIsSeq ==
    ASSUME NEW X, NEW k \in Nat, NEW f \in [1 .. k -> X]
    PROVE  f \in Seq(X)
  OBVIOUS

\* A receiver that has counted as much as was announced has all of it.
LEMMA AllIsStored ==
    ASSUME NEW list \in Seq(Entries), NEW k \in 1 .. Len(list), NEW got \in Nat, got <= list[k].size,
           Sums(list)[k - 1] + got >= Content(list)
    PROVE  got = list[k].size /\ \A i \in k + 1 .. Len(list) : list[i].size = 0
<1>1. PICK sums, N : sums = Sums(list) /\ N = Len(list)
  OBVIOUS
<1>2. /\ Content(list) = sums[N]
      /\ \A i \in 1 .. N : sums[i] = sums[i - 1] + list[i].size
      /\ \A i \in 0 .. N : sums[i] \in Nat
  BY <1>1, SumsAre
<1>3. N \in Nat /\ \A i \in 1 .. N : list[i].size \in Nat
  <2>1. N \in Nat /\ \A i \in 1 .. N : list[i] \in Entries
    BY <1>1, LenProperties, ElementOfSeq
  <2>2. QED
    BY <2>1 DEF Entries
<1>4. k \in 0 .. N /\ N \in 0 .. N /\ k <= N /\ k - 1 \in 0 .. N /\ k \in 1 .. N
  BY <1>1, <1>3
<1>5. sums[k] <= sums[N] /\ \A i \in k + 1 .. N : sums[k] + list[i].size <= sums[N]
  BY <1>1, <1>4, SumsGrow
<1>6. PICK a \in Nat, b \in Nat, all \in Nat, size \in Nat :
         a = sums[k - 1] /\ b = sums[k] /\ all = sums[N] /\ size = list[k].size
  BY <1>2, <1>3, <1>4
<1>7. b = a + size /\ b <= all /\ a + got >= all /\ got <= size
  BY <1>1, <1>2, <1>4, <1>5, <1>6
<1>8. got = size /\ b = all
  BY <1>7
<1>9. ASSUME NEW i \in k + 1 .. N PROVE list[i].size = 0
  <2>1. list[i].size \in Nat /\ b + list[i].size <= all
    BY <1>3, <1>5, <1>6
  <2>2. QED
    BY <1>8, <2>1
<1>10. QED
  BY <1>1, <1>6, <1>8, <1>9

\* 0x06: it belongs to the entry begun last, and the count of all pieces reaches
\* the total only with the last piece of the list.
LEMMA ReceiverReadsPiece ==
    ASSUME IInv, ftc["receiver"].m_socket = "CONNECTED", data["receiver"] # <<>>, UNCHANGED m_files,
           UNCHANGED <<sent, direct, answered, seq, asked, queued, aside, cached, control, undefined>>,
           Receiver.m_state = "CONNECTED", Head(Down).type = "0x06",
           ParsePacket0x06(Receiver, ev["receiver"], Head(Down), Tail(Down))
    PROVE  IInv'
<1>1. /\ Alive("receiver") /\ Down # <<>> /\ Down \in Seq(Packets) /\ Up \in Seq(Packets)
      /\ Head(Down) \in Packets /\ Head(Down) = Down[1] /\ Tail(Down) \in Seq(Packets)
      /\ Receiver \in Clients /\ Receiver.m_socket = "CONNECTED" /\ ev["receiver"] \in Events
      /\ Receiver.m_state # "NONE" /\ ReceiverCount
      /\ <<>> \in Seq(Packets) /\ Up \o <<>> = Up
  BY ReceiverReads
<1>2. /\ CoreOK /\ ReceiverInv /\ CompleteInv /\ LeftInv /\ HandedInOrder
      /\ m_files \in Seq(Entries) /\ undefined \in BOOLEAN
      /\ sent \in Seq(Entries) /\ Len(sent) \in Nat /\ \A i \in 1 .. Len(sent) : sent[i].size \in Nat
      /\ stored \in Seq([dir : BOOLEAN, got : Nat]) /\ sent # <<>>
  BY TransferParts, SidesTyped
<1>3. PICK x \in Clients, e \in Events, p \in Packets, rest \in Seq(Packets) :
         x = Receiver /\ e = ev["receiver"] /\ p = Head(Down) /\ rest = Tail(Down)
  BY <1>1
<1>4. PICK k \in Nat : k = Held
  BY SidesTyped
<1>5. k > 0 /\ p = Piece(k) /\ (OnlyPieces \/ (ThenAnnounced /\ Len(Down) > 1))
  <2>1. Down[1].type = "0x06"
    BY <1>1
  <2>2. Held > 0 /\ Down[1] = Piece(Held) /\ (OnlyPieces \/ (ThenAnnounced /\ Len(Down) > 1))
    BY <1>1, <2>1, FirstOfDown
  <2>3. QED
    BY <1>1, <1>3, <1>4, <2>2
<1>6. PICK inc : inc = p.length
  OBVIOUS
<1>7. stored' = [stored EXCEPT ![Len(stored)].got = stored[Len(stored)].got + inc]
  BY <1>3, <1>6 DEF ParsePacket0x06, Writes
<1>8. /\ k \in 1 .. Len(sent) /\ Held' = k /\ inc \in {0, 1}
      /\ inc = IF sent[k].size = 0 THEN 0 ELSE 1
      /\ stored[k].got \in Nat /\ stored'[k].got = stored[k].got + inc
      /\ stored' \in Seq([dir : BOOLEAN, got : Nat])
      /\ HandedInOrder'
  BY <1>1, <1>4, <1>5, <1>6, <1>7, PieceStored
<1>9. OnlyFiles("receiver")
  BY <1>1, <1>2, <1>8 DEF OnlyFiles
<1>10. PICK sums : sums = Sums(sent)
  OBVIOUS
<1>11. sums[k - 1] \in Nat
  <2>1. k - 1 \in 0 .. Len(sent)
    BY <1>2, <1>8
  <2>2. QED
    BY <1>2, <1>10, <2>1, SumsAre
<1>12. PICK got \in Nat, pos \in Nat, total \in Nat :
         got = stored[k].got + inc /\ pos = e.pos + inc /\ total = e.totalPos + inc
  <2>1. inc \in Nat /\ stored[k].got \in Nat /\ e.pos \in Nat /\ e.totalPos \in Nat
    BY <1>8 DEF Events
  <2>2. stored[k].got + inc \in Nat /\ e.pos + inc \in Nat /\ e.totalPos + inc \in Nat
    BY <2>1
  <2>3. QED
    BY <2>2
<1>13. /\ e.totalSize = Content(sent) /\ e.currFile = k /\ total = sums[k - 1] + got
  <2>1. e.totalPos = sums[k - 1] + stored[k].got /\ e.totalSize = Content(sent) /\ e.currFile = k
    BY <1>1, <1>3, <1>4, <1>5, <1>10 DEF ReceiverCount
  <2>2. QED
    BY <1>8, <1>11, <1>12, <2>1
<1>14. PICK g : g = [e EXCEPT !.pos = pos, !.totalPos = total]
  OBVIOUS
<1>15. /\ g \in Events /\ g.state = e.state /\ g.totalSize = e.totalSize /\ g.totalPos = total
       /\ g.currFile = e.currFile
  BY <1>14 DEF Events
<1>16. stored'[k].got = got /\ got <= sent[k].size
  <2>1. stored'[k].got = got
    BY <1>8, <1>12
  <2>2. k \in 1 .. Len(stored')
    BY <1>8 DEF Held
  <2>3. QED
    BY <1>8, <2>1, <2>2 DEF HandedInOrder
<1>17. CASE Continue("receiver", x, g, rest, <<>>)
  <2>1. x.m_state # "NONE" /\ g.state = ev["receiver"].state
    BY <1>1, <1>3, <1>15
  <2>2. /\ Receiver' = x /\ Sender' = Sender /\ ev'["receiver"] = g /\ ev'["sender"] = ev["sender"]
        /\ Down' = rest /\ Up' = IF Alive("sender") THEN Up \o <<>> ELSE Up
        /\ Alive("sender")' <=> Alive("sender")
    BY <1>1, <1>9, <1>15, <1>17, <2>1, ReceiverContinues
  <2>3. Up' = Up
    BY <1>1, <2>2
  <2>4. /\ OnlyPieces => OnlyPieces' /\ After(Len(Down))' = After(Len(Down))
        /\ ThenAnnounced /\ Len(Down) > 1 => ThenAnnounced'
    <3>1. Held \in Nat /\ Held > 0 /\ Held <= Len(sent) /\ Held' = Held /\ sent[Held].size \in Nat
      BY <1>2, <1>4, <1>8
    <3>2. /\ stored[Held].got \in Nat /\ stored'[Held].got = stored[Held].got + inc
          /\ inc = IF sent[Held].size = 0 THEN 0 ELSE 1
      BY <1>4, <1>8
    <3>3. Down' = Tail(Down)
      BY <1>3, <2>2
    <3>4. QED
      BY <1>1, <1>2, <1>8, <3>1, <3>2, <3>3, PiecesShift
  <2>5. Receiver'.m_state = "CONNECTED" /\ Receiver'.m_socket = "CONNECTED"
    BY <1>1, <1>3, <2>2
  <2>6. ReceiverInv'
    <3>1. OnlyPieces' \/ ThenAnnounced'
      BY <1>5, <2>4
    <3>2. Alive("receiver")'
      BY <1>1, <1>3, <2>2 DEF Alive, Receiver
    <3>3. QED
      BY <2>5, <3>1, <3>2 DEF ReceiverInv
  <2>7. ReceiverCount'
    <3>1. g.totalPos = sums[k - 1] + stored'[k].got
      BY <1>13, <1>15, <1>16
    <3>2. k # 0
      BY <1>5
    <3>3. QED
      BY <1>8, <1>10, <1>13, <1>15, <2>2, <3>1, <3>2 DEF ReceiverCount
  <2>8. LastIsSent => LastIsSent'
    <3>1. SUFFICES ASSUME LastIsSent PROVE LastIsSent'
      OBVIOUS
    <3>2. OnlyPieces' /\ After(Len(Down))' = sent[k].size
      BY <1>4, <2>4, <3>1 DEF LastIsSent
    <3>3. QED
      BY <1>5, <1>8, <3>2 DEF LastIsSent
  <2>9. CompleteInv'
    <3>1. ev["sender"].state = "COMPLETE" => Held = Len(sent) /\ LastIsSent
      BY <1>1, <1>2 DEF CompleteInv
    <3>2. QED
      BY <1>4, <1>8, <2>2, <2>5, <2>8, <3>1 DEF CompleteInv
  <2>10. LeftInv'
    BY <1>2, <2>2, <2>3 DEF LeftInv, Left
  <2>11. ASSUME Alive("sender") PROVE Sender.m_state = "CONNECTED" /\ Dialogue'
    <3>1. Sender.m_state = "CONNECTED" /\ Dialogue /\ ~Sender.m_msgqueue
      BY <1>1, <2>11, SenderTalks DEF Dialogue
    <3>2. ~Opening
      <4>1. SUFFICES ASSUME Opening PROVE FALSE
        OBVIOUS
      <4>2. stored = <<>>
        BY <4>1 DEF Opening
      <4>3. QED
        BY <1>4, <1>5, <4>2 DEF Held
    <3>3. (\A i : Left(i) => Left(i)') /\ (\A i : Open(i) => Open(i)')
      BY <2>2 DEF Left, Open
    <3>4. CASE Announced
      <4>1. PICK m : m = k + 1
        OBVIOUS
      <4>2. ThenAnnounced /\ Left(m) /\ Open(m) /\ Up = <<>> /\ ~Sender.m_continue /\ ~Sender.m_more
        BY <1>4, <3>4, <4>1 DEF Announced
      <4>3. ThenAnnounced'
        <5>1. Len(Down) > 1
          <6>1. SUFFICES ASSUME OnlyPieces, ThenAnnounced PROVE FALSE
            BY <1>5, <4>2
          <6>2. PICK d \in Nat : d = Len(Down)
            BY <1>1
          <6>3. d > 0
            BY <1>1, <6>2
          <6>4. Down[d] = Piece(k)
            BY <1>4, <6>1, <6>2, <6>3 DEF OnlyPieces, Pieces
          <6>5. Down[d] = Announce(k + 1)
            BY <1>4, <6>1, <6>2 DEF ThenAnnounced
          <6>6. Piece(k).type = "0x06" /\ Announce(k + 1).type = "0x02"
            BY DEF Piece, Announce
          <6>7. QED
            BY <6>4, <6>5, <6>6
        <5>2. QED
          BY <2>4, <4>2, <5>1
      <4>4. Held' + 1 = m /\ Left(m)' /\ Open(m)'
        BY <1>8, <3>3, <4>1, <4>2
      <4>5. Announced'
        BY <2>2, <2>3, <2>5, <4>2, <4>3, <4>4 DEF Announced
      <4>6. QED
        BY <2>2, <3>1, <4>5 DEF Dialogue
    <3>5. CASE Sending
      <4>1. /\ OnlyPieces /\ Left(k) /\ Up = <<>> /\ Sender.m_continue /\ ev["sender"].currFile = k
            /\ Sender.m_more =>
                  /\ Open(k) /\ ev["sender"].pos = After(Len(Down))
                  /\ sent[k].size > 0 => After(Len(Down)) < sent[k].size
            /\ ~Sender.m_more => LastIsSent
        BY <1>4, <3>5 DEF Sending
      <4>2. OnlyPieces' /\ After(Len(Down))' = After(Len(Down))
        BY <2>4, <4>1
      <4>3. /\ Sender'.m_more =>
                  /\ Open(k)' /\ ev'["sender"].pos = After(Len(Down))'
                  /\ sent'[k].size > 0 => After(Len(Down))' < sent'[k].size
            /\ ~Sender'.m_more => LastIsSent'
        BY <2>2, <2>8, <3>3, <4>1, <4>2
      <4>4. Left(k)'
        BY <3>3, <4>1
      <4>5. Sending'
        BY <1>5, <1>8, <2>2, <2>3, <2>5, <4>1, <4>2, <4>3, <4>4 DEF Sending
      <4>6. QED
        BY <2>2, <3>1, <4>5 DEF Dialogue
    <3>6. CASE Passed
      <4>1. Passed'
        BY <2>2, <2>3, <2>4, <2>5, <3>6 DEF Passed
      <4>2. QED
        BY <2>2, <3>1, <4>1 DEF Dialogue
    <3>7. QED
      BY <1>1, <3>1, <3>2, <3>4, <3>5, <3>6 DEF Dialogue, Replied
  <2>12. QED
    BY <1>1, <1>8, <1>9, <1>15, <1>17, <2>1, <2>6, <2>7, <2>9, <2>10, <2>11, ReceiverContinuesKeeps
<1>18. CASE total >= e.totalSize /\ DisconnectDirectConn("receiver", [g EXCEPT !.state = "COMPLETE"], rest, <<>>)
  <2>1. PICK f : f = [g EXCEPT !.state = "COMPLETE"]
    OBVIOUS
  <2>2. f \in Events
    BY <1>15, <2>1 DEF Events, EventStates
  <2>3. DisconnectDirectConn("receiver", f, rest, <<>>)
    BY <1>18, <2>1
  <2>4. data["sender"] \o <<>> = data["sender"]
    BY <1>1 DEF Up
  <2>5. /\ SocketStep("receiver") /\ IsEnded("receiver")
        /\ data'["receiver"] = <<>>
        /\ ~Alive("sender") => data'["sender"] = <<>>
        /\ data'["sender"] = <<>> \/ data'["sender"] = data["sender"] \o <<>>
    BY <1>1, <1>2, <1>9, <2>2, <2>3, DisconnectIsStep, TwoSides
  <2>6. got = sent[k].size /\ \A i \in k + 1 .. Len(sent) : sent[i].size = 0
    BY <1>2, <1>8, <1>10, <1>13, <1>16, <1>18, AllIsStored
  <2>7. Len(stored') = k
    BY <1>8 DEF Held
  <2>8. ASSUME NEW i \in 1 .. Len(sent), sent[i].size > 0
        PROVE  i <= k /\ stored'[i].got = sent[i].size
    <3>1. i <= k
      <4>1. SUFFICES ASSUME ~(i <= k) PROVE FALSE
        OBVIOUS
      <4>2. i \in k + 1 .. Len(sent)
        BY <1>8, <4>1
      <4>3. QED
        BY <2>6, <2>8, <4>2
    <3>2. i = k \/ i < k
      BY <3>1
    <3>3. i < k => stored'[i].got = sent[i].size
      BY <1>8, <2>7, <3>1 DEF HandedInOrder
    <3>4. QED
      BY <1>16, <2>6, <3>1, <3>2, <3>3
  <2>9. ASSUME sent[Len(sent)].size > 0 PROVE stored' = Whole(sent)
    <3>1. Len(sent) \in 1 .. Len(sent)
      BY <1>2, <1>8
    <3>2. Len(sent) = k
      BY <1>8, <2>8, <2>9, <3>1
    <3>3. PICK t, w : t = stored' /\ w = Whole(sent)
      OBVIOUS
    <3>4. t \in Seq([dir : BOOLEAN, got : Nat]) /\ Len(t) = k
      BY <1>8, <2>7, <3>3
    <3>5. w = [i \in 1 .. k |-> [dir |-> sent[i].kind = "dir", got |-> sent[i].size]]
      BY <3>2, <3>3 DEF Whole
    <3>6. w \in Seq([dir : BOOLEAN, got : Nat]) /\ Len(w) = k
      <4>1. \A i \in 1 .. k : [dir |-> sent[i].kind = "dir", got |-> sent[i].size] \in [dir : BOOLEAN, got : Nat]
        BY <1>2, <3>2
      <4>2. w \in [1 .. k -> [dir : BOOLEAN, got : Nat]]
        BY <3>5, <4>1
      <4>3. w \in Seq([dir : BOOLEAN, got : Nat])
        BY <4>2, FunctionIsSeq
      <4>4. Len(w) = k
        <5>1. DOMAIN w = 1 .. k
          BY <4>2
        <5>2. QED
          BY <4>3, <5>1, LenProperties
      <4>5. QED
        BY <4>3, <4>4
    <3>7. ASSUME NEW i \in 1 .. k PROVE t[i] = w[i]
      <4>1. t[i] \in [dir : BOOLEAN, got : Nat]
        BY <3>4, ElementOfSeq
      <4>2. t[i].dir = (sent[i].kind = "dir") /\ t[i].got = sent[i].size
        <5>1. t[i].dir = (sent[i].kind = "dir") /\ (i < k => t[i].got = sent[i].size)
          BY <1>8, <2>7, <3>3 DEF HandedInOrder
        <5>2. i = k => t[i].got = sent[i].size
          BY <1>16, <2>6, <3>3
        <5>3. QED
          BY <5>1, <5>2
      <4>3. t[i] = [dir |-> t[i].dir, got |-> t[i].got]
        BY <4>1
      <4>4. QED
        BY <3>5, <4>2, <4>3
    <3>8. t = w
      BY <3>4, <3>6, <3>7, SeqEqual
    <3>9. QED
      BY <3>3, <3>8
  <2>10. CompleteWasHanded'
    <3>1. Whole(sent)' = Whole(sent)
      BY DEF Whole
    <3>2. QED
      BY <2>7, <2>8, <2>9, <3>1 DEF CompleteWasHanded
  <2>11. QED
    BY <1>8, <2>4, <2>5, <2>10, ReceiverEnds
<1>19. ParsePacket0x06(x, e, p, rest)
  BY <1>3
<1>20. QED
  BY <1>6, <1>12, <1>14, <1>17, <1>18, <1>19, <1>15 DEF ParsePacket0x06, Writes

LEMMA ReceiverReceivesKeeps ==
    ASSUME IInv, ReceiverReceives
    PROVE  IInv'
<1>1. /\ ftc["receiver"].m_socket = "CONNECTED" /\ data["receiver"] # <<>>
      /\ UNCHANGED <<sent, direct, answered, seq, asked, queued, aside, m_files, cached, control, undefined>>
  BY DEF ReceiverReceives, requestVars, askVars, askedVars
<1>2. Alive("receiver") /\ ev["receiver"] \in Events /\ Down \in Seq(Packets) /\ Receiver.m_socket = "CONNECTED"
      /\ Head(Down) \in Packets /\ Down # <<>> /\ Head(Down) = Down[1] /\ Len(Down) \in Nat
  BY <1>1, ReceiverReads
<1>3. UNCHANGED stored => OnlyFiles("receiver")
  BY <1>1, <1>2, SidesTyped DEF OnlyFiles
<1>4. CASE /\ Receiver.m_state = "WAITING_FOR_INIT" /\ UNCHANGED stored
           /\ LET d == [Receiver EXCEPT !.m_state = "WAITING_FOR_INIT_ACK", !.m_remote_tcp_version = Head(Down).version]
              IN  Continue("receiver", d, ev["receiver"], Tail(Down), <<[type |-> "ACK"], SendInitPacket(d)>>)
  <2>1. PICK version : version = Head(Down).version
    OBVIOUS
  <2>2. version \in Nat
    <3>1. InitIn(Down)
      BY <1>2, <1>4, TransferParts DEF ReceiverInv
    <3>2. Down[1].version = 7
      BY <3>1 DEF InitIn, InitPackets
    <3>3. QED
      BY <1>2, <2>1, <3>2
  <2>3. PICK d : d = [Receiver EXCEPT !.m_state = "WAITING_FOR_INIT_ACK", !.m_remote_tcp_version = version]
    OBVIOUS
  <2>4. Continue("receiver", d, ev["receiver"], Tail(Down), <<[type |-> "ACK"], SendInitPacket(d)>>)
    BY <1>4, <2>1, <2>3
  <2>5. QED
    BY <1>1, <1>3, <1>4, <2>2, <2>3, <2>4, ReceiverReadsInit
<1>5. CASE /\ Receiver.m_state = "WAITING_FOR_INIT_ACK" /\ UNCHANGED stored
           /\ Continue("receiver", [Receiver EXCEPT !.m_state = "CONNECTED"], ev["receiver"], Tail(Down), <<>>)
  BY <1>1, <1>3, <1>5, ReceiverReadsACK
<1>6. CASE DisconnectDirectConn("receiver", ev["receiver"], Tail(Down), <<>>) /\ UNCHANGED stored
  <2>1. ev["receiver"].state # "COMPLETE"
    BY <1>2, AliveIsNotEnded, TwoSides
  <2>2. QED
    BY <1>1, <1>2, <1>3, <1>6, <2>1, ReceiverCutKeeps
<1>7. CASE /\ Receiver.m_state = "CONNECTED" /\ Head(Down).type = "0x00" /\ UNCHANGED stored
           /\ Continue("receiver", Receiver,
                    [ev["receiver"] EXCEPT !.totalSize = Head(Down).size, !.totalFiles = Head(Down).files, !.currFile = 0],
                    Tail(Down), <<[type |-> "0x05"], [type |-> "0x01"]>>)
  BY <1>1, <1>3, <1>7, ReceiverReadsTotals
<1>8. CASE /\ Receiver.m_state = "CONNECTED" /\ Head(Down).type = "0x02"
           /\ ParsePacket0x02(Receiver, ev["receiver"], Head(Down), Tail(Down))
  BY <1>1, <1>8, ReceiverReadsEntry
<1>9. CASE /\ Receiver.m_state = "CONNECTED" /\ Head(Down).type = "0x06"
           /\ ParsePacket0x06(Receiver, ev["receiver"], Head(Down), Tail(Down))
  BY <1>1, <1>9, ReceiverReadsPiece
<1>10. QED
  BY <1>4, <1>5, <1>6, <1>7, <1>8, <1>9 DEF ReceiverReceives, Receiver, Down

-----------------------------------------------------------------------------
(* The invariant of the whole transfer.                                      *)

\* Nothing is asked for and nothing stored.
LEMMA InitIInv ==
    ASSUME Init
    PROVE  IInv
<1>1. sent \in FileLists /\ sent \in Seq(Entries) /\ sent # <<>>
  BY Lists DEF Init, Entries
<1>2. /\ ev["sender"] = Event("NOT_CONNECTED", 0) /\ ev["receiver"] = Event("NONE", 0)
      /\ ftc["sender"] = NoClient /\ ftc["receiver"] = NoClient
      /\ Up = <<>> /\ Down = <<>> /\ control["sender"] = <<>> /\ control["receiver"] = <<>>
      /\ cached["sender"] = {} /\ cached["receiver"] = {} /\ ~answered /\ stored = <<>> /\ m_files = sent
      /\ seq = 0 /\ queued = 0 /\ asked = 0 /\ aside = {}
  BY TwoSides DEF Init, Up, Down
<1>3. \A st \in EventStates : Event(st, 0) \in Events /\ Event(st, 0).state = st /\ Event(st, 0).told = st
  BY DEF Event, Events
<1>4. "NOT_CONNECTED" \in EventStates /\ "NONE" \in EventStates
  BY DEF EventStates
<1>5. CoreOK
  <2>1. ev \in [Sides -> Events] /\ ftc \in [Sides -> Clients] /\ cached \in [Sides -> SUBSET Nat]
    BY <1>3, <1>4, NoClientTyped DEF Init
  <2>2. control \in [Sides -> Seq(Messages)] /\ data \in [Sides -> Seq(Packets)]
    BY DEF Init
  <2>3. /\ stored \in Seq([dir : BOOLEAN, got : Nat])
        /\ undefined \in BOOLEAN /\ answered \in BOOLEAN /\ direct \in BOOLEAN
    <3>1. stored = <<>>
      BY DEF Init
    <3>2. stored \in Seq([dir : BOOLEAN, got : Nat])
      BY <3>1
    <3>3. undefined \in BOOLEAN /\ answered \in BOOLEAN /\ direct \in BOOLEAN
      BY DEF Init
    <3>4. QED
      BY <3>2, <3>3
  <2>4. m_files \in Seq([kind : Kinds, size : Nat])
    BY <1>1, <1>2 DEF Entries
  <2>5. QED
    BY <1>1, <1>2, <2>1, <2>2, <2>3, <2>4 DEF CoreOK
<1>6. /\ ev["sender"].state = "NOT_CONNECTED" /\ ev["receiver"].state = "NONE"
      /\ ~Alive("sender") /\ ~Alive("receiver")
      /\ Receiver.m_state = "NONE" /\ Receiver.m_socket \in Unset /\ Sender.m_socket = "ZERO"
  BY <1>2, <1>3, <1>4, NoClientTyped DEF Alive, Receiver, Sender, Unset
<1>7. ~Requested
  BY <1>2, <1>6 DEF Requested
<1>8. ControlInv /\ ClientsInv /\ EventInv /\ CacheInv /\ EndedIsToldAndGone
  <2>1. ControlInv
    BY <1>2 DEF ControlInv, Mail
  <2>2. ClientsInv
    BY <1>2, <1>6, TwoSides DEF ClientsInv, Asking, Asked, Unset
  <2>3. EventInv /\ CacheInv
    BY <1>2, <1>6 DEF EventInv, CacheInv, Asked
  <2>4. EndedIsToldAndGone
    BY <1>6, TwoSides DEF EndedIsToldAndGone, Ended
  <2>5. QED
    BY <2>1, <2>2, <2>3, <2>4
<1>9. UnusedInv /\ CountInv /\ SenderInv /\ LeftInv
  BY <1>2, <1>6, <1>7 DEF UnusedInv, Unused, CountInv, SenderInv, LeftInv
<1>10. ReceiverInv
  BY <1>2, <1>6 DEF ReceiverInv
<1>11. CompleteInv /\ CompleteWasHanded
  BY <1>6 DEF CompleteInv, CompleteWasHanded
<1>12. HandedInOrder
  <2>1. Len(stored) = 0 /\ Len(sent) \in Nat
    BY <1>1, <1>2
  <2>2. QED
    BY <2>1 DEF HandedInOrder
<1>13. QED
  BY <1>5, <1>8, <1>9, <1>10, <1>11, <1>12 DEF IInv, RequestInv, TransferInv

\* Every step keeps the invariant.
LEMMA NextIInv ==
    ASSUME IInv, [Next]_vars
    PROVE  IInv'
<1>1. CASE Next
  <2>1. /\ SendRequest => IInv'
        /\ SendFileTransferACK => IInv'
        /\ AnswerNotSent => IInv'
        /\ Connect => IInv'
        /\ RefuseAside => IInv'
    BY RefuseAsideKeeps, SendRequestKeeps, SendFileTransferACKKeeps, AnswerNotSentKeeps, ConnectKeeps
  <2>2. /\ \A s \in Sides : CancelFileTransfer(s) => IInv'
        /\ \A s \in Sides : DisconnectDirectConns(s) => IInv'
    BY CancelFileTransferKeeps, DisconnectDirectConnsKeeps
  <2>3. /\ handleIncomingFT => IInv'
        /\ handleIncomingFTCancel => IInv'
        /\ handleIncomingFTACK => IInv'
        /\ flush_queue => IInv'
        /\ QueueExpires => IInv'
    BY flush_queueKeeps, QueueExpiresKeeps, handleIncomingFTKeeps, handleIncomingFTCancelKeeps, handleIncomingFTACKKeeps
  <2>4. /\ \A s \in Sides : ControlLost(s) => IInv'
        /\ \A s \in Sides : Expire(s) => IInv'
        /\ \A s \in Sides : ClientTimeout(s) => IInv'
        /\ \A s \in Sides : EndOfFile(s) => IInv'
    BY ControlLostKeeps, ExpireKeeps, ClientTimeoutKeeps, EndOfFileKeeps
  <2>5. /\ FinishNonBlockingConnect => IInv'
        /\ SenderReceives => IInv'
        /\ SenderWrites => IInv'
        /\ Accept => IInv'
        /\ ReceiverReceives => IInv'
    BY FinishNonBlockingConnectKeeps, SenderReceivesKeeps, SenderWritesKeeps, AcceptKeeps, ReceiverReceivesKeeps
  <2> HIDE DEF IInv
  <2>6. Application => IInv'
    BY <2>1, <2>2 DEF Application
  <2>7. Network => IInv'
    BY <2>3, <2>4 DEF Network
  <2>8. Timeouts => IInv'
    BY <2>3, <2>4, Zenon DEF Timeouts
  <2>9. SenderSocket => IInv'
    BY <2>4, <2>5, TwoSides DEF SenderSocket
  <2>10. ReceiverSocket => IInv'
    BY <2>4, <2>5, TwoSides DEF ReceiverSocket
  <2>11. QED
    BY <1>1, <2>6, <2>7, <2>8, <2>9, <2>10 DEF Next
<1>2. CASE UNCHANGED vars
  BY <1>2, UnchangedKeeps, SidesTyped DEF vars, requestVars, askVars, askedVars
<1>3. QED
  BY <1>1, <1>2

-----------------------------------------------------------------------------
(* What arrives of a transfer that the sender has completed.                 *)

\* Each piece under way adds to the entry begun last, up to its size.
LEMMA ArrivingIsWhole ==
    ASSUME IInv, Held = Len(sent), LastIsSent
    PROVE  Arriving = Whole(sent)
<1> DEFINE N == 0 .. Len(data["receiver"])
           Step(i, f) ==
             IF i = 0 THEN stored
             ELSE LET p == data["receiver"][i] IN
                  CASE p.type = "0x02" -> Append(f[i-1], [dir |-> p.dir, got |-> 0])
                    [] p.type = "0x06" -> [f[i-1] EXCEPT ![Len(f[i-1])].got = @ + p.length]
                    [] OTHER -> f[i-1]
           arriving[i \in N] == Step(i, arriving)
           X == [dir : BOOLEAN, got : Nat]
<1>1. Arriving = arriving[Len(data["receiver"])]
  BY DEF Arriving
<1>2. /\ stored \in Seq(X) /\ Down \in Seq(Packets) /\ Len(sent) \in Nat /\ HandedInOrder
      /\ \A i \in 1 .. Len(sent) : sent[i].size \in Nat
  BY SidesTyped, TransferParts
<1>3. PICK k \in Nat, m \in Nat : k = Held /\ m = Len(Down)
  BY <1>2, SidesTyped
<1>4. /\ k > 0 /\ Len(sent) = k /\ Len(stored) = k /\ k \in 1 .. k
      /\ After(m) = sent[k].size
      /\ \A i \in 1 .. m : Down[i] = Piece(k)
  BY <1>3 DEF LastIsSent, OnlyPieces, Pieces, Held
<1>5. stored[k] \in X
  BY <1>2, <1>4, ElementOfSeq
<1>6. PICK size \in Nat, got \in Nat, dir \in BOOLEAN :
         size = sent[k].size /\ got = stored[k].got /\ dir = stored[k].dir
  BY <1>2, <1>4, <1>5
<1>7. PICK inc \in Nat : inc = IF size = 0 THEN 0 ELSE 1
  OBVIOUS
<1>8. \A i \in 1 .. m : data["receiver"][i].type = "0x06" /\ data["receiver"][i].length = inc
  BY <1>4, <1>6, <1>7 DEF Piece, Down
<1> DEFINE Sum(d) == got + IF size = 0 THEN 0 ELSE d
           Latest(d) == [dir |-> dir, got |-> Sum(d)]
           Then(d) == [stored EXCEPT ![k] = Latest(d)]
<1>9. ASSUME NEW d \in Nat
      PROVE  Sum(d) \in Nat /\ Sum(d + 1) = Sum(d) + inc /\ Sum(0) = got
  BY <1>7
<1>10. ASSUME NEW d \in Nat
       PROVE  /\ Then(d) \in Seq(X) /\ Len(Then(d)) = k
              /\ Then(d)[k] = Latest(d)
              /\ \A i \in 1 .. k : i # k => Then(d)[i] = stored[i]
  <2>1. Sum(d) \in Nat
    BY <1>9
  <2> HIDE DEF Sum
  <2>2. PICK entry : entry = Latest(d)
    OBVIOUS
  <2>3. entry \in X
    BY <2>1, <2>2
  <2>4. PICK t : t = [stored EXCEPT ![k] = entry]
    OBVIOUS
  <2>5. t \in Seq(X) /\ Len(t) = k /\ \A i \in 1 .. k : t[i] = IF i = k THEN entry ELSE stored[i]
    BY <1>2, <1>4, <2>3, <2>4, ExceptSeq
  <2>6. t = Then(d)
    BY <2>2, <2>4
  <2>7. QED
    BY <1>4, <2>2, <2>5, <2>6
<1>11. Then(0) = stored
  <2>1. Sum(0) = got
    BY <1>9
  <2>2. Latest(0) = stored[k]
    BY <1>5, <1>6, <2>1
  <2>3. PICK t : t = Then(0)
    OBVIOUS
  <2>4. t \in Seq(X) /\ Len(t) = k /\ t[k] = Latest(0) /\ \A i \in 1 .. k : i # k => t[i] = stored[i]
    BY <1>10, <2>3
  <2>5. \A i \in 1 .. Len(t) : t[i] = stored[i]
    BY <2>2, <2>4
  <2>6. t = stored
    BY <1>2, <1>4, <2>4, <2>5, SeqEqual
  <2>7. QED
    BY <2>3, <2>6
<1>12. ASSUME NEW d \in Nat
       PROVE  [Then(d) EXCEPT ![Len(Then(d))].got = @ + inc] = Then(d + 1)
  <2>1. PICK t, u : t = Then(d) /\ u = Then(d + 1)
    OBVIOUS
  <2>2. /\ t \in Seq(X) /\ Len(t) = k /\ t[k] = Latest(d)
        /\ \A i \in 1 .. k : i # k => t[i] = stored[i]
    BY <1>10, <2>1
  <2>3. /\ u \in Seq(X) /\ Len(u) = k /\ u[k] = Latest(d + 1)
        /\ \A i \in 1 .. k : i # k => u[i] = stored[i]
    <3>1. d + 1 \in Nat
      OBVIOUS
    <3>2. QED
      BY <1>10, <2>1, <3>1
  <2>4. Sum(d) \in Nat /\ Sum(d + 1) = Sum(d) + inc
    BY <1>9
  <2> HIDE DEF Sum
  <2>5. PICK sum \in Nat, new \in Nat : sum = Sum(d) /\ new = Sum(d + 1) /\ new = sum + inc
    BY <2>4
  <2>6. t[k] = [dir |-> dir, got |-> sum] /\ u[k] = [dir |-> dir, got |-> new]
    BY <2>2, <2>3, <2>5
  <2>7. [t[k] EXCEPT !.got = new] = u[k] /\ t[k].got = sum
    BY <2>6
  <2>8. PICK v : v = [t EXCEPT ![k] = u[k]]
    OBVIOUS
  <2>9. u[k] \in X
    BY <2>6
  <2>10. v \in Seq(X) /\ Len(v) = k /\ \A i \in 1 .. k : v[i] = IF i = k THEN u[k] ELSE t[i]
    BY <1>4, <2>2, <2>8, <2>9, ExceptSeq
  <2>11. \A i \in 1 .. Len(v) : v[i] = u[i]
    BY <2>2, <2>3, <2>10
  <2>12. v = u
    BY <2>3, <2>10, <2>11, SeqEqual
  <2>13. [t EXCEPT ![k].got = t[k].got + inc] = v
    BY <2>5, <2>7, <2>8
  <2>14. QED
    BY <2>1, <2>2, <2>12, <2>13
<1> HIDE DEF Then
<1>13. ASSUME NEW f, NEW d \in Nat, d + 1 <= m, f[d] = Then(d)
       PROVE  Step(d + 1, f) = Then(d + 1)
  <2>1. (d + 1) - 1 = d /\ d + 1 # 0 /\ d + 1 \in 1 .. m
    BY <1>13
  <2>2. PICK p : p = data["receiver"][d + 1]
    OBVIOUS
  <2>3. p.type = "0x06" /\ p.length = inc
    BY <1>8, <2>1, <2>2
  <2>4. Step(d + 1, f) = [f[d] EXCEPT ![Len(f[d])].got = @ + p.length]
    BY <2>1, <2>2, <2>3
  <2> HIDE DEF Step
  <2>5. QED
    BY <1>12, <1>13, <2>3, <2>4
<1>14. arriving = [i \in N |-> Step(i, arriving)]
  <2> DEFINE Solves(g) == g = [i \in N |-> Step(i, g)]
             g == [i \in N |-> Then(i)]
  <2>1. N = 0 .. m
    BY <1>3 DEF Down
  <2>2. ASSUME NEW i \in N PROVE Then(i) = Step(i, g)
    <3>1. CASE i = 0
      BY <1>11, <3>1
    <3>2. CASE i # 0
      <4>1. PICK d \in Nat : i = d + 1
        <5>1. i - 1 \in Nat /\ i = (i - 1) + 1
          BY <2>1, <3>2
        <5>2. QED
          BY <5>1
      <4>2. d \in N /\ d + 1 <= m
        BY <2>1, <4>1
      <4>3. g[d] = Then(d)
        BY <4>2
      <4> HIDE DEF g, Step
      <4>4. QED
        BY <1>13, <4>1, <4>2, <4>3
    <3>3. QED
      BY <3>1, <3>2
  <2> HIDE DEF Step, N
  <2>3. Solves(g)
    BY <2>2
  <2>4. arriving = CHOOSE h : Solves(h)
    BY DEF arriving
  <2> HIDE DEF Solves, arriving
  <2>5. Solves(arriving)
    BY <2>3, <2>4, Zenon
  <2>6. QED
    BY <2>5 DEF Solves
<1> HIDE DEF arriving
<1>15. arriving[m] = Then(m)
  <2> DEFINE T == {d \in Nat : d <= m => arriving[d] = Then(d)}
  <2>1. N = 0 .. m
    BY <1>3 DEF Down
  <2>2. \A i \in 0 .. m : arriving[i] = Step(i, arriving)
    <3> HIDE DEF Step
    <3>1. QED
      BY <1>14, <2>1
  <2>3. 0 \in T
    <3>1. arriving[0] = Step(0, arriving) /\ Step(0, arriving) = stored
      <4>1. Step(0, arriving) = stored
        OBVIOUS
      <4> HIDE DEF Step
      <4>2. 0 \in 0 .. m
        OBVIOUS
      <4>3. QED
        BY <2>2, <4>1, <4>2
    <3> HIDE DEF Step
    <3>2. QED
      BY <1>11, <3>1
  <2>4. ASSUME NEW d \in Nat, d \in T PROVE d + 1 \in T
    <3>1. SUFFICES ASSUME d + 1 <= m PROVE arriving[d + 1] = Then(d + 1)
      OBVIOUS
    <3>2. arriving[d] = Then(d) /\ d + 1 \in 0 .. m
      BY <2>4, <3>1
    <3> HIDE DEF Step
    <3>3. QED
      BY <1>13, <2>2, <3>1, <3>2
  <2> HIDE DEF T
  <2>5. Nat \subseteq T
    BY <2>3, <2>4, SetInduction
  <2>6. QED
    BY <2>5 DEF T
<1>16. PICK t, w : t = Then(m) /\ w = Whole(sent)
  OBVIOUS
<1>17. Sum(m) = size
  <2>1. got <= size
    BY <1>2, <1>4, <1>6 DEF HandedInOrder
  <2>2. size = IF size = 0 THEN 0 ELSE got + m
    BY <1>3, <1>4, <1>6 DEF After
  <2>3. CASE size = 0
    BY <2>1, <2>3
  <2>4. CASE size # 0
    BY <2>2, <2>4
  <2>5. QED
    BY <2>3, <2>4
<1>18. t \in Seq(X) /\ Len(t) = k /\ t[k] = [dir |-> dir, got |-> size] /\ \A i \in 1 .. k : i # k => t[i] = stored[i]
  BY <1>10, <1>16, <1>17
<1>19. ASSUME NEW i \in 1 .. k PROVE t[i] = [dir |-> sent[i].kind = "dir", got |-> sent[i].size]
  <2>1. stored[i].dir = (sent[i].kind = "dir") /\ (i < k => stored[i].got = sent[i].size)
    BY <1>2, <1>4 DEF HandedInOrder
  <2>2. CASE i = k
    BY <1>6, <1>18, <2>1, <2>2
  <2>3. CASE i # k
    <3>1. t[i] = stored[i] /\ i < k /\ t[i] \in X
      <4>1. t[i] \in X
        BY <1>18, ElementOfSeq
      <4>2. QED
        BY <1>18, <2>3, <4>1
    <3>2. t[i] = [dir |-> t[i].dir, got |-> t[i].got]
      BY <3>1
    <3>3. QED
      BY <2>1, <3>1, <3>2
  <2>4. QED
    BY <2>2, <2>3
<1>20. w = [i \in 1 .. k |-> [dir |-> sent[i].kind = "dir", got |-> sent[i].size]]
  BY <1>4, <1>16 DEF Whole
<1>21. w = t
  <2>1. DOMAIN t = 1 .. k /\ t = [i \in 1 .. k |-> t[i]]
    BY <1>18
  <2>2. QED
    BY <1>19, <1>20, <2>1
<1>22. QED
  BY <1>1, <1>3, <1>15, <1>16, <1>21 DEF Down

-----------------------------------------------------------------------------
(* An event that is complete stays so.                                       *)

\* A step changes the event and the client of no side but s.
OnlySide(s) ==
    /\ ev' = ev \/ \E e : ev' = [ev EXCEPT ![s] = e]
    /\ ftc' = ftc \/ \E c : ftc' = [ftc EXCEPT ![s] = c]

\* A client changes itself and its own event only.
LEMMA StepOfClient ==
    ASSUME NEW s \in Sides, NEW e, NEW rest, NEW packets
    PROVE  /\ \A c : Continue(s, c, e, rest, packets) => OnlySide(s)
           /\ DisconnectDirectConn(s, e, rest, packets) => OnlySide(s)
<1>1. ASSUME NEW c, Continue(s, c, e, rest, packets) PROVE OnlySide(s)
  <2>1. ev' = [ev EXCEPT ![s] = e] /\ ftc' = [ftc EXCEPT ![s] = c]
    BY <1>1 DEF Continue
  <2>2. QED
    BY <2>1 DEF OnlySide
<1>2. ASSUME DisconnectDirectConn(s, e, rest, packets) PROVE OnlySide(s)
  <2>1. PICK f : ev' = [ev EXCEPT ![s] = f] /\ ftc' = [ftc EXCEPT ![s] = NoClient]
    BY <1>2 DEF DisconnectDirectConn
  <2>2. QED
    BY <2>1 DEF OnlySide
<1>3. QED
  BY <1>1, <1>2

LEMMA SenderEvents ==
    ASSUME FinishNonBlockingConnect \/ SenderReceives \/ SenderWrites \/ EndOfFile("sender")
    PROVE  OnlySide("sender")
<1>1. "sender" \in Sides
  BY TwoSides
<1>2. /\ \A c, e, rest, packets : Continue("sender", c, e, rest, packets) => OnlySide("sender")
      /\ \A e, rest, packets : DisconnectDirectConn("sender", e, rest, packets) => OnlySide("sender")
  BY <1>1, StepOfClient
<1>3. \A c, e, rest, prefix : SendPacket0x02(c, e, rest, prefix) => OnlySide("sender")
  BY <1>2 DEF SendPacket0x02
<1>4. \A c, e, rest : SendPacket0x06(c, e, rest) => OnlySide("sender")
  BY <1>2 DEF SendPacket0x06
<1>5. \A c, e, rest : SendFile(c, e, rest) => OnlySide("sender")
  BY <1>2, <1>3, <1>4 DEF SendFile
<1>6. CASE FinishNonBlockingConnect
  <2>1. UNCHANGED <<ftc, ev>> => OnlySide("sender")
    BY DEF OnlySide
  <2>2. QED
    BY <1>2, <1>6, <2>1 DEF FinishNonBlockingConnect
<1>7. CASE SenderReceives
  BY <1>2, <1>3, <1>5, <1>7 DEF SenderReceives
<1>8. CASE SenderWrites
  BY <1>2, <1>5, <1>8 DEF SenderWrites
<1>9. CASE EndOfFile("sender")
  BY <1>2, <1>9 DEF EndOfFile
<1>10. QED
  BY <1>6, <1>7, <1>8, <1>9

LEMMA ReceiverEvents ==
    ASSUME ReceiverReceives \/ EndOfFile("receiver")
    PROVE  OnlySide("receiver")
<1>1. "receiver" \in Sides
  BY TwoSides
<1>2. /\ \A c, e, rest, packets : Continue("receiver", c, e, rest, packets) => OnlySide("receiver")
      /\ \A e, rest, packets : DisconnectDirectConn("receiver", e, rest, packets) => OnlySide("receiver")
  BY <1>1, StepOfClient
<1>3. \A c, e, p, rest : ParsePacket0x02(c, e, p, rest) => OnlySide("receiver")
  BY <1>2 DEF ParsePacket0x02
<1>4. \A c, e, p, rest : ParsePacket0x06(c, e, p, rest) => OnlySide("receiver")
  BY <1>2 DEF ParsePacket0x06
<1>5. CASE ReceiverReceives
  BY <1>2, <1>3, <1>4, <1>5 DEF ReceiverReceives
<1>6. CASE EndOfFile("receiver")
  BY <1>2, <1>6 DEF EndOfFile
<1>7. QED
  BY <1>5, <1>6

\* A step of one side leaves the other alone.
LEMMA Spared ==
    ASSUME CoreOK, NEW s \in Sides, NEW t \in Sides, OnlySide(t), t # s
    PROVE  ev'[s] = ev[s] /\ ftc'[s] = ftc[s]
<1>1. ev \in [Sides -> Events] /\ ftc \in [Sides -> Clients]
  BY DEF CoreOK
<1>2. QED
  BY <1>1 DEF OnlySide

\* Until the sending application asks again with something of the event still
\* at work, there is one request at most, in one place, and no client with it.
OnceInv ==
    ~twice =>
        /\ queued <= 1 /\ (queued = 0 \/ cached["sender"] = {})
        /\ \A a, b \in cached["sender"] : a = b
        /\ queued > 0 \/ cached["sender"] # {} =>
             ev["sender"].state \in {"NOT_CONNECTED", "WAIT_RESPONS"} /\ ~Alive("sender")

\* Nothing is asked, sent or settled, and the event of the sender is not touched,
\* unless it has a client or is ACCEPTED: then nothing is asked any more.
SparesRequests ==
    /\ UNCHANGED <<twice, queued>> /\ cached'["sender"] = cached["sender"]
    /\ \/ Alive("sender") \/ ev["sender"].state = "ACCEPTED"
       \/ ev'["sender"] = ev["sender"] /\ ftc'["sender"] = ftc["sender"]

LEMMA OnceFrame ==
    ASSUME OnceInv, CoreOK, SparesRequests
    PROVE  OnceInv'
<1>1. queued \in Nat
  BY DEF CoreOK
<1>2. CASE ev'["sender"] = ev["sender"] /\ ftc'["sender"] = ftc["sender"]
  BY <1>2 DEF OnceInv, SparesRequests, Alive
<1>3. CASE Alive("sender") \/ ev["sender"].state = "ACCEPTED"
  <2>1. ~twice => ~(queued > 0 \/ cached["sender"] # {})
    BY <1>3 DEF OnceInv
  <2>2. QED
    BY <1>1, <2>1 DEF OnceInv, SparesRequests
<1>4. QED
  BY <1>2, <1>3 DEF SparesRequests

\* A request that is asked, sent, settled or given up stays the only one.
LEMMA SendRequestOnce ==
    ASSUME OnceInv, CoreOK, SendRequest
    PROVE  OnceInv'
<1>1. /\ ev["sender"].state = "NOT_CONNECTED" /\ UNCHANGED ftc
      /\ twice' = (queued > 0 \/ cached["sender"] # {} \/ ftc["sender"].m_state # "NONE")
      /\ queued \in Nat /\ seq \in Nat
  BY DEF SendRequest, CoreOK
<1>2. ev'["sender"].state = "WAIT_RESPONS"
  BY AsksStep
<1>3. SUFFICES ASSUME ~twice' PROVE OnceInv'
  BY DEF OnceInv
<1>4. queued = 0 /\ cached["sender"] = {} /\ ~Alive("sender")'
  <2>1. ~(queued > 0 \/ cached["sender"] # {} \/ ftc["sender"].m_state # "NONE")
    BY <1>1, <1>3, Zenon
  <2>2. QED
    BY <1>1, <2>1 DEF Alive
<1>5. CASE queued' = queued + 1 /\ UNCHANGED cached
  BY <1>2, <1>4, <1>5 DEF OnceInv
<1>6. CASE SendPacketEvents(1) /\ UNCHANGED queued
  <2>1. cached'["sender"] = {} \cup (seq + 1) .. (seq + 1)
    BY <1>4, <1>6, TwoSides DEF SendPacketEvents, CoreOK
  <2>2. \A a, b \in cached'["sender"] : a = b
    BY <1>1, <2>1
  <2>3. QED
    BY <1>2, <1>4, <1>6, <2>2 DEF OnceInv
<1>7. QED
  BY <1>5, <1>6 DEF SendRequest

LEMMA RequestsOnce ==
    ASSUME OnceInv, CoreOK,
           flush_queue \/ QueueExpires \/ handleIncomingFTACK \/ Expire("sender") \/ CancelFileTransfer("sender")
    PROVE  OnceInv'
<1>1. queued \in Nat /\ seq \in Nat /\ cached \in [Sides -> SUBSET Nat] /\ ev \in [Sides -> Events] /\ UNCHANGED twice
  BY DEF CoreOK, flush_queue, QueueExpires, handleIncomingFTACK, Expire, CancelFileTransfer, requestVars, askVars
<1>2. SUFFICES ASSUME ~twice PROVE OnceInv'
  BY <1>1 DEF OnceInv
<1>3. CASE flush_queue
  <2>1. queued = 1 /\ cached["sender"] = {} /\ SendPacketEvents(1) /\ queued' = 0 /\ UNCHANGED <<ev, ftc>>
    <3>1. queued > 0 /\ SendPacketEvents(queued) /\ queued' = 0 /\ UNCHANGED <<ev, ftc>>
      BY <1>3 DEF flush_queue
    <3>2. queued = 1 /\ cached["sender"] = {}
      BY <1>1, <1>2, <3>1 DEF OnceInv
    <3>3. QED
      BY <3>1, <3>2
  <2>2. cached'["sender"] = {} \cup (seq + 1) .. (seq + 1)
    BY <1>1, <2>1, TwoSides DEF SendPacketEvents
  <2>3. \A a, b \in cached'["sender"] : a = b
    BY <1>1, <2>2
  <2>4. QED
    BY <1>2, <2>1, <2>3 DEF OnceInv, Alive
<1>4. CASE QueueExpires
  BY <1>1, <1>2, <1>4 DEF OnceInv, QueueExpires
<1>5. CASE handleIncomingFTACK
  <2>1. PICK n : n = Head(control["sender"]).number
    OBVIOUS
  <2>2. \/ UNCHANGED <<ev, cached>>
        \/ n \in cached["sender"] /\ cached' = [cached EXCEPT !["sender"] = cached["sender"] \ {n}]
    BY <1>5, <2>1 DEF handleIncomingFTACK
  <2>3. UNCHANGED <<queued, ftc>>
    BY <1>5 DEF handleIncomingFTACK, requestVars, askVars
  <2>4. CASE UNCHANGED <<ev, cached>>
    BY <1>1, <2>3, <2>4, OnceFrame DEF SparesRequests
  <2>5. CASE n \in cached["sender"] /\ cached' = [cached EXCEPT !["sender"] = cached["sender"] \ {n}]
    <3>1. cached'["sender"] = {} /\ queued' = 0
      BY <1>1, <1>2, <2>3, <2>5, TwoSides DEF OnceInv
    <3>2. QED
      BY <3>1 DEF OnceInv
  <2>6. QED
    BY <2>2, <2>4, <2>5
<1>6. CASE Expire("sender")
  <2>1. PICK n \in cached["sender"] : cached' = [cached EXCEPT !["sender"] = cached["sender"] \ {n}]
    BY <1>6 DEF Expire
  <2>2. UNCHANGED queued
    BY <1>6 DEF Expire, requestVars, askVars
  <2>3. cached'["sender"] = {} /\ queued' = 0
    BY <1>1, <1>2, <2>1, <2>2, TwoSides DEF OnceInv
  <2>4. QED
    BY <2>3 DEF OnceInv
<1>7. CASE CancelFileTransfer("sender")
  <2>1. cached'["sender"] \subseteq cached["sender"] /\ queued' \in {0, queued}
    <3>1. \/ cached' = [cached EXCEPT !["sender"] = cached["sender"] \ {seq}] /\ UNCHANGED queued
          \/ cached' = [cached EXCEPT !["sender"] = {}] /\ queued' = 0
          \/ UNCHANGED <<cached, queued>>
      BY <1>7 DEF CancelFileTransfer
    <3>2. QED
      BY <1>1, <3>1, TwoSides
  <2>2. ev'["sender"].state = "NOT_CONNECTED"
    <3>1. ev' = [ev EXCEPT !["sender"] = Told([ev["sender"] EXCEPT !.state = "NOT_CONNECTED"])]
      BY <1>7 DEF CancelFileTransfer
    <3>2. Tells("sender", "NOT_CONNECTED")
      BY <1>1, <3>1, TellsStep, TwoSides DEF EventStates
    <3>3. QED
      BY <3>2 DEF Tells
  <2>3. ~Alive("sender") => ~Alive("sender")'
    <3>1. UNCHANGED ftc \/ ftc' = [ftc EXCEPT !["sender"] = NoClient]
      BY <1>7 DEF CancelFileTransfer
    <3>2. ftc \in [Sides -> Clients]
      BY DEF CoreOK
    <3>3. QED
      BY <3>1, <3>2, TwoSides, NoClientTyped DEF Alive
  <2>4. QED
    <3>1. /\ queued <= 1 /\ (queued = 0 \/ cached["sender"] = {})
          /\ \A a, b \in cached["sender"] : a = b
          /\ queued > 0 \/ cached["sender"] # {} => ~Alive("sender")
      BY <1>2 DEF OnceInv
    <3>2. queued' <= 1 /\ (queued' = 0 \/ cached'["sender"] = {}) /\ \A a, b \in cached'["sender"] : a = b
      <4>1. queued' <= 1 /\ (queued' = 0 \/ queued' = queued)
        BY <1>1, <2>1, <3>1
      <4>2. cached["sender"] = {} => cached'["sender"] = {}
        BY <2>1
      <4>3. \A a, b \in cached'["sender"] : a = b
        BY <2>1, <3>1
      <4>4. QED
        BY <3>1, <4>1, <4>2, <4>3
    <3>3. queued' > 0 \/ cached'["sender"] # {} => queued > 0 \/ cached["sender"] # {}
      BY <1>1, <2>1
    <3>4. QED
      BY <2>2, <2>3, <3>1, <3>2, <3>3 DEF OnceInv
<1>8. QED
  BY <1>3, <1>4, <1>5, <1>6, <1>7

\* The steps of either side, but for those of its socket.
LEMMA SenderRequests ==
    ASSUME SendRequest \/ flush_queue \/ QueueExpires \/ Connect \/ handleIncomingFTACK
    PROVE  OnlySide("sender")
<1>1. CASE SendRequest
  <2>1. PICK e : ev' = [ev EXCEPT !["sender"] = e]
    BY <1>1 DEF SendRequest
  <2>2. QED
    BY <1>1, <2>1 DEF SendRequest, OnlySide
<1>2. CASE flush_queue
  BY <1>2 DEF flush_queue, OnlySide
<1>3. CASE QueueExpires
  <2>1. PICK e : ev' = [ev EXCEPT !["sender"] = e]
    BY <1>3 DEF QueueExpires
  <2>2. QED
    BY <1>3, <2>1 DEF QueueExpires, OnlySide
<1>4. CASE Connect
  <2>1. PICK e : ev' = [ev EXCEPT !["sender"] = e]
    BY <1>4 DEF Connect
  <2>2. ftc' = ftc \/ \E c : ftc' = [ftc EXCEPT !["sender"] = c]
    BY <1>4 DEF Connect
  <2>3. QED
    BY <2>1, <2>2 DEF OnlySide
<1>5. CASE handleIncomingFTACK
  <2>1. ev' = ev \/ \E e : ev' = [ev EXCEPT !["sender"] = e]
    BY <1>5 DEF handleIncomingFTACK
  <2>2. QED
    BY <1>5, <2>1 DEF handleIncomingFTACK, OnlySide
<1>6. QED
  BY <1>1, <1>2, <1>3, <1>4, <1>5

LEMMA ReceiverRequests ==
    ASSUME SendFileTransferACK \/ AnswerNotSent \/ handleIncomingFT \/ handleIncomingFTCancel \/ RefuseAside \/ Accept
    PROVE  OnlySide("receiver")
<1>1. ev' = ev \/ \E e : ev' = [ev EXCEPT !["receiver"] = e]
  <2>1. CASE SendFileTransferACK
    BY <2>1 DEF SendFileTransferACK
  <2>2. CASE AnswerNotSent
    BY <2>2 DEF AnswerNotSent
  <2>3. CASE handleIncomingFT
    BY <2>3 DEF handleIncomingFT
  <2>4. CASE handleIncomingFTCancel
    BY <2>4 DEF handleIncomingFTCancel
  <2>5. CASE RefuseAside \/ Accept
    BY <2>5 DEF RefuseAside, Accept
  <2>6. QED
    BY <2>1, <2>2, <2>3, <2>4, <2>5
<1>2. ftc' = ftc \/ \E c : ftc' = [ftc EXCEPT !["receiver"] = c]
  <2>1. CASE SendFileTransferACK
    BY <2>1 DEF SendFileTransferACK
  <2>2. CASE Accept
    BY <2>2 DEF Accept
  <2>3. CASE AnswerNotSent \/ handleIncomingFT \/ handleIncomingFTCancel \/ RefuseAside
    BY <2>3 DEF AnswerNotSent, handleIncomingFT, handleIncomingFTCancel, RefuseAside
  <2>4. QED
    BY <2>1, <2>2, <2>3
<1>3. QED
  BY <1>1, <1>2 DEF OnlySide

LEMMA EitherSide ==
    ASSUME NEW s \in Sides,
           CancelFileTransfer(s) \/ DisconnectDirectConns(s) \/ Expire(s) \/ ClientTimeout(s) \/ ControlLost(s)
    PROVE  OnlySide(s)
<1>1. ev' = ev \/ \E e : ev' = [ev EXCEPT ![s] = e]
  <2>1. CASE CancelFileTransfer(s)
    BY <2>1 DEF CancelFileTransfer
  <2>2. CASE Expire(s)
    BY <2>2 DEF Expire
  <2>3. CASE ClientTimeout(s)
    BY <2>3 DEF ClientTimeout
  <2>4. CASE DisconnectDirectConns(s) \/ ControlLost(s)
    BY <2>4 DEF DisconnectDirectConns, ControlLost
  <2>5. QED
    BY <2>1, <2>2, <2>3, <2>4
<1>2. ftc' = ftc \/ \E c : ftc' = [ftc EXCEPT ![s] = c]
  <2>1. CASE CancelFileTransfer(s)
    BY <2>1 DEF CancelFileTransfer
  <2>2. CASE DisconnectDirectConns(s)
    BY <2>2 DEF DisconnectDirectConns
  <2>3. CASE Expire(s) \/ ClientTimeout(s) \/ ControlLost(s)
    BY <2>3 DEF Expire, ClientTimeout, ControlLost
  <2>4. QED
    BY <2>1, <2>2, <2>3
<1>3. QED
  BY <1>1, <1>2 DEF OnlySide

\* The receiver never touches the requests of the sender.
LEMMA ReceiverOnce ==
    ASSUME OnceInv, CoreOK,
           \/ SendFileTransferACK \/ AnswerNotSent \/ handleIncomingFT \/ handleIncomingFTCancel \/ RefuseAside
           \/ Accept \/ ReceiverReceives \/ EndOfFile("receiver")
           \/ CancelFileTransfer("receiver") \/ DisconnectDirectConns("receiver") \/ Expire("receiver")
           \/ ClientTimeout("receiver") \/ ControlLost("receiver") \/ ControlLost("sender")
    PROVE  OnceInv'
<1>1. OnlySide("receiver")
  <2>1. ControlLost("sender") => OnlySide("receiver")
    BY DEF ControlLost, OnlySide
  <2>2. QED
    BY <2>1, ReceiverRequests, ReceiverEvents, EitherSide, TwoSides
<1>2. ev'["sender"] = ev["sender"] /\ ftc'["sender"] = ftc["sender"]
  BY <1>1, Spared, TwoSides
<1>3. UNCHANGED <<twice, queued>>
  <2>1. CASE SendFileTransferACK \/ AnswerNotSent \/ handleIncomingFT \/ handleIncomingFTCancel \/ RefuseAside \/ Accept
    BY <2>1 DEF SendFileTransferACK, AnswerNotSent, handleIncomingFT, handleIncomingFTCancel, RefuseAside, Accept,
       requestVars, askVars
  <2>2. CASE ReceiverReceives
    BY <2>2 DEF ReceiverReceives, requestVars, askVars
  <2>3. CASE CancelFileTransfer("receiver")
    BY <2>3, TwoSides DEF CancelFileTransfer
  <2>4. CASE \/ EndOfFile("receiver") \/ DisconnectDirectConns("receiver") \/ Expire("receiver")
             \/ ClientTimeout("receiver") \/ ControlLost("receiver") \/ ControlLost("sender")
    BY <2>4 DEF EndOfFile, DisconnectDirectConns, Expire, ClientTimeout, ControlLost, requestVars, askVars
  <2>5. QED
    BY <2>1, <2>2, <2>3, <2>4
<1>4. cached'["sender"] = cached["sender"]
  <2>1. cached' = cached \/ \E x : cached' = [cached EXCEPT !["receiver"] = x]
    <3>1. CASE SendFileTransferACK
      BY <3>1 DEF SendFileTransferACK
    <3>2. CASE handleIncomingFT
      BY <3>2 DEF handleIncomingFT
    <3>3. CASE handleIncomingFTCancel
      BY <3>3 DEF handleIncomingFTCancel
    <3>4. CASE Expire("receiver")
      BY <3>4 DEF Expire
    <3>5. CASE CancelFileTransfer("receiver")
      BY <3>5, TwoSides DEF CancelFileTransfer
    <3>6. CASE \/ AnswerNotSent \/ RefuseAside \/ Accept \/ ReceiverReceives \/ EndOfFile("receiver")
               \/ DisconnectDirectConns("receiver") \/ ClientTimeout("receiver")
               \/ ControlLost("receiver") \/ ControlLost("sender")
      BY <3>6 DEF AnswerNotSent, RefuseAside, Accept, ReceiverReceives, EndOfFile, DisconnectDirectConns,
         ClientTimeout, ControlLost
    <3>7. QED
      BY <3>1, <3>2, <3>3, <3>4, <3>5, <3>6
  <2>2. cached \in [Sides -> SUBSET Nat]
    BY DEF CoreOK
  <2>3. QED
    BY <2>1, <2>2, TwoSides
<1>5. QED
  BY <1>2, <1>3, <1>4, OnceFrame DEF SparesRequests

\* A client of the sender is of a request that was settled.
LEMMA SenderOnce ==
    ASSUME OnceInv, CoreOK, ClientsInv,
           \/ Connect \/ FinishNonBlockingConnect \/ SenderReceives \/ SenderWrites \/ EndOfFile("sender")
           \/ DisconnectDirectConns("sender") \/ ClientTimeout("sender")
    PROVE  OnceInv'
<1>1. UNCHANGED <<twice, queued, cached>>
  <2>1. CASE Connect \/ FinishNonBlockingConnect
    BY <2>1 DEF Connect, FinishNonBlockingConnect, requestVars, askVars
  <2>2. CASE SenderReceives
    BY <2>2 DEF SenderReceives, requestVars, askVars
  <2>3. CASE SenderWrites
    BY <2>3 DEF SenderWrites, requestVars, askVars
  <2>4. CASE EndOfFile("sender") \/ DisconnectDirectConns("sender") \/ ClientTimeout("sender")
    BY <2>4 DEF EndOfFile, DisconnectDirectConns, ClientTimeout, requestVars, askVars
  <2>5. QED
    BY <2>1, <2>2, <2>3, <2>4
<1>2. Alive("sender") \/ ev["sender"].state = "ACCEPTED"
  <2>1. ~Alive("sender") => ftc["sender"].m_socket = "ZERO"
    BY TwoSides, NoClientTyped DEF ClientsInv
  <2>2. CASE Connect
    BY <2>2 DEF Connect
  <2>3. CASE FinishNonBlockingConnect \/ SenderReceives \/ SenderWrites \/ EndOfFile("sender")
    <3>1. ftc["sender"].m_socket \in {"NONBLOCKING_CONNECT", "CONNECTED"}
      BY <2>3 DEF FinishNonBlockingConnect, SenderReceives, SenderWrites, EndOfFile
    <3>2. QED
      BY <2>1, <3>1
  <2>4. CASE DisconnectDirectConns("sender") \/ ClientTimeout("sender")
    BY <2>4 DEF DisconnectDirectConns, ClientTimeout, Alive
  <2>5. QED
    BY <2>2, <2>3, <2>4
<1>3. QED
  BY <1>1, <1>2, OnceFrame DEF SparesRequests

LEMMA NextOnce ==
    ASSUME OnceInv, IInv, [Next]_vars
    PROVE  OnceInv'
<1>1. CoreOK /\ ClientsInv
  BY TransferParts
<1>2. CASE UNCHANGED vars
  BY <1>1, <1>2, OnceFrame DEF vars, requestVars, askVars, SparesRequests
<1> HIDE DEF OnceInv, IInv
<1>3. Application => OnceInv'
  <2>1. \A s \in Sides : CancelFileTransfer(s) => OnceInv'
    BY <1>1, RequestsOnce, ReceiverOnce, TwoSides
  <2>2. \A s \in Sides : DisconnectDirectConns(s) => OnceInv'
    BY <1>1, SenderOnce, ReceiverOnce, TwoSides
  <2>3. QED
    BY <1>1, <2>1, <2>2, SendRequestOnce, SenderOnce, ReceiverOnce DEF Application
<1>4. Network => OnceInv'
  <2>1. \A s \in Sides : ControlLost(s) => OnceInv'
    BY <1>1, ReceiverOnce, TwoSides
  <2>2. QED
    BY <1>1, <2>1, RequestsOnce, ReceiverOnce DEF Network
<1>5. Timeouts => OnceInv'
  <2>1. \A s \in Sides : Expire(s) => OnceInv'
    BY <1>1, RequestsOnce, ReceiverOnce, TwoSides
  <2>2. \A s \in Sides : ClientTimeout(s) => OnceInv'
    BY <1>1, SenderOnce, ReceiverOnce, TwoSides
  <2>3. QED
    BY <1>1, <2>1, <2>2, RequestsOnce DEF Timeouts
<1>6. SenderSocket \/ ReceiverSocket => OnceInv'
  BY <1>1, SenderOnce, ReceiverOnce DEF SenderSocket, ReceiverSocket
<1>7. QED
  BY <1>2, <1>3, <1>4, <1>5, <1>6 DEF Next

\* An event that is complete has no client and is in no cache, so that only
\* CancelFileTransfer changes it.
LEMMA CompleteStays ==
    ASSUME IInv, OnceInv, Next, NEW s \in Sides, ev[s].state = "COMPLETE", s = "sender" => ~twice
    PROVE  ev'[s].state \in {"COMPLETE", "NOT_CONNECTED"}
<1> DEFINE Stays == ev'[s].state \in {"COMPLETE", "NOT_CONNECTED"}
<1> SUFFICES Stays
  OBVIOUS
<1>1. /\ CoreOK /\ ControlInv /\ ClientsInv /\ EventInv /\ CacheInv /\ EndedIsToldAndGone
      /\ ev \in [Sides -> Events] /\ queued \in Nat
  BY TransferParts DEF CoreOK
<1>2. ~Alive(s) /\ ftc[s] = NoClient /\ ftc[s].m_socket = "ZERO" /\ ftc[s].m_state = "NONE"
  BY <1>1, NoClientTyped DEF EndedIsToldAndGone, ClientsInv, Ended, Alive
<1>3. cached[s] = {} /\ (s = "sender" => queued = 0) /\ (s = "receiver" => answered)
  <2>1. s = "sender" => cached["sender"] = {} /\ queued = 0
    BY <1>1 DEF OnceInv
  <2>2. s = "receiver" => cached["receiver"] = {} /\ answered
    BY <1>1, <1>2 DEF CacheInv, ClientsInv, EventInv, Asked
  <2>3. QED
    BY <2>1, <2>2, TwoSides
<1>4. UNCHANGED ev => Stays
  OBVIOUS
<1>5. ASSUME NEW t \in Sides, OnlySide(t), t # s PROVE Stays
  BY <1>1, <1>5, Spared
<1>6. CASE SendRequest \/ flush_queue \/ QueueExpires \/ Connect \/ handleIncomingFTACK
  <2>1. CASE s = "sender"
    <3>1. UNCHANGED ev
      <4>1. ~SendRequest /\ ~QueueExpires /\ ~Connect
        <5>1. ev["sender"].state = "COMPLETE" /\ ~(queued > 0)
          BY <1>1, <1>3, <2>1
        <5>2. ~SendRequest /\ ~Connect
          BY <5>1 DEF SendRequest, Connect
        <5>3. ~QueueExpires
          BY <5>1 DEF QueueExpires
        <5>4. QED
          BY <5>2, <5>3
      <4>2. CASE flush_queue
        BY <4>2 DEF flush_queue
      <4>3. CASE handleIncomingFTACK
        BY <1>3, <2>1, <4>3 DEF handleIncomingFTACK
      <4>4. QED
        BY <1>6, <4>1, <4>2, <4>3
    <3>2. QED
      BY <1>4, <3>1
  <2>2. CASE s # "sender"
    BY <1>5, <1>6, <2>2, SenderRequests, TwoSides
  <2>3. QED
    BY <2>1, <2>2
<1>7. CASE SendFileTransferACK \/ AnswerNotSent \/ handleIncomingFT \/ handleIncomingFTCancel \/ RefuseAside \/ Accept
  <2>1. CASE s = "receiver"
    <3>1. UNCHANGED ev
      BY <1>3, <1>7, <2>1 DEF SendFileTransferACK, AnswerNotSent, handleIncomingFT, handleIncomingFTCancel,
         RefuseAside, Accept
    <3>2. QED
      BY <1>4, <3>1
  <2>2. CASE s # "receiver"
    BY <1>5, <1>7, <2>2, ReceiverRequests, TwoSides
  <2>3. QED
    BY <2>1, <2>2
<1>8. ASSUME NEW t \in Sides,
             CancelFileTransfer(t) \/ DisconnectDirectConns(t) \/ Expire(t) \/ ClientTimeout(t) \/ ControlLost(t)
      PROVE  Stays
  <2>1. CASE t # s
    BY <1>5, <1>8, <2>1, EitherSide
  <2>2. CASE t = s /\ CancelFileTransfer(s)
    <3>1. ev' = [ev EXCEPT ![s] = Told([ev[s] EXCEPT !.state = "NOT_CONNECTED"])]
      BY <2>2 DEF CancelFileTransfer
    <3>2. Tells(s, "NOT_CONNECTED")
      BY <1>1, <3>1, TellsStep DEF EventStates
    <3>3. QED
      BY <3>2 DEF Tells
  <2>3. CASE t = s /\ ~CancelFileTransfer(s)
    <3>1. UNCHANGED ev
      BY <1>2, <1>3, <1>8, <2>3 DEF DisconnectDirectConns, Expire, ClientTimeout, ControlLost
    <3>2. QED
      BY <1>4, <3>1
  <2>4. QED
    BY <2>1, <2>2, <2>3
<1>9. CASE FinishNonBlockingConnect \/ SenderReceives \/ SenderWrites \/ EndOfFile("sender")
  <2>1. ftc["sender"].m_socket \in {"NONBLOCKING_CONNECT", "CONNECTED"}
    BY <1>9 DEF FinishNonBlockingConnect, SenderReceives, SenderWrites, EndOfFile
  <2>2. "sender" # s
    BY <1>2, <2>1
  <2>3. QED
    BY <1>5, <1>9, <2>2, SenderEvents, TwoSides
<1>10. CASE ReceiverReceives \/ EndOfFile("receiver")
  <2>1. ftc["receiver"].m_socket = "CONNECTED"
    BY <1>10 DEF ReceiverReceives, EndOfFile
  <2>2. "receiver" # s
    BY <1>2, <2>1
  <2>3. QED
    BY <1>5, <1>10, <2>2, ReceiverEvents, TwoSides
<1> HIDE DEF Stays
<1>11. Application => Stays
  BY <1>6, <1>7, <1>8 DEF Application
<1>12. Network => Stays
  BY <1>6, <1>7, <1>8 DEF Network
<1>13. Timeouts => Stays
  BY <1>6, <1>8 DEF Timeouts
<1>14. SenderSocket \/ ReceiverSocket => Stays
  BY <1>7, <1>9, <1>10 DEF SenderSocket, ReceiverSocket
<1>15. QED
  BY <1>11, <1>12, <1>13, <1>14 DEF Next

-----------------------------------------------------------------------------
(* What is on the disk.                                                      *)

\* The disk has no more than was written, and all of that for an entry for which
\* the file system has not failed.
DiskInv ==
    /\ disk \in [got : Seq(Nat), failed : SUBSET Nat]
    /\ Len(disk.got) = Len(stored)
    /\ \A i \in 1..Len(stored) :
         /\ disk.got[i] <= stored[i].got
         /\ i \notin disk.failed => disk.got[i] = stored[i].got

\* What is counted here has its type.
CallsOK == calls \in Nat /\ twice \in BOOLEAN

Pieced == [dir : BOOLEAN, got : Nat]

LEMMA MakesEntryKeeps ==
    ASSUME DiskInv, stored \in Seq(Pieced), NEW p, p.dir \in BOOLEAN, MakesEntry(p)
    PROVE  DiskInv'
<1>1. PICK n \in Nat, got \in Seq(Nat), failed \in SUBSET Nat :
         n = Len(stored) /\ got = disk.got /\ failed = disk.failed /\ Len(got) = n
         /\ disk = [got |-> got, failed |-> failed]
  BY LenProperties DEF DiskInv
<1>2. PICK entry \in Pieced : entry = [dir |-> p.dir, got |-> 0]
  BY DEF Pieced
<1>3. PICK new : new = Append(stored, entry)
  OBVIOUS
<1>4. /\ stored' = new /\ new \in Seq(Pieced) /\ Len(new) = n + 1 /\ new[n + 1] = entry
      /\ \A i \in 1 .. n : new[i] = stored[i]
  BY <1>1, <1>2, <1>3, AppendProperties DEF MakesEntry
<1>5. PICK more : more = Append(got, 0)
  OBVIOUS
<1>6. more \in Seq(Nat) /\ Len(more) = n + 1 /\ more[n + 1] = 0 /\ \A i \in 1 .. n : more[i] = got[i]
  BY <1>1, <1>5, AppendProperties
<1>7. PICK missed \in SUBSET Nat : disk' = [got |-> more, failed |-> missed] /\ failed \subseteq missed
  <2>1. CASE disk' = [disk EXCEPT !.got = Append(disk.got, 0)]
    <3>1. disk' = [got |-> more, failed |-> failed]
      BY <1>1, <1>5, <2>1
    <3>2. QED
      BY <3>1
  <2>2. CASE disk' = [got |-> Append(disk.got, 0), failed |-> disk.failed \cup {Len(stored) + 1}]
    <3>1. disk' = [got |-> more, failed |-> failed \cup {n + 1}] /\ failed \cup {n + 1} \in SUBSET Nat
      BY <1>1, <1>5, <2>2
    <3>2. QED
      BY <3>1
  <2>3. QED
    BY <2>1, <2>2 DEF MakesEntry
<1>8. disk'.got = more /\ disk'.failed = missed /\ disk' \in [got : Seq(Nat), failed : SUBSET Nat]
  BY <1>6, <1>7
<1>9. ASSUME NEW i \in 1 .. n + 1
      PROVE  more[i] <= new[i].got /\ (i \notin missed => more[i] = new[i].got)
  <2>1. CASE i = n + 1
    BY <1>2, <1>4, <1>6, <2>1
  <2>2. CASE i # n + 1
    <3>1. i \in 1 .. n /\ new[i] = stored[i] /\ more[i] = got[i]
      BY <1>1, <1>4, <1>6, <2>2
    <3>2. got[i] <= stored[i].got /\ (i \notin failed => got[i] = stored[i].got)
      BY <1>1, <3>1 DEF DiskInv
    <3>3. QED
      BY <1>7, <3>1, <3>2
  <2>3. QED
    BY <2>1, <2>2
<1>10. QED
  BY <1>4, <1>6, <1>8, <1>9 DEF DiskInv

LEMMA WritesKeeps ==
    ASSUME DiskInv, stored \in Seq(Pieced), NEW length \in Nat, Writes(length)
    PROVE  DiskInv'
<1>1. PICK n \in Nat, got \in Seq(Nat), failed \in SUBSET Nat :
         n = Len(stored) /\ got = disk.got /\ failed = disk.failed /\ Len(got) = n
         /\ disk = [got |-> got, failed |-> failed]
  BY LenProperties DEF DiskInv
<1>2. CASE n = 0
  <2>1. Len(stored') = 0 /\ DOMAIN stored' = DOMAIN stored
    <3>1. PICK x : stored' = [stored EXCEPT ![n] = x]
      BY <1>1 DEF Writes
    <3>2. stored' = stored
      BY <1>1, <1>2, <3>1
    <3>3. QED
      BY <1>1, <1>2, <3>2
  <2>2. disk' \in [got : Seq(Nat), failed : SUBSET Nat] /\ Len(disk'.got) = 0
    <3>1. CASE disk' = [disk EXCEPT !.got[n] = @ + length]
      <4>1. [got EXCEPT ![n] = got[n] + length] = got
        BY <1>1, <1>2
      <4>2. disk' = disk
        BY <1>1, <3>1, <4>1
      <4>3. QED
        BY <1>1, <1>2, <4>2
    <3>2. CASE disk' = [disk EXCEPT !.failed = @ \cup {n}]
      BY <1>1, <1>2, <3>2
    <3>3. QED
      BY <1>1, <3>1, <3>2 DEF Writes
  <2>3. QED
    BY <2>1, <2>2 DEF DiskInv
<1>3. CASE n > 0
  <2>1. n \in 1 .. n /\ stored[n] \in Pieced /\ got[n] \in Nat /\ stored[n].got \in Nat
    <3>1. n \in 1 .. n
      BY <1>3
    <3>2. stored[n] \in Pieced
      BY <1>1, <3>1, ElementOfSeq
    <3>3. got[n] \in Nat
      BY <1>1, <3>1, ElementOfSeq
    <3>4. QED
      BY <3>1, <3>2, <3>3 DEF Pieced
  <2>2. PICK entry : entry = [stored[n] EXCEPT !.got = stored[n].got + length]
    OBVIOUS
  <2>3. entry \in Pieced /\ entry.got = stored[n].got + length
    <3>1. PICK old \in Pieced : old = stored[n]
      BY <2>1
    <3>2. old.got + length \in Nat /\ entry = [old EXCEPT !.got = old.got + length]
      BY <2>2, <3>1 DEF Pieced
    <3>3. entry \in Pieced /\ entry.got = old.got + length
      BY <3>2 DEF Pieced
    <3>4. QED
      BY <3>1, <3>3
  <2>4. PICK new : new = [stored EXCEPT ![n] = entry]
    OBVIOUS
  <2>5. new \in Seq(Pieced) /\ Len(new) = n /\ \A i \in 1 .. n : new[i] = IF i = n THEN entry ELSE stored[i]
    BY <1>1, <2>1, <2>3, <2>4, ExceptSeq
  <2>6. stored' = new
    BY <1>1, <2>2, <2>4 DEF Writes
  <2>7. CASE n \notin failed /\ disk' = [disk EXCEPT !.got[n] = got[n] + length]
    <3>1. PICK more : more = [got EXCEPT ![n] = got[n] + length]
      OBVIOUS
    <3>2. more \in Seq(Nat) /\ Len(more) = n /\ \A i \in 1 .. n : more[i] = IF i = n THEN got[n] + length ELSE got[i]
      <4>1. got[n] + length \in Nat
        BY <2>1
      <4>2. QED
        BY <1>1, <2>1, <3>1, <4>1, ExceptSeq
    <3>3. disk' = [got |-> more, failed |-> failed]
      BY <1>1, <2>7, <3>1
    <3>4. disk'.got = more /\ disk'.failed = failed /\ disk' \in [got : Seq(Nat), failed : SUBSET Nat]
      BY <3>2, <3>3
    <3>5. \A i \in 1 .. n : got[i] <= stored[i].got /\ (i \notin failed => got[i] = stored[i].got)
      BY <1>1 DEF DiskInv
    <3>6. got[n] = stored[n].got
      BY <2>1, <2>7, <3>5
    <3>7. ASSUME NEW i \in 1 .. n PROVE more[i] <= new[i].got /\ (i \notin failed => more[i] = new[i].got)
      <4>1. CASE i = n
        <5>1. more[n] = got[n] + length /\ new[n].got = stored[n].got + length
          BY <2>1, <2>3, <2>5, <3>2
        <5>2. more[n] = new[n].got /\ more[n] \in Nat
          BY <2>1, <3>6, <5>1
        <5>3. QED
          BY <4>1, <5>2
      <4>2. CASE i # n
        <5>1. more[i] = got[i] /\ new[i] = stored[i]
          BY <2>5, <3>2, <4>2
        <5>2. QED
          BY <3>5, <5>1
      <4>3. QED
        BY <4>1, <4>2
    <3>8. QED
      BY <2>5, <2>6, <3>2, <3>4, <3>7 DEF DiskInv
  <2>8. CASE disk' = [disk EXCEPT !.failed = disk.failed \cup {n}]
    <3>1. disk' = [got |-> got, failed |-> failed \cup {n}]
      BY <1>1, <2>8
    <3>2. disk'.got = got /\ disk'.failed = failed \cup {n} /\ disk' \in [got : Seq(Nat), failed : SUBSET Nat]
      BY <1>1, <3>1
    <3>3. \A i \in 1 .. n : got[i] <= stored[i].got /\ (i \notin failed => got[i] = stored[i].got)
      BY <1>1 DEF DiskInv
    <3>4. ASSUME NEW i \in 1 .. n PROVE got[i] <= new[i].got /\ (i \notin failed \cup {n} => got[i] = new[i].got)
      <4>1. CASE i = n
        BY <2>1, <2>3, <2>5, <3>3, <4>1
      <4>2. CASE i # n
        BY <2>5, <3>3, <4>2
      <4>3. QED
        BY <4>1, <4>2
    <3>5. QED
      BY <1>1, <2>5, <2>6, <3>2, <3>4 DEF DiskInv
  <2>9. QED
    BY <1>1, <2>7, <2>8 DEF Writes
<1>4. QED
  BY <1>1, <1>2, <1>3

LEMMA DiskFrame ==
    ASSUME DiskInv, UNCHANGED <<stored, disk>>
    PROVE  DiskInv'
  BY DEF DiskInv

LEMMA ReceiverKeepsDisk ==
    ASSUME DiskInv, CoreOK, ReceiverReceives
    PROVE  DiskInv'
<1>1. stored \in Seq(Pieced)
  BY DEF CoreOK, Pieced
<1>2. PICK p : p = Head(data["receiver"])
  OBVIOUS
<1>3. p \in Packets
  <2>1. data["receiver"] \in Seq(Packets) /\ data["receiver"] # <<>>
    BY TwoSides DEF CoreOK, ReceiverReceives
  <2>2. QED
    BY <1>2, <2>1, HeadTailProperties
<1>4. CASE UNCHANGED <<stored, disk>>
  BY <1>4, DiskFrame
<1>5. CASE p.type = "0x02" /\ MakesEntry(p)
  BY <1>1, <1>3, <1>5, MakesEntryKeeps DEF Packets
<1>6. CASE p.type = "0x06" /\ Writes(p.length)
  BY <1>1, <1>3, <1>6, WritesKeeps DEF Packets
<1>7. UNCHANGED <<stored, disk>> \/ (p.type = "0x02" /\ MakesEntry(p)) \/ (p.type = "0x06" /\ Writes(p.length))
  BY <1>2 DEF ReceiverReceives, ParsePacket0x02, ParsePacket0x06
<1>8. QED
  BY <1>4, <1>5, <1>6, <1>7

\* Nobody but the receiver, when it reads, makes or writes entries.
LEMMA NextKeepsDisk ==
    ASSUME DiskInv, CoreOK, [Next]_vars
    PROVE  DiskInv'
<1>1. CASE UNCHANGED vars
  BY <1>1, DiskFrame DEF vars
<1>2. Application => DiskInv'
  <2>1. Application => UNCHANGED <<stored, disk>>
    BY DEF Application, SendRequest, SendFileTransferACK, AnswerNotSent, RefuseAside, Connect,
           CancelFileTransfer, DisconnectDirectConns
  <2>2. QED
    BY <2>1, DiskFrame
<1>3. Network => DiskInv'
  <2>1. Network => UNCHANGED <<stored, disk>>
    BY DEF Network, flush_queue, handleIncomingFT, handleIncomingFTCancel, handleIncomingFTACK, ControlLost
  <2>2. QED
    BY <2>1, DiskFrame
<1>4. Timeouts => DiskInv'
  <2>1. Timeouts => UNCHANGED <<stored, disk>>
    BY DEF Timeouts, QueueExpires, Expire, ClientTimeout
  <2>2. QED
    BY <2>1, DiskFrame
<1>5. SenderSocket => DiskInv'
  <2>1. SenderSocket => UNCHANGED <<stored, disk>>
    BY DEF SenderSocket, FinishNonBlockingConnect, SenderReceives, SenderWrites, EndOfFile
  <2>2. QED
    BY <2>1, DiskFrame
<1>6. ReceiverSocket => DiskInv'
  <2>1. Accept \/ EndOfFile("receiver") => UNCHANGED <<stored, disk>>
    BY DEF Accept, EndOfFile
  <2>2. QED
    BY <2>1, DiskFrame, ReceiverKeepsDisk DEF ReceiverSocket
<1>7. QED
  BY <1>1, <1>2, <1>3, <1>4, <1>5, <1>6 DEF Next

LEMMA NextCallsOK ==
    ASSUME CallsOK, [Next]_vars
    PROVE  CallsOK'
<1>1. CASE UNCHANGED <<calls, twice>>
  BY <1>1 DEF CallsOK
<1>2. CASE SendRequest
  BY <1>2 DEF CallsOK, SendRequest
<1>3. UNCHANGED vars => UNCHANGED <<calls, twice>>
  BY DEF vars, requestVars, askVars
<1>4. Application => SendRequest \/ UNCHANGED <<calls, twice>>
  BY DEF Application, SendFileTransferACK, AnswerNotSent, RefuseAside, Connect,
         CancelFileTransfer, DisconnectDirectConns, requestVars, askVars
<1>5. Network \/ Timeouts => UNCHANGED <<calls, twice>>
  BY DEF Network, flush_queue, handleIncomingFT, handleIncomingFTCancel, handleIncomingFTACK, ControlLost,
         Timeouts, QueueExpires, Expire, ClientTimeout, requestVars, askVars
<1>6. SenderSocket \/ ReceiverSocket => UNCHANGED <<calls, twice>>
  BY DEF SenderSocket, FinishNonBlockingConnect, SenderReceives, SenderWrites, EndOfFile,
         ReceiverSocket, Accept, ReceiverReceives, requestVars, askVars
<1>7. QED
  BY <1>1, <1>2, <1>3, <1>4, <1>5, <1>6 DEF Next

-----------------------------------------------------------------------------
(* Theorems.                                                                 *)

\* What is stored, what is under way and what both events say of it fit together
\* after every step; a request is in one place, unless it was asked for again.
THEOREM Inductive == Spec => [](IInv /\ OnceInv /\ DiskInv /\ CallsOK)
<1>1. Init => IInv /\ OnceInv /\ DiskInv /\ CallsOK
  <2>1. SUFFICES ASSUME Init PROVE IInv /\ OnceInv /\ DiskInv /\ CallsOK
    OBVIOUS
  <2>2. OnceInv
    BY <2>1, TwoSides DEF Init, OnceInv
  <2>3. DiskInv
    <3>1. PICK none : none = <<>>
      OBVIOUS
    <3>2. none \in Seq(Nat) /\ Len(none) = 0 /\ stored = none /\ disk = [got |-> none, failed |-> {}]
      BY <2>1, <3>1 DEF Init
    <3>3. QED
      BY <3>2 DEF DiskInv
  <2>4. CallsOK
    BY <2>1 DEF Init, CallsOK
  <2>5. QED
    BY <2>1, <2>2, <2>3, <2>4, InitIInv
<1>2. (IInv /\ OnceInv /\ DiskInv /\ CallsOK) /\ [Next]_vars => (IInv /\ OnceInv /\ DiskInv /\ CallsOK)'
  <2>1. IInv => CoreOK
    BY DEF IInv, RequestInv
  <2>2. QED
    BY <2>1, NextIInv, NextOnce, NextKeepsDisk, NextCallsOK
<1>3. QED
  BY <1>1, <1>2, PTL DEF Spec

\* Every event, client and packet under way keeps its type, whatever the
\* versions, the lists and the order of the steps.
THEOREM TypeCorrect == Spec => []TypeOK
<1>1. IInv /\ DiskInv /\ CallsOK => TypeOK
  <2>1. IInv => CoreOK
    BY DEF IInv, RequestInv
  <2>2. QED
    BY <2>1 DEF CoreOK, DiskInv, CallsOK, TypeOK
<1>2. QED
  BY <1>1, Inductive, PTL

\* When an event is COMPLETE, CANCELLED or ERROR the application was told so,
\* and there is no FileTransferClient left for the event: DisconnectDirectConn
\* deletes it on every way out of socket_cb, and a request or an answer that
\* comes late never revives the event.
THEOREM EndedIsToldAndGoneAlways == Spec => []EndedIsToldAndGone
<1>1. IInv => EndedIsToldAndGone
  BY DEF IInv, RequestInv
<1>2. QED
  BY <1>1, Inductive, PTL

\* No late timeout of clearoutMessagesPoll or of a cache, no answer, no
\* cancellation and no end of the connection takes COMPLETE back, unless the
\* sending application has asked again with something of the event at work.
THEOREM CompleteIsFinalAlways == Spec => CompleteIsFinal
<1>1. IInv /\ OnceInv /\ [Next]_vars =>
        [\A s \in Sides : ev[s].state = "COMPLETE" /\ ~(s = "sender" /\ twice) =>
           ev'[s].state \in {"COMPLETE", "NOT_CONNECTED"}]_vars
  BY CompleteStays
<1>2. QED
  BY <1>1, Inductive, PTL DEF Spec, CompleteIsFinal

\* What the receiver has stored is the list that was sent up to some point, each
\* entry whole before the next; a receiver that says COMPLETE has all the data;
\* both but for entries of which a mkdir or a write failed; and after a sender
\* that says COMPLETE what is under way makes it whole, as long as the receiver
\* lives.
THEOREM FilesArriveWholeAlways == Spec => []FilesArriveWhole
<1>1. ASSUME IInv, DiskInv PROVE FilesArriveWhole
  <2>1. HandedInOrder /\ CompleteWasHanded /\ CompleteInv /\ Len(stored) \in Nat
    BY <1>1, TransferParts, LenProperties DEF CoreOK
  <2>2. SentIsComplete
    <3>1. SUFFICES ASSUME ev["sender"].state = "COMPLETE", ftc["receiver"].m_state # "NONE"
                   PROVE  Arriving = Whole(sent)
      BY DEF SentIsComplete
    <3>2. Held = Len(sent) /\ LastIsSent
      BY <2>1, <3>1 DEF CompleteInv, Alive
    <3>3. QED
      BY <1>1, <3>2, ArrivingIsWhole
  <2>3. \A i \in 1..Len(stored) :
          /\ disk.got[i] <= stored[i].got /\ (i \notin disk.failed => disk.got[i] = stored[i].got)
          /\ disk.got[i] \in Nat /\ stored[i].got \in Nat
    <3>1. stored \in Seq(Pieced) /\ disk.got \in Seq(Nat) /\ Len(disk.got) = Len(stored)
      BY <1>1, TransferParts DEF CoreOK, Pieced, DiskInv
    <3>2. ASSUME NEW i \in 1..Len(stored) PROVE disk.got[i] \in Nat /\ stored[i].got \in Nat
      <4>1. stored[i] \in Pieced
        BY <3>1, ElementOfSeq
      <4>2. PICK q \in Seq(Nat) : q = disk.got
        BY <3>1
      <4>3. q[i] \in Nat
        BY <3>1, <4>2, ElementOfSeq
      <4>4. QED
        BY <4>1, <4>2, <4>3 DEF Pieced
    <3>3. QED
      BY <1>1, <3>2 DEF DiskInv
  <2>4. \A i \in 1..Len(sent) : sent[i].size \in Nat
    BY <1>1, SidesTyped, TransferParts
  <2>5. StoredInOrder
    BY <1>1, <2>1, <2>3, <2>4 DEF StoredInOrder, HandedInOrder, Has, DiskInv
  <2>6. CompleteHasAllContent
    <3>1. SUFFICES ASSUME ev["receiver"].state = "COMPLETE" PROVE CompleteHasAllContent
      BY DEF CompleteHasAllContent
    <3>2. \A i \in 1..Len(sent) : sent[i].size > 0 => i <= Len(stored) /\ Has(i)
      BY <2>1, <2>3, <3>1 DEF CompleteWasHanded, Has
    <3>3. ASSUME sent # <<>>, sent[Len(sent)].size > 0
          PROVE  Len(stored) = Len(sent) /\ \A i \in 1..Len(sent) : Has(i)
      <4>1. stored = Whole(sent)
        BY <2>1, <3>1, <3>3 DEF CompleteWasHanded
      <4>2. Len(stored) = Len(sent) /\ \A i \in 1..Len(sent) : stored[i].got = sent[i].size
        BY <1>1, <4>1, SidesTyped, TransferParts DEF Whole
      <4>3. QED
        BY <2>3, <4>2 DEF Has
    <3>4. QED
      BY <3>2, <3>3 DEF CompleteHasAllContent
  <2>7. QED
    BY <2>2, <2>5, <2>6 DEF FilesArriveWhole
<1>2. IInv /\ DiskInv => FilesArriveWhole
  BY <1>1
<1>3. QED
  BY <1>2, Inductive, PTL
==============================================================================
