----------------------------- MODULE MessagesProofs -----------------------------
(* Theorems about Messages, for any events, profile, statuses, answers, cuts of *)
(* the stream and checks of the packets: what B's application is told and what  *)
(* A's event ends with.                                                         *)
EXTENDS WireProofs


-----------------------------------------------------------------------------
(* What an event is sent as: its type, its strings and its numbers.          *)
EventRec(k, T, g, u, l, z, from) ==
    [kind |-> k, texts |-> T, granted |-> g, urgent |-> u, tolist |-> l, size |-> z, from |-> from]
Wires(e, st, t, F, N) ==
    \/ e.kind = "Normal" /\ t = Type.Normal /\ F = e.texts /\ N = None
    \/ e.kind = "URL" /\ t = Type.URL /\ F = e.texts /\ N = None
    \/ e.kind = "FileTransfer" /\ t = Type.FT /\ F = e.texts /\ N = <<0, 0, e.size>>
    \/ e.kind = "AwayMessage" /\ t = AwayType(st) /\ F = <<>> /\ N = None
    \/ e.kind = "AuthReq" /\ t = Type.AuthReq /\ F = Profile \o e.texts /\ N = None
    \/ e.kind = "AuthAck" /\ e.granted = TRUE /\ t = Type.AuthAcc /\ F = <<>> /\ N = None
    \/ e.kind = "AuthAck" /\ e.granted = FALSE /\ t = Type.AuthRej /\ F = e.texts /\ N = None
    \/ e.kind = "UserAdd" /\ t = Type.UserAdd /\ F = Profile /\ N = None
    \/ e.kind = "Contacts" /\ t = Type.Contact /\ F = e.texts /\ N = None
Kinded(e, st, t, F, N) ==
    EventToUINICQSubType(e, st) = Sub(t, F, N, 0, e.urgent, e.tolist, FALSE, FALSE, <<>>, 0, 0, 0)
Sendable(e) == e.kind \in {"Normal", "URL", "FileTransfer", "AwayMessage", "AuthReq", "AuthAck", "UserAdd", "Contacts"}

LEMMA Flagged ==
    ASSUME NEW t, NEW F, NEW N, NEW u, NEW l
    PROVE  SetFlags(Sub(t, F, N, 0, FALSE, FALSE, FALSE, FALSE, <<>>, 0, 0, 0), u, l) =
               Sub(t, F, N, 0, u, l, FALSE, FALSE, <<>>, 0, 0, 0)
<1>1. PICK x, n, e, o : /\ x = Sub(t, F, N, 0, FALSE, FALSE, FALSE, FALSE, <<>>, 0, 0, 0)
                        /\ n = FALSE /\ e = <<>> /\ o = 0
  OBVIOUS
<1>2. x = Sub(t, F, N, o, n, n, n, n, e, o, o, o)
  BY <1>1
<1>3. SetFlags(x, u, l) = Sub(t, F, N, o, u, l, n, n, e, o, o, o)
  BY <1>2, TwoFlags
<1>4. QED
  BY <1>1, <1>3

LEMMA AwayTypes ==
    ASSUME NEW st
    PROVE  AwayType(st) \in AutoReq
  BY DEF AwayType, AutoReq

LEMMA SentLike ==
    ASSUME NEW e, Sendable(e), e.granted \in BOOLEAN, NEW st
    PROVE  \E t, F, N : Wires(e, st, t, F, N) /\ Kinded(e, st, t, F, N)
<1> DEFINE base(t, F) == Sub(t, F, None, 0, FALSE, FALSE, FALSE, FALSE, <<>>, 0, 0, 0)
           ist(x) == SetFlags(x, e.urgent, e.tolist)
           file == [Subtype(Type.FT, e.texts) EXCEPT !.numbers = <<0, 0, e.size>>]
           arms == CASE e.kind = "Normal" -> Subtype(Type.Normal, e.texts)
                     [] e.kind = "URL" -> Subtype(Type.URL, e.texts)
                     [] e.kind = "FileTransfer" -> file
                     [] e.kind = "AwayMessage" -> Subtype(AwayType(st), <<>>)
                     [] e.kind = "AuthReq" -> Subtype(Type.AuthReq, Profile \o e.texts)
                     [] e.kind = "AuthAck" /\ e.granted -> Subtype(Type.AuthAcc, <<>>)
                     [] e.kind = "AuthAck" /\ ~e.granted -> Subtype(Type.AuthRej, e.texts)
                     [] e.kind = "UserAdd" -> Subtype(Type.UserAdd, Profile)
                     [] e.kind = "Contacts" -> Subtype(Type.Contact, e.texts)
<1>1. EventToUINICQSubType(e, st) = ist(arms)
  BY Zenon DEF EventToUINICQSubType, SetFlags
<1>2. \A t, F : ist(Subtype(t, F)) = Sub(t, F, None, 0, e.urgent, e.tolist, FALSE, FALSE, <<>>, 0, 0, 0)
  BY SubNew, Flagged, Zenon
<1>3. \E t, F : (Wires(e, st, t, F, None) /\ arms = Subtype(t, F)) \/ e.kind = "FileTransfer"
  <2>1. CASE e.kind = "Normal"
    BY <2>1 DEF Wires
  <2>2. CASE e.kind = "URL"
    BY <2>2 DEF Wires
  <2>3. CASE e.kind = "AwayMessage"
    BY <2>3 DEF Wires
  <2>4. CASE e.kind = "AuthReq"
    <3> HIDE DEF file
    <3>1. arms = Subtype(Type.AuthReq, Profile \o e.texts)
      BY <2>4
    <3> HIDE DEF arms
    <3>2. Wires(e, st, Type.AuthReq, Profile \o e.texts, None)
      BY <2>4, Zenon DEF Wires
    <3>3. QED
      BY <3>1, <3>2, Zenon
  <2>5. CASE e.kind = "AuthAck" /\ e.granted = TRUE
    BY <2>5 DEF Wires
  <2>6. CASE e.kind = "AuthAck" /\ e.granted = FALSE
    BY <2>6 DEF Wires
  <2>7. CASE e.kind = "UserAdd"
    BY <2>7 DEF Wires
  <2>8. CASE e.kind = "Contacts"
    BY <2>8 DEF Wires
  <2>9. QED
    BY <2>1, <2>2, <2>3, <2>4, <2>5, <2>6, <2>7, <2>8 DEF Sendable
<1>4. CASE e.kind = "FileTransfer"
  <2>1. arms = file
    BY <1>4
  <2>2. file = Sub(Type.FT, e.texts, <<0, 0, e.size>>, 0, FALSE, FALSE, FALSE, FALSE, <<>>, 0, 0, 0)
    <3>1. PICK x, no, em, o : x = Subtype(Type.FT, e.texts) /\ no = FALSE /\ em = <<>> /\ o = 0
      OBVIOUS
    <3>a. PICK nn, ty, ff : nn = <<0, 0, e.size>> /\ ty = Type.FT /\ ff = e.texts
      OBVIOUS
    <3>2. x = Sub(ty, ff, None, o, no, no, no, no, em, o, o, o)
      BY <3>1, <3>a, SubNew, Zenon
    <3>3. [x EXCEPT !.numbers = nn] = Sub(ty, ff, nn, o, no, no, no, no, em, o, o, o)
      BY <3>2 DEF Sub
    <3>4. QED
      BY <3>1, <3>a, <3>3, Zenon
  <2> HIDE DEF arms, file
  <2>3. Kinded(e, st, Type.FT, e.texts, <<0, 0, e.size>>)
    BY <1>1, <2>1, <2>2, Flagged, Zenon DEF Kinded
  <2>4. Wires(e, st, Type.FT, e.texts, <<0, 0, e.size>>)
    BY <1>4, Zenon DEF Wires
  <2>5. QED
    BY <2>3, <2>4, Zenon
<1>5. CASE ~(e.kind = "FileTransfer")
  <2> HIDE DEF arms
  <2>1. PICK t, F : Wires(e, st, t, F, None) /\ arms = Subtype(t, F)
    BY <1>3, <1>5
  <2>2. Kinded(e, st, t, F, None)
    BY <1>1, <1>2, <2>1, Zenon DEF Kinded
  <2>3. QED
    BY <2>1, <2>2
<1>6. QED
  BY <1>4, <1>5

\* The strings of an event, if its texts are as they should be.
LEMMA Texts1 ==
    ASSUME NEW S, NEW F \in Seq(S), Len(F) = 1
    PROVE  \E a \in S : F = <<a>>
<1>1. F[1] \in S /\ F = <<F[1]>>
  OBVIOUS
<1>2. QED
  BY <1>1

LEMMA Texts2 ==
    ASSUME NEW S, NEW F \in Seq(S), Len(F) = 2
    PROVE  \E a, b \in S : F = <<a, b>>
<1>1. F[1] \in S /\ F[2] \in S /\ F = <<F[1], F[2]>>
  OBVIOUS
<1>2. QED
  BY <1>1

LEMMA Texts3 ==
    ASSUME NEW S, NEW F \in Seq(S), Len(F) = 3
    PROVE  \E a, b, c \in S : F = <<a, b, c>>
<1>1. F[1] \in S /\ F[2] \in S /\ F[3] \in S
  <2>1. \A i \in 1 .. 3 : F[i] \in S
    OBVIOUS
  <2>2. QED
    BY <2>1
<1>2. PICK G : G = <<F[1], F[2], F[3]>>
  OBVIOUS
<1>3. G \in Seq(S) /\ Len(G) = 3 /\ G[1] = F[1] /\ G[2] = F[2] /\ G[3] = F[3]
  BY <1>1, <1>2
<1>4. \A i \in 1 .. 3 : F[i] = G[i]
  BY <1>3
<1>5. F = G
  BY <1>3, <1>4
<1>6. QED
  BY <1>1, <1>2, <1>5

LEMMA FiveAndOne ==
    ASSUME NEW S, NEW P \in Seq(S), Len(P) = 5, NEW F \in Seq(S), Len(F) = 1
    PROVE  P \o F \in Seq(S) /\ Len(P \o F) = 6 /\ (P \o F)[6] = F[1]
<1>1. /\ P \o F \in Seq(S) /\ Len(P \o F) = Len(P) + Len(F)
      /\ \A i \in 1 .. Len(P) + Len(F) : (P \o F)[i] = IF i <= Len(P) THEN P[i] ELSE F[i - Len(P)]
  BY ConcatProperties
<1>2. PICK G : G = P \o F
  OBVIOUS
<1>3. Len(G) = 6 /\ G[6] = F[1]
  BY <1>1, <1>2
<1>4. QED
  BY <1>1, <1>2, <1>3

LEMMA ProfileTexts ==
    ASSUME NEW F \in Seq(Clean), Len(F) = 1
    PROVE  /\ Profile \o F \in Seq(Clean) /\ Len(Profile \o F) = 6 /\ (Profile \o F)[6] = F[1]
  BY ProfileAssumption, FiveAndOne, Zenon

LEMMA SaysIt ==
    ASSUME NEW e, IsText(e), NEW st, NEW t, NEW F, NEW N, Wires(e, st, t, F, N), e.kind # "FileTransfer"
    PROVE  Says(t, F)
<1>1. CASE e.kind = "Normal" /\ t = Type.Normal /\ F = e.texts
  <2>1. F \in Seq(Bytes) /\ Len(F) = 1
    BY <1>1 DEF IsText
  <2>2. QED
    BY <1>1, <2>1, Texts1 DEF Says
<1>2. CASE e.kind = "URL" /\ t = Type.URL /\ F = e.texts
  <2>1. F \in Seq(Clean) /\ Len(F) = 2
    BY <1>2 DEF IsText
  <2>2. QED
    BY <1>2, <2>1, Texts2 DEF Says
<1>3. CASE e.kind = "AwayMessage" /\ t = AwayType(st) /\ F = <<>>
  BY <1>3, AwayTypes DEF Says
<1>4. CASE e.kind = "AuthReq" /\ t = Type.AuthReq /\ F = Profile \o e.texts
  <2>1. e.texts \in Seq(Clean) /\ Len(e.texts) = 1
    BY <1>4 DEF IsText
  <2>2. F \in Seq(Clean) /\ Len(F) = 6
    BY <1>4, <2>1, ProfileTexts, Zenon
  <2>3. QED
    BY <1>4, <2>2, Zenon DEF Says
<1>5. CASE e.kind = "AuthAck" /\ t = Type.AuthAcc /\ F = <<>>
  BY <1>5 DEF Says
<1>6. CASE e.kind = "AuthAck" /\ t = Type.AuthRej /\ F = e.texts
  <2>1. F \in Seq(Bytes) /\ Len(F) = 1
    BY <1>6 DEF IsText
  <2>2. QED
    BY <1>6, <2>1, Texts1 DEF Says
<1>7. CASE e.kind = "UserAdd" /\ t = Type.UserAdd /\ F = Profile
  BY <1>7, ProfileAssumption DEF Says
<1>8. CASE e.kind = "Contacts" /\ t = Type.Contact /\ F = e.texts
  <2>1. F \in Seq(Clean) /\ Len(F) % 2 = 0 /\ Len(F) < 200
    BY <1>8 DEF IsText
  <2>2. \E h \in Nat : Len(F) = 2 * h /\ h < 100
    <3>1. PICK n \in Nat : n = Len(F)
      BY <2>1
    <3>2. n \div 2 \in Nat /\ n = 2 * (n \div 2) /\ n \div 2 < 100
      BY <2>1, <3>1
    <3>3. QED
      BY <3>1, <3>2
  <2>3. QED
    BY <1>8, <2>1, <2>2 DEF Says
<1>9. QED
  BY <1>1, <1>2, <1>3, <1>4, <1>5, <1>6, <1>7, <1>8 DEF Wires

LEMMA TextShort ==
    ASSUME NEW e, IsText(e), Sendable(e), e.granted \in BOOLEAN, NEW st, NEW t, NEW F, NEW N,
           Wires(e, st, t, F, N), e.kind # "FileTransfer"
    PROVE  TextOf(t, F) \in Short
<1>1. CASE e.kind = "AwayMessage"
  <2>1. t \in AutoReq
    BY <1>1, AwayTypes DEF Wires
  <2>2. TextOf(t, F) = <<>>
    <3>1. Subtype(t, F).type = t
      BY DEF Subtype
    <3>2. PICK y : y = Subtype(t, F)
      OBVIOUS
    <3>3. Text(y) = <<>>
      BY <2>1, <3>1, <3>2, KindsDiffer DEF Text
    <3>4. QED
      BY <3>2, <3>3 DEF TextOf
  <2>3. QED
    BY <2>2, NoBytes DEF Short, Limit
<1>2. CASE e.kind # "AwayMessage"
  <2>1. PICK t1, F1, N1 : Wires(e, "ONLINE", t1, F1, N1) /\ Kinded(e, "ONLINE", t1, F1, N1)
    BY SentLike
  <2>2. t1 = t /\ F1 = F
    BY <1>2, <2>1, Zenon DEF Wires
  <2>3. PICK y : y = EventToUINICQSubType(e, "ONLINE")
    OBVIOUS
  <2>4. y.type = t /\ y.fields = F
    <3>1. PICK no, em, o : no = FALSE /\ em = <<>> /\ o = 0
      OBVIOUS
    <3>2. y = Sub(t1, F1, N1, o, e.urgent, e.tolist, no, no, em, o, o, o)
      BY <2>1, <2>3, <3>1, Zenon DEF Kinded
    <3>3. y.type = t1 /\ y.fields = F1
      BY <3>2, SubIs
    <3>4. QED
      BY <2>2, <3>3
  <2>5. Text(y) \in Short
    <3>1. e.kind \notin {"FileTransfer", "EmailEx", "WebPager"}
      BY DEF Sendable
    <3>2. QED
      BY <2>3, <3>1, Zenon DEF IsText
  <2>6. Text(y) = TextOf(t, F)
    BY <2>4, TextSame
  <2>7. QED
    BY <2>5, <2>6
<1>3. QED
  BY <1>1, <1>2

-----------------------------------------------------------------------------
(* The event that a subtype is.                                              *)
Granting(m, a) == [m EXCEPT !.granted = a]
Sizing(m, a) == [m EXCEPT !.size = a]
Signing(m, a) == [m EXCEPT !.from = a]
Listing(m, a) == [m EXCEPT !.tolist = a]

LEMMA EventsAre ==
    /\ \A k, T : MessageEvent(k, T) = EventRec(k, T, FALSE, FALSE, FALSE, 0, 0)
    /\ \A k, T, g, u, l, z, f, a, b : SetFlags(EventRec(k, T, g, u, l, z, f), a, b) = EventRec(k, T, g, a, b, z, f)
    /\ \A k, T, g, u, l, z, f, a : Granting(EventRec(k, T, g, u, l, z, f), a) = EventRec(k, T, a, u, l, z, f)
    /\ \A k, T, g, u, l, z, f, a : Sizing(EventRec(k, T, g, u, l, z, f), a) = EventRec(k, T, g, u, l, a, f)
    /\ \A k, T, g, u, l, z, f, a : Signing(EventRec(k, T, g, u, l, z, f), a) = EventRec(k, T, g, u, l, z, a)
    /\ \A k, T, g, u, l, z, f, a : Listing(EventRec(k, T, g, u, l, z, f), a) = EventRec(k, T, g, u, a, z, f)
<1>1. \A k, T : MessageEvent(k, T) = EventRec(k, T, FALSE, FALSE, FALSE, 0, 0)
  BY DEF EventRec, MessageEvent
<1>2. ASSUME NEW k, NEW T, NEW g, NEW u, NEW l, NEW z, NEW f, NEW a, NEW b
      PROVE  SetFlags(EventRec(k, T, g, u, l, z, f), a, b) = EventRec(k, T, g, a, b, z, f)
  <2>1. [EventRec(k, T, g, u, l, z, f) EXCEPT !.urgent = a] = EventRec(k, T, g, a, l, z, f)
    BY DEF EventRec
  <2>2. [EventRec(k, T, g, a, l, z, f) EXCEPT !.tolist = b] = EventRec(k, T, g, a, b, z, f)
    BY DEF EventRec
  <2>3. QED
    BY <2>1, <2>2, SubFlags DEF SetFlags
<1>3. \A k, T, g, u, l, z, f, a : Granting(EventRec(k, T, g, u, l, z, f), a) = EventRec(k, T, a, u, l, z, f)
  BY DEF EventRec, Granting
<1>4. \A k, T, g, u, l, z, f, a : Sizing(EventRec(k, T, g, u, l, z, f), a) = EventRec(k, T, g, u, l, a, f)
  BY DEF EventRec, Sizing
<1>5. \A k, T, g, u, l, z, f, a : Signing(EventRec(k, T, g, u, l, z, f), a) = EventRec(k, T, g, u, l, z, a)
  BY DEF EventRec, Signing
<1>6. \A k, T, g, u, l, z, f, a : Listing(EventRec(k, T, g, u, l, z, f), a) = EventRec(k, T, g, u, a, z, f)
  BY DEF EventRec, Listing
<1>7. QED
  BY <1>1, <1>2, <1>3, <1>4, <1>5, <1>6, Zenon

LEMMA EventsMade ==
    ASSUME NEW k, NEW T, NEW z, NEW g
    PROVE  /\ Sizing(MessageEvent(k, T), z) = EventRec(k, T, FALSE, FALSE, FALSE, z, 0)
           /\ Granting(MessageEvent(k, T), g) = EventRec(k, T, g, FALSE, FALSE, 0, 0)
<1>1. PICK m, no, o : m = MessageEvent(k, T) /\ no = FALSE /\ o = 0
  OBVIOUS
<1>2. m = EventRec(k, T, no, no, no, o, o)
  BY <1>1, EventsAre
<1>3. /\ Sizing(EventRec(k, T, no, no, no, o, o), z) = EventRec(k, T, no, no, no, z, o)
      /\ Granting(EventRec(k, T, no, no, no, o, o), g) = EventRec(k, T, g, no, no, o, o)
  BY EventsAre
<1>4. QED
  BY <1>1, <1>2, <1>3

\* The event of a subtype before its flags are set.
EventOf(y) ==
    CASE y.type = Type.Normal -> NormalMessageEvent(y.fields[1])
      [] y.type = Type.URL -> URLMessageEvent(y.fields[1], y.fields[2])
      [] y.type = Type.AuthReq -> AuthReqEvent(y.fields[6])
      [] y.type = Type.AuthRej -> AuthAckEvent(y.fields[1], FALSE)
      [] y.type = Type.AuthAcc -> AuthAckEvent(<<>>, TRUE)
      [] y.type \in AutoReq -> AwayMessageEvent
      [] y.type = Type.UserAdd -> UserAddEvent
      [] y.type = Type.Contact -> ContactMessageEvent(y.fields)
      [] y.type = Type.FT -> FileTransferEvent(y.fields[1], y.fields[2], y.numbers[3])
      [] y.type = Type.EmailEx -> EmailExEvent(y.fields[4], y.fields[1], y.fields[6])
      [] y.type = Type.WebPager -> WebPagerEvent(y.fields[4], y.fields[4], y.fields[6])

LEMMA EventIs ==
    ASSUME NEW y, NEW k, NEW T, NEW g, NEW z, EventOf(y) = EventRec(k, T, g, FALSE, FALSE, z, 0)
    PROVE  ICQSubTypeToEvent(y) = EventRec(k, T, g, y.urgent, y.tolist, z, 0)
<1>1. ICQSubTypeToEvent(y) = SetFlags(EventOf(y), y.urgent, y.tolist)
  BY Zenon DEF ICQSubTypeToEvent, EventOf, SetFlags
<1>2. PICK no, o, a, b : no = FALSE /\ o = 0 /\ a = y.urgent /\ b = y.tolist
  OBVIOUS
<1>3. EventOf(y) = EventRec(k, T, g, no, no, z, o)
  BY <1>2
<1>4. SetFlags(EventRec(k, T, g, no, no, z, o), a, b) = EventRec(k, T, g, a, b, z, o)
  BY EventsAre
<1>5. QED
  BY <1>1, <1>2, <1>3, <1>4

\* The arms of it.
LEMMA EventArms ==
    ASSUME NEW y
    PROVE  /\ y.type = Type.Normal => EventOf(y) = NormalMessageEvent(y.fields[1])
           /\ y.type = Type.URL => EventOf(y) = URLMessageEvent(y.fields[1], y.fields[2])
           /\ y.type = Type.AuthReq => EventOf(y) = AuthReqEvent(y.fields[6])
           /\ y.type = Type.AuthRej => EventOf(y) = AuthAckEvent(y.fields[1], FALSE)
           /\ y.type = Type.AuthAcc => EventOf(y) = AuthAckEvent(<<>>, TRUE)
           /\ y.type \in AutoReq => EventOf(y) = AwayMessageEvent
           /\ y.type = Type.UserAdd => EventOf(y) = UserAddEvent
           /\ y.type = Type.Contact => EventOf(y) = ContactMessageEvent(y.fields)
           /\ y.type = Type.FT => EventOf(y) = FileTransferEvent(y.fields[1], y.fields[2], y.numbers[3])
           /\ y.type = Type.EmailEx => EventOf(y) = EmailExEvent(y.fields[4], y.fields[1], y.fields[6])
           /\ y.type = Type.WebPager => EventOf(y) = WebPagerEvent(y.fields[4], y.fields[4], y.fields[6])
<1> DEFINE a1 == NormalMessageEvent(y.fields[1])
           a2 == URLMessageEvent(y.fields[1], y.fields[2])
           a3 == AuthReqEvent(y.fields[6])
           a4 == AuthAckEvent(y.fields[1], FALSE)
           a5 == AuthAckEvent(<<>>, TRUE)
           a6 == AwayMessageEvent
           a7 == UserAddEvent
           a8 == ContactMessageEvent(y.fields)
           a9 == FileTransferEvent(y.fields[1], y.fields[2], y.numbers[3])
           a10 == EmailExEvent(y.fields[4], y.fields[1], y.fields[6])
           a11 == WebPagerEvent(y.fields[4], y.fields[4], y.fields[6])
<1>1. EventOf(y) =
          CASE y.type = Type.Normal -> a1
            [] y.type = Type.URL -> a2
            [] y.type = Type.AuthReq -> a3
            [] y.type = Type.AuthRej -> a4
            [] y.type = Type.AuthAcc -> a5
            [] y.type \in AutoReq -> a6
            [] y.type = Type.UserAdd -> a7
            [] y.type = Type.Contact -> a8
            [] y.type = Type.FT -> a9
            [] y.type = Type.EmailEx -> a10
            [] y.type = Type.WebPager -> a11
  BY Zenon DEF EventOf
<1> HIDE DEF a1, a2, a3, a4, a5, a6, a7, a8, a9, a10, a11
<1>2. /\ y.type = Type.Normal => EventOf(y) = a1
      /\ y.type = Type.URL => EventOf(y) = a2
      /\ y.type = Type.AuthReq => EventOf(y) = a3
      /\ y.type = Type.AuthRej => EventOf(y) = a4
      /\ y.type = Type.AuthAcc => EventOf(y) = a5
      /\ y.type \in AutoReq => EventOf(y) = a6
      /\ y.type = Type.UserAdd => EventOf(y) = a7
      /\ y.type = Type.Contact => EventOf(y) = a8
      /\ y.type = Type.FT => EventOf(y) = a9
      /\ y.type = Type.EmailEx => EventOf(y) = a10
      /\ y.type = Type.WebPager => EventOf(y) = a11
  BY <1>1, KindsDiffer
<1>3. QED
  BY <1>2, Zenon DEF a1, a2, a3, a4, a5, a6, a7, a8, a9, a10, a11

LEMMA ToldBack ==
    ASSUME NEW e, IsEvent(e), NEW st, NEW t, NEW F, NEW N, Wires(e, st, t, F, N), e.kind # "AwayMessage",
           NEW y, y.type = t, y.fields = F, y.numbers = N
    PROVE  ICQSubTypeToEvent(y) = EventRec(e.kind, e.texts, e.granted, y.urgent, y.tolist, e.size, 0)
<1>0. IsText(e) /\ (e.kind # "FileTransfer" => e.size = 0) /\ (e.kind # "AuthAck" => e.granted = FALSE)
  BY DEF IsEvent
<1> SUFFICES EventOf(y) = EventRec(e.kind, e.texts, e.granted, FALSE, FALSE, e.size, 0)
  BY EventIs
<1>1. CASE e.kind = "Normal" /\ t = Type.Normal /\ F = e.texts
  <2>1. F \in Seq(Bytes) /\ Len(F) = 1
    BY <1>0, <1>1 DEF IsText
  <2>2. PICK a \in Bytes : F = <<a>>
    BY <2>1, Texts1
  <2>3. y.fields[1] = a
    BY <2>2
  <2>4. EventOf(y) = MessageEvent("Normal", <<a>>)
    BY <1>1, <2>3, EventArms, Zenon DEF NormalMessageEvent
  <2>5. e.granted = FALSE /\ e.size = 0
    BY <1>0, <1>1
  <2>6. QED
    BY <1>1, <2>2, <2>4, <2>5, EventsAre, Zenon
<1>2. CASE e.kind = "URL" /\ t = Type.URL /\ F = e.texts
  <2>1. F \in Seq(Clean) /\ Len(F) = 2
    BY <1>0, <1>2 DEF IsText
  <2>2. PICK a \in Clean, b \in Clean : F = <<a, b>>
    BY <2>1, Texts2
  <2>3. y.fields[1] = a /\ y.fields[2] = b
    BY <2>2
  <2>4. EventOf(y) = MessageEvent("URL", <<a, b>>)
    BY <1>2, <2>3, EventArms, Zenon DEF URLMessageEvent
  <2>5. e.granted = FALSE /\ e.size = 0
    BY <1>0, <1>2
  <2>6. QED
    BY <1>2, <2>2, <2>4, <2>5, EventsAre, Zenon
<1>3. CASE e.kind = "FileTransfer" /\ t = Type.FT /\ F = e.texts /\ N = <<0, 0, e.size>>
  <2>1. F \in Seq(Short) /\ Len(F) = 2
    BY <1>0, <1>3 DEF IsText
  <2>2. PICK a \in Short, b \in Short : F = <<a, b>>
    BY <2>1, Texts2
  <2>3. y.fields[1] = a /\ y.fields[2] = b /\ y.numbers[3] = e.size
    BY <1>3, <2>2
  <2>4. EventOf(y) = FileTransferEvent(a, b, e.size)
    BY <1>3, <2>3, EventArms, Zenon
  <2>5. FileTransferEvent(a, b, e.size) = Sizing(MessageEvent("FileTransfer", <<a, b>>), e.size)
    BY Zenon DEF FileTransferEvent, Sizing
  <2>6. e.granted = FALSE
    BY <1>0, <1>3
  <2>7. PICK T, z : T = <<a, b>> /\ z = e.size
    OBVIOUS
  <2>8. Sizing(MessageEvent("FileTransfer", T), z) = EventRec("FileTransfer", T, FALSE, FALSE, FALSE, z, 0)
    BY EventsMade
  <2>9. EventOf(y) = EventRec("FileTransfer", T, FALSE, FALSE, FALSE, z, 0)
    BY <2>4, <2>5, <2>7, <2>8, Zenon
  <2>10. e.texts = T
    BY <1>3, <2>2, <2>7, Zenon
  <2>11. QED
    BY <1>3, <2>6, <2>7, <2>9, <2>10
<1>4. CASE e.kind = "AuthReq" /\ t = Type.AuthReq /\ F = Profile \o e.texts
  <2>1. e.texts \in Seq(Clean) /\ Len(e.texts) = 1
    BY <1>0, <1>4 DEF IsText
  <2>2. PICK a \in Clean : e.texts = <<a>>
    BY <2>1, Texts1
  <2>3. y.fields[6] = a
    <3>1. F[6] = e.texts[1]
      BY <1>4, <2>1, ProfileTexts, Zenon
    <3>2. e.texts[1] = a
      BY <2>2
    <3>3. QED
      BY <3>1, <3>2
  <2>4. EventOf(y) = MessageEvent("AuthReq", <<a>>)
    BY <1>4, <2>3, EventArms, Zenon DEF AuthReqEvent
  <2>5. e.granted = FALSE /\ e.size = 0
    BY <1>0, <1>4
  <2>6. QED
    BY <1>4, <2>2, <2>4, <2>5, EventsAre, Zenon
<1>5. CASE e.kind = "AuthAck" /\ e.granted = TRUE /\ t = Type.AuthAcc /\ F = <<>>
  <2>1. e.texts = << <<>> >> /\ e.size = 0
    BY <1>5 DEF IsEvent
  <2>2. EventOf(y) = Granting(MessageEvent("AuthAck", << <<>> >>), TRUE)
    BY <1>5, EventArms, Zenon DEF AuthAckEvent, Granting
  <2>3. PICK T, g : T = << <<>> >> /\ g = TRUE
    OBVIOUS
  <2>4. Granting(MessageEvent("AuthAck", T), g) = EventRec("AuthAck", T, g, FALSE, FALSE, 0, 0)
    BY EventsMade
  <2>5. EventOf(y) = EventRec("AuthAck", T, g, FALSE, FALSE, 0, 0)
    BY <2>2, <2>3, <2>4
  <2>6. QED
    BY <1>5, <2>1, <2>3, <2>5
<1>6. CASE e.kind = "AuthAck" /\ e.granted = FALSE /\ t = Type.AuthRej /\ F = e.texts
  <2>1. F \in Seq(Bytes) /\ Len(F) = 1
    BY <1>0, <1>6 DEF IsText
  <2>2. PICK a \in Bytes : F = <<a>>
    BY <2>1, Texts1
  <2>3. y.fields[1] = a
    BY <2>2
  <2>4. EventOf(y) = Granting(MessageEvent("AuthAck", <<a>>), FALSE)
    BY <1>6, <2>3, EventArms, Zenon DEF AuthAckEvent, Granting
  <2>5. e.size = 0
    BY <1>0, <1>6
  <2>6. PICK T, g : T = <<a>> /\ g = FALSE
    OBVIOUS
  <2>7. Granting(MessageEvent("AuthAck", T), g) = EventRec("AuthAck", T, g, FALSE, FALSE, 0, 0)
    BY EventsMade
  <2>8. EventOf(y) = EventRec("AuthAck", T, g, FALSE, FALSE, 0, 0)
    BY <2>4, <2>6, <2>7
  <2>9. e.texts = T
    BY <1>6, <2>2, <2>6, Zenon
  <2>10. QED
    BY <1>6, <2>5, <2>6, <2>8, <2>9
<1>7. CASE e.kind = "UserAdd" /\ t = Type.UserAdd
  <2>1. EventOf(y) = MessageEvent("UserAdd", <<>>)
    BY <1>7, EventArms, Zenon DEF UserAddEvent
  <2>2. e.texts = <<>> /\ e.granted = FALSE /\ e.size = 0
    BY <1>0, <1>7 DEF IsText
  <2>3. QED
    BY <1>7, <2>1, <2>2, EventsAre, Zenon
<1>8. CASE e.kind = "Contacts" /\ t = Type.Contact /\ F = e.texts
  <2>1. EventOf(y) = MessageEvent("Contacts", e.texts)
    BY <1>8, EventArms, Zenon DEF ContactMessageEvent
  <2>2. e.granted = FALSE /\ e.size = 0
    BY <1>0, <1>8
  <2>3. QED
    BY <1>8, <2>1, <2>2, EventsAre, Zenon
<1>9. QED
  BY <1>1, <1>2, <1>3, <1>4, <1>5, <1>6, <1>7, <1>8 DEF Wires

-----------------------------------------------------------------------------
(* Statuses: their numbers, and back.                                        *)
FlagSum(a, b, c, e, f, g) == a + 2 * b + 4 * c + 16 * e + 32 * f + 256 * g
FlagBits(n, a, b, c, e, f, g) ==
    /\ n \in Nat /\ n < 65536
    /\ (n \div 1) % 2 = a /\ (n \div 2) % 2 = b /\ (n \div 4) % 2 = c
    /\ (n \div 16) % 2 = e /\ (n \div 32) % 2 = f /\ (n \div 256) % 2 = g

LEMMA FlagsSum ==
    ASSUME NEW a \in Binary, NEW b \in Binary, NEW c \in Binary, NEW e \in Binary, NEW f \in Binary, NEW g \in Binary,
           NEW n, n = FlagSum(a, b, c, e, f, g)
    PROVE  FlagBits(n, a, b, c, e, f, g)
<1>1. n \in Nat /\ n < 65536 /\ a \in {0, 1} /\ b \in {0, 1} /\ c \in {0, 1} /\ e \in {0, 1} /\ f \in {0, 1} /\ g \in {0, 1}
  BY DEF Binary, FlagSum
<1>2. (n \div 1) % 2 = a
  BY <1>1 DEF FlagSum
<1>3. (n \div 2) % 2 = b
  BY <1>1 DEF FlagSum
<1>4. (n \div 4) % 2 = c
  BY <1>1 DEF FlagSum
<1>5. (n \div 16) % 2 = e
  BY <1>1 DEF FlagSum
<1>6. (n \div 32) % 2 = f
  BY <1>1 DEF FlagSum
<1>7. (n \div 256) % 2 = g
  BY <1>1 DEF FlagSum
<1>8. QED
  BY <1>1, <1>2, <1>3, <1>4, <1>5, <1>6, <1>7 DEF FlagBits

LEMMA FlagsBack ==
    ASSUME NEW s
    PROVE  /\ Number(s) \in Word2
           /\ \A f \in Flags : f \in FlagsOf(Number(s)) <=> f \in s
<1> DEFINE bit(f) == IF f \in s THEN 1 ELSE 0
           n == Number(s)
<1>1. n = FlagSum(bit(1), bit(2), bit(4), bit(16), bit(32), bit(256))
  BY DEF Number, FlagSum
<1>2. PICK a, b, c, e, f, g : a = bit(1) /\ b = bit(2) /\ c = bit(4) /\ e = bit(16) /\ f = bit(32) /\ g = bit(256)
  OBVIOUS
<1>3. a \in Binary /\ b \in Binary /\ c \in Binary /\ e \in Binary /\ f \in Binary /\ g \in Binary
  BY <1>2 DEF Binary
<1>0. n = FlagSum(a, b, c, e, f, g)
  <2> HIDE DEF bit, n
  <2>1. QED
    BY <1>1, <1>2, Zenon
<1>4. FlagBits(n, a, b, c, e, f, g)
  <2> HIDE DEF n
  <2>1. QED
    BY <1>0, <1>3, FlagsSum, Zenon
<1> HIDE DEF n
<1>5. \A h \in Flags : (n \div h) % 2 = bit(h)
  BY <1>2, <1>4 DEF Flags, FlagBits
<1>6. \A h \in Flags : h \in FlagsOf(n) <=> h \in s
  BY <1>5 DEF FlagsOf
<1>7. n \in Word2
  BY <1>4 DEF Word2, FlagBits
<1>8. QED
  BY <1>6, <1>7 DEF n

StatusNumber(me) == Number(MapStatusToICQStatus(me.status, me.invisible))
Known(me) == me.status \in Shown /\ me.invisible \in BOOLEAN

LEMMA StatusRead ==
    ASSUME NEW me, Known(me)
    PROVE  /\ StatusNumber(me) \in Word2
           /\ MapICQStatusToStatus(FlagsOf(StatusNumber(me))) = me.status
           /\ MapICQStatusToInvisible(FlagsOf(StatusNumber(me))) = me.invisible
<1> DEFINE s == MapStatusToICQStatus(me.status, me.invisible)
           t == FlagsOf(StatusNumber(me))
<1>1. StatusNumber(me) \in Word2 /\ \A f \in Flags : f \in t <=> f \in s
  <2> HIDE DEF s
  <2>1. StatusNumber(me) = Number(s)
    BY Zenon DEF StatusNumber, s
  <2>2. QED
    BY <2>1, FlagsBack, Zenon
<1> HIDE DEF t
<1>2. /\ 1 \in t <=> 1 \in s
      /\ 2 \in t <=> 2 \in s
      /\ 4 \in t <=> 4 \in s
      /\ 16 \in t <=> 16 \in s
      /\ 32 \in t <=> 32 \in s
      /\ 256 \in t <=> 256 \in s
  <2> HIDE DEF s
  <2>1. QED
    BY <1>1 DEF Flags
<1>3. me.status \in Shown /\ me.invisible \in BOOLEAN
  BY DEF Known
<1>4. MapICQStatusToInvisible(t) = me.invisible
  <2>1. 256 \in s <=> me.invisible
    BY DEF MapStatusToICQStatus
  <2> HIDE DEF s
  <2>2. QED
    BY <1>2, <1>3, <2>1 DEF MapICQStatusToInvisible
<1>5. MapICQStatusToStatus(t) = me.status
  <2>1. CASE me.status = "ONLINE"
    BY <1>2, <2>1 DEF MapStatusToICQStatus, MapICQStatusToStatus
  <2>2. CASE me.status = "AWAY"
    BY <1>2, <2>2 DEF MapStatusToICQStatus, MapICQStatusToStatus
  <2>3. CASE me.status = "NA"
    BY <1>2, <2>3 DEF MapStatusToICQStatus, MapICQStatusToStatus
  <2>4. CASE me.status = "OCCUPIED"
    BY <1>2, <2>4 DEF MapStatusToICQStatus, MapICQStatusToStatus
  <2>5. CASE me.status = "DND"
    BY <1>2, <2>5 DEF MapStatusToICQStatus, MapICQStatusToStatus
  <2>6. CASE me.status = "FREEFORCHAT"
    BY <1>2, <2>6 DEF MapStatusToICQStatus, MapICQStatusToStatus
  <2>7. QED
    BY <1>3, <2>1, <2>2, <2>3, <2>4, <2>5, <2>6 DEF Shown
<1>6. QED
  BY <1>1, <1>4, <1>5 DEF t

\* What A sends.
AddressedTo(x, a, b, c, d) == [x EXCEPT !.status = a, !.dest = b, !.source = c, !.seq = d]
OutOf(e, me) == AddressedTo(EventToUINICQSubType(e, me.contact), StatusNumber(me), UIN.B, UIN.A, SeqNum)
IsOut(x, e, me, t, F, N) ==
    x = Sub(t, F, N, StatusNumber(me), e.urgent, e.tolist, FALSE, FALSE, <<>>, SeqNum, UIN.A, UIN.B)

LEMMA Addressed ==
    ASSUME NEW x, NEW t, NEW F, NEW N, NEW s, NEW u, NEW l, NEW adv, NEW ack, NEW w, NEW q, NEW from, NEW to,
           x = Sub(t, F, N, s, u, l, adv, ack, w, q, from, to), NEW a, NEW b, NEW c, NEW d
    PROVE  AddressedTo(x, a, b, c, d) = Sub(t, F, N, a, u, l, adv, ack, w, d, c, b)
<1>1. AddressedTo(x, a, b, c, d) =
      [[[[x EXCEPT !.status = a] EXCEPT !.dest = b] EXCEPT !.source = c] EXCEPT !.seq = d]
  BY DEF AddressedTo
<1>2. PICK y : y = [x EXCEPT !.status = a]
  OBVIOUS
<1>3. y = Sub(t, F, N, a, u, l, adv, ack, w, q, from, to)
  BY <1>2 DEF Sub
<1>4. PICK z : z = [y EXCEPT !.dest = b]
  OBVIOUS
<1>5. z = Sub(t, F, N, a, u, l, adv, ack, w, q, from, b)
  BY <1>3, <1>4 DEF Sub
<1>6. PICK v : v = [z EXCEPT !.source = c]
  OBVIOUS
<1>7. v = Sub(t, F, N, a, u, l, adv, ack, w, q, c, b)
  BY <1>5, <1>6 DEF Sub
<1>8. [v EXCEPT !.seq = d] = Sub(t, F, N, a, u, l, adv, ack, w, d, c, b)
  BY <1>7 DEF Sub
<1>9. QED
  BY <1>1, <1>2, <1>4, <1>6, <1>8

LEMMA OutIs ==
    ASSUME NEW e, Sendable(e), e.granted \in BOOLEAN, NEW me
    PROVE  \E t, F, N : Wires(e, me.contact, t, F, N) /\ IsOut(OutOf(e, me), e, me, t, F, N)
<1>1. PICK t, F, N : Wires(e, me.contact, t, F, N) /\ Kinded(e, me.contact, t, F, N)
  BY SentLike
<1>2. PICK x, no, em, o : x = EventToUINICQSubType(e, me.contact) /\ no = FALSE /\ em = <<>> /\ o = 0
  OBVIOUS
<1>3. x = Sub(t, F, N, o, e.urgent, e.tolist, no, no, em, o, o, o)
  BY <1>1, <1>2 DEF Kinded
<1>4. PICK a, b, c, d : a = StatusNumber(me) /\ b = UIN.B /\ c = UIN.A /\ d = SeqNum
  OBVIOUS
<1>5. AddressedTo(x, a, b, c, d) = Sub(t, F, N, a, e.urgent, e.tolist, no, no, em, d, c, b)
  <2>1. PICK y : y = Sub(t, F, N, o, e.urgent, e.tolist, no, no, em, o, o, o)
    OBVIOUS
  <2>2. AddressedTo(y, a, b, c, d) = Sub(t, F, N, a, e.urgent, e.tolist, no, no, em, d, c, b)
    BY <2>1, Addressed
  <2>3. QED
    BY <1>3, <2>1, <2>2, Zenon
<1>6. OutOf(e, me) = AddressedTo(x, a, b, c, d)
  BY <1>2, <1>4, Zenon DEF OutOf
<1>7. OutOf(e, me) = Sub(t, F, N, StatusNumber(me), e.urgent, e.tolist, FALSE, FALSE, <<>>, SeqNum, UIN.A, UIN.B)
  BY <1>2, <1>4, <1>5, <1>6, Zenon
<1>8. IsOut(OutOf(e, me), e, me, t, F, N)
  BY <1>7, Zenon DEF IsOut
<1>9. QED
  BY <1>1, <1>8, Zenon

-----------------------------------------------------------------------------
(* What B is to read of A's event: advanced, or not.                         *)
AdvancedOf(x) == [x EXCEPT !.advanced = TRUE]
AdvancedIn(e, me, t, F, N) ==
    Sub(t, F, N, StatusNumber(me), e.urgent /\ ~e.tolist, e.tolist, TRUE, FALSE, <<>>, SeqNum, UIN.A, 0)
PlainIn(t, F, from) == Sub(t, F, None, 0, FALSE, FALSE, FALSE, FALSE, <<>>, 0, from, 0)

LEMMA UINsAre == IsUIN(UIN.A) /\ IsUIN(UIN.B) /\ IsUIN(UIN.magic) /\ UIN.A \in Word4 /\ UIN.magic \in Word4
  BY SMT DEF UIN, IsUIN, Word4

LEMMA SeqNumIs == SeqNum \in Word2
  BY SMT DEF SeqNum, Word2

\* Between what was written and what is read is the name of the sender.
LEMMA FromIs ==
    ASSUME NEW t, NEW F, NEW N, NEW s, NEW u, NEW l, NEW adv, NEW ack, NEW w, NEW q, NEW from, NEW to,
           t # 0, NEW uin
    PROVE  From(Sub(t, F, N, s, u, l, adv, ack, w, q, from, to), uin) =
               Sub(t, F, N, s, u, l, adv, ack, w, q, uin, to)
<1>1. PICK x : x = Sub(t, F, N, s, u, l, adv, ack, w, q, from, to)
  OBVIOUS
<1>2. x # NoSubtype
  BY <1>1, SubIs
<1>3. From(x, uin) = [x EXCEPT !.source = uin]
  BY <1>2, Zenon DEF From
<1>4. [x EXCEPT !.source = uin] = Sub(t, F, N, s, u, l, adv, ack, w, q, uin, to)
  BY <1>1 DEF Sub
<1>5. QED
  BY <1>1, <1>3, <1>4, Zenon

LEMMA NumberedAs ==
    ASSUME NEW t, NEW F, NEW N, NEW s, NEW u, NEW l, NEW adv, NEW ack, NEW w, NEW q, NEW from, NEW to,
           NEW y
    PROVE  WithSeq(Sub(t, F, N, s, u, l, adv, ack, w, q, from, to), y) =
               Sub(t, F, N, s, u, l, adv, ack, w, y, from, to)
  BY DEF WithSeq, Sub

LEMMA WiredType ==
    ASSUME NEW e, NEW st, NEW t, NEW F, NEW N, Wires(e, st, t, F, N)
    PROVE  /\ t \in Types /\ t # 0
           /\ t = Type.FT <=> e.kind = "FileTransfer"
           /\ t \in AutoReq <=> e.kind = "AwayMessage"
           /\ t \notin {Type.EmailEx, Type.WebPager}
           /\ e.kind # "FileTransfer" => N = None
           /\ e.kind = "FileTransfer" => F = e.texts /\ N = <<0, 0, e.size>>
<1>1. AwayType(st) \in AutoReq
  BY AwayTypes
<1>2. Types = {1, 3, 4, 6, 7, 8, 12, 13, 14, 19, 232, 233, 234, 235, 236}
  BY DEF Types, Type
<1>3. QED
  BY <1>1, <1>2, KindsDiffer DEF Wires

LEMMA MessageHeld ==
    ASSUME NEW e, IsEvent(e), Sendable(e), NEW me, Known(me), NEW t, NEW F, NEW N, Wires(e, me.contact, t, F, N),
           NEW x, IsOut(x, e, me, t, F, N), NEW y, y = AdvancedOf(x)
    PROVE  /\ y.advanced = TRUE /\ y.seq = SeqNum /\ y.dest = UIN.B /\ Within(Output(y), 26)
           /\ \E j : /\ HoldsMessage(Output(y), j) /\ j # NoSubtype
                     /\ From(WithSeq(j, SeqNum), UIN.A) = AdvancedIn(e, me, t, F, N)
<1>1. PICK yes, no, em, s : yes = TRUE /\ no = FALSE /\ em = <<>> /\ s = StatusNumber(me)
  OBVIOUS
<1>2. x = Sub(t, F, N, s, e.urgent, e.tolist, no, no, em, SeqNum, UIN.A, UIN.B)
  BY <1>1, Zenon DEF IsOut
<1>3. y = Sub(t, F, N, s, e.urgent, e.tolist, yes, no, em, SeqNum, UIN.A, UIN.B)
  BY <1>1, <1>2 DEF Sub, AdvancedOf
<1>4. /\ y.type = t /\ y.fields = F /\ y.numbers = N /\ y.status = s /\ y.urgent = e.urgent /\ y.tolist = e.tolist
      /\ y.advanced = yes /\ y.ack = no /\ y.away = em /\ y.seq = SeqNum /\ y.source = UIN.A /\ y.dest = UIN.B
  BY <1>3, SubIs
<1>5. s \in Word2
  BY <1>1, StatusRead
<1>6. Booleans(y)
  BY <1>1, <1>4 DEF Booleans, IsEvent
<1>7. t \in Types /\ t # 0 /\ (t = Type.FT <=> e.kind = "FileTransfer")
  BY WiredType
<1>8. /\ Within(Output(y), 26) /\ Holds(Output(y), y.advanced, y.ack, ReadBack(y, F, N, em))
  <2>1. CASE e.kind = "FileTransfer"
    <3>1. F = e.texts /\ N = <<0, 0, e.size>> /\ t = Type.FT
      BY <2>1, WiredType
    <3>2. e.texts \in Seq(Short) /\ Len(e.texts) = 2 /\ Len(e.texts[1] \o e.texts[2]) <= Limit /\ e.size \in Word4
      BY <2>1, Zenon DEF IsEvent, IsText
    <3>3. PICK a, c \in Short : e.texts = <<a, c>>
      BY <3>2, Texts2
    <3>4. Within(Join(a, c), 0)
      <4>1. a \in Bytes /\ c \in Bytes
        BY ShortIs
      <4>2. Join(a, c) \in Bytes
        BY <4>1, Written
      <4>3. Join(a, c) = e.texts[1] \o e.texts[2]
        <5>1. e.texts[1] = a /\ e.texts[2] = c
          BY <3>3
        <5>2. QED
          BY <5>1, Zenon DEF Join
      <4>4. Len(Join(a, c)) <= Limit + 0
        <5>1. PICK k : k = Len(Join(a, c)) /\ k <= Limit
          BY <3>2, <4>3, Zenon
        <5>2. k + 0 <= Limit + 0 /\ k \in Nat
          <6>1. k \in Nat
            BY <4>2, <5>1, BytesType
          <6>2. QED
            BY <5>1, <6>1, SMT DEF Limit
        <5>3. k <= Limit + 0
          BY <5>2, SMT DEF Limit
        <5>4. QED
          BY <5>1, <5>3, Zenon
      <4>5. QED
        BY <4>2, <4>4 DEF Within
    <3>5. PICK o : o = 0 /\ o \in Word2
      BY SMT DEF Word2
    <3>6. y.type = Type.FT /\ y.fields = <<a, c>> /\ y.numbers = <<o, o, e.size>> /\ y.advanced = TRUE /\ y.status \in Word2
      BY <1>1, <1>4, <1>5, <3>1, <3>3, <3>5
    <3>7. Holds(Output(y), y.advanced, y.ack, ReadBack(y, <<a, c>>, <<o, o, e.size>>, <<>>)) /\ Within(Output(y), 26)
      BY <1>6, <3>2, <3>4, <3>5, <3>6, FileHolds
    <3>8. QED
      BY <1>1, <3>1, <3>3, <3>5, <3>7
  <2>2. CASE e.kind # "FileTransfer"
    <3>1. IsText(e) /\ e.granted \in BOOLEAN
      BY DEF IsEvent
    <3>2. Says(t, F) /\ TextOf(t, F) \in Short
      BY <2>2, <3>1, SaysIt, TextShort
    <3>3. Body(y, TextOf(t, F))
      BY <1>1, <1>4, <1>7, <2>2, <3>2, GivesBody
    <3>4. Fields(t, TextOf(t, F)) = F
      BY <3>2, TextRead
    <3>5. y.type \in Types /\ y.type # Type.FT /\ y.advanced = TRUE /\ y.status \in Word2 /\ ~y.ack
          /\ Fields(y.type, TextOf(t, F)) = F
      BY <1>1, <1>4, <1>5, <1>7, <2>2, <3>4
    <3>6. /\ Holds(Output(y), y.advanced, y.ack, ReadBack(y, F, None, IF y.ack THEN TextOf(t, F) ELSE <<>>))
          /\ Within(Output(y), 17)
      BY <1>6, <3>3, <3>5, AdvancedText
    <3>7. (IF y.ack THEN TextOf(t, F) ELSE <<>>) = em /\ N = None
      BY <1>1, <2>2, <3>5, WiredType
    <3>8. Within(Output(y), 26)
      <4>1. PICK k : k = Len(Output(y)) /\ k <= Limit + 17
        BY <3>6, Zenon DEF Within
      <4>2. Output(y) \in Bytes
        BY <3>6, Zenon DEF Within
      <4>3. k \in Nat
        BY <4>1, <4>2, BytesType
      <4>4. k <= Limit + 26
        BY <4>1, <4>3, SMT DEF Limit
      <4>5. QED
        BY <4>1, <4>2, <4>4, Zenon DEF Within
    <3>9. QED
      BY <3>6, <3>7, <3>8, Zenon
  <2>3. QED
    BY <2>1, <2>2
<1> DEFINE j == ReadBack(y, F, N, em)
<1>9. HoldsMessage(Output(y), j)
  BY <1>1, <1>4, <1>8, Zenon DEF HoldsMessage
<1>10. PICK u, l, o : u = (e.urgent /\ ~e.tolist) /\ l = e.tolist /\ o = 0 /\ u = Urgent(y) /\ l = ToList(y)
  <2>1. Urgent(y) = (e.urgent /\ ~e.tolist) /\ ToList(y) = e.tolist
    <3>1. e.urgent \in BOOLEAN /\ e.tolist \in BOOLEAN
      BY DEF IsEvent
    <3>2. QED
      BY <1>1, <1>4, <3>1 DEF Urgent, ToList
  <2>2. QED
    BY <2>1
<1>11. j = Sub(t, F, N, s, u, l, yes, no, em, o, o, o)
  BY <1>4, <1>10, Zenon DEF ReadBack
<1>12. j # NoSubtype
  BY <1>7, <1>11, SubIs
<1>13. From(WithSeq(j, SeqNum), UIN.A) = AdvancedIn(e, me, t, F, N)
  <2> HIDE DEF j
  <2>1. WithSeq(j, SeqNum) = Sub(t, F, N, s, u, l, yes, no, em, SeqNum, o, o)
    <3>1. WithSeq(Sub(t, F, N, s, u, l, yes, no, em, o, o, o), SeqNum) = Sub(t, F, N, s, u, l, yes, no, em, SeqNum, o, o)
      BY NumberedAs
    <3>2. QED
      BY <1>11, <3>1, Zenon
  <2>2. From(Sub(t, F, N, s, u, l, yes, no, em, SeqNum, o, o), UIN.A) = Sub(t, F, N, s, u, l, yes, no, em, SeqNum, UIN.A, o)
    BY <1>7, FromIs
  <2>3. AdvancedIn(e, me, t, F, N) = Sub(t, F, N, s, u, l, yes, no, em, SeqNum, UIN.A, o)
    BY <1>1, <1>10, Zenon DEF AdvancedIn
  <2>4. QED
    BY <2>1, <2>2, <2>3, Zenon
<1>14. QED
  BY <1>1, <1>4, <1>8, <1>9, <1>12, <1>13, Zenon

LEMMA ReadFrom ==
    ASSUME NEW t, t # 0, NEW F, NEW uin
    PROVE  /\ AsRead(t, F, None, 0, FALSE, FALSE, <<>>) # NoSubtype
           /\ From(AsRead(t, F, None, 0, FALSE, FALSE, <<>>), uin) = PlainIn(t, F, uin)
<1>1. PICK no, em, o, j : no = FALSE /\ em = <<>> /\ o = 0 /\ j = Sub(t, F, None, o, no, no, no, no, em, o, o, o)
  OBVIOUS
<1>2. j = AsRead(t, F, None, 0, FALSE, FALSE, <<>>)
  BY <1>1, Zenon DEF AsRead
<1>3. j # NoSubtype
  BY <1>1, SubIs
<1>4. From(Sub(t, F, None, o, no, no, no, no, em, o, o, o), uin) = Sub(t, F, None, o, no, no, no, no, em, o, uin, o)
  BY FromIs
<1>5. PlainIn(t, F, uin) = Sub(t, F, None, o, no, no, no, no, em, o, uin, o)
  BY <1>1, Zenon DEF PlainIn
<1>6. QED
  BY <1>1, <1>2, <1>3, <1>4, <1>5, Zenon

LEMMA PlainHeld ==
    ASSUME NEW x, NEW t, NEW F, x.type = t, x.fields = F, x.advanced = FALSE, x.ack = FALSE, Says(t, F), TextOf(t, F) \in Short
    PROVE  /\ Within(Output(x), 17)
           /\ \E j : HoldsNormal(Output(x), j) /\ \A uin : From(j, uin) = PlainIn(t, F, uin)
<1>1. t \in Types /\ t # Type.FT /\ t # 0
  BY SaysType
<1>2. PICK a : a = TextOf(t, F) /\ Fields(t, a) = F
  BY TextRead
<1>3. Body(x, a)
  <2>1. Body(x, TextOf(t, F))
    BY <1>1, GivesBody
  <2>2. QED
    BY <1>2, <2>1
<1>4. /\ Holds(Output(x), FALSE, FALSE, AsRead(x.type, F, None, 0, FALSE, FALSE, <<>>))
      /\ Within(Output(x), 17)
  BY <1>1, <1>2, <1>3, PlainText
<1>5. HoldsNormal(Output(x), AsRead(t, F, None, 0, FALSE, FALSE, <<>>))
  BY <1>4, Zenon DEF HoldsNormal
<1>6. \A uin : From(AsRead(t, F, None, 0, FALSE, FALSE, <<>>), uin) = PlainIn(t, F, uin)
  BY <1>1, ReadFrom
<1>7. QED
  BY <1>4, <1>5, <1>6, Zenon

\* A request to the server, and what comes of it: what B is told of at once, or later.
Relay(c, ch, uin, rest) == FLAP(4, 7, RelayBody(c, ch, uin, rest))
Carried(b, ist) ==
    \E ch, rest :
        /\ ch \in {1, 4} /\ Sends(b, Cookie(0), ch, UIN.B, rest)
        /\ Arrives(Relay(Cookie(0), ch, UIN.A, rest), 0, ist)
        /\ Stored(FLAP(21, 3, SrvResponse(Offline(UIN.A, ch, rest))), 65, ist)

LEMMA NormalCarried ==
    ASSUME NEW e, IsEvent(e), Sendable(e), e.kind \notin {"FileTransfer", "AwayMessage", "Contacts"},
           NEW me, NEW t, NEW F, NEW N, Wires(e, me.contact, t, F, N),
           NEW x, IsOut(x, e, me, t, F, N)
    PROVE  Carried(MsgSend(x, 0), PlainIn(t, F, UIN.A))
<1>1. PICK no, em, s, n : no = FALSE /\ em = <<>> /\ s = StatusNumber(me) /\ n = 0 /\ n \in Word4
  BY Fixed
<1>2. x = Sub(t, F, N, s, e.urgent, e.tolist, no, no, em, SeqNum, UIN.A, UIN.B)
  BY <1>1, Zenon DEF IsOut
<1>3. /\ x.type = t /\ x.fields = F /\ x.advanced = FALSE /\ x.ack = FALSE /\ x.source = UIN.A /\ x.dest = UIN.B
  BY <1>1, <1>2, SubIs
<1>4. Says(t, F) /\ TextOf(t, F) \in Short
  <2>1. IsText(e) /\ e.granted \in BOOLEAN
    BY DEF IsEvent
  <2>2. QED
    BY <2>1, SaysIt, TextShort
<1>5. PICK j : HoldsNormal(Output(x), j) /\ From(j, UIN.A) = PlainIn(t, F, UIN.A) /\ Within(Output(x), 17)
  BY <1>3, <1>4, PlainHeld, ZenonT(60)
<1>6. t = Type.Normal \/ t \in OnChannel4
  BY DEF Wires, OnChannel4, Sendable
<1>7. CASE t = Type.Normal
  <2>1. PICK msg \in Bytes : F = <<msg>>
    BY <1>4, <1>7, KindsDiffer DEF Says
  <2>2. TextOf(t, F) = msg
    <3>1. Subtype(t, F).type = t /\ Subtype(t, F).fields = F
      BY DEF Subtype
    <3>2. PICK z : z = Subtype(t, F)
      OBVIOUS
    <3>3. Text(z) = z.fields[1]
      BY <1>7, <3>1, <3>2, KindsDiffer DEF Text
    <3>4. QED
      BY <2>1, <3>1, <3>2, <3>3 DEF TextOf
  <2>3. msg \in Short
    BY <1>4, <2>2
  <2>4. PICK m \in Word2 : Sends(MsgSend(x, n), Cookie(n), 1, x.dest, TextRest(m, msg))
    BY <1>1, <1>3, <1>7, <2>1, <2>3, UINsAre, TextSent
  <2>5. PICK rest, f : rest = TextRest(m, msg) /\ f = Relay(Cookie(n), 1, UIN.A, rest)
    OBVIOUS
  <2>6. Arrives(f, n, From(Subtype(Type.Normal, <<msg>>), UIN.A))
    <3>1. f = FLAP(4, 7, RelayBody(Cookie(n), 1, UIN.A, TextRest(m, msg)))
      BY <2>5, Zenon DEF Relay
    <3>2. QED
      BY <1>1, <2>3, <3>1, UINsAre, TextArrives
  <2>7. PICK z : z = Subtype(Type.Normal, <<msg>>)
    OBVIOUS
  <2>8. z.type = t /\ z.fields = F /\ z.advanced = FALSE /\ z.ack = FALSE
    BY <1>7, <2>1, <2>7 DEF Subtype
  <2>9. PICK k : HoldsNormal(Output(z), k) /\ From(k, UIN.A) = PlainIn(t, F, UIN.A) /\ Within(Output(z), 17)
    BY <1>4, <2>8, PlainHeld
  <2>10. From(z, UIN.A) = PlainIn(t, F, UIN.A)
    <3>1. z = AsRead(t, F, None, 0, FALSE, FALSE, <<>>)
      BY <1>7, <2>1, <2>7, SubNew, Zenon DEF AsRead
    <3>2. t # 0
      BY <1>4, SaysType
    <3>3. QED
      BY <3>1, <3>2, ReadFrom
  <2>11. Offline(UIN.A, 1, rest) = StoredPart(UIN.A, Output(z))
    <3>1. KeptText(rest) = msg
      BY <2>3, <2>5, KeptTextIs
    <3>2. Offline(UIN.A, 1, rest) = StoredPart(UIN.A, Output(Subtype(Type.Normal, <<KeptText(rest)>>)))
      BY OfflineIs
    <3>3. QED
      BY <2>7, <3>1, <3>2, Zenon
  <2>12. Stored(FLAP(21, 3, SrvResponse(Offline(UIN.A, 1, rest))), 65, PlainIn(t, F, UIN.A))
    <3>1. PICK g : g = FLAP(21, 3, SrvResponse(StoredPart(UIN.A, Output(z))))
      OBVIOUS
    <3>2. Stored(g, 65, From(k, UIN.A))
      BY <2>9, <3>1, UINsAre, StoredArrives
    <3>3. QED
      BY <2>9, <2>11, <3>1, <3>2, Zenon
  <2>13. Sends(MsgSend(x, 0), Cookie(0), 1, UIN.B, rest) /\ Arrives(Relay(Cookie(0), 1, UIN.A, rest), 0, PlainIn(t, F, UIN.A))
    BY <1>1, <1>3, <2>4, <2>5, <2>6, <2>7, <2>10, Zenon
  <2>14. QED
    BY <2>12, <2>13, Zenon DEF Carried
<1>8. CASE t \in OnChannel4
  <2>1. UIN.A \in Word4 /\ IsUIN(UIN.B) /\ IsUIN(UIN.A)
    BY UINsAre
  <2>2. PICK m \in Word2 : /\ Sends(MsgSend(x, n), Cookie(n), 4, x.dest, DataRest(m, x.source, Output(x), LastTLV))
                           /\ m = Len(Output(x)) + 4
    BY <1>1, <1>3, <1>5, <1>8, <2>1, DataSent
  <2>3. PICK rest, f, y, o : rest = DataRest(m, UIN.A, o, y) /\ f = Relay(Cookie(n), 4, UIN.A, rest)
            /\ y = LastTLV /\ o = Output(x)
    OBVIOUS
  <2>4. Arrives(f, n, From(j, UIN.A))
    <3>1. f = FLAP(4, 7, RelayBody(Cookie(n), 4, UIN.A, DataRest(m, UIN.A, o, y)))
      BY <2>3, Zenon DEF Relay
    <3>2. QED
      BY <1>1, <1>5, <2>1, <2>3, <3>1, DataArrives
  <2>5. Offline(UIN.A, 4, rest) = StoredPart(UIN.A, Output(x))
    <3>1. KeptData(rest) = o
      BY <1>5, <2>1, <2>2, <2>3, KeptDataIs
    <3>2. Offline(UIN.A, 4, rest) = StoredPart(UIN.A, KeptData(rest))
      BY OfflineIs
    <3>3. QED
      BY <2>3, <3>1, <3>2, Zenon
  <2>6. Stored(FLAP(21, 3, SrvResponse(Offline(UIN.A, 4, rest))), 65, PlainIn(t, F, UIN.A))
    <3>1. PICK g : g = FLAP(21, 3, SrvResponse(StoredPart(UIN.A, Output(x))))
      OBVIOUS
    <3>2. Stored(g, 65, From(j, UIN.A))
      BY <1>5, <2>1, <3>1, StoredArrives
    <3>3. QED
      BY <1>5, <2>5, <3>1, <3>2, Zenon
  <2>7. Sends(MsgSend(x, 0), Cookie(0), 4, UIN.B, rest) /\ Arrives(Relay(Cookie(0), 4, UIN.A, rest), 0, PlainIn(t, F, UIN.A))
    BY <1>1, <1>3, <1>5, <2>2, <2>3, <2>4, Zenon
  <2>8. QED
    BY <2>6, <2>7, Zenon DEF Carried
<1>9. QED
  BY <1>6, <1>7, <1>8

\* Contacts have no channel.
LEMMA ContactsDropped ==
    ASSUME NEW e, e.kind = "Contacts", NEW me, NEW t, NEW F, NEW N, Wires(e, me.contact, t, F, N),
           NEW x, IsOut(x, e, me, t, F, N)
    PROVE  Read(Reader(MsgSend(x, 0)), <<Str(8), U16, ByteStr>>).v[2] = 6
<1>1. PICK no, em, s, n : no = FALSE /\ em = <<>> /\ s = StatusNumber(me) /\ n = 0 /\ n \in Word4
  BY Fixed
<1>2. x = Sub(t, F, N, s, e.urgent, e.tolist, no, no, em, SeqNum, UIN.A, UIN.B)
  BY <1>1, Zenon DEF IsOut
<1>3. x.type = t /\ x.advanced = FALSE
  BY <1>1, <1>2, SubIs
<1>4. t \notin OnChannel4 \cup {Type.Normal}
  BY KindsDiffer DEF Wires, OnChannel4
<1>5. MsgSend(x, n) = Cookie(n) \o EmptyArm
  BY <1>3, <1>4, SendArms
<1>6. IsCookie(Cookie(n))
  BY <1>1, CookieIs
<1>7. QED
  <2>1. PICK b : b = MsgSend(x, n)
    OBVIOUS
  <2>2. Read(Reader(b), <<Str(8), U16, ByteStr>>).v[2] = 6
    BY <1>5, <1>6, <2>1, EmptyRelayed
  <2>3. QED
    BY <1>1, <2>1, <2>2, Zenon

\* An advanced request, and what B is told of it.
AdvCarried(b, ist) ==
    \E rest : /\ Sends(b, Cookie(ICBMCookie), 2, UIN.B, rest)
              /\ Arrives(Relay(Cookie(ICBMCookie), 2, UIN.A, rest), ICBMCookie, ist)

LEMMA ICBMCookieIs == ICBMCookie \in Word4 /\ IsCookie(Cookie(ICBMCookie))
<1>1. ICBMCookie \in Word4
  BY SMT DEF ICBMCookie, Word4
<1>2. QED
  BY <1>1, CookieIs

LEMMA AdvancedCarried ==
    ASSUME NEW e, IsEvent(e), Sendable(e), NEW me, Known(me), NEW t, NEW F, NEW N, Wires(e, me.contact, t, F, N),
           NEW x, IsOut(x, e, me, t, F, N), NEW y, y = AdvancedOf(x)
    PROVE  AdvCarried(MsgSend(y, ICBMCookie), AdvancedIn(e, me, t, F, N))
<1>1. /\ y.advanced = TRUE /\ y.seq = SeqNum /\ y.dest = UIN.B /\ Within(Output(y), 26)
      /\ \E j : /\ HoldsMessage(Output(y), j) /\ j # NoSubtype
                /\ From(WithSeq(j, SeqNum), UIN.A) = AdvancedIn(e, me, t, F, N)
  BY MessageHeld, ZenonT(150)
<1>2. PICK j : /\ HoldsMessage(Output(y), j) /\ j # NoSubtype
               /\ From(WithSeq(j, SeqNum), UIN.A) = AdvancedIn(e, me, t, F, N)
  BY <1>1
<1>3. PICK n, q, o : n = ICBMCookie /\ q = SeqNum /\ o = Output(y) /\ n \in Word4 /\ q \in Word2
  BY ICBMCookieIs, SeqNumIs
<1>4. IsUIN(y.dest) /\ y.seq \in Word2 /\ IsUIN(UIN.A)
  BY <1>1, SeqNumIs, UINsAre
<1>5. PICK m \in Word2 : Sends(MsgSend(y, n), Cookie(n), 2, y.dest, AdvRest(m, Cookie(n), Join(Subsections(y.seq), Output(y))))
  BY <1>1, <1>3, <1>4, AdvSent
<1>6. PICK rest, f : rest = AdvRest(m, Cookie(n), Join(Subsections(q), o)) /\ f = Relay(Cookie(n), 2, UIN.A, rest)
  OBVIOUS
<1>7. f = FLAP(4, 7, RelayBody(Cookie(n), 2, UIN.A, AdvRest(m, Cookie(n), Join(Subsections(q), o))))
  BY <1>6, Zenon DEF Relay
<1>8. Within(o, 26) /\ HoldsMessage(o, j)
  BY <1>1, <1>2, <1>3
<1>9. Arrives(f, n, From(WithSeq(j, q), UIN.A))
  BY <1>2, <1>3, <1>4, <1>7, <1>8, AdvArrives
<1>10. Sends(MsgSend(y, ICBMCookie), Cookie(ICBMCookie), 2, UIN.B, rest)
  BY <1>1, <1>3, <1>5, <1>6, Zenon
<1>11. Arrives(Relay(Cookie(ICBMCookie), 2, UIN.A, rest), ICBMCookie, AdvancedIn(e, me, t, F, N))
  BY <1>2, <1>3, <1>6, <1>9, Zenon
<1>12. QED
  BY <1>10, <1>11, Zenon DEF AdvCarried

\* What the server sends on.
LEMMA RelayedAs ==
    ASSUME NEW c \in Bytes, NEW ch \in Word2, NEW u, IsUIN(u), NEW rest \in Bytes
    PROVE  FLAP(4, 7, c \o BE(ch, 2) \o UserInfo(u) \o rest) = Relay(c, ch, u, rest)
<1> DEFINE b == BE(ch, 2)
           i == UserInfo(u)
<1>1. b \in Bytes /\ i \in Bytes
  BY Written, UserInfoIs
<1> HIDE DEF b, i
<1>2. c \o b \o i \o rest = Join(Join(Join(c, b), i), rest)
  BY Zenon DEF Join
<1>3. Join(Join(Join(c, b), i), rest) = Join(c, Join(b, Join(i, rest)))
  BY <1>1, Flat3
<1>4. c \o b \o i \o rest = RelayBody(c, ch, u, rest)
  BY <1>2, <1>3, Zenon DEF RelayBody, b, i
<1>5. QED
  BY <1>4, Zenon DEF Relay, b, i

\* Mail and pages, which the server sends.
MagicType(e) == IF e.kind = "EmailEx" THEN Type.EmailEx ELSE Type.WebPager
MagicData(e) == LE(UIN.magic, 4) \o <<MagicType(e), 0>> \o NullString(MagicText(e.texts))
MagicFrame(e) ==
    FLAP(4, 7, Cookie(0) \o BE(4, 2) \o UserInfo(UIN.magic) \o BE(5, 2) \o BESized(MagicData(e)))
MagicStrings(T) == <<T[1], <<>>, <<>>, T[2], <<>>, T[3]>>
MagicIn(e) == PlainIn(MagicType(e), MagicStrings(e.texts), UIN.magic)

LEMMA MagicRead ==
    ASSUME NEW T \in Seq(Clean), Len(T) = 3
    PROVE  MagicText(T) \in Bytes /\ MagicFields(MagicText(T)) = MagicStrings(T)
<1>1. PICK a, b, c \in Clean : T = <<a, b, c>>
  BY Texts3
<1>2. <<>> \in Clean
  BY NoBytes, SMT DEF Clean
<1>3. PICK em, F : em = <<>> /\ F = <<a, em, em, b, em, c>>
  OBVIOUS
<1>4. F \in Seq(Clean) /\ Len(F) = 6
  BY <1>2, <1>3
<1>5. Joined(F) \in Bytes /\ MagicFields(Joined(F)) = F
  BY <1>4, JoinedFields
<1>6. F = MagicStrings(T) /\ MagicText(T) = Joined(F)
  <2>1. T[1] = a /\ T[2] = b /\ T[3] = c
    BY <1>1
  <2>2. QED
    BY <1>3, <2>1, Zenon DEF MagicStrings, MagicText
<1>7. QED
  BY <1>5, <1>6, Zenon

LEMMA MagicHeld ==
    ASSUME NEW e, IsEvent(e), e.kind \in {"EmailEx", "WebPager"}, NEW o,
           o = Join(One(MagicType(e)), Join(One(0), NullString(MagicText(e.texts))))
    PROVE  /\ Within(o, 17) /\ MagicType(e) \in Byte /\ NullString(MagicText(e.texts)) \in Bytes
           /\ HoldsNormal(o, AsRead(MagicType(e), MagicStrings(e.texts), None, 0, FALSE, FALSE, <<>>))
           /\ MagicType(e) # 0
<1>1. PICK t, a, F, z : t = MagicType(e) /\ a = MagicText(e.texts) /\ F = MagicStrings(e.texts) /\ z = 0
  OBVIOUS
<1>2. t \in {13, 14} /\ t \notin {1, 3, 4, 6, 7, 8, 12, 19, 232, 233, 234, 235, 236}
          /\ t = IF e.kind = "EmailEx" THEN 14 ELSE 13
  BY <1>1, KindsDiffer DEF MagicType
<1>3. t \in Types /\ t # Type.FT /\ t \in {Type.EmailEx, Type.WebPager}
  BY <1>2, KindsDiffer DEF Types, Type
<1>4. e.texts \in Seq(Clean) /\ Len(e.texts) = 3 /\ a \in Short
  BY <1>1 DEF IsEvent, IsText
<1>5. Fields(t, a) = F
  <2>1. MagicFields(a) = F
    BY <1>1, <1>4, MagicRead
  <2>2. Fields(t, a) = MagicFields(a)
    BY <1>2, <1>3, KindsDiffer DEF Fields
  <2>3. QED
    BY <2>1, <2>2
<1>6. a \in Bytes /\ Len(a) + 1 \in Word2 /\ NullString(a) \in Bytes /\ Len(NullString(a)) = Len(a) + 3 /\ Within(a, 0)
  BY <1>4, ShortIs
<1>7. PICK vv, b : vv = <<a>> /\ b = NullString(a)
  OBVIOUS
<1>8. Gives(<<NullStr>>, b, vv) /\ vv[1] = a
  BY <1>6, <1>7, GivesText
<1>9. BodyLayout(t, FALSE, FALSE) = <<NullStr>>
  BY <1>2, KindsDiffer DEF BodyLayout
<1>10. Within(b, 11)
  <2>1. PICK k, n : k = Len(b) /\ n = Len(a) /\ k = n + 3
    BY <1>6, <1>7
  <2>2. n \in Nat /\ n <= Limit + 0
    BY <1>6, <2>1, BytesType, Zenon DEF Within
  <2>3. k <= Limit + 11
    BY <2>1, <2>2, SMT DEF Limit
  <2>4. QED
    BY <1>6, <1>7, <2>1, <2>3, Zenon DEF Within
<1>11. z \in Byte
  BY <1>1, SMT DEF Byte
<1>12. o = Join(One(t), Join(One(z), b))
  BY <1>1, <1>7, Zenon
<1>13. Gives(BodyLayout(t, FALSE, FALSE), b, vv) /\ Fields(t, vv[1]) = F
  BY <1>5, <1>8, <1>9
<1>14. Holds(o, FALSE, FALSE, AsRead(t, F, None, 0, FALSE, FALSE, <<>>)) /\ Within(o, 17)
  BY <1>3, <1>10, <1>11, <1>12, <1>13, PlainBytes
<1>15. HoldsNormal(o, AsRead(t, F, None, 0, FALSE, FALSE, <<>>))
  BY <1>14, Zenon DEF HoldsNormal
<1>16. t \in Byte /\ t # 0
  BY <1>2, SMT DEF Byte
<1>17. QED
  BY <1>1, <1>6, <1>14, <1>15, <1>16, Zenon

LEMMA MagicArrives ==
    ASSUME NEW e, IsEvent(e), e.kind \in {"EmailEx", "WebPager"}
    PROVE  Arrives(MagicFrame(e), 0, MagicIn(e))
<1>1. PICK t, a, b, z : t = MagicType(e) /\ a = MagicText(e.texts) /\ b = NullString(a) /\ z = 0
  OBVIOUS
<1>2. PICK o : o = Join(One(t), Join(One(z), b))
  OBVIOUS
<1>3. PICK j : j = AsRead(t, MagicStrings(e.texts), None, 0, FALSE, FALSE, <<>>)
  OBVIOUS
<1>4. Within(o, 17) /\ t \in Byte /\ b \in Bytes /\ t # 0 /\ HoldsNormal(o, j)
  <2>1. o = Join(One(MagicType(e)), Join(One(0), NullString(MagicText(e.texts))))
    BY <1>1, <1>2, Zenon
  <2>2. QED
    BY <1>1, <1>3, <2>1, MagicHeld
<1>5. z \in Byte /\ z \in Word4 /\ UIN.magic \in Word4 /\ IsUIN(UIN.magic)
  BY <1>1, Fixed, UINsAre, SMT DEF Byte
<1>6. PICK s, l : s = UIN.magic /\ l = LE(s, 4) /\ l \in Bytes /\ Len(l) = 4 /\ s \in Word4
  BY <1>5, Integers4
<1>7. o \in Bytes /\ One(t) \in Bytes /\ One(z) \in Bytes
  BY <1>4, <1>5, OneIs DEF Within
<1>8. PICK y : y = <<>> /\ y \in Bytes /\ Join(o, y) = o
  BY <1>7, NoBytes, JoinIs
<1> DEFINE d == Join(l, o)
<1>9. MagicData(e) = d
  <2>1. MagicData(e) = (l \o <<t, z>>) \o b
    BY <1>1, <1>6, Zenon DEF MagicData
  <2>2. <<t, z>> = Join(One(t), One(z))
    BY <1>4, <1>5, Pair
  <2>3. MagicData(e) = Join(Join(l, Join(One(t), One(z))), b)
    BY <2>1, <2>2, Zenon DEF Join
  <2>4. Join(One(t), One(z)) \in Bytes
    BY <1>7, Written
  <2>5. Join(Join(l, Join(One(t), One(z))), b) = Join(l, Join(Join(One(t), One(z)), b))
    BY <1>4, <1>6, <2>4, JoinAssoc
  <2>6. Join(Join(One(t), One(z)), b) = Join(One(t), Join(One(z), b))
    BY <1>4, <1>7, JoinAssoc
  <2>7. QED
    BY <1>2, <2>3, <2>5, <2>6, Zenon
<1>10. d \in Bytes /\ Len(d) = 4 + Len(o)
  BY <1>6, <1>7, JoinTwo
<1>11. PICK m \in Word2 : m = Len(d)
  <2>1. PICK k, n : k = Len(d) /\ n = Len(o) /\ k = 4 + n
    BY <1>10
  <2>2. n \in Nat /\ n <= Limit + 17
    BY <1>4, <1>7, <2>1, BytesType DEF Within
  <2>3. k \in Word2
    BY <2>1, <2>2, SMT DEF Limit, Word2
  <2>4. QED
    BY <2>1, <2>3
<1> HIDE DEF d
<1>12. BESized(d) = Join(BE(m, 2), d)
  BY <1>10, <1>11, Sized
<1>13. PICK c, ch, five : c = Cookie(z) /\ ch = 4 /\ five = 5 /\ c \in Bytes /\ ch \in Word2 /\ five \in Word2
  <2>1. IsCookie(Cookie(z))
    BY <1>5, CookieIs
  <2>2. 4 \in Word2 /\ 5 \in Word2
    BY SMT DEF Word2
  <2>3. QED
    BY <2>1, <2>2, Zenon DEF IsCookie
<1> DEFINE rest == Join(BE(five, 2), Join(BE(m, 2), d))
           info == UserInfo(UIN.magic)
<1>14. BE(five, 2) \in Bytes /\ BE(m, 2) \in Bytes /\ Join(BE(m, 2), d) \in Bytes /\ rest \in Bytes
          /\ info \in Bytes /\ BE(ch, 2) \in Bytes
  BY <1>5, <1>10, <1>13, Written, UserInfoIs
<1>15. rest = DataRest(m, s, o, y)
  BY <1>6, <1>8, <1>13, Zenon DEF DataRest, d
<1>16. MagicFrame(e) = Relay(c, ch, UIN.magic, rest)
  <2>1. MagicFrame(e) = FLAP(4, 7, ((c \o BE(ch, 2) \o info) \o BE(five, 2)) \o BESized(d))
    BY <1>1, <1>9, <1>13, Zenon DEF MagicFrame
  <2> DEFINE h == c \o BE(ch, 2) \o info
  <2>2. h \in Bytes
    <3>1. h = Join(Join(c, BE(ch, 2)), info)
      BY Zenon DEF Join
    <3>2. Join(Join(c, BE(ch, 2)), info) \in Bytes
      BY <1>13, <1>14, Written
    <3>3. QED
      BY <3>1, <3>2, Zenon
  <2> HIDE DEF h
  <2>3. (h \o BE(five, 2)) \o BESized(d) = Join(Join(h, BE(five, 2)), Join(BE(m, 2), d))
    BY <1>12, Zenon DEF Join
  <2>4. Join(Join(h, BE(five, 2)), Join(BE(m, 2), d)) = Join(h, rest)
    BY <1>14, <2>2, JoinAssoc
  <2>5. Join(h, rest) = c \o BE(ch, 2) \o info \o rest
    BY Zenon DEF Join, h
  <2>6. FLAP(4, 7, c \o BE(ch, 2) \o info \o rest) = Relay(c, ch, UIN.magic, rest)
    BY <1>5, <1>13, <1>14, RelayedAs
  <2>7. QED
    BY <2>1, <2>3, <2>4, <2>5, <2>6, Zenon DEF h
<1>17. PICK f : f = FLAP(4, 7, RelayBody(Cookie(z), 4, UIN.magic, DataRest(m, s, o, y)))
  OBVIOUS
<1>18. Arrives(f, z, From(j, UIN.magic))
  BY <1>4, <1>5, <1>6, <1>8, <1>17, DataArrives
<1>19. From(j, UIN.magic) = MagicIn(e)
  <2>1. From(j, UIN.magic) = PlainIn(t, MagicStrings(e.texts), UIN.magic)
    BY <1>3, <1>4, ReadFrom
  <2>2. QED
    BY <1>1, <2>1, Zenon DEF MagicIn
<1>20. f = MagicFrame(e)
  BY <1>13, <1>15, <1>16, <1>17, Zenon DEF Relay
<1>21. QED
  BY <1>1, <1>18, <1>19, <1>20, Zenon

-----------------------------------------------------------------------------
(* Packets of a direct connection.                                           *)
PacketBytes(command, x, v) ==
    {Encrypt(Packet(command, x), v, c[1], c[2]) : c \in {ch \in Checks : ch[1] < Len(Packet(command, x)) /\ ch[1] < 255}}

LEMMA PacketBrings ==
    ASSUME NEW x, NEW j, Within(Output(x), 26), x.seq = SeqNum, NEW command \in {Command.START, Command.ACK}, NEW ack,
           ack = (command = Command.ACK), Holds(Output(x), TRUE, ack, j), j # NoSubtype, NEW v \in {6, 7},
           NEW b \in PacketBytes(command, x, v)
    PROVE  ParsePacket(b, v) = [command |-> command, ist |-> WithSeq(j, SeqNum)]
<1>1. PICK o, yes, in : o = Output(x) /\ yes = TRUE /\ in = Packet(command, x)
  OBVIOUS
<1>2. o \in Bytes /\ Len(o) \in Nat /\ Len(o) <= Limit + 26
  <2>1. o \in Bytes /\ Len(o) <= Limit + 26
    BY <1>1, Zenon DEF Within
  <2>2. QED
    BY <2>1, BytesType
<1>3. x.seq \in Word2 /\ command \in Word2
  <2>1. command \in Word2
    BY SMT DEF Command, Word2
  <2>2. QED
    BY <2>1, SeqNumIs
<1>4. PICK c \in Checks : c[1] < Len(in) /\ c[1] < 255 /\ b = Encrypt(in, v, c[1], c[2])
  BY <1>1 DEF PacketBytes
<1>5. c[1] \in 10 .. 254 /\ c[2] \in 0 .. 219
  BY ChecksAssumption
<1>6. Len(in) = 22 + Len(o)
  BY <1>1, <1>2, <1>3, PacketIs
<1>7. PICK k, m, y : k = Len(o) /\ m = c[1] /\ y = c[2]
  OBVIOUS
<1>8. k + 23 \in Word2 /\ m \in 10 .. k + 21 /\ m \in Byte /\ y \in 0 .. 219
  <2>1. k \in Nat /\ k <= Limit + 26 /\ m \in 10 .. 254 /\ y \in 0 .. 219 /\ m < 22 + k
    BY <1>2, <1>4, <1>5, <1>6, <1>7
  <2>2. k + 23 \in Word2 /\ m \in 10 .. k + 21
    BY <2>1, SMT DEF Limit, Word2
  <2>3. m \in Byte
    BY <2>1, SMT DEF Byte
  <2>4. QED
    BY <2>1, <2>2, <2>3
<1>9. ParsePacket(Encrypt(Packet(command, x), v, m, y), v) = [command |-> command, ist |-> WithSeq(j, x.seq)]
  <2>1. Holds(o, yes, ack, j)
    BY <1>1, Zenon
  <2>2. Len(o) + 23 \in Word2 /\ m \in 10 .. Len(o) + 21
    BY <1>7, <1>8
  <2>3. Output(x) = o
    BY <1>1
  <2>4. QED
    BY <1>1, <1>2, <1>3, <1>8, <2>1, <2>2, <2>3, PacketRead, ZenonT(150)
<1>10. QED
  BY <1>1, <1>4, <1>7, <1>9, Zenon

-----------------------------------------------------------------------------
(* B is told of it, and what it says to that.                                *)
ToldAs(e) == EventRec(e.kind, e.texts, e.granted, e.urgent /\ ~e.tolist, e.tolist, e.size, UIN.A)
StatusOf(me) == [status |-> me.status, invisible |-> me.invisible]
Knows(o, me) == [o EXCEPT !.contact = StatusOf(me)]
AnswerRec(d, r, w) == [given |-> TRUE, delivered |-> d, reason |-> r, away |-> w]
IsAnswer(d, r, w) ==
    d \in BOOLEAN /\ w \in Short /\ r \in {"None", "Denied", "Occupied", "DND", "Ignored"} /\ (~d => r # "None")
\* The acknowledgement's status says whether it was delivered, and why not.
Accepts(s, d, r) ==
    /\ s \in Word2
    /\ d => s \notin {Accept.Denied, Accept.Occupied, Accept.DND}
    /\ ~d => s = IF r = "Occupied" THEN Accept.Occupied ELSE IF r = "DND" THEN Accept.DND ELSE Accept.Denied
AckOf(x, w, s) == [x EXCEPT !.ack = TRUE, !.away = w, !.status = s]
Replies(acks, x, d, r, w) ==
    IF d \/ r # "Ignored" THEN \E s : acks = <<AckOf(x, w, s)>> /\ Accepts(s, d, r)
    ELSE acks = <<>>

LEMMA AcceptIs ==
    ASSUME NEW v, NEW d, NEW r, NEW w, IsAnswer(d, r, w), v.delivered = d, v.reason = r, NEW st
    PROVE  Accepts(AcceptStatus(v, st), d, r)
<1>1. Accept = [Online |-> 0, Denied |-> 1, Away |-> 4, Occupied |-> 9, DND |-> 10, Occ_Accept |-> 12, NA |-> 14]
  BY DEF Accept
<1>2. \A n \in 0 .. 14 : n \in Word2
  BY SMT DEF Word2
<1>3. d \in BOOLEAN
  BY DEF IsAnswer
<1>4. CASE d
  <2>1. AcceptStatus(v, st) = IF st = "AWAY" THEN 4 ELSE IF st = "NA" THEN 14 ELSE IF st = "OCCUPIED" THEN 12 ELSE 0
    BY <1>1, <1>4 DEF AcceptStatus
  <2>2. QED
    BY <1>1, <1>2, <1>4, <2>1 DEF Accepts
<1>5. CASE ~d
  <2>1. AcceptStatus(v, st) = IF r = "Occupied" THEN 9 ELSE IF r = "DND" THEN 10 ELSE 1
    BY <1>1, <1>5 DEF AcceptStatus
  <2>2. QED
    BY <1>1, <1>2, <1>5, <2>1 DEF Accepts
<1>6. QED
  BY <1>3, <1>4, <1>5

SeenAs(x, e, me, t, F, N) ==
    /\ x.type = t /\ x.fields = F /\ x.numbers = N /\ x.status = StatusNumber(me) /\ x.tolist = e.tolist
    /\ x.urgent = (e.urgent /\ ~e.tolist) /\ x.advanced = TRUE /\ x.source = UIN.A /\ x.seq = SeqNum

LEMMA AdvancedSeen ==
    ASSUME NEW e, NEW me, NEW t, NEW F, NEW N, NEW x, x = AdvancedIn(e, me, t, F, N)
    PROVE  SeenAs(x, e, me, t, F, N)
<1>1. PICK yes, no, em, o, u : yes = TRUE /\ no = FALSE /\ em = <<>> /\ o = 0 /\ u = (e.urgent /\ ~e.tolist)
  OBVIOUS
<1>2. x = Sub(t, F, N, StatusNumber(me), u, e.tolist, yes, no, em, SeqNum, UIN.A, o)
  BY <1>1, Zenon DEF AdvancedIn
<1>3. /\ x.type = t /\ x.fields = F /\ x.numbers = N /\ x.status = StatusNumber(me) /\ x.urgent = u /\ x.tolist = e.tolist
      /\ x.advanced = yes /\ x.seq = SeqNum /\ x.source = UIN.A
  BY <1>2, SubIs
<1>4. QED
  BY <1>1, <1>3 DEF SeenAs

LEMMA IncomingAdvanced ==
    ASSUME NEW e, IsEvent(e), e.kind # "FileTransfer", NEW me, Known(me), NEW t, NEW F, NEW N,
           Wires(e, me.contact, t, F, N), NEW c, NEW ans \in Answers, NEW x, x = AdvancedIn(e, me, t, F, N),
           NEW h, h = handleIncoming(c, x, ans)
    PROVE  /\ h.other = Knows(c.other, me)
           /\ h.told = IF e.kind = "AwayMessage" THEN c.told ELSE Append(c.told, ToldAs(e))
           /\ \E d, r, w : /\ IsAnswer(d, r, w) /\ h.answer = AnswerRec(d, r, w)
                           /\ Replies(h.acks, x, d, r, w) /\ (e.kind = "AwayMessage" => d)
<1> DEFINE st == c.other.status
           isAway == x.type \in AutoReq
           uin == x.type \notin {Type.EmailEx, Type.WebPager}
           event == ICQSubTypeToEvent(x)
           mev == IF uin /\ ~x.advanced /\ st \in {"OCCUPIED", "DND"} THEN [event EXCEPT !.tolist = TRUE] ELSE event
           flags == FlagsOf(x.status)
           verdict == IF isAway THEN [ans EXCEPT !.delivered = TRUE] ELSE ans
           away == IF st = "ONLINE" THEN <<>> ELSE ans.away
           asked == uin /\ x.advanced
           heard == IF asked THEN [c.other EXCEPT !.contact = [status |-> MapICQStatusToStatus(flags),
                                                              invisible |-> MapICQStatusToInvisible(flags)]]
                    ELSE c.other
           ev == [mev EXCEPT !.from = x.source]
           said == IF asked THEN [given |-> TRUE, delivered |-> verdict.delivered, reason |-> verdict.reason, away |-> away]
                   ELSE c.answer
           acc == AcceptStatus(verdict, st)
           ack == [x EXCEPT !.ack = TRUE, !.away = away, !.status = acc]
           acks == IF asked /\ (verdict.delivered \/ verdict.reason # "Ignored") THEN <<ack>> ELSE <<>>
<1>1. h = [other |-> heard, told |-> IF isAway THEN c.told ELSE Append(c.told, ev), answer |-> said, acks |-> acks]
  BY Zenon DEF handleIncoming
<1>2. /\ x.type = t /\ x.fields = F /\ x.numbers = N /\ x.status = StatusNumber(me) /\ x.tolist = e.tolist
      /\ x.urgent = (e.urgent /\ ~e.tolist) /\ x.advanced = TRUE /\ x.source = UIN.A
  <2>1. SeenAs(x, e, me, t, F, N)
    BY AdvancedSeen, Zenon
  <2>2. QED
    BY <2>1 DEF SeenAs
<1>3. uin /\ (isAway <=> e.kind = "AwayMessage")
  BY <1>2, WiredType
<1>4. heard = Knows(c.other, me)
  <2>1. MapICQStatusToStatus(flags) = me.status /\ MapICQStatusToInvisible(flags) = me.invisible
    BY <1>2, StatusRead
  <2> HIDE DEF flags
  <2>2. QED
    BY <1>2, <1>3, <2>1, Zenon DEF Knows, StatusOf
<1>5. e.kind # "AwayMessage" => ev = ToldAs(e)
  <2> SUFFICES ASSUME e.kind # "AwayMessage" PROVE ev = ToldAs(e)
    OBVIOUS
  <2>1. event = EventRec(e.kind, e.texts, e.granted, x.urgent, x.tolist, e.size, 0)
    BY <1>2, ToldBack
  <2> HIDE DEF event
  <2>2. mev = event
    BY <1>2
  <2> HIDE DEF mev
  <2>3. PICK u, l, o : u = (e.urgent /\ ~e.tolist) /\ l = e.tolist /\ o = 0
    OBVIOUS
  <2>4. mev = EventRec(e.kind, e.texts, e.granted, u, l, e.size, o)
    BY <1>2, <2>1, <2>2, <2>3, Zenon
  <2>5. [mev EXCEPT !.from = UIN.A] = EventRec(e.kind, e.texts, e.granted, u, l, e.size, UIN.A)
    BY <2>4 DEF EventRec
  <2>6. QED
    BY <1>2, <2>3, <2>5, Zenon DEF ToldAs
<1>6. IsAnswer(verdict.delivered, verdict.reason, away) /\ said = AnswerRec(verdict.delivered, verdict.reason, away)
  <2>1. /\ ans \in [delivered : BOOLEAN, reason : {"None", "Denied", "Occupied", "DND", "Ignored"}, away : Short]
        /\ ~ans.delivered => ans.reason # "None"
    BY AnswersAssumption
  <2>2. verdict.delivered \in BOOLEAN /\ verdict.reason = ans.reason /\ (verdict.delivered = ans.delivered \/ verdict.delivered)
    BY <2>1
  <2>3. <<>> \in Short
    BY NoBytes, SMT DEF Short, Limit
  <2>4. away \in Short
    BY <2>1, <2>3
  <2>5. asked
    BY <1>2, <1>3
  <2> HIDE DEF verdict, away, asked
  <2>6. QED
    BY <2>1, <2>2, <2>4, <2>5 DEF IsAnswer, AnswerRec
<1>7. Accepts(acc, verdict.delivered, verdict.reason)
  <2> HIDE DEF verdict, away, st
  <2>1. QED
    BY <1>6, AcceptIs
<1>8. Replies(acks, x, verdict.delivered, verdict.reason, away)
  <2>1. asked
    BY <1>2, <1>3
  <2> HIDE DEF verdict, away, asked, acc
  <2>2. QED
    BY <1>7, <2>1, Zenon DEF Replies, AckOf
<1>12. e.kind = "AwayMessage" => verdict.delivered
  <2>1. ans \in [delivered : BOOLEAN, reason : {"None", "Denied", "Occupied", "DND", "Ignored"}, away : Short]
    BY AnswersAssumption
  <2>2. isAway => verdict.delivered
    BY <2>1
  <2>3. QED
    BY <1>3, <2>2
<1> HIDE DEF heard, isAway, ev, said, acks, verdict, away
<1>9. h.other = heard /\ h.told = (IF isAway THEN c.told ELSE Append(c.told, ev)) /\ h.answer = said /\ h.acks = acks
  BY <1>1
<1>10. h.told = IF e.kind = "AwayMessage" THEN c.told ELSE Append(c.told, ToldAs(e))
  BY <1>3, <1>5, <1>9, Zenon
<1>11. QED
  BY <1>4, <1>6, <1>8, <1>9, <1>10, <1>12, Zenon

\* The event is told as it was, if it was sent in this way.
Same(m, e, way) ==
    /\ m.kind = e.kind /\ m.granted = e.granted /\ m.size = e.size
    /\ IF way = "magic" THEN Tail(m.texts) = Tail(e.texts) ELSE m.texts = e.texts
    /\ way # "magic" => m.from = UIN.A
    /\ way \in {"direct", "advanced"} => m.tolist = e.tolist /\ m.urgent = (e.urgent /\ ~e.tolist)
    /\ way \notin {"direct", "advanced"} => ~m.urgent

EventAs(m, k, T, g, u, l, z, from) ==
    m.kind = k /\ m.texts = T /\ m.granted = g /\ m.urgent = u /\ m.tolist = l /\ m.size = z /\ m.from = from

LEMMA EventSeen ==
    ASSUME NEW k, NEW T, NEW g, NEW u, NEW l, NEW z, NEW from, NEW m, m = EventRec(k, T, g, u, l, z, from)
    PROVE  EventAs(m, k, T, g, u, l, z, from)
  BY DEF EventRec, EventAs

LEMMA ToldSame ==
    ASSUME NEW e, NEW way \in {"direct", "advanced"}
    PROVE  Same(ToldAs(e), e, way)
<1>1. PICK u, m : u = (e.urgent /\ ~e.tolist) /\ m = EventRec(e.kind, e.texts, e.granted, u, e.tolist, e.size, UIN.A)
  OBVIOUS
<1>2. /\ m.kind = e.kind /\ m.texts = e.texts /\ m.granted = e.granted /\ m.urgent = u /\ m.tolist = e.tolist
      /\ m.size = e.size /\ m.from = UIN.A
  <2>1. EventAs(m, e.kind, e.texts, e.granted, u, e.tolist, e.size, UIN.A)
    BY <1>1, EventSeen, Zenon
  <2>2. QED
    BY <2>1, Zenon DEF EventAs
<1>3. Same(m, e, way)
  BY <1>1, <1>2 DEF Same
<1>4. QED
  BY <1>1, <1>3, Zenon DEF ToldAs

PlainAs(x, t, F, from) ==
    /\ x.type = t /\ x.fields = F /\ x.numbers = None /\ x.urgent = FALSE /\ x.tolist = FALSE
    /\ x.advanced = FALSE /\ x.source = from /\ (t # 0 => x # NoSubtype)

LEMMA PlainSeen ==
    ASSUME NEW t, NEW F, NEW from, NEW x, x = PlainIn(t, F, from)
    PROVE  PlainAs(x, t, F, from)
<1>1. PICK no, em, o : no = FALSE /\ em = <<>> /\ o = 0
  OBVIOUS
<1>2. x = Sub(t, F, None, o, no, no, no, no, em, o, from, o)
  BY <1>1, Zenon DEF PlainIn
<1>3. QED
  <2>1. /\ x.type = t /\ x.fields = F /\ x.numbers = None /\ x.urgent = no /\ x.tolist = no
        /\ x.advanced = no /\ x.source = from /\ (t # 0 => x # NoSubtype)
    BY <1>2, SubIs
  <2>2. QED
    BY <1>1, <2>1, Zenon DEF PlainAs

\* One more event is told, and nothing else happens.
TellsOf(h, c, k, T, g, z, from) ==
    /\ h.other = c.other /\ h.answer = c.answer /\ h.acks = <<>>
    /\ \E l : h.told = Append(c.told, EventRec(k, T, g, FALSE, l, z, from))

\* A message that is not advanced: nobody is answered.
LEMMA IncomingPlain ==
    ASSUME NEW t, t \notin AutoReq, NEW F, NEW from, NEW x, x = PlainIn(t, F, from), NEW k, NEW T, NEW g, NEW z,
           ICQSubTypeToEvent(x) = EventRec(k, T, g, x.urgent, x.tolist, z, 0), NEW c, NEW ans, NEW h,
                     h = handleIncoming(c, x, ans)
    PROVE  TellsOf(h, c, k, T, g, z, from)
<1> DEFINE st == c.other.status
           isAway == x.type \in AutoReq
           uin == x.type \notin {Type.EmailEx, Type.WebPager}
           event == ICQSubTypeToEvent(x)
           mev == IF uin /\ ~x.advanced /\ st \in {"OCCUPIED", "DND"} THEN [event EXCEPT !.tolist = TRUE] ELSE event
           flags == FlagsOf(x.status)
           verdict == IF isAway THEN [ans EXCEPT !.delivered = TRUE] ELSE ans
           away == IF st = "ONLINE" THEN <<>> ELSE ans.away
           asked == uin /\ x.advanced
           heard == IF asked THEN [c.other EXCEPT !.contact = [status |-> MapICQStatusToStatus(flags),
                                                              invisible |-> MapICQStatusToInvisible(flags)]]
                    ELSE c.other
           ev == [mev EXCEPT !.from = x.source]
           said == IF asked THEN [given |-> TRUE, delivered |-> verdict.delivered, reason |-> verdict.reason, away |-> away]
                   ELSE c.answer
           acc == AcceptStatus(verdict, st)
           ack == [x EXCEPT !.ack = TRUE, !.away = away, !.status = acc]
           acks == IF asked /\ (verdict.delivered \/ verdict.reason # "Ignored") THEN <<ack>> ELSE <<>>
<1>1. h = [other |-> heard, told |-> IF isAway THEN c.told ELSE Append(c.told, ev), answer |-> said, acks |-> acks]
  BY Zenon DEF handleIncoming
<1>2. /\ x.type = t /\ x.urgent = FALSE /\ x.tolist = FALSE /\ x.advanced = FALSE /\ x.source = from
  <2>1. PlainAs(x, t, F, from)
    BY PlainSeen, Zenon
  <2>2. QED
    BY <2>1 DEF PlainAs
<1>3. asked = FALSE /\ isAway = FALSE
  BY <1>2
<1>4. \E l : ev = EventRec(k, T, g, FALSE, l, z, from)
  <2>1. PICK no, o : no = FALSE /\ o = 0
    OBVIOUS
  <2>2. event = EventRec(k, T, g, x.urgent, x.tolist, z, 0)
    OBVIOUS
  <2>3. event = EventRec(k, T, g, no, no, z, o)
    BY <1>2, <2>1, <2>2, Zenon
  <2> HIDE DEF event
  <2>4. PICK l : mev = EventRec(k, T, g, no, l, z, o)
    <3>1. CASE mev = event
      BY <2>3, <3>1
    <3>2. CASE mev = [event EXCEPT !.tolist = TRUE]
      <4>1. PICK yes : yes = TRUE
        OBVIOUS
      <4>2. [event EXCEPT !.tolist = yes] = EventRec(k, T, g, no, yes, z, o)
        BY <2>3 DEF EventRec
      <4>3. QED
        BY <3>2, <4>1, <4>2
    <3>3. QED
      BY <3>1, <3>2
  <2> HIDE DEF mev
  <2>5. [mev EXCEPT !.from = from] = EventRec(k, T, g, no, l, z, from)
    BY <2>4 DEF EventRec
  <2>6. QED
    BY <1>2, <2>1, <2>5, Zenon
<1> HIDE DEF heard, isAway, ev, said, acks, asked
<1>5. h.other = heard /\ h.told = (IF isAway THEN c.told ELSE Append(c.told, ev)) /\ h.answer = said /\ h.acks = acks
  BY <1>1
<1>6. heard = c.other /\ said = c.answer /\ acks = <<>>
  BY <1>3 DEF heard, said, acks
<1>7. h.told = Append(c.told, ev)
  BY <1>3, <1>5
<1>8. QED
  BY <1>4, <1>5, <1>6, <1>7, Zenon DEF TellsOf

\* One more is told, and nothing else happens.
TellsOnly(h, c, e, way) ==
    /\ h.other = c.other /\ h.answer = c.answer /\ h.acks = <<>>
    /\ \E m : h.told = Append(c.told, m) /\ Same(m, e, way)

LEMMA SamePlain ==
    ASSUME NEW e, NEW T, NEW l, NEW m, NEW from, NEW way \in {"normal", "magic"},
           m = EventRec(e.kind, T, e.granted, FALSE, l, e.size, from),
           IF way = "magic" THEN Tail(T) = Tail(e.texts) ELSE T = e.texts /\ from = UIN.A
    PROVE  Same(m, e, way)
<1>1. PICK no : no = FALSE
  OBVIOUS
<1>2. /\ m.kind = e.kind /\ m.texts = T /\ m.granted = e.granted /\ m.urgent = no /\ m.tolist = l /\ m.size = e.size
      /\ m.from = from
  <2>1. m = EventRec(e.kind, T, e.granted, no, l, e.size, from)
    BY <1>1
  <2>2. EventAs(m, e.kind, T, e.granted, no, l, e.size, from)
    BY <2>1, EventSeen, Zenon
  <2>3. QED
    BY <2>2, Zenon DEF EventAs
<1>3. QED
  BY <1>1, <1>2 DEF Same

LEMMA NormalTold ==
    ASSUME NEW e, IsEvent(e), e.kind # "AwayMessage", NEW st, NEW t, NEW F, NEW N,
           Wires(e, st, t, F, N), e.kind # "FileTransfer", NEW x, x = PlainIn(t, F, UIN.A), NEW c, NEW ans,
           NEW h, h = handleIncoming(c, x, ans)
    PROVE  TellsOnly(h, c, e, "normal")
<1>1. PlainAs(x, t, F, UIN.A)
  BY PlainSeen, Zenon
<1>2. x.type = t /\ x.fields = F /\ x.numbers = N
  BY <1>1, WiredType DEF PlainAs
<1>3. PICK k, T, g, z, from, way : k = e.kind /\ T = e.texts /\ g = e.granted /\ z = e.size /\ from = UIN.A /\ way = "normal"
  OBVIOUS
<1>4. ICQSubTypeToEvent(x) = EventRec(k, T, g, x.urgent, x.tolist, z, 0)
  <2>1. ICQSubTypeToEvent(x) = EventRec(e.kind, e.texts, e.granted, x.urgent, x.tolist, e.size, 0)
    BY <1>2, ToldBack
  <2>2. QED
    BY <1>3, <2>1, Zenon
<1>5. t \notin AutoReq
  BY WiredType
<1>6. x = PlainIn(t, F, from)
  BY <1>3
<1>7. /\ h.other = c.other /\ h.answer = c.answer /\ h.acks = <<>>
      /\ \E l : h.told = Append(c.told, EventRec(k, T, g, FALSE, l, z, from))
  <2>1. TellsOf(h, c, k, T, g, z, from)
    BY <1>4, <1>5, <1>6, IncomingPlain, Zenon
  <2>2. QED
    BY <2>1, Zenon DEF TellsOf
<1>8. PICK l, m : h.told = Append(c.told, m) /\ m = EventRec(k, T, g, FALSE, l, z, from)
  BY <1>7
<1>9. Same(m, e, way)
  <2>1. m = EventRec(e.kind, T, e.granted, FALSE, l, e.size, from)
    BY <1>3, <1>8
  <2>2. IF way = "magic" THEN Tail(T) = Tail(e.texts) ELSE T = e.texts /\ from = UIN.A
    BY <1>3
  <2>3. way \in {"normal", "magic"}
    BY <1>3
  <2>4. QED
    BY <2>1, <2>2, <2>3, SamePlain
<1>10. QED
  BY <1>3, <1>7, <1>8, <1>9, Zenon DEF TellsOnly

LEMMA MagicTold ==
    ASSUME NEW e, IsEvent(e), e.kind \in {"EmailEx", "WebPager"}, NEW x, x = MagicIn(e), NEW c, NEW ans,
           NEW h, h = handleIncoming(c, x, ans)
    PROVE  TellsOnly(h, c, e, "magic")
<1>1. PICK t, F, from : t = MagicType(e) /\ F = MagicStrings(e.texts) /\ from = UIN.magic
  OBVIOUS
<1>2. x = PlainIn(t, F, from)
  BY <1>1, Zenon DEF MagicIn
<1>3. PlainAs(x, t, F, from)
  BY <1>2, PlainSeen, Zenon
<1>4. x.type = t /\ x.fields = F
  BY <1>3 DEF PlainAs
<1>5. t \notin AutoReq /\ t = IF e.kind = "EmailEx" THEN Type.EmailEx ELSE Type.WebPager
  BY <1>1, KindsDiffer DEF MagicType
<1>6. PICK a, b, d : e.texts = <<a, b, d>> /\ F[1] = a /\ F[4] = b /\ F[6] = d
  <2>1. e.texts \in Seq(Clean) /\ Len(e.texts) = 3
    BY DEF IsEvent, IsText
  <2>2. PICK a, b, d \in Clean : e.texts = <<a, b, d>>
    BY <2>1, Texts3
  <2>3. e.texts[1] = a /\ e.texts[2] = b /\ e.texts[3] = d
    BY <2>2
  <2>4. PICK em : em = <<>>
    OBVIOUS
  <2>5. F = <<a, em, em, b, em, d>>
    BY <1>1, <2>3, <2>4, Zenon DEF MagicStrings
  <2>6. QED
    BY <2>2, <2>5
<1>7. PICK T : EventOf(x) = MessageEvent(e.kind, T) /\ Tail(T) = Tail(e.texts)
  <2>1. CASE e.kind = "EmailEx"
    <3>1. EventOf(x) = EmailExEvent(x.fields[4], x.fields[1], x.fields[6])
      BY <1>4, <1>5, <2>1, EventArms
    <3>2. EmailExEvent(b, a, d) = MessageEvent("EmailEx", <<a, b, d>>)
      BY Zenon DEF EmailExEvent
    <3>3. QED
      BY <1>4, <1>6, <2>1, <3>1, <3>2, Zenon
  <2>2. CASE e.kind = "WebPager"
    <3>1. EventOf(x) = WebPagerEvent(x.fields[4], x.fields[4], x.fields[6])
      BY <1>4, <1>5, <2>2, EventArms
    <3>2. WebPagerEvent(b, b, d) = MessageEvent("WebPager", <<b, b, d>>)
      BY Zenon DEF WebPagerEvent
    <3>3. Tail(<<b, b, d>>) = Tail(<<a, b, d>>)
      OBVIOUS
    <3>4. QED
      BY <1>4, <1>6, <2>2, <3>1, <3>2, <3>3, Zenon
  <2>3. QED
    BY <2>1, <2>2
<1>8. PICK no, o, k, way : no = FALSE /\ o = 0 /\ k = e.kind /\ way = "magic"
  OBVIOUS
<1>9. e.granted = no /\ e.size = o
  BY <1>8 DEF IsEvent
<1>10. EventOf(x) = EventRec(k, T, e.granted, FALSE, FALSE, e.size, 0)
  <2>1. MessageEvent(k, T) = EventRec(k, T, FALSE, FALSE, FALSE, 0, 0)
    BY EventsAre, Zenon
  <2>2. QED
    BY <1>7, <1>8, <1>9, <2>1, Zenon
<1>11. PICK g, z : g = e.granted /\ z = e.size
  OBVIOUS
<1>12. ICQSubTypeToEvent(x) = EventRec(k, T, g, x.urgent, x.tolist, z, 0)
  <2>1. EventOf(x) = EventRec(k, T, g, FALSE, FALSE, z, 0)
    BY <1>10, <1>11, Zenon
  <2>2. QED
    BY <2>1, EventIs
<1>13. /\ h.other = c.other /\ h.answer = c.answer /\ h.acks = <<>>
       /\ \E l : h.told = Append(c.told, EventRec(k, T, g, FALSE, l, z, from))
  <2>1. TellsOf(h, c, k, T, g, z, from)
    BY <1>2, <1>5, <1>12, IncomingPlain, Zenon
  <2>2. QED
    BY <2>1, Zenon DEF TellsOf
<1>14. PICK l, m : h.told = Append(c.told, m) /\ m = EventRec(k, T, g, FALSE, l, z, from)
  BY <1>13
<1>15. Same(m, e, way)
  <2>1. m = EventRec(e.kind, T, e.granted, FALSE, l, e.size, from)
    BY <1>8, <1>11, <1>14
  <2>2. IF way = "magic" THEN Tail(T) = Tail(e.texts) ELSE T = e.texts /\ from = UIN.A
    BY <1>7, <1>8
  <2>3. way \in {"normal", "magic"}
    BY <1>8
  <2>4. QED
    BY <2>1, <2>2, <2>3, SamePlain
<1>16. QED
  BY <1>8, <1>13, <1>14, <1>15, Zenon DEF TellsOnly

-----------------------------------------------------------------------------
(* A is told how it went.                                                    *)
SentIs(s) ==
    s = [event |-> s.event, way |-> s.way, version |-> s.version, out |-> s.out, finished |-> s.finished,
         delivered |-> s.delivered, reason |-> s.reason, away |-> s.away, file |-> s.file]
Continues(n, s) ==
    SentIs(n) /\ n.event = s.event /\ n.way = s.way /\ n.version = s.version /\ n.out = s.out
\* A's event ended as B's application said.
Agrees(s, a) ==
    /\ s.finished /\ a.given
    /\ IF s.event.kind = "FileTransfer"
       THEN /\ s.file.port = a.port
            /\ s.file.state = IF a.port # 0 THEN "ACCEPTED" ELSE "REJECTED"
            /\ s.file.refusal = a.refusal
       ELSE /\ s.delivered = a.delivered
            /\ ~a.delivered => s.reason = a.reason
            /\ s.away = a.away
Concludes(s, ist, a) == Continues(handleIncomingACK(s, ist), s) /\ Agrees(handleIncomingACK(s, ist), a)

AckIn(t, s, w, from) == Sub(t, <<>>, None, s, FALSE, FALSE, TRUE, TRUE, w, SeqNum, from, 0)

Finishing(s, w, reason, delivered) ==
    [s EXCEPT !.away = w, !.finished = TRUE, !.reason = reason, !.delivered = delivered]
LEMMA FinishedIs ==
    ASSUME NEW s, SentIs(s), NEW w, NEW reason, NEW delivered
    PROVE  Finishing(s, w, reason, delivered) =
               [event |-> s.event, way |-> s.way, version |-> s.version, out |-> s.out, finished |-> TRUE,
                delivered |-> delivered, reason |-> reason, away |-> w, file |-> s.file]
<1>1. PICK b1, b2, b3, b4, b5, b6, b7, b8, b9 :
          /\ b1 = s.event /\ b2 = s.way /\ b3 = s.version /\ b4 = s.out /\ b5 = s.finished /\ b6 = s.delivered
          /\ b7 = s.reason /\ b8 = s.away /\ b9 = s.file
  OBVIOUS
<1>2. s = [event |-> b1, way |-> b2, version |-> b3, out |-> b4, finished |-> b5, delivered |-> b6,
           reason |-> b7, away |-> b8, file |-> b9]
  BY <1>1, Zenon DEF SentIs
<1>3. PICK yes, s1 : yes = TRUE /\ s1 = [s EXCEPT !.away = w]
  OBVIOUS
<1>4. s1 = [event |-> b1, way |-> b2, version |-> b3, out |-> b4, finished |-> b5, delivered |-> b6,
            reason |-> b7, away |-> w, file |-> b9]
  BY <1>2, <1>3
<1>5. PICK s2 : s2 = [s1 EXCEPT !.finished = yes]
  OBVIOUS
<1>6. s2 = [event |-> b1, way |-> b2, version |-> b3, out |-> b4, finished |-> yes, delivered |-> b6,
            reason |-> b7, away |-> w, file |-> b9]
  BY <1>4, <1>5
<1>7. PICK s3 : s3 = [s2 EXCEPT !.reason = reason]
  OBVIOUS
<1>8. s3 = [event |-> b1, way |-> b2, version |-> b3, out |-> b4, finished |-> yes, delivered |-> b6,
            reason |-> reason, away |-> w, file |-> b9]
  BY <1>6, <1>7
<1>9. [s3 EXCEPT !.delivered = delivered] =
           [event |-> b1, way |-> b2, version |-> b3, out |-> b4, finished |-> yes, delivered |-> delivered,
            reason |-> reason, away |-> w, file |-> b9]
  BY <1>8
<1>10. Finishing(s, w, reason, delivered) = [s3 EXCEPT !.delivered = delivered]
  BY <1>3, <1>5, <1>7, Zenon DEF Finishing
<1>11. QED
  BY <1>1, <1>3, <1>9, <1>10, Zenon

\* What an acknowledgement changes.
AcknowledgedAs(n, s, x, refused) ==
    /\ Continues(n, s) /\ n.finished = TRUE /\ n.away = x.away
    /\ n.delivered = (~refused \/ s.event.kind = "AwayMessage")
    /\ refused => n.reason = IF x.status = Accept.Denied THEN "Denied"
                             ELSE IF x.status = Accept.Occupied THEN "Occupied" ELSE "DND"

LEMMA Acknowledged ==
    ASSUME NEW s, SentIs(s), NEW x, NEW refused, refused = (x.status \in {Accept.Denied, Accept.Occupied, Accept.DND}),
           NEW n, n = handleIncomingACK(s, x), s.event.kind # "FileTransfer"
    PROVE  AcknowledgedAs(n, s, x, refused)
<1> DEFINE reason == CASE x.status = Accept.Denied -> "Denied" [] x.status = Accept.Occupied -> "Occupied"
                       [] x.status = Accept.DND -> "DND" [] OTHER -> s.reason
           isFile == s.event.kind = "FileTransfer"
           delivered == ~(x.status \in {Accept.Denied, Accept.Occupied, Accept.DND}) \/ isFile \/ s.event.kind = "AwayMessage"
           finished == [s EXCEPT !.away = x.away, !.finished = TRUE, !.reason = reason, !.delivered = delivered]
<1>1. n = finished
  <2>1. n = IF isFile THEN handleIncomingFTACK(finished, x) ELSE finished
    BY Zenon DEF handleIncomingACK
  <2> HIDE DEF finished
  <2>2. QED
    BY <2>1
<1>2. delivered = (~refused \/ s.event.kind = "AwayMessage")
  OBVIOUS
<1>3. refused => reason = IF x.status
          = Accept.Denied THEN "Denied" ELSE IF x.status = Accept.Occupied THEN "Occupied" ELSE "DND"
  <2>1. Accept.Denied = 1 /\ Accept.Occupied = 9 /\ Accept.DND = 10
    BY DEF Accept
  <2>2. /\ x.status = 1 => reason = "Denied"
        /\ x.status = 9 => reason = "Occupied"
        /\ x.status = 10 => reason = "DND"
    BY <2>1
  <2> HIDE DEF reason
  <2>3. refused => x.status \in {1, 9, 10}
    BY <2>1
  <2>4. QED
    BY <2>1, <2>2, <2>3
<1> HIDE DEF reason, delivered
<1>4. finished = [event |-> s.event, way |-> s.way, version |-> s.version, out |-> s.out, finished |-> TRUE,
                  delivered |-> delivered, reason |-> reason, away |-> x.away, file |-> s.file]
  <2>1. finished = Finishing(s, x.away, reason, delivered)
    BY Zenon DEF Finishing
  <2> HIDE DEF finished
  <2>2. PICK wx : wx = x.away
    OBVIOUS
  <2>3. Finishing(s, wx, reason, delivered) =
            [event |-> s.event, way |-> s.way, version |-> s.version, out |-> s.out, finished |-> TRUE,
             delivered |-> delivered, reason |-> reason, away |-> wx, file |-> s.file]
    BY FinishedIs
  <2>4. QED
    BY <2>1, <2>2, <2>3, Zenon
<1> HIDE DEF finished
<1>5. n.finished = TRUE /\ n.away = x.away /\ n.delivered = delivered /\ n.reason = reason /\ Continues(n, s)
  BY <1>1, <1>4 DEF Continues, SentIs
<1>6. QED
  BY <1>2, <1>3, <1>5 DEF AcknowledgedAs

LEMMA AckSeen ==
    ASSUME NEW t, NEW s, NEW w, NEW from, NEW x, x = AckIn(t, s, w, from)
    PROVE  x.type = t /\ x.status = s /\ x.away = w /\ x.seq = SeqNum /\ (t # 0 => x # NoSubtype)
<1>1. PICK yes, no, em, o : yes = TRUE /\ no = FALSE /\ em = <<>> /\ o = 0
  OBVIOUS
<1>2. x = Sub(t, em, None, s, no, no, yes, yes, w, SeqNum, from, o)
  BY <1>1, Zenon DEF AckIn
<1>3. QED
  BY <1>2, SubIs

LEMMA AckConcludes ==
    ASSUME NEW s, SentIs(s), s.event.kind # "FileTransfer", NEW d, NEW r, NEW w, IsAnswer(d, r, w),
           d \/ r # "Ignored", s.event.kind = "AwayMessage" => d,
           NEW v, Accepts(v, d, r), NEW t, NEW from, NEW x, x = AckIn(t, v, w, from)
    PROVE  Concludes(s, x, AnswerRec(d, r, w))
<1>1. PICK a, n, refused : a = AnswerRec(d, r, w) /\ n = handleIncomingACK(s, x)
                           /\ refused = (x.status \in {Accept.Denied, Accept.Occupied, Accept.DND})
  OBVIOUS
<1>2. x.status = v /\ x.away = w
  BY AckSeen
<1>3. /\ Continues(n, s) /\ n.finished = TRUE /\ n.away = x.away
      /\ n.delivered = (~refused \/ s.event.kind = "AwayMessage")
      /\ refused => n.reason = IF x.status = Accept.Denied THEN "Denied"
                               ELSE IF x.status = Accept.Occupied THEN "Occupied" ELSE "DND"
  <2>1. AcknowledgedAs(n, s, x, refused)
    BY <1>1, Acknowledged
  <2>2. QED
    BY <2>1, Zenon DEF AcknowledgedAs
<1>4. a.given = TRUE /\ a.delivered = d /\ a.reason = r /\ a.away = w
  BY <1>1 DEF AnswerRec
<1>5. d \in BOOLEAN /\ r \in {"None", "Denied", "Occupied", "DND", "Ignored"} /\ (~d => r # "None")
  BY DEF IsAnswer
<1>6. refused = ~d
  BY <1>1, <1>2, <1>5 DEF Accepts, Accept
<1>7. n.delivered = d
  BY <1>3, <1>5, <1>6
<1>8. ~d => n.reason = r
  <2>1. v = Accept.Denied \/ v = Accept.Occupied \/ v = Accept.DND \/ d
    BY <1>5 DEF Accepts
  <2>2. ~d => n.reason = IF v = Accept.Denied THEN "Denied" ELSE IF v = Accept.Occupied THEN "Occupied" ELSE "DND"
    BY <1>2, <1>3, <1>6
  <2>3. QED
    BY <1>5, <2>2 DEF Accepts, Accept
<1>9. n.event.kind # "FileTransfer"
  BY <1>3 DEF Continues
<1>10. Agrees(n, a)
  BY <1>2, <1>3, <1>4, <1>7, <1>8, <1>9 DEF Agrees
<1>11. QED
  BY <1>1, <1>3, <1>10, Zenon DEF Concludes

-----------------------------------------------------------------------------
(* Acknowledgements, in bytes.                                               *)
Acking(x, yes, w, s) == [x EXCEPT !.ack = yes, !.away = w, !.status = s]

LEMMA AckOfIs ==
    ASSUME NEW t, NEW F, NEW N, NEW s, NEW u, NEW l, NEW adv, NEW ack, NEW w, NEW q, NEW from, NEW to,
           NEW w2, NEW s2, NEW yes
    PROVE  Acking(Sub(t, F, N, s, u, l, adv, ack, w, q, from, to), yes, w2, s2) =
               Sub(t, F, N, s2, u, l, adv, yes, w2, q, from, to)
<1> DEFINE x == Sub(t, F, N, s, u, l, adv, ack, w, q, from, to)
<1>1. PICK x1 : x1 = [x EXCEPT !.status = s2]
  OBVIOUS
<1>2. x1 = Sub(t, F, N, s2, u, l, adv, ack, w, q, from, to)
  BY <1>1 DEF Sub
<1> HIDE DEF x
<1>3. PICK x2 : x2 = [x1 EXCEPT !.away = w2]
  OBVIOUS
<1>4. x2 = Sub(t, F, N, s2, u, l, adv, ack, w2, q, from, to)
  BY <1>2, <1>3 DEF Sub
<1>5. [x2 EXCEPT !.ack = yes] = Sub(t, F, N, s2, u, l, adv, yes, w2, q, from, to)
  BY <1>4 DEF Sub
<1>6. Acking(x, yes, w2, s2) = [x2 EXCEPT !.ack = yes]
  BY <1>1, <1>3 DEF Acking
<1>7. QED
  BY <1>5, <1>6, Zenon DEF x

\* The bytes of an acknowledgement, and what is read of them.
Answering(k, t, s, w) ==
    /\ k.seq = SeqNum /\ k.source = UIN.A /\ Within(Output(k), 26)
    /\ \E j : /\ Holds(Output(k), TRUE, TRUE, j) /\ j # NoSubtype
              /\ WithSeq(j, SeqNum) = AckIn(t, s, w, 0)
              /\ \A from : From(WithSeq(j, SeqNum), from) = AckIn(t, s, w, from)

LEMMA AckHeld ==
    ASSUME NEW e, IsEvent(e), e.kind # "FileTransfer", NEW me, NEW t, NEW F, NEW N, Wires(e, me.contact, t, F, N),
           NEW x, x = AdvancedIn(e, me, t, F, N), NEW w \in Short, NEW s \in Word2, NEW k, k = AckOf(x, w, s)
    PROVE  Answering(k, t, s, w)
<1>1. PICK yes, no, em, o, u, l, st : yes = TRUE /\ no = FALSE /\ em = <<>> /\ o = 0
                                      /\ u = (e.urgent /\ ~e.tolist) /\ l = e.tolist /\ st = StatusNumber(me)
  OBVIOUS
<1>2. x = Sub(t, F, N, st, u, l, yes, no, em, SeqNum, UIN.A, o)
  BY <1>1, Zenon DEF AdvancedIn
<1>3. k = Sub(t, F, N, s, u, l, yes, yes, w, SeqNum, UIN.A, o)
  <2>1. AckOf(x, w, s) = Sub(t, F, N, s, u, l, yes, yes, w, SeqNum, UIN.A, o)
    <3>1. Acking(x, yes, w, s) = Sub(t, F, N, s, u, l, yes, yes, w, SeqNum, UIN.A, o)
      <4>1. Acking(Sub(t, F, N, st, u, l, yes, no, em, SeqNum, UIN.A, o), yes, w, s) =
                Sub(t, F, N, s, u, l, yes, yes, w, SeqNum, UIN.A, o)
        BY AckOfIs
      <4>2. QED
        BY <1>2, <4>1, Zenon
    <3>2. Acking(x, yes, w, s) = AckOf(x, w, s)
      BY <1>1, Zenon DEF Acking, AckOf
    <3>3. QED
      BY <3>1, <3>2, Zenon
  <2>2. QED
    BY <2>1
<1>4. /\ k.type = t /\ k.status = s /\ k.urgent = u /\ k.tolist = l /\ k.advanced = yes /\ k.ack = yes /\ k.away = w
      /\ k.seq = SeqNum /\ k.source = UIN.A
  BY <1>3, SubIs
<1>5. t \in Types /\ t # 0 /\ t # Type.FT
  BY WiredType
<1>6. u \in BOOLEAN /\ l \in BOOLEAN
  BY <1>1 DEF IsEvent
<1>7. Booleans(k)
  BY <1>1, <1>4, <1>6 DEF Booleans
<1>8. Body(k, w)
  BY <1>1, <1>4, <1>5, GivesAck
<1>9. Holds(Output(k), yes, yes, ReadBack(k, em, None, w)) /\ Within(Output(k), 17)
  <2>1. /\ Holds(Output(k), k.advanced, k.ack, ReadBack(k, em, None, IF k.ack THEN w ELSE <<>>))
        /\ Within(Output(k), 17)
    <3>1. k.type \in Types /\ k.type # Type.FT /\ k.advanced = TRUE /\ k.status \in Word2 /\ (~k.ack => Fields(k.type, w) = em)
          /\ (k.ack => em = <<>>)
      BY <1>1, <1>4, <1>5
    <3>2. QED
      BY <1>7, <1>8, <3>1, AdvancedText
  <2>2. (IF k.ack THEN w ELSE <<>>) = w
    BY <1>1, <1>4
  <2>3. QED
    BY <1>4, <2>1, <2>2, Zenon
<1>10. Within(Output(k), 26)
  <2>1. PICK n : n = Len(Output(k)) /\ n <= Limit + 17
    BY <1>9, Zenon DEF Within
  <2>2. Output(k) \in Bytes
    BY <1>9, Zenon DEF Within
  <2>3. n \in Nat
    BY <2>1, <2>2, BytesType
  <2>4. n <= Limit + 26
    BY <2>1, <2>3, SMT DEF Limit
  <2>5. QED
    BY <2>1, <2>2, <2>4, Zenon DEF Within
<1> DEFINE j == ReadBack(k, em, None, w)
<1>11. j = Sub(t, em, None, s, no, no, yes, yes, w, o, o, o)
  <2>1. Urgent(k) = no /\ ToList(k) = no
    BY <1>1, <1>4, <1>6 DEF Urgent, ToList
  <2>2. QED
    BY <1>1, <1>4, <2>1, Zenon DEF ReadBack
<1> HIDE DEF j
<1>12. j # NoSubtype
  BY <1>5, <1>11, SubIs
<1>13. WithSeq(j, SeqNum) = Sub(t, em, None, s, no, no, yes, yes, w, SeqNum, o, o)
  <2>1. WithSeq(Sub(t, em, None, s, no, no, yes, yes, w, o, o, o), SeqNum) = Sub(t, em, None, s, no, no, yes,
            yes, w, SeqNum, o, o)
    BY NumberedAs
  <2>2. QED
    BY <1>11, <2>1, Zenon
<1>14. \A from : From(WithSeq(j, SeqNum), from) = Sub(t, em, None, s, no, no, yes, yes, w, SeqNum, from, o)
  <2>1. TAKE from
  <2>2. From(Sub(t, em, None, s, no, no, yes, yes, w, SeqNum, o, o), from) = Sub(t, em, None, s, no, no, yes,
            yes, w, SeqNum, from, o)
    BY <1>5, FromIs
  <2>3. QED
    BY <1>13, <2>2, Zenon
<1>15. \A from : AckIn(t, s, w, from) = Sub(t, em, None, s, no, no, yes, yes, w, SeqNum, from, o)
  BY <1>1, Zenon DEF AckIn
<1>16. WithSeq(j, SeqNum) = AckIn(t, s, w, 0)
  BY <1>1, <1>13, <1>15, Zenon
<1>17. Holds(Output(k), TRUE, TRUE, j)
  BY <1>1, <1>9, Zenon DEF j
<1>18. QED
  BY <1>4, <1>10, <1>12, <1>14, <1>15, <1>16, <1>17, ZenonT(60) DEF Answering

LEMMA DirectAck ==
    ASSUME NEW k, NEW t, NEW s, NEW w, Answering(k, t, s, w), NEW v \in {6, 7}, NEW b \in PacketBytes(Command.ACK, k, v)
    PROVE  ParsePacket(b, v) = [command |-> Command.ACK, ist |-> AckIn(t, s, w, 0)]
<1>1. k.seq = SeqNum /\ Within(Output(k), 26)
  BY Zenon DEF Answering
<1>2. PICK j : /\ Holds(Output(k), TRUE, TRUE, j) /\ j # NoSubtype /\ WithSeq(j, SeqNum) = AckIn(t, s, w, 0)
  BY Zenon DEF Answering
<1>3. PICK ack, command : ack = TRUE /\ command = Command.ACK
  OBVIOUS
<1>4. ack = (command = Command.ACK)
  BY <1>3
<1>5. Holds(Output(k), TRUE, ack, j) /\ command \in {Command.START, Command.ACK} /\ b \in PacketBytes(command, k, v)
  BY <1>2, <1>3, Zenon
<1>6. ParsePacket(b, v) = [command |-> command, ist |-> WithSeq(j, SeqNum)]
  BY <1>1, <1>2, <1>4, <1>5, PacketBrings, ZenonT(150)
<1>7. QED
  BY <1>2, <1>3, <1>6, Zenon

LEMMA ServerAck ==
    ASSUME NEW k, NEW t, NEW s, NEW w, Answering(k, t, s, w)
    PROVE  AckArrived(FLAP(4, 11, Renamed(MessageACK(k, ICBMCookie), UIN.B)), ICBMCookie, AckIn(t, s, w, UIN.B))
<1>1. k.seq = SeqNum /\ k.source = UIN.A /\ Within(Output(k), 26) /\ SeqNum \in Word2
  BY SeqNumIs, Zenon DEF Answering
<1>2. PICK j : /\ Holds(Output(k), TRUE, TRUE, j) /\ j # NoSubtype
                  /\ \A from : From(WithSeq(j, SeqNum), from) = AckIn(t, s, w, from)
  BY Zenon DEF Answering
<1>3. PICK c, o, a, b : c = ICBMCookie /\ o = Output(k) /\ a = UIN.A /\ b = UIN.B
  OBVIOUS
<1>4. c \in Word4 /\ IsCookie(Cookie(c)) /\ IsUIN(a) /\ IsUIN(b)
  BY <1>3, ICBMCookieIs, UINsAre, Zenon
<1>5. o \in Bytes /\ Within(o, 26) /\ HoldsAnswer(o, j)
  BY <1>1, <1>2, <1>3, Zenon DEF Within, HoldsAnswer
<1>6. MessageACK(k, c) = MsgBody(Cookie(c), 2, UINtoString(a), AckRest(SeqNum, o))
  <2>1. k.seq \in Word2 /\ Output(k) \in Bytes /\ IsUIN(k.source)
    BY <1>1, <1>3, <1>4, <1>5, Zenon
  <2>2. MessageACK(k, c) = MsgBody(Cookie(c), 2, UINtoString(k.source), AckRest(k.seq, Output(k)))
    BY <1>4, <2>1, AckSent, Zenon
  <2>3. QED
    BY <1>1, <1>3, <2>2, Zenon
<1>7. AckRest(SeqNum, o) \in Bytes
  BY <1>1, <1>5, AckRestIs, Zenon
<1>8. Renamed(MessageACK(k, c), b) = MsgBody(Cookie(c), 2, UINtoString(b), AckRest(SeqNum, o))
  BY <1>4, <1>6, <1>7, AckRelayed, ZenonT(150)
<1>9. PICK f : f = FLAP(4, 11, MsgBody(Cookie(c), 2, UINtoString(b), AckRest(SeqNum, o)))
  OBVIOUS
<1>10. AckArrived(f, c, From(WithSeq(j, SeqNum), b))
  BY <1>1, <1>2, <1>4, <1>5, <1>9, AckArrives, ZenonT(60)
<1>11. QED
  BY <1>2, <1>3, <1>8, <1>9, <1>10, Zenon

\* The answer to a request to send a file.
FTStatus(p) == IF p # 0 THEN 0 ELSE Accept.Denied
FTAnswer(p, r) ==
    [Subtype(Type.FT, <<r, <<>>>>) EXCEPT !.advanced = TRUE, !.ack = TRUE, !.seq = SeqNum,
                                          !.status = IF p # 0 THEN 0 ELSE Accept.Denied, !.numbers = <<p, Swapped(p), 0>>]
FileAckIn(p, r) ==
    Sub(Type.FT, <<r, <<>>>>, <<p, Swapped(p), 0>>, FTStatus(p), FALSE, FALSE, TRUE, TRUE, <<>>, SeqNum, 0, 0)
FileAnswerRec(p, r) == [given |-> TRUE, port |-> p, refusal |-> r]

Answered5(x, adv, ack, q, s, N) == [x EXCEPT !.advanced = adv, !.ack = ack, !.seq = q, !.status = s, !.numbers = N]
LEMMA AnsweredIs ==
    ASSUME NEW t, NEW F, NEW N, NEW s, NEW u, NEW l, NEW adv, NEW ack, NEW w, NEW q, NEW from, NEW to,
           NEW adv2, NEW ack2, NEW q2, NEW s2, NEW N2
    PROVE  Answered5(Sub(t, F, N, s, u, l, adv, ack, w, q, from, to), adv2, ack2, q2, s2, N2) =
               Sub(t, F, N2, s2, u, l, adv2, ack2, w, q2, from, to)
<1> DEFINE x == Sub(t, F, N, s, u, l, adv, ack, w, q, from, to)
<1>1. PICK x1 : x1 = [x EXCEPT !.advanced = adv2]
  OBVIOUS
<1>2. x1 = Sub(t, F, N, s, u, l, adv2, ack, w, q, from, to)
  BY <1>1 DEF Sub
<1>3. PICK x2 : x2 = [x1 EXCEPT !.ack = ack2]
  OBVIOUS
<1>4. x2 = Sub(t, F, N, s, u, l, adv2, ack2, w, q, from, to)
  BY <1>2, <1>3 DEF Sub
<1>5. PICK x3 : x3 = [x2 EXCEPT !.seq = q2]
  OBVIOUS
<1>6. x3 = Sub(t, F, N, s, u, l, adv2, ack2, w, q2, from, to)
  BY <1>4, <1>5 DEF Sub
<1>7. PICK x4 : x4 = [x3 EXCEPT !.status = s2]
  OBVIOUS
<1>8. x4 = Sub(t, F, N, s2, u, l, adv2, ack2, w, q2, from, to)
  BY <1>6, <1>7 DEF Sub
<1>9. [x4 EXCEPT !.numbers = N2] = Sub(t, F, N2, s2, u, l, adv2, ack2, w, q2, from, to)
  BY <1>8 DEF Sub
<1> HIDE DEF x
<1>10. Answered5(x, adv2, ack2, q2, s2, N2) = [x4 EXCEPT !.numbers = N2]
  BY <1>1, <1>3, <1>5, <1>7, Zenon DEF Answered5
<1>11. QED
  BY <1>9, <1>10, Zenon DEF x

LEMMA FTAnswerIs ==
    ASSUME NEW p, NEW r
    PROVE  FTAnswer(p, r) = FileAckIn(p, r)
<1>1. PICK yes, no, em, o, s, N, F : yes = TRUE /\ no = FALSE /\ em = <<>> /\ o = 0 /\ s = FTStatus(p)
                                  /\ N = <<p, Swapped(p), 0>> /\ F = <<r, <<>>>>
  OBVIOUS
<1>2. Subtype(Type.FT, F) = Sub(Type.FT, F, None, o, no, no, no, no, em, o, o, o)
  BY <1>1, SubNew, Zenon
<1>3. Answered5(Sub(Type.FT, F, None, o, no, no, no, no, em, o, o, o), yes, yes, SeqNum, s, N) =
          Sub(Type.FT, F, N, s, no, no, yes, yes, em, SeqNum, o, o)
  BY AnsweredIs
<1>4. FTAnswer(p, r) = Answered5(Subtype(Type.FT, F), yes, yes, SeqNum, s, N)
  BY <1>1, Zenon DEF FTAnswer, Answered5, FTStatus
<1>5. FileAckIn(p, r) = Sub(Type.FT, F, N, s, no, no, yes, yes, em, SeqNum, o, o)
  BY <1>1, Zenon DEF FileAckIn
<1>6. QED
  BY <1>2, <1>3, <1>4, <1>5, Zenon

LEMMA SwappedIs ==
    ASSUME NEW p \in Word2
    PROVE  Swapped(p) \in Word2 /\ (p = 0 => Swapped(p) = 0)
<1>1. PICK a, b : a = p % 256 /\ b = p \div 256
  OBVIOUS
<1>2. a \in 0 .. 255 /\ b \in 0 .. 255
  BY <1>1, SMT DEF Word2
<1>3. a * 256 + b \in Nat /\ a * 256 + b < 65536
  BY <1>2, SMT
<1>4. Swapped(p) = a * 256 + b
  BY <1>1 DEF Swapped
<1>5. p = 0 => a = 0 /\ b = 0
  BY <1>1, SMT
<1>6. QED
  BY <1>3, <1>4, <1>5, SMT DEF Word2

LEMMA FileSeen ==
    ASSUME NEW p, NEW r, NEW x, x = FileAckIn(p, r)
    PROVE  /\ x.type = Type.FT /\ x.fields = <<r, <<>>>> /\ x.numbers = <<p, Swapped(p), 0>> /\ x.status = FTStatus(p)
           /\ x.urgent = FALSE /\ x.tolist = FALSE /\ x.advanced = TRUE /\ x.ack = TRUE /\ x.away = <<>> /\ x.seq = SeqNum
<1>1. PICK yes, no, em, o, s, N, F : yes = TRUE /\ no = FALSE /\ em = <<>> /\ o = 0 /\ s = FTStatus(p)
                                  /\ N = <<p, Swapped(p), 0>> /\ F = <<r, <<>>>>
  OBVIOUS
<1>2. x = Sub(Type.FT, F, N, s, no, no, yes, yes, em, SeqNum, o, o)
  BY <1>1, Zenon DEF FileAckIn
<1>3. /\ x.type = Type.FT /\ x.fields = F /\ x.numbers = N /\ x.status = s /\ x.urgent = no /\ x.tolist = no
      /\ x.advanced = yes /\ x.ack = yes /\ x.away = em /\ x.seq = SeqNum
  BY <1>2, SubIs
<1>4. QED
  BY <1>1, <1>3, Zenon

LEMMA FileAck ==
    ASSUME NEW p \in Word2, NEW r \in Short, NEW v \in {6, 7}, NEW b \in PacketBytes(Command.ACK, FTAnswer(p, r), v)
    PROVE  ParsePacket(b, v) = [command |-> Command.ACK, ist |-> FileAckIn(p, r)]
<1>1. PICK x : x = FTAnswer(p, r)
  OBVIOUS
<1>2. x = FileAckIn(p, r)
  BY <1>1, FTAnswerIs, Zenon
<1>3. PICK yes, no, em, o, s, q : yes = TRUE /\ no = FALSE /\ em = <<>> /\ o = 0 /\ s = FTStatus(p) /\ q = Swapped(p)
  OBVIOUS
<1>4. x = Sub(Type.FT, <<r, em>>, <<p, q, o>>, s, no, no, yes, yes, em, SeqNum, o, o)
  BY <1>2, <1>3, Zenon DEF FileAckIn
<1>5. /\ x.type = Type.FT /\ x.fields = <<r, em>> /\ x.numbers = <<p, q, o>> /\ x.status = s /\ x.urgent = no /\ x.tolist = no
      /\ x.advanced = yes /\ x.ack = yes /\ x.seq = SeqNum
  BY <1>4, SubIs
<1>6. em \in Short /\ em \in Bytes
  <2>1. <<>> \in Bytes /\ Len(<<>>) = 0
    BY NoBytes
  <2>2. 0 <= Limit
    BY SMT DEF Limit
  <2>3. QED
    BY <1>3, <2>1, <2>2 DEF Short
<1>7. Within(Join(r, em), 0)
  <2>1. r \in Bytes /\ Within(r, 0)
    BY ShortIs
  <2>2. Join(r, em) = r
    BY <1>3, <2>1, JoinIs
  <2>3. QED
    BY <2>1, <2>2, Zenon
<1>8. q \in Word2 /\ o \in Word4 /\ s \in Word2
  <2>1. s = 0 \/ s = 1
    BY <1>3 DEF FTStatus, Accept
  <2>2. 0 \in Word2 /\ 1 \in Word2 /\ 0 \in Word4
    BY SMT DEF Word2, Word4
  <2>3. q \in Word2
    BY <1>3, SwappedIs, Zenon
  <2>4. QED
    BY <1>3, <2>1, <2>2, <2>3
<1>9. Booleans(x)
  BY <1>3, <1>5 DEF Booleans
<1>10. Holds(Output(x), x.advanced, x.ack, ReadBack(x, <<r, em>>, <<p, q, o>>, <<>>)) /\ Within(Output(x), 26)
  <2>1. x.advanced = TRUE /\ x.status \in Word2
    BY <1>3, <1>5, <1>8
  <2>2. QED
    BY <1>5, <1>6, <1>7, <1>8, <1>9, <2>1, FileHolds
<1> DEFINE j == ReadBack(x, <<r, em>>, <<p, q, o>>, em)
<1>11. j = Sub(Type.FT, <<r, em>>, <<p, q, o>>, s, no, no, yes, yes, em, o, o, o)
  <2>1. Urgent(x) = no /\ ToList(x) = no
    BY <1>3, <1>5 DEF Urgent, ToList
  <2>2. QED
    BY <1>3, <1>5, <2>1, Zenon DEF ReadBack
<1>12. Holds(Output(x), TRUE, TRUE, j)
  BY <1>3, <1>5, <1>10, Zenon
<1> HIDE DEF j
<1>13. j # NoSubtype
  <2>1. Type.FT # 0
    BY KindsDiffer
  <2>2. QED
    BY <1>11, <2>1, SubIs
<1>14. WithSeq(j, SeqNum) = x
  <2>1. WithSeq(Sub(Type.FT, <<r, em>>, <<p, q, o>>, s, no, no, yes, yes, em, o, o, o), SeqNum) =
            Sub(Type.FT, <<r, em>>, <<p, q, o>>, s, no, no, yes, yes, em, SeqNum, o, o)
    BY NumberedAs
  <2>2. QED
    BY <1>4, <1>11, <2>1, Zenon
<1>15. PICK ack, command : ack = TRUE /\ command = Command.ACK
  OBVIOUS
<1>16. ack = (command = Command.ACK) /\ Holds(Output(x), TRUE, ack, j) /\ command \in {Command.START, Command.ACK}
       /\ b \in PacketBytes(command, x, v)
  BY <1>1, <1>12, <1>15
<1>17. ParsePacket(b, v) = [command |-> command, ist |-> WithSeq(j, SeqNum)]
  <2>1. x.seq = SeqNum /\ Within(Output(x), 26)
    BY <1>5, <1>10, Zenon
  <2>2. Holds(Output(x), TRUE, ack, j) /\ command \in {Command.START, Command.ACK} /\ b \in PacketBytes(command, x, v)
        /\ ack = (command = Command.ACK)
    BY <1>16, Zenon
  <2>3. QED
    BY <1>13, <2>1, <2>2, PacketBrings, ZenonT(150)
<1>18. QED
  BY <1>2, <1>14, <1>15, <1>17, Zenon

\* A file transfer ends with the port that was named, or is refused.
Filed(n, ev, ft) ==
    \E port : /\ port = (IF ft.numbers[1] # 0 THEN ft.numbers[1] ELSE Swapped(ft.numbers[2]))
              /\ n = [ev EXCEPT !.file = [state |-> IF ft.status = Accept.Online /\ port # 0 THEN "ACCEPTED" ELSE "REJECTED",
                                          port |-> port, refusal |-> ft.fields[1]]]
LEMMA FileAcknowledged ==
    ASSUME NEW s, s.event.kind = "FileTransfer", NEW x
    PROVE  \E reason, delivered : Filed(handleIncomingACK(s, x), Finishing(s, x.away, reason, delivered), x)
<1> DEFINE reason == CASE x.status = Accept.Denied -> "Denied" [] x.status = Accept.Occupied -> "Occupied"
                       [] x.status = Accept.DND -> "DND" [] OTHER -> s.reason
           isFile == s.event.kind = "FileTransfer"
           delivered == ~(x.status \in {Accept.Denied, Accept.Occupied, Accept.DND}) \/ isFile \/ s.event.kind = "AwayMessage"
           finished == [s EXCEPT !.away = x.away, !.finished = TRUE, !.reason = reason, !.delivered = delivered]
<1>1. handleIncomingACK(s, x) = IF isFile THEN handleIncomingFTACK(finished, x) ELSE finished
  BY Zenon DEF handleIncomingACK
<1>2. finished = Finishing(s, x.away, reason, delivered)
  BY Zenon DEF Finishing
<1> HIDE DEF finished, reason, delivered
<1>3. handleIncomingACK(s, x) = handleIncomingFTACK(finished, x)
  BY <1>1
<1>4. Filed(handleIncomingFTACK(finished, x), finished, x)
  BY Zenon DEF Filed, handleIncomingFTACK
<1>5. QED
  BY <1>2, <1>3, <1>4, Zenon

LEMMA FileConcludes ==
    ASSUME NEW s, SentIs(s), s.event.kind = "FileTransfer", NEW p \in Word2, NEW r, NEW x, x = FileAckIn(p, r)
    PROVE  Concludes(s, x, FileAnswerRec(p, r))
<1>1. PICK n : n = handleIncomingACK(s, x)
  OBVIOUS
<1>2. PICK reason, delivered : Filed(n, Finishing(s, x.away, reason, delivered), x)
  BY <1>1, FileAcknowledged, Zenon
<1>3. PICK b1, b2, b3, b4, b5, b6, b7, b8, b9 :
          /\ b1 = s.event /\ b2 = s.way /\ b3 = s.version /\ b4 = s.out /\ b5 = TRUE /\ b6 = delivered
          /\ b7 = reason /\ b8 = x.away /\ b9 = s.file
  OBVIOUS
<1>4. PICK ev : ev = Finishing(s, x.away, reason, delivered)
  OBVIOUS
<1>5. ev = [event |-> b1, way |-> b2, version |-> b3, out |-> b4, finished |-> b5, delivered |-> b6,
            reason |-> b7, away |-> b8, file |-> b9]
  <2>1. Finishing(s, b8, b7, b6) =
            [event |-> s.event, way |-> s.way, version |-> s.version, out |-> s.out, finished |-> TRUE,
             delivered |-> b6, reason |-> b7, away |-> b8, file |-> s.file]
    BY FinishedIs
  <2>2. QED
    BY <1>3, <1>4, <2>1, Zenon
<1>6. PICK port : /\ port = (IF x.numbers[1] # 0 THEN x.numbers[1] ELSE Swapped(x.numbers[2]))
                  /\ n = [ev EXCEPT !.file = [state |-> IF x.status = Accept.Online /\ port # 0 THEN "ACCEPTED" ELSE "REJECTED",
                                              port |-> port, refusal |-> x.fields[1]]]
  BY <1>2, <1>4, Zenon DEF Filed
<1>7. PICK file : file = [state |-> IF x.status = Accept.Online /\ port # 0 THEN "ACCEPTED" ELSE "REJECTED",
                          port |-> port, refusal |-> x.fields[1]]
  OBVIOUS
<1>8. n = [event |-> b1, way |-> b2, version |-> b3, out |-> b4, finished |-> b5, delivered |-> b6,
           reason |-> b7, away |-> b8, file |-> file]
  <2>1. n = [ev EXCEPT !.file = file]
    BY <1>6, <1>7, Zenon
  <2>2. QED
    BY <1>5, <2>1
<1>9. x.numbers = <<p, Swapped(p), 0>> /\ x.fields = <<r, <<>>>> /\ x.status = FTStatus(p)
  BY FileSeen, ZenonT(60)
<1>10. port = p
  <2>1. x.numbers[1] = p /\ x.numbers[2] = Swapped(p)
    BY <1>9
  <2>2. p = 0 => Swapped(Swapped(p)) = 0
    BY SwappedIs
  <2>3. QED
    BY <1>6, <2>1, <2>2
<1>11. file.port = p /\ file.refusal = r /\ file.state = IF p # 0 THEN "ACCEPTED" ELSE "REJECTED"
  <2>1. x.fields[1] = r
    BY <1>9
  <2>2. x.status = Accept.Online <=> p # 0
    BY <1>9 DEF FTStatus, Accept
  <2>3. QED
    BY <1>7, <1>10, <2>1, <2>2
<1>12. Continues(n, s)
  BY <1>3, <1>8 DEF Continues, SentIs
<1>13. n.finished = TRUE /\ n.file = file /\ n.event = s.event
  BY <1>3, <1>8
<1>14. Agrees(n, FileAnswerRec(p, r))
  BY <1>11, <1>13 DEF Agrees, FileAnswerRec
<1>15. QED
  BY <1>1, <1>12, <1>14, Zenon DEF Concludes

-----------------------------------------------------------------------------
(* The frames of a read, one after the other.                                *)
HandledBy(f, c, frames, ans, n) ==
    Handled(c, frames, ans) = f[n] /\ f[0] = c /\ \A j \in 1 .. n : f[j] = ParseCh2(f[j - 1], frames[j], ans)
LEMMA HandledFunction ==
    ASSUME NEW c, NEW frames, NEW ans, NEW n \in Nat, Len(frames) = n
    PROVE  \E f : HandledBy(f, c, frames, ans, n)
<1> DEFINE Step(j, f) == IF j = 0 THEN c ELSE ParseCh2(f[j - 1], frames[j], ans)
           N == 0 .. n
           Good(k, f) == f = [j \in 0 .. k |-> f[j]] /\ \A j \in 0 .. k : f[j] = Step(j, f)
           S == {k \in Nat : \E f : Good(k, f)}
<1>1. 0 \in S
  <2>1. [j \in 0 .. 0 |-> c] = [j \in 0 .. 0 |-> [k \in 0 .. 0 |-> c][j]] /\ \A j \in 0 .. 0 : j = 0
            /\ [k \in 0 .. 0 |-> c][j] = c
    OBVIOUS
  <2>2. Good(0, [j \in 0 .. 0 |-> c])
    BY <2>1
  <2>3. QED
    BY <2>2
<1>2. ASSUME NEW k \in Nat, k \in S PROVE k + 1 \in S
  <2>1. PICK g : Good(k, g)
    BY <1>2
  <2> DEFINE f == [j \in 0 .. k + 1 |-> IF j <= k THEN g[j] ELSE ParseCh2(g[k], frames[k + 1], ans)]
  <2>2. f = [j \in 0 .. k + 1 |-> f[j]] /\ \A j \in 0 .. k + 1 : f[j] = Step(j, f)
    <3>1. ASSUME NEW j \in 0 .. k + 1 PROVE f[j] = Step(j, f)
      <4>1. CASE j = 0
        <5>1. 0 \in 0 .. k /\ 0 \in 0 .. k + 1 /\ 0 <= k
          OBVIOUS
        <5>2. f[0] = g[0]
          BY <5>1
        <5>3. g[0] = Step(0, g)
          BY <2>1, <5>1, Zenon
        <5>4. Step(0, g) = c /\ Step(0, f) = c
          OBVIOUS
        <5>5. QED
          BY <4>1, <5>2, <5>3, <5>4, Zenon
      <4>2. CASE j \in 1 .. k
        <5>1. j \in 0 .. k /\ j - 1 \in 0 .. k /\ j <= k /\ j - 1 <= k /\ j # 0 /\ j - 1 \in 0 .. k + 1
          BY <4>2
        <5>2. f[j] = g[j] /\ f[j - 1] = g[j - 1]
          BY <5>1
        <5>3. g[j] = ParseCh2(g[j - 1], frames[j], ans)
          BY <2>1, <5>1
        <5>4. QED
          BY <5>1, <5>2, <5>3
      <4>3. CASE j = k + 1
        <5>1. k \in 0 .. k + 1 /\ ~(k + 1 <= k) /\ k + 1 # 0 /\ (k + 1) - 1 = k /\ k <= k
          OBVIOUS
        <5>2. f[j] = ParseCh2(g[k], frames[k + 1], ans) /\ f[j - 1] = g[k]
          BY <4>3, <5>1
        <5>3. QED
          BY <4>3, <5>1, <5>2
      <4>4. QED
        BY <4>1, <4>2, <4>3
    <3>2. f = [j \in 0 .. k + 1 |-> f[j]]
      OBVIOUS
    <3>3. QED
      BY <3>1, <3>2
  <2> HIDE DEF f
  <2>3. Good(k + 1, f)
    BY <2>2
  <2>4. k + 1 \in Nat
    OBVIOUS
  <2> HIDE DEF Good
  <2>5. QED
    BY <2>3, <2>4, Zenon
<1>3. n \in S
  BY <1>1, <1>2, SetInduction
<1>4. PICK f : Good(n, f)
  BY <1>3
<1>5. f = [j \in N |-> Step(j, f)]
  BY <1>4
<1>6. \E h : h = [j \in N |-> Step(j, h)]
  BY <1>5
<1> DEFINE u == CHOOSE h : h = [j \in N |-> Step(j, h)]
<1>7. u = [j \in N |-> Step(j, u)]
  BY <1>6
<1>8. Handled(c, frames, ans) = u[n]
  BY DEF Handled
<1> HIDE DEF u
<1>9. u[0] = c /\ \A j \in 1 .. n : u[j] = ParseCh2(u[j - 1], frames[j], ans)
  BY <1>7
<1>10. QED
  BY <1>8, <1>9, Zenon DEF HandledBy

LEMMA HandledNone ==
    ASSUME NEW c, NEW ans, NEW fs, fs = <<>>
    PROVE  Handled(c, fs, ans) = c
<1>1. Len(fs) = 0 /\ Len(fs) \in Nat
  OBVIOUS
<1>2. QED
  BY <1>1, HandledFunction DEF HandledBy

LEMMA HandledOne ==
    ASSUME NEW c, NEW ans, NEW f, NEW fs, fs = <<f>>
    PROVE  Handled(c, fs, ans) = ParseCh2(c, f, ans)
<1>1. Len(fs) = 1 /\ Len(fs) \in Nat /\ fs[1] = f
  OBVIOUS
<1>2. PICK u : HandledBy(u, c, fs, ans, 1)
  BY <1>1, HandledFunction
<1>3. u[0] = c /\ Handled(c, fs, ans) = u[1] /\ u[1] = ParseCh2(u[0], fs[1], ans)
  BY <1>2 DEF HandledBy
<1>4. QED
  BY <1>1, <1>2, <1>3, Zenon

LEMMA HandledTwo ==
    ASSUME NEW c, NEW ans, NEW f, NEW g, NEW fs, fs = <<f, g>>
    PROVE  Handled(c, fs, ans) = ParseCh2(ParseCh2(c, f, ans), g, ans)
<1>1. Len(fs) = 2 /\ Len(fs) \in Nat /\ fs[1] = f /\ fs[2] = g
  OBVIOUS
<1>2. PICK u : HandledBy(u, c, fs, ans, 2)
  BY <1>1, HandledFunction
<1>3. /\ u[0] = c /\ Handled(c, fs, ans) = u[2] /\ u[1] = ParseCh2(u[0], fs[1], ans)
      /\ u[2] = ParseCh2(u[1], fs[2], ans)
  BY <1>2 DEF HandledBy
<1>4. QED
  BY <1>1, <1>2, <1>3, Zenon

\* A frame with a message, and one with a stored message, or the last.
LEMMA MessageFrame ==
    ASSUME NEW c, NEW f, NEW n, NEW ist, Arrives(f, n, ist), NEW ans
    PROVE  ParseCh2(c, f, ans) = SignalMessage(c, [cookie |-> n, ist |-> ist], ans)
<1>1. PICK s : s = ParseSNAC(f)
  OBVIOUS
<1>2. s.family = 4 /\ s.subtype = 7 /\ ParseMessage(s.r) = [cookie |-> n, ist |-> ist]
  BY <1>1, Zenon DEF Arrives
<1> DEFINE X == SignalMessage(c, ParseMessage(s.r), ans)
           Y == SignalSrvResponse(c, ParseSrvResponse(s.r), ans)
<1>3. ParseCh2(c, f, ans) =
          CASE s.family = 4 /\ s.subtype = 7 -> X [] s.family = 21 /\ s.subtype = 3 -> Y [] OTHER -> c
  BY <1>1, Zenon DEF ParseCh2
<1>4. X = SignalMessage(c, [cookie |-> n, ist |-> ist], ans)
  BY <1>2, Zenon
<1> HIDE DEF X, Y
<1>5. ParseCh2(c, f, ans) = X
  BY <1>2, <1>3
<1>6. QED
  BY <1>4, <1>5, Zenon

LEMMA ResponseFrame ==
    ASSUME NEW c, NEW f, NEW g, NEW ist, Stored(f, g, ist), NEW ans
    PROVE  ParseCh2(c, f, ans) = SignalSrvResponse(c, [command |-> g, ist |-> ist], ans)
<1>1. PICK s : s = ParseSNAC(f)
  OBVIOUS
<1>2. s.family = 21 /\ s.subtype = 3 /\ ParseSrvResponse(s.r) = [command |-> g, ist |-> ist]
  BY <1>1, Zenon DEF Stored
<1> DEFINE X == SignalMessage(c, ParseMessage(s.r), ans)
           Y == SignalSrvResponse(c, ParseSrvResponse(s.r), ans)
<1>3. ParseCh2(c, f, ans) =
          CASE s.family = 4 /\ s.subtype = 7 -> X [] s.family = 21 /\ s.subtype = 3 -> Y [] OTHER -> c
  BY <1>1, Zenon DEF ParseCh2
<1>4. Y = SignalSrvResponse(c, [command |-> g, ist |-> ist], ans)
  BY <1>2, Zenon
<1> HIDE DEF X, Y
<1>5. ParseCh2(c, f, ans) = Y
  BY <1>2, <1>3
<1>6. QED
  BY <1>4, <1>5, Zenon

-----------------------------------------------------------------------------
(* What the application is told by a frame.                                  *)
Forget == [from |-> UIN.B, family |-> 21, subtype |-> 2, body |-> SrvAckOffline(UIN.B)]
AckSNACs(acks, n) ==
    [i \in DOMAIN acks |-> [from |-> UIN.B, family |-> 4, subtype |-> 11, body |-> MessageACK(acks[i], n)]]
Quiet(out) == out = <<>> \/ out = <<Forget>>
OneMore(c2, c, e, way) ==
    /\ c2.other = c.other /\ c2.answer = c.answer /\ c2.out = c.out
    /\ \E m : c2.told = Append(c.told, m) /\ Same(m, e, way)

Signalled(s, h, c, n) ==
    s.other = h.other /\ s.told = h.told /\ s.answer = h.answer /\ s.out = c.out \o AckSNACs(h.acks, n)
LEMMA SignalIs ==
    ASSUME NEW x, x # NoSubtype, x.type # Type.FT, NEW c, NEW n, NEW ans, NEW h, h = handleIncoming(c, x, ans),
           NEW s, s = SignalMessage(c, [cookie |-> n, ist |-> x], ans)
    PROVE  Signalled(s, h, c, n)
<1>1. PICK m : m = [cookie |-> n, ist |-> x]
  OBVIOUS
<1>2. m.ist = x /\ m.cookie = n
  BY <1>1
<1> DEFINE R == [other |-> h.other, told |-> h.told, answer |-> h.answer,
                 out |-> c.out \o [i \in DOMAIN h.acks |->
                                    [from |-> UIN.B, family |-> 4, subtype |-> 11, body |-> MessageACK(h.acks[i], n)]]]
<1>3. s = IF x = NoSubtype \/ x.type = Type.FT THEN c ELSE R
  BY <1>1, <1>2, Zenon DEF SignalMessage
<1>4. R.other = h.other /\ R.told = h.told /\ R.answer = h.answer /\ R.out = c.out \o AckSNACs(h.acks, n)
  BY Zenon DEF AckSNACs
<1> HIDE DEF R
<1>5. s = R
  BY <1>3
<1>6. QED
  BY <1>4, <1>5, Zenon DEF Signalled

LEMMA NoAcks ==
    ASSUME NEW out, Quiet(out), NEW n, NEW acks, acks = <<>>
    PROVE  out \o AckSNACs(acks, n) = out
<1>1. AckSNACs(acks, n) = <<>>
  BY DEF AckSNACs
<1>2. PICK g : g = Forget
  OBVIOUS
<1>3. out = <<>> \/ out = <<g>>
  BY <1>2, Zenon DEF Quiet
<1>4. out \o <<>> = out
  BY <1>3
<1>5. QED
  BY <1>1, <1>4, Zenon

LEMMA SignalsOne ==
    ASSUME NEW x, x # NoSubtype, x.type # Type.FT, NEW c, Quiet(c.out), NEW n, NEW ans, NEW e, NEW way,
           TellsOnly(handleIncoming(c, x, ans), c, e, way),
           NEW s, s = SignalMessage(c, [cookie |-> n, ist |-> x], ans)
    PROVE  OneMore(s, c, e, way)
<1>1. PICK h : h = handleIncoming(c, x, ans)
  OBVIOUS
<1>2. s.other = h.other /\ s.told = h.told /\ s.answer = h.answer /\ s.out = c.out \o AckSNACs(h.acks, n)
  <2>1. Signalled(s, h, c, n)
    BY <1>1, SignalIs, ZenonT(60)
  <2>2. QED
    BY <2>1, Zenon DEF Signalled
<1>3. h.other = c.other /\ h.answer = c.answer /\ h.acks = <<>> /\ \E m : h.told = Append(c.told, m) /\ Same(m, e, way)
  BY <1>1, Zenon DEF TellsOnly
<1>4. c.out \o AckSNACs(h.acks, n) = c.out
  BY <1>3, NoAcks, Zenon
<1>5. QED
  BY <1>2, <1>3, <1>4, Zenon DEF OneMore

\* A frame brings it, now or from what was stored.
Brings(f, x) == Arrives(f, 0, x) \/ Stored(f, 65, x)
LEMMA BringsOne ==
    ASSUME NEW f, NEW x, Brings(f, x), x # NoSubtype, x.type # Type.FT, NEW c, Quiet(c.out), NEW ans, NEW e, NEW way,
           TellsOnly(handleIncoming(c, x, ans), c, e, way)
    PROVE  OneMore(ParseCh2(c, f, ans), c, e, way)
<1>1. CASE Arrives(f, 0, x)
  <2>1. PICK n : n = 0 /\ Arrives(f, n, x)
    BY <1>1
  <2>2. ParseCh2(c, f, ans) = SignalMessage(c, [cookie |-> n, ist |-> x], ans)
    <3>1. Arrives(f, n, x)
      BY <2>1
    <3>2. QED
      BY <3>1, MessageFrame
  <2>3. QED
    BY <2>2, SignalsOne, ZenonT(60)
<1>2. CASE Stored(f, 65, x)
  <2>1. PICK g, n : g = 65 /\ n = 0 /\ Stored(f, g, x)
    BY <1>2
  <2>2. PICK p : p = [command |-> g, ist |-> x]
    OBVIOUS
  <2>3. p.command = 65 /\ p.ist = x /\ 65 # 66
    BY <2>1, <2>2
  <2>4. ParseCh2(c, f, ans) = SignalSrvResponse(c, p, ans)
    <3>1. Stored(f, g, x)
      BY <2>1
    <3>2. ParseCh2(c, f, ans) = SignalSrvResponse(c, [command |-> g, ist |-> x], ans)
      BY <3>1, ResponseFrame
    <3>3. QED
      BY <2>2, <3>2, Zenon
  <2>5. PICK s : s = SignalMessage(c, [cookie |-> n, ist |-> x], ans)
    OBVIOUS
  <2>6. OneMore(s, c, e, way)
    BY <2>5, SignalsOne, ZenonT(60)
  <2>7. SignalSrvResponse(c, p, ans) = [s EXCEPT !.out = c.out]
    <3> DEFINE X == [c EXCEPT !.out = Append(@, [from |-> UIN.B, family |-> 21, subtype |-> 2,
                                                 body |-> SrvAckOffline(UIN.B)])]
               Y == [SignalMessage(c, [ist |-> p.ist, cookie |-> 0], ans) EXCEPT !.out = c.out]
    <3>1. SignalSrvResponse(c, p, ans) = IF p.command = 66 THEN X ELSE Y
      BY Zenon DEF SignalSrvResponse
    <3>2. [ist |-> p.ist, cookie |-> 0] = [cookie |-> n, ist |-> x]
      BY <2>1, <2>3
    <3>3. Y = [s EXCEPT !.out = c.out]
      BY <2>5, <3>2, Zenon
    <3> HIDE DEF X, Y
    <3>4. QED
      BY <2>3, <3>1, <3>3
  <2>8. s = [other |-> s.other, told |-> s.told, answer |-> s.answer, out |-> s.out] => [s EXCEPT !.out = c.out] = s
    <3>1. s.out = c.out
      BY <2>6 DEF OneMore
    <3>2. QED
      BY <3>1
  <2>9. s = [other |-> s.other, told |-> s.told, answer |-> s.answer, out |-> s.out]
    <3>1. PICK h : h = handleIncoming(c, x, ans)
      OBVIOUS
    <3> DEFINE R == [other |-> h.other, told |-> h.told, answer |-> h.answer,
                     out |-> c.out \o [i \in DOMAIN h.acks |->
                                    [from |-> UIN.B, family |-> 4, subtype |-> 11, body |-> MessageACK(h.acks[i], n)]]]
    <3>2. PICK m : m = [cookie |-> n, ist |-> x]
      OBVIOUS
    <3>3. m.ist = x /\ m.cookie = n
      BY <3>2
    <3>4. s = IF x = NoSubtype \/ x.type = Type.FT THEN c ELSE R
      BY <2>5, <3>1, <3>2, <3>3, Zenon DEF SignalMessage
    <3>5. R = [other |-> R.other, told |-> R.told, answer |-> R.answer, out |-> R.out]
      <4>1. PICK a1, a2, a3, a4 : a1 = h.other /\ a2 = h.told /\ a3 = h.answer
              /\ a4 = c.out \o [i \in DOMAIN h.acks |->
                                    [from |-> UIN.B, family |-> 4, subtype |-> 11, body |-> MessageACK(h.acks[i], n)]]
        OBVIOUS
      <4>2. R = [other |-> a1, told |-> a2, answer |-> a3, out |-> a4]
        BY <4>1, Zenon
      <4> HIDE DEF R
      <4>3. QED
        BY <4>2
    <3> HIDE DEF R
    <3>6. s = R
      BY <3>4
    <3>7. QED
      BY <3>5, <3>6, Zenon
  <2>10. QED
    BY <2>4, <2>6, <2>7, <2>8, <2>9, Zenon
<1>3. QED
  BY <1>1, <1>2, Zenon DEF Brings

\* The last frame of those of a login.
LastOne(f) == Stored(f, 66, NoSubtype)
LEMMA LastFrame ==
    ASSUME NEW f, LastOne(f), NEW c, NEW ans, NEW o, NEW t, NEW a, NEW out, c = [other |-> o, told |-> t,
              answer |-> a, out |-> out]
    PROVE  ParseCh2(c, f, ans) = [other |-> o, told |-> t, answer |-> a, out |-> Append(out, Forget)]
<1>1. PICK g, x : g = 66 /\ x = NoSubtype /\ Stored(f, g, x)
  BY DEF LastOne
<1>2. PICK p : p = [command |-> g, ist |-> x]
  OBVIOUS
<1>3. p.command = 66
  BY <1>1, <1>2
<1>4. ParseCh2(c, f, ans) = SignalSrvResponse(c, p, ans)
  <2>1. Stored(f, g, x)
    BY <1>1
  <2>2. ParseCh2(c, f, ans) = SignalSrvResponse(c, [command |-> g, ist |-> x], ans)
    BY <2>1, ResponseFrame
  <2>3. QED
    BY <1>2, <2>2, Zenon
<1> DEFINE X == [c EXCEPT !.out = Append(@, [from |-> UIN.B, family |-> 21, subtype |-> 2,
                                             body |-> SrvAckOffline(UIN.B)])]
           Y == [SignalMessage(c, [ist |-> p.ist, cookie |-> 0], ans) EXCEPT !.out = c.out]
<1>5. SignalSrvResponse(c, p, ans) = IF p.command = 66 THEN X ELSE Y
  BY Zenon DEF SignalSrvResponse
<1>6. X = [other |-> o, told |-> t, answer |-> a, out |-> Append(out, Forget)]
  <2>1. PICK y : y = Append(c.out, Forget)
    OBVIOUS
  <2>2. c.out = out
    OBVIOUS
  <2>3. X = [c EXCEPT !.out = y]
    BY <2>1, Zenon DEF Forget
  <2> HIDE DEF X
  <2>4. [c EXCEPT !.out = y] = [other |-> o, told |-> t, answer |-> a, out |-> y]
    OBVIOUS
  <2>5. QED
    BY <2>1, <2>2, <2>3, <2>4, Zenon
<1> HIDE DEF X, Y
<1>7. SignalSrvResponse(c, p, ans) = X
  BY <1>3, <1>5
<1>8. QED
  BY <1>4, <1>6, <1>7, Zenon

\* A frame with an advanced message, and what goes back.
AckSNAC(k, n) == [from |-> UIN.B, family |-> 4, subtype |-> 11, body |-> MessageACK(k, n)]
SentBack(out, x, n, d, r, w) ==
    IF d \/ r # "Ignored" THEN \E s : out = <<AckSNAC(AckOf(x, w, s), n)>> /\ Accepts(s, d, r)
    ELSE out = <<>>
AdvancedDone(c2, c, e, me, x, n) ==
    /\ c2.other = Knows(c.other, me)
    /\ c2.told = IF e.kind = "AwayMessage" THEN c.told ELSE Append(c.told, ToldAs(e))
    /\ \E d, r, w : /\ IsAnswer(d, r, w) /\ c2.answer = AnswerRec(d, r, w)
                    /\ SentBack(c2.out, x, n, d, r, w) /\ (e.kind = "AwayMessage" => d)

LEMMA AckSNACsOne ==
    ASSUME NEW k, NEW acks, acks = <<k>>, NEW n
    PROVE  <<>> \o AckSNACs(acks, n) = <<AckSNAC(k, n)>>
<1>1. DOMAIN acks = {1} /\ acks[1] = k
  OBVIOUS
<1> DEFINE y == [from |-> UIN.B, family |-> 4, subtype |-> 11, body |-> MessageACK(acks[1], n)]
<1>2. y = AckSNAC(k, n)
  BY <1>1, Zenon DEF AckSNAC
<1>3. AckSNACs(acks, n) = [i \in {1} |-> y]
  <2>1. AckSNACs(acks, n) = [i \in {1} |-> [from |-> UIN.B, family |-> 4, subtype |-> 11, body |-> MessageACK(acks[i], n)]]
    BY <1>1, Zenon DEF AckSNACs
  <2>2. QED
    BY <2>1
<1>4. PICK z : z = AckSNAC(k, n)
  OBVIOUS
<1>5. AckSNACs(acks, n) = <<z>>
  <2> HIDE DEF y
  <2>1. AckSNACs(acks, n) = [i \in {1} |-> z]
    BY <1>2, <1>3, <1>4
  <2>2. [i \in {1} |-> z] = <<z>>
    <3>1. {1} = 1 .. 1
      OBVIOUS
    <3>2. <<z>> = [i \in 1 .. 1 |-> z]
      OBVIOUS
    <3>3. QED
      BY <3>1, <3>2
  <2>3. QED
    BY <2>1, <2>2, Zenon
<1>6. <<>> \o <<z>> = <<z>>
  OBVIOUS
<1>7. QED
  BY <1>4, <1>5, <1>6, Zenon

LEMMA AdvancedFrame ==
    ASSUME NEW e, IsEvent(e), e.kind # "FileTransfer", NEW me, Known(me), NEW t, NEW F, NEW N,
           Wires(e, me.contact, t, F, N), NEW x, x = AdvancedIn(e, me, t, F, N), NEW c, c.out = <<>>, NEW ans \in Answers,
           NEW f, NEW n, Arrives(f, n, x)
    PROVE  AdvancedDone(ParseCh2(c, f, ans), c, e, me, x, n)
<1>1. PICK h, c2 : h = handleIncoming(c, x, ans) /\ c2 = ParseCh2(c, f, ans)
  OBVIOUS
<1>2. ParseCh2(c, f, ans) = SignalMessage(c, [cookie |-> n, ist |-> x], ans)
  BY MessageFrame
<1>3. x.type = t
  <2>1. SeenAs(x, e, me, t, F, N)
    BY AdvancedSeen, Zenon
  <2>2. QED
    BY <2>1, Zenon DEF SeenAs
<1>4. x # NoSubtype /\ x.type # Type.FT
  <2>1. t # 0 /\ t # Type.FT
    BY WiredType
  <2>2. NoSubtype.type = 0
    BY DEF NoSubtype, Subtype
  <2>3. QED
    BY <1>3, <2>1, <2>2
<1>5. Signalled(c2, h, c, n)
  <2>1. PICK s : s = SignalMessage(c, [cookie |-> n, ist |-> x], ans)
    OBVIOUS
  <2>2. Signalled(s, h, c, n)
    BY <1>1, <1>4, <2>1, SignalIs, ZenonT(60)
  <2>3. QED
    BY <1>1, <1>2, <2>1, <2>2, Zenon
<1>6. /\ h.other = Knows(c.other, me)
      /\ h.told = IF e.kind = "AwayMessage" THEN c.told ELSE Append(c.told, ToldAs(e))
      /\ \E d, r, w : /\ IsAnswer(d, r, w) /\ h.answer = AnswerRec(d, r, w)
                      /\ Replies(h.acks, x, d, r, w) /\ (e.kind = "AwayMessage" => d)
  BY <1>1, IncomingAdvanced
<1>7. PICK d, r, w : /\ IsAnswer(d, r, w) /\ h.answer = AnswerRec(d, r, w)
                     /\ Replies(h.acks, x, d, r, w) /\ (e.kind = "AwayMessage" => d)
  BY <1>6, Zenon
<1>8. SentBack(c2.out, x, n, d, r, w)
  <2>0. c2.out = c.out \o AckSNACs(h.acks, n)
    BY <1>5, Zenon DEF Signalled
  <2>1. CASE d \/ r # "Ignored"
    <3>1. PICK s : h.acks = <<AckOf(x, w, s)>> /\ Accepts(s, d, r)
      BY <1>7, <2>1, Zenon DEF Replies
    <3>2. PICK k : k = AckOf(x, w, s)
      OBVIOUS
    <3>3. <<>> \o AckSNACs(h.acks, n) = <<AckSNAC(k, n)>>
      <4>1. h.acks = <<k>>
        BY <3>1, <3>2, Zenon
      <4>2. QED
        BY <4>1, AckSNACsOne, Zenon
    <3>4. c2.out = <<AckSNAC(AckOf(x, w, s), n)>>
      BY <2>0, <3>2, <3>3, Zenon
    <3>5. QED
      BY <2>1, <3>1, <3>4, Zenon DEF SentBack
  <2>2. CASE ~(d \/ r # "Ignored")
    <3>1. h.acks = <<>>
      BY <1>7, <2>2, Zenon DEF Replies
    <3>2. PICK out : out = c.out /\ out = <<>>
      OBVIOUS
    <3>3. out \o AckSNACs(h.acks, n) = out
      <4>1. Quiet(out)
        BY <3>2, Zenon DEF Quiet
      <4>2. QED
        BY <3>1, <4>1, NoAcks, Zenon
    <3>4. c2.out = <<>>
      BY <2>0, <3>2, <3>3, Zenon
    <3>5. QED
      BY <2>2, <3>4, Zenon DEF SentBack
  <2>3. QED
    BY <2>1, <2>2
<1>9. c2.other = h.other /\ c2.told = h.told /\ c2.answer = h.answer
  BY <1>5, Zenon DEF Signalled
<1>10. QED
  BY <1>1, <1>6, <1>7, <1>8, <1>9, Zenon DEF AdvancedDone

(* A read of B, in the middle of a stream or not.                            *)
Client(o, t, a, out) == [other |-> o, told |-> t, answer |-> a, out |-> out]
LEMMA ServerReads ==
    ASSUME NEW rv, NEW tb, NEW fs, Stream(rv, tb, fs), tb # <<>>, NEW n \in Nat, n <= Len(tb), n < Len(tb) => rv = <<>>
    PROVE  Taken(Parse(rv \o SubSeq(tb, 1, n)), SubSeq(tb, n + 1, Len(tb)), fs)
<1>1. rv \in Bytes /\ tb \in Bytes
  BY Zenon DEF Stream
<1>2. Len(tb) \in Nat
  BY <1>1, BytesType
<1>3. SubSeq(tb, n + 1, Len(tb)) = Rest(tb, n)
  BY Zenon DEF Rest
<1>4. SubSeq(tb, 1, n) \in Bytes
  BY <1>1, CutAt
<1>5. CASE n < Len(tb)
  <2>1. rv = <<>>
    BY <1>5
  <2>2. PICK em : em = <<>>
    OBVIOUS
  <2>3. Join(em, SubSeq(tb, 1, n)) = SubSeq(tb, 1, n)
    BY <1>4, <2>2, JoinIs
  <2>4. rv \o SubSeq(tb, 1, n) = SubSeq(tb, 1, n)
    BY <2>1, <2>2, <2>3, Zenon DEF Join
  <2>5. Taken(Parse(SubSeq(tb, 1, n)), Rest(tb, n), fs)
    <3>1. Stream(<<>>, tb, fs)
      BY <2>1, Zenon
    <3>2. QED
      BY <1>5, <3>1, ReadsSome, Zenon
  <2>6. QED
    BY <1>3, <2>4, <2>5, Zenon
<1>6. CASE n = Len(tb)
  <2>1. SubSeq(tb, 1, n) = tb /\ Rest(tb, n) = <<>>
    BY <1>1, <1>6, CutAt
  <2>2. Taken(Parse(Join(rv, tb)), <<>>, fs)
    BY ReadsAll, Zenon
  <2>3. QED
    BY <1>3, <2>1, <2>2, Zenon DEF Join
<1>7. QED
  BY <1>2, <1>5, <1>6

LEMMA Reading ==
    ASSUME RecvFromServer, NEW fs, Stream(recv, toB, fs)
    PROVE  /\ \E a, b, c : \E ans \in Answers :
                  /\ Splice(fs, a, b) /\ Stream(recv', toB', b)
                  /\ c = Handled(Client(other, told, answer, <<>>), a, ans)
                  /\ other' = c.other /\ told' = c.told /\ answer' = c.answer /\ toServer' = toServer \o c.out
           /\ UNCHANGED <<sent, self, toA, peer, stored, changes>>
<1>1. PICK n \in (Cuts \cap 1 .. Len(toB) - 1) \cup {Len(toB)}, ans \in Answers :
        /\ n < Len(toB) => recv = <<>>
        /\ toB' = SubSeq(toB, n + 1, Len(toB))
        /\ recv' = Parse(recv \o SubSeq(toB, 1, n)).recv
        /\ LET c == Handled(Client(other, told, answer, <<>>), Parse(recv \o SubSeq(toB, 1, n)).frames, ans)
           IN  other' = c.other /\ told' = c.told /\ answer' = c.answer /\ toServer' = toServer \o c.out
  BY Zenon DEF RecvFromServer, Client
<1>2. toB # <<>> /\ UNCHANGED <<sent, self, toA, peer, stored, changes>>
  BY Zenon DEF RecvFromServer
<1>3. n \in Nat /\ n <= Len(toB)
  <2>1. Len(toB) \in Nat
    BY BytesType, Zenon DEF Stream
  <2>2. QED
    BY <2>1
<1>4. PICK p : p = Parse(recv \o SubSeq(toB, 1, n))
  OBVIOUS
<1>5. Taken(p, toB', fs)
  <2>1. Taken(Parse(recv \o SubSeq(toB, 1, n)), SubSeq(toB, n + 1, Len(toB)), fs)
    BY <1>1, <1>2, <1>3, ServerReads, ZenonT(60)
  <2>2. QED
    BY <1>1, <1>4, <2>1, Zenon
<1>6. PICK b : Stream(p.recv, toB', b) /\ Splice(fs, p.frames, b)
  BY <1>5, Zenon DEF Taken
<1>7. QED
  BY <1>1, <1>2, <1>4, <1>6, Zenon

-----------------------------------------------------------------------------
(* Where a message may be on its way. The event, A and B:                    *)
Settled(s, me, o) ==
    /\ SentIs(s) /\ IsEvent(s.event) /\ Carries(s.way, s.event.kind) /\ s.version \in {6, 7}
    /\ Known(me)
    /\ o = [status |-> o.status, contact |-> o.contact, online |-> o.online] /\ o.online \in BOOLEAN
    /\ s.way # "normal" => o.online
Untold(s, t, a) == t = <<>> /\ a = NoAnswer /\ s.finished = FALSE
TellsOnce(s, t) ==
    IF s.event.kind = "AwayMessage" THEN t = <<>> ELSE \E m : t = <<m>> /\ Same(m, s.event, s.way)
Heeded(s, a) == s.event.kind # "FileTransfer" => a.delivered \/ a.reason # "Ignored"
\* B's application was told and has answered; only the answer to a file comes later.
Replied(s, me, o, a) == a.given /\ (s.event.kind # "FileTransfer" => o.contact = StatusOf(me))
Unheeded(s, me, o, a) == s.event.kind # "FileTransfer" /\ Replied(s, me, o, a) /\ ~Heeded(s, a)

LEMMA CarriedKinds ==
    ASSUME NEW s, NEW k, Carries(s, k)
    PROVE  /\ s \in {"direct", "advanced", "normal", "magic"}
           /\ s = "direct" => k \in {"Normal", "URL", "Contacts", "AwayMessage", "FileTransfer"}
           /\ s = "advanced" => k \in {"Normal", "URL", "Contacts", "AwayMessage"}
           /\ s = "normal" => k \in {"Normal", "URL", "Contacts", "AuthReq", "AuthAck", "UserAdd"}
           /\ s = "magic" => k \in {"EmailEx", "WebPager"}
BY DEF Carries

LEMMA SettledIs ==
    ASSUME NEW s, NEW me, NEW o, Settled(s, me, o)
    PROVE  /\ s.way \in {"direct", "advanced", "normal", "magic"}
           /\ s.way = "direct" => Sendable(s.event)
           /\ s.way = "advanced" => Sendable(s.event) /\ s.event.kind # "FileTransfer"
           /\ s.way = "normal" => Sendable(s.event) /\ s.event.kind \notin {"FileTransfer", "AwayMessage"}
           /\ s.way = "magic" => s.event.kind \in {"EmailEx", "WebPager"}
           /\ s.event.granted \in BOOLEAN
<1>1. Carries(s.way, s.event.kind) /\ IsEvent(s.event)
  BY Zenon DEF Settled
<1>2. s.event.granted \in BOOLEAN
  BY <1>1, Zenon DEF IsEvent
<1>3. PICK w, k : w = s.way /\ k = s.event.kind /\ Carries(w, k)
  BY <1>1
<1>4. /\ w \in {"direct", "advanced", "normal", "magic"}
      /\ w = "direct" => k \in {"Normal", "URL", "Contacts", "AwayMessage", "FileTransfer"}
      /\ w = "advanced" => k \in {"Normal", "URL", "Contacts", "AwayMessage"}
      /\ w = "normal" => k \in {"Normal", "URL", "Contacts", "AuthReq", "AuthAck", "UserAdd"}
      /\ w = "magic" => k \in {"EmailEx", "WebPager"}
  BY <1>3, CarriedKinds
<1>5. QED
  BY <1>2, <1>3, <1>4 DEF Sendable

\* A packet with the event, and one with the answer.
Started(s, me, b) ==
    \E t, F, N, x : /\ Wires(s.event, me.contact, t, F, N)
                    /\ ParsePacket(b, s.version) = [command |-> Command.START, ist |-> x]
                    /\ From(x, UIN.A) = AdvancedIn(s.event, me, t, F, N)
Ending(s, a, b) ==
    \E x : /\ ParsePacket(b, s.version) = [command |-> Command.ACK, ist |-> x]
           /\ x.seq = SeqNum /\ Concludes(s, x, a)

LEMMA DirectStarts ==
    ASSUME NEW s, NEW me, NEW o, Settled(s, me, o), s.way = "direct",
           NEW b \in PacketBytes(Command.START, AdvancedOf(OutOf(s.event, me)), s.version)
    PROVE  Started(s, me, b)
<1>1. Sendable(s.event) /\ s.event.granted \in BOOLEAN
  BY SettledIs
<1>2. IsEvent(s.event) /\ Known(me) /\ s.version \in {6, 7}
  BY Zenon DEF Settled
<1>3. PICK e, v : e = s.event /\ v = s.version
  OBVIOUS
<1>4. PICK t, F, N : Wires(e, me.contact, t, F, N) /\ IsOut(OutOf(e, me), e, me, t, F, N)
  BY <1>1, <1>3, OutIs
<1>5. PICK x, y : x = OutOf(e, me) /\ y = AdvancedOf(x)
  OBVIOUS
<1>6. /\ y.advanced = TRUE /\ y.seq = SeqNum /\ y.dest = UIN.B /\ Within(Output(y), 26)
      /\ \E j : /\ HoldsMessage(Output(y), j) /\ j # NoSubtype
                /\ From(WithSeq(j, SeqNum), UIN.A) = AdvancedIn(e, me, t, F, N)
  <2>1. IsEvent(e) /\ Sendable(e) /\ IsOut(x, e, me, t, F, N)
    BY <1>1, <1>2, <1>3, <1>4, <1>5, Zenon
  <2>2. QED
    BY <1>2, <1>4, <1>5, <2>1, MessageHeld, ZenonT(150)
<1>7. PICK j : /\ HoldsMessage(Output(y), j) /\ j # NoSubtype
               /\ From(WithSeq(j, SeqNum), UIN.A) = AdvancedIn(e, me, t, F, N)
  BY <1>6
<1>8. PICK command, ack : command = Command.START /\ ack = FALSE
  OBVIOUS
<1>9. ParsePacket(b, v) = [command |-> command, ist |-> WithSeq(j, SeqNum)]
  <2>1. Holds(Output(y), TRUE, ack, j)
    BY <1>7, <1>8, Zenon DEF HoldsMessage
  <2>2. command \in {Command.START, Command.ACK} /\ ack = (command = Command.ACK)
    <3>1. Command.START # Command.ACK
      BY DEF Command
    <3>2. QED
      BY <1>8, <3>1
  <2>3. v \in {6, 7} /\ b \in PacketBytes(command, y, v)
    BY <1>2, <1>3, <1>5, <1>8, Zenon
  <2>4. Within(Output(y), 26) /\ y.seq = SeqNum
    BY <1>6
  <2>5. QED
    BY <1>7, <2>1, <2>2, <2>3, <2>4, PacketBrings, ZenonT(150)
<1>10. QED
  BY <1>3, <1>4, <1>7, <1>8, <1>9, Zenon DEF Started

NoPackets(p) == p = [toA |-> <<>>, toB |-> <<>>]
OnePacket(p, b) == p = [toA |-> <<>>, toB |-> <<b>>]
OneReply(p, b) == p = [toA |-> <<b>>, toB |-> <<>>]
\* B's record as it changes: what it knows of A, its status, and that it logs in.
OtherKept(s, me, o, c, st) ==
    /\ Settled(s, me, [o EXCEPT !.contact = c]) /\ [o EXCEPT !.contact = c].contact = c
    /\ Settled(s, me, [o EXCEPT !.status = st])
    /\ [o EXCEPT !.status = st].contact = o.contact /\ [o EXCEPT !.status = st].online = o.online
    /\ Settled(s, me, [o EXCEPT !.online = TRUE]) /\ [o EXCEPT !.online = TRUE].online = TRUE
    /\ [o EXCEPT !.online = TRUE].contact = o.contact
LEMMA SettledOther ==
    ASSUME NEW s, NEW me, NEW o, Settled(s, me, o), NEW c, NEW st
    PROVE  OtherKept(s, me, o, c, st)
<1>1. /\ SentIs(s) /\ IsEvent(s.event) /\ Carries(s.way, s.event.kind) /\ s.version \in {6, 7} /\ Known(me)
      /\ o = [status |-> o.status, contact |-> o.contact, online |-> o.online] /\ o.online \in BOOLEAN
      /\ s.way # "normal" => o.online
  BY Zenon DEF Settled
<1>2. PICK x, y, z : x = o.status /\ y = o.contact /\ z = o.online /\ o = [status |-> x, contact |-> y, online |-> z]
  BY <1>1
<1>3. PICK p, q, r, yes : /\ p = [o EXCEPT !.contact = c] /\ q = [o EXCEPT !.status = st] /\ yes = TRUE
                          /\ r = [o EXCEPT !.online = yes]
  OBVIOUS
<1>4. /\ p = [status |-> x, contact |-> c, online |-> z]
      /\ q = [status |-> st, contact |-> y, online |-> z]
      /\ r = [status |-> x, contact |-> y, online |-> yes]
  BY <1>2, <1>3
<1>5. /\ p.status = x /\ p.contact = c /\ p.online = z
      /\ q.status = st /\ q.contact = y /\ q.online = z
      /\ r.status = x /\ r.contact = y /\ r.online = yes
  BY <1>4
<1>6. Settled(s, me, p)
  BY <1>1, <1>2, <1>4, <1>5, Zenon DEF Settled
<1>7. Settled(s, me, q)
  BY <1>1, <1>2, <1>4, <1>5, Zenon DEF Settled
<1>8. Settled(s, me, r)
  <2>1. r = [status |-> r.status, contact |-> r.contact, online |-> r.online]
    BY <1>4, <1>5, Zenon
  <2>2. r.online \in BOOLEAN /\ (s.way # "normal" => r.online)
    BY <1>3, <1>5
  <2>3. QED
    BY <1>1, <2>1, <2>2, Zenon DEF Settled
<1>9. QED
  BY <1>2, <1>3, <1>5, <1>6, <1>7, <1>8, Zenon DEF OtherKept

(* The direct way: not yet sent, on its way, a file that is not answered yet, *)
(* an answer on its way, an event that was ignored, and the end.              *)
DirectUnsent(s, t, a, p) == s.out = FALSE /\ Untold(s, t, a) /\ NoPackets(p)
DirectSent(s, me, t, a, p) ==
    s.out = TRUE /\ Untold(s, t, a) /\ \E b : OnePacket(p, b) /\ Started(s, me, b)
DirectOffered(s, t, a, p) ==
    /\ s.out = TRUE /\ s.finished = FALSE /\ TellsOnce(s, t) /\ NoPackets(p)
    /\ s.event.kind = "FileTransfer" /\ a = NoAnswer
DirectReplying(s, me, o, t, a, p) ==
    /\ s.out = TRUE /\ s.finished = FALSE /\ TellsOnce(s, t)
    /\ Replied(s, me, o, a) /\ Heeded(s, a) /\ \E b : OneReply(p, b) /\ Ending(s, a, b)
DirectIgnored(s, me, o, t, a, p) ==
    s.out = TRUE /\ s.finished = FALSE /\ TellsOnce(s, t) /\ Unheeded(s, me, o, a) /\ NoPackets(p)
DirectEnded(s, me, o, t, a, p) ==
    s.out = TRUE /\ TellsOnce(s, t) /\ Replied(s, me, o, a) /\ Heeded(s, a) /\ Agrees(s, a) /\ NoPackets(p)
DirectIs(s, me, o, t, a, p) ==
    \/ DirectUnsent(s, t, a, p)
    \/ DirectSent(s, me, t, a, p)
    \/ DirectOffered(s, t, a, p)
    \/ DirectReplying(s, me, o, t, a, p)
    \/ DirectIgnored(s, me, o, t, a, p)
    \/ DirectEnded(s, me, o, t, a, p)

LEMMA ToldThen ==
    ASSUME NEW s, NEW t, t = <<>>, NEW m, Same(m, s.event, s.way),
           NEW t2, t2 = IF s.event.kind = "AwayMessage" THEN t ELSE Append(t, m)
    PROVE  TellsOnce(s, t2)
<1>1. Append(t, m) = <<m>>
  OBVIOUS
<1>2. QED
  BY <1>1, Zenon DEF TellsOnce

LEMMA PacketsOf ==
    ASSUME NEW p, NEW b, OnePacket(p, b)
    PROVE  /\ Head(p.toB) = b /\ Tail(p.toB) = <<>> /\ p.toA = <<>> /\ p.toB # <<>>
           /\ NoPackets([p EXCEPT !.toB = Tail(@)])
           /\ \A c : OneReply([toB |-> Tail(p.toB), toA |-> Append(p.toA, c)], c)
BY DEF OnePacket, NoPackets, OneReply

\* A request to send a file is told as it was sent.
LEMMA FileTold ==
    ASSUME NEW e, IsEvent(e), e.kind # "AwayMessage", NEW me, NEW t, NEW F, NEW N, Wires(e, me.contact, t, F, N),
           NEW y, y = AdvancedIn(e, me, t, F, N)
    PROVE  [ICQSubTypeToEvent(y) EXCEPT !.from = UIN.A] = ToldAs(e)
<1>1. SeenAs(y, e, me, t, F, N)
  BY AdvancedSeen, Zenon
<1>2. y.type = t /\ y.fields = F /\ y.numbers = N /\ y.tolist = e.tolist /\ y.urgent = (e.urgent /\ ~e.tolist)
  BY <1>1, Zenon DEF SeenAs
<1>3. PICK k, T, g, z, u, l, no : /\ k = e.kind /\ T = e.texts /\ g = e.granted /\ z = e.size
                                  /\ u = y.urgent /\ l = y.tolist /\ no = 0
  OBVIOUS
<1>4. ICQSubTypeToEvent(y) = EventRec(e.kind, e.texts, e.granted, y.urgent, y.tolist, e.size, 0)
  BY <1>2, ToldBack
<1>5. [ICQSubTypeToEvent(y) EXCEPT !.from = UIN.A] = Signing(EventRec(k, T, g, u, l, z, no), UIN.A)
  BY <1>3, <1>4, Zenon DEF Signing
<1>6. Signing(EventRec(k, T, g, u, l, z, no), UIN.A) = EventRec(k, T, g, u, l, z, UIN.A)
  <2>1. PICK from : from = UIN.A
    OBVIOUS
  <2>2. Signing(EventRec(k, T, g, u, l, z, no), from) = EventRec(k, T, g, u, l, z, from)
    BY DEF Signing, EventRec
  <2>3. QED
    BY <2>1, <2>2, Zenon
<1>7. QED
  BY <1>2, <1>3, <1>5, <1>6, Zenon DEF ToldAs

LEMMA PacketTaken ==
    ASSUME RecvPacket, NEW b, OnePacket(peer, b), NEW x, ParsePacket(b, sent.version) = [command |-> Command.START, ist |-> x],
           NEW y, y = From(x, UIN.A)
    PROVE  /\ \/ /\ y.type = Type.FT
                 /\ told' = Append(told, [ICQSubTypeToEvent(y) EXCEPT !.from = UIN.A])
                 /\ NoPackets(peer') /\ UNCHANGED <<other, answer>>
              \/ /\ y.type # Type.FT
                 /\ \E ans, h :
                      /\ ans \in Answers /\ h = handleIncoming([other |-> other, told |-> told, answer |-> answer], y, ans)
                      /\ other' = h.other /\ told' = h.told /\ answer' = h.answer
                      /\ IF h.acks # <<>> THEN \E c \in PacketBytes(Command.ACK, h.acks[1], sent.version) : OneReply(peer', c)
                         ELSE NoPackets(peer')
           /\ UNCHANGED <<sent, self, toServer, toA, toB, recv, stored, changes>>
<1>1. Head(peer.toB) = b
  BY PacketsOf
<1>2. NoPackets([peer EXCEPT !.toB = Tail(@)])
  BY PacketsOf
<1>3. \A c : OneReply([toB |-> Tail(peer.toB), toA |-> Append(peer.toA, c)], c)
  BY PacketsOf
<1>4. PICK p : /\ p = ParsePacket(b, sent.version) /\ HandlePacket(p.command, From(p.ist, UIN.A))
  BY <1>1, Zenon DEF RecvPacket
<1>5. p.command = Command.START /\ p.ist = x
  BY <1>4
<1>6. HandlePacket(Command.START, y)
  BY <1>4, <1>5, Zenon
<1>7. PICK command : command = Command.START
  OBVIOUS
<1>8. \/ /\ y.type = Type.FT
         /\ told' = Append(told, [ICQSubTypeToEvent(y) EXCEPT !.from = UIN.A])
         /\ peer' = [peer EXCEPT !.toB = Tail(@)]
         /\ UNCHANGED <<other, answer>>
      \/ /\ y.type # Type.FT
         /\ \E ans \in Answers :
              LET h == handleIncoming([other |-> other, told |-> told, answer |-> answer], y, ans)
              IN /\ other' = h.other /\ told' = h.told /\ answer' = h.answer
                 /\ IF h.acks # <<>> THEN SendPacketAck(h.acks[1])
                    ELSE peer' = [peer EXCEPT !.toB = Tail(@)]
  <2>1. HandlePacket(command, y)
    BY <1>6, <1>7, Zenon
  <2>2. QED
    BY <1>7, <2>1, Zenon DEF HandlePacket
<1>9. UNCHANGED <<sent, self, toServer, toA, toB, recv, stored, changes>>
  BY Zenon DEF RecvPacket
<1>10. CASE y.type = Type.FT
  BY <1>2, <1>8, <1>9, <1>10, Zenon
<1>11. CASE y.type # Type.FT
  <2>1. PICK ans, h :
                 /\ ans \in Answers /\ h = handleIncoming([other |-> other, told |-> told, answer |-> answer], y, ans)
                 /\ other' = h.other /\ told' = h.told /\ answer' = h.answer
                 /\ IF h.acks # <<>> THEN SendPacketAck(h.acks[1])
                    ELSE peer' = [peer EXCEPT !.toB = Tail(@)]
    BY <1>8, <1>11, Zenon
  <2>2. CASE h.acks # <<>>
    <3>1. PICK c \in PacketBytes(Command.ACK, h.acks[1], sent.version) :
             peer' = [toB |-> Tail(peer.toB), toA |-> Append(peer.toA, c)]
      BY <2>1, <2>2, Zenon DEF SendPacketAck, Encrypted, PacketBytes
    <3>2. OneReply(peer', c)
      BY <1>3, <3>1, Zenon
    <3>3. QED
      BY <1>9, <1>11, <2>1, <2>2, <3>2, Zenon
  <2>3. CASE h.acks = <<>>
    BY <1>2, <1>9, <1>11, <2>1, <2>3, Zenon
  <2>4. QED
    BY <2>2, <2>3
<1>12. QED
  BY <1>10, <1>11

LEMMA EndingIs ==
    ASSUME NEW s, SentIs(s), s.event.kind # "FileTransfer", s.version \in {6, 7}, NEW k, NEW t, NEW w, NEW v,
              Answering(k, t, v, w),
           NEW d, NEW r, IsAnswer(d, r, w), d \/ r # "Ignored", s.event.kind = "AwayMessage" => d, Accepts(v, d, r),
           NEW b \in PacketBytes(Command.ACK, k, s.version)
    PROVE  Ending(s, AnswerRec(d, r, w), b)
<1>1. PICK o : o = 0
  OBVIOUS
<1>2. PICK x : x = AckIn(t, v, w, o)
  OBVIOUS
<1>3. ParsePacket(b, s.version) = [command |-> Command.ACK, ist |-> x]
  BY <1>1, <1>2, DirectAck
<1>4. x.seq = SeqNum
  <2>1. x.type = t /\ x.status = v /\ x.away = w /\ x.seq = SeqNum /\ (t # 0 => x # NoSubtype)
    BY <1>2, AckSeen
  <2>2. QED
    BY <2>1
<1>5. Concludes(s, x, AnswerRec(d, r, w))
  BY <1>2, AckConcludes, ZenonT(60)
<1>6. QED
  BY <1>3, <1>4, <1>5, Zenon DEF Ending

LEMMA DirectReceives ==
    ASSUME RecvPacket, Settled(sent, self, other), sent.way = "direct", DirectSent(sent, self, told, answer, peer)
    PROVE  /\ Settled(sent, self, other') /\ DirectIs(sent, self, other', told', answer', peer')
           /\ UNCHANGED <<sent, self, toServer, toA, toB, recv, stored, changes>>
<1>1. PICK b : OnePacket(peer, b) /\ Started(sent, self, b)
  BY Zenon DEF DirectSent
<1>2. sent.out = TRUE /\ told = <<>> /\ answer = NoAnswer /\ sent.finished = FALSE
  BY Zenon DEF DirectSent, Untold
<1>3. PICK e : e = sent.event
  OBVIOUS
<1>4. PICK t, F, N, x : /\ Wires(e, self.contact, t, F, N)
                        /\ ParsePacket(b, sent.version) = [command |-> Command.START, ist |-> x]
                        /\ From(x, UIN.A) = AdvancedIn(e, self, t, F, N)
  BY <1>1, <1>3, Zenon DEF Started
<1>5. PICK y : y = From(x, UIN.A)
  OBVIOUS
<1>6. y = AdvancedIn(e, self, t, F, N)
  BY <1>4, <1>5
<1>7. y.type = t
  <2>1. SeenAs(y, e, self, t, F, N)
    BY <1>6, AdvancedSeen, Zenon
  <2>2. QED
    BY <2>1, Zenon DEF SeenAs
<1>8. t = Type.FT <=> e.kind = "FileTransfer"
  BY <1>4, WiredType
<1>9. SentIs(sent) /\ IsEvent(e) /\ Known(self) /\ sent.version \in {6, 7}
  BY <1>3, Zenon DEF Settled
<1>10. /\ \/ /\ y.type = Type.FT
             /\ told' = Append(told, [ICQSubTypeToEvent(y) EXCEPT !.from = UIN.A])
             /\ NoPackets(peer') /\ UNCHANGED <<other, answer>>
          \/ /\ y.type # Type.FT
             /\ \E ans, h :
                  /\ ans \in Answers /\ h = handleIncoming([other |-> other, told |-> told, answer |-> answer], y, ans)
                  /\ other' = h.other /\ told' = h.told /\ answer' = h.answer
                  /\ IF h.acks # <<>> THEN \E c \in PacketBytes(Command.ACK, h.acks[1], sent.version) : OneReply(peer', c)
                     ELSE NoPackets(peer')
       /\ UNCHANGED <<sent, self, toServer, toA, toB, recv, stored, changes>>
  BY <1>1, <1>4, <1>5, PacketTaken, ZenonT(60)
<1>11. \A way : way = "direct" => Same(ToldAs(e), e, way)
  <2> SUFFICES ASSUME NEW way, way = "direct" PROVE Same(ToldAs(e), e, way)
    OBVIOUS
  <2>1. way \in {"direct", "advanced"}
    OBVIOUS
  <2>2. QED
    BY <2>1, ToldSame
<1>12. Same(ToldAs(e), sent.event, sent.way)
  BY <1>3, <1>11, Zenon
<1>13. CASE y.type = Type.FT
  <2>1. e.kind = "FileTransfer"
    BY <1>7, <1>8, <1>13
  <2>2. e.kind # "AwayMessage"
    BY <2>1
  <2>3. told' = Append(told, ToldAs(e))
    <3>1. [ICQSubTypeToEvent(y) EXCEPT !.from = UIN.A] = ToldAs(e)
      BY <1>4, <1>6, <1>9, <2>2, FileTold
    <3>2. QED
      BY <1>10, <1>13, <3>1, Zenon
  <2>4. TellsOnce(sent, told')
    <3>1. told' = IF sent.event.kind = "AwayMessage" THEN told ELSE Append(told, ToldAs(e))
      BY <1>3, <2>2, <2>3
    <3>2. QED
      BY <1>2, <1>12, <3>1, ToldThen, Zenon
  <2>5. DirectOffered(sent, told', answer', peer')
    BY <1>2, <1>3, <1>10, <1>13, <2>1, <2>4, Zenon DEF DirectOffered
  <2>6. QED
    BY <1>10, <1>13, <2>5, Zenon DEF DirectIs
<1>14. CASE y.type # Type.FT
  <2>1. PICK ans, h :
                  /\ ans \in Answers /\ h = handleIncoming([other |-> other, told |-> told, answer |-> answer], y, ans)
                  /\ other' = h.other /\ told' = h.told /\ answer' = h.answer
                  /\ IF h.acks # <<>> THEN \E c \in PacketBytes(Command.ACK, h.acks[1], sent.version) : OneReply(peer', c)
                     ELSE NoPackets(peer')
    BY <1>10, <1>14, Zenon
  <2>2. e.kind # "FileTransfer"
    BY <1>7, <1>8, <1>14
  <2>3. PICK c : c = [other |-> other, told |-> told, answer |-> answer]
    OBVIOUS
  <2>4. c.other = other /\ c.told = told
    BY <2>3
  <2>5. h = handleIncoming(c, y, ans)
    BY <2>1, <2>3, Zenon
  <2>6. /\ h.other = Knows(c.other, self)
        /\ h.told = IF e.kind = "AwayMessage" THEN c.told ELSE Append(c.told, ToldAs(e))
        /\ \E d, r, w : /\ IsAnswer(d, r, w) /\ h.answer = AnswerRec(d, r, w)
                        /\ Replies(h.acks, y, d, r, w) /\ (e.kind = "AwayMessage" => d)
    BY <1>4, <1>6, <1>9, <2>1, <2>2, <2>5, IncomingAdvanced
  <2>7. PICK d, r, w : /\ IsAnswer(d, r, w) /\ h.answer = AnswerRec(d, r, w)
                       /\ Replies(h.acks, y, d, r, w) /\ (e.kind = "AwayMessage" => d)
    BY <2>6, Zenon
  <2>8. TellsOnce(sent, told')
    <3>1. told' = IF sent.event.kind = "AwayMessage" THEN told ELSE Append(told, ToldAs(e))
      BY <1>3, <2>1, <2>4, <2>6, Zenon
    <3>2. QED
      BY <1>2, <1>12, <3>1, ToldThen, Zenon
  <2>9. other' = [other EXCEPT !.contact = StatusOf(self)]
    BY <2>1, <2>4, <2>6, Zenon DEF Knows
  <2>10. Settled(sent, self, other') /\ other'.contact = StatusOf(self)
    <3>1. PICK m : m = StatusOf(self)
      OBVIOUS
    <3>2. Settled(sent, self, [other EXCEPT !.contact = m]) /\ [other EXCEPT !.contact = m].contact = m
      <4>1. OtherKept(sent, self, other, m, m)
        BY SettledOther, Zenon
      <4>2. QED
        BY <4>1, Zenon DEF OtherKept
    <3>3. QED
      BY <2>9, <3>1, <3>2, Zenon
  <2>11. PICK a : a = AnswerRec(d, r, w)
    OBVIOUS
  <2>12. a.given = TRUE /\ a.delivered = d /\ a.reason = r
    BY <2>11 DEF AnswerRec
  <2>13. answer' = a /\ Replied(sent, self, other', a)
    BY <2>1, <2>7, <2>10, <2>11, <2>12, Zenon DEF Replied
  <2>14. CASE d \/ r # "Ignored"
    <3>1. PICK v : h.acks = <<AckOf(y, w, v)>> /\ Accepts(v, d, r)
      BY <2>7, <2>14, Zenon DEF Replies
    <3>2. PICK k : k = AckOf(y, w, v)
      OBVIOUS
    <3>3. h.acks # <<>> /\ h.acks[1] = k
      <4>1. h.acks = <<k>>
        BY <3>1, <3>2, Zenon
      <4>2. QED
        BY <4>1
    <3>4. PICK q \in PacketBytes(Command.ACK, k, sent.version) : OneReply(peer', q)
      BY <2>1, <3>3, Zenon
    <3>5. Answering(k, t, v, w)
      <4>1. w \in Short /\ v \in Word2
        BY <2>7, <3>1 DEF IsAnswer, Accepts
      <4>2. QED
        BY <1>4, <1>6, <1>9, <2>2, <3>2, <4>1, AckHeld, ZenonT(60)
    <3>6. Ending(sent, a, q)
      <4>1. sent.event.kind # "FileTransfer" /\ (sent.event.kind = "AwayMessage" => d)
        BY <1>3, <2>2, <2>7
      <4>2. IsAnswer(d, r, w)
        BY <2>7
      <4>3. Accepts(v, d, r)
        BY <3>1
      <4>4. Ending(sent, AnswerRec(d, r, w), q)
        BY <1>9, <2>14, <3>4, <3>5, <4>1, <4>2, <4>3, EndingIs, ZenonT(60)
      <4>5. QED
        BY <2>11, <4>4
    <3>7. Heeded(sent, answer')
      BY <2>12, <2>13, <2>14, Zenon DEF Heeded
    <3>8. DirectReplying(sent, self, other', told', answer', peer')
      BY <1>2, <2>8, <2>13, <3>4, <3>6, <3>7, Zenon DEF DirectReplying
    <3>9. QED
      BY <1>10, <2>10, <3>8, Zenon DEF DirectIs
  <2>15. CASE ~(d \/ r # "Ignored")
    <3>1. h.acks = <<>>
      BY <2>7, <2>15, Zenon DEF Replies
    <3>2. NoPackets(peer')
      BY <2>1, <3>1, Zenon
    <3>3. Unheeded(sent, self, other', answer')
      BY <1>3, <2>2, <2>12, <2>13, <2>15, Zenon DEF Unheeded, Heeded
    <3>4. DirectIgnored(sent, self, other', told', answer', peer')
      BY <1>2, <2>8, <3>2, <3>3, Zenon DEF DirectIgnored
    <3>5. QED
      BY <1>10, <2>10, <3>4, Zenon DEF DirectIs
  <2>16. QED
    BY <2>14, <2>15
<1>15. QED
  BY <1>13, <1>14

LEMMA SettledOn ==
    ASSUME NEW s, NEW me, NEW o, Settled(s, me, o), NEW n, SentIs(n),
           n.event = s.event, n.way = s.way, n.version = s.version
    PROVE  /\ Settled(n, me, o)
           /\ \A t : TellsOnce(s, t) => TellsOnce(n, t)
           /\ \A a : Replied(s, me, o, a) => Replied(n, me, o, a)
           /\ \A a : Heeded(s, a) => Heeded(n, a)
           /\ \A b : Started(s, me, b) => Started(n, me, b)
<1>1. Settled(n, me, o)
  BY Zenon DEF Settled
<1>2. \A t : TellsOnce(s, t) => TellsOnce(n, t)
  BY Zenon DEF TellsOnce
<1>3. \A a : Replied(s, me, o, a) => Replied(n, me, o, a)
  BY Zenon DEF Replied
<1>4. \A a : Heeded(s, a) => Heeded(n, a)
  BY DEF Heeded
<1>5. \A b : Started(s, me, b) => Started(n, me, b)
  BY Zenon DEF Started
<1>6. QED
  BY <1>1, <1>2, <1>3, <1>4, <1>5, Zenon

OutNow(n, s) ==
    /\ SentIs(n) /\ n.event = s.event /\ n.way = s.way /\ n.version = s.version
    /\ n.out = TRUE /\ n.finished = s.finished
LEMMA OutSet ==
    ASSUME NEW s, SentIs(s), NEW yes
    PROVE  [s EXCEPT !.out = yes] =
               [event |-> s.event, way |-> s.way, version |-> s.version, out |-> yes, finished |-> s.finished,
                delivered |-> s.delivered, reason |-> s.reason, away |-> s.away, file |-> s.file]
BY DEF SentIs
LEMMA SentOut ==
    ASSUME NEW s, SentIs(s)
    PROVE  OutNow([s EXCEPT !.out = TRUE], s)
<1>1. PICK yes : yes = TRUE
  OBVIOUS
<1>2. PICK n : n = [s EXCEPT !.out = yes]
  OBVIOUS
<1>3. n = [event |-> s.event, way |-> s.way, version |-> s.version, out |-> yes, finished |-> s.finished,
           delivered |-> s.delivered, reason |-> s.reason, away |-> s.away, file |-> s.file]
  BY <1>2, OutSet
<1>4. SentIs(n) /\ n.event = s.event /\ n.way = s.way /\ n.version = s.version /\ n.out = yes /\ n.finished = s.finished
  BY <1>3 DEF SentIs
<1>5. QED
  BY <1>1, <1>2, <1>4, Zenon DEF OutNow

NextDirect(s, me, o, t, a, p) == Settled(s, me, o) /\ s.way = "direct" /\ DirectIs(s, me, o, t, a, p)

LEMMA DirectSends ==
    ASSUME SendDirect, NextDirect(sent, self, other, told, answer, peer)
    PROVE  /\ NextDirect(sent', self, other, told, answer, peer')
           /\ UNCHANGED <<self, other, told, answer, toServer, toA, toB, recv, stored, changes>>
<1>1. /\ ~sent.out /\ sent' = [sent EXCEPT !.out = TRUE]
      /\ \E b \in Encrypted(Packet(Command.START, [handleOutgoing(sent.event) EXCEPT !.advanced = TRUE])) :
             peer' = [peer EXCEPT !.toB = Append(@, b)]
      /\ UNCHANGED <<self, other, told, answer, toServer, toA, toB, recv, stored, changes>>
  BY Zenon DEF SendDirect
<1>2. Settled(sent, self, other) /\ sent.way = "direct"
  BY Zenon DEF NextDirect
<1>3. PICK b \in PacketBytes(Command.START, AdvancedOf(OutOf(sent.event, self)), sent.version) :
        peer' = [peer EXCEPT !.toB = Append(@, b)]
  BY <1>1, Zenon DEF Encrypted, PacketBytes, handleOutgoing, AdvancedOf, OutOf, AddressedTo, StatusNumber
<1>4. Started(sent, self, b)
  BY <1>2, <1>3, DirectStarts, ZenonT(60)
<1>5. Untold(sent, told, answer) /\ NoPackets(peer)
  BY <1>1, Zenon DEF NextDirect, DirectIs, DirectUnsent, DirectSent, DirectOffered, DirectReplying, DirectIgnored, DirectEnded
<1>6. OnePacket(peer', b)
  BY <1>3, <1>5 DEF NoPackets, OnePacket
<1>7. OutNow(sent', sent)
  <2>1. SentIs(sent)
    BY <1>2, Zenon DEF Settled
  <2>2. QED
    BY <1>1, <2>1, SentOut, Zenon
<1>8. Settled(sent', self, other) /\ Started(sent', self, b)
  <2>1. SentIs(sent') /\ sent'.event = sent.event /\ sent'.way = sent.way /\ sent'.version = sent.version
    BY <1>7, Zenon DEF OutNow
  <2>2. QED
    BY <1>2, <1>4, <2>1, SettledOn
<1>9. Untold(sent', told, answer) /\ sent'.out = TRUE /\ sent'.way = "direct"
  BY <1>2, <1>5, <1>7, Zenon DEF OutNow, Untold
<1>10. DirectSent(sent', self, told, answer, peer')
  BY <1>6, <1>8, <1>9, Zenon DEF DirectSent
<1>11. QED
  BY <1>1, <1>8, <1>9, <1>10, Zenon DEF NextDirect, DirectIs

LEMMA PacketReceived ==
    ASSUME RecvPacket, NextDirect(sent, self, other, told, answer, peer)
    PROVE  /\ NextDirect(sent, self, other', told', answer', peer')
           /\ UNCHANGED <<sent, self, toServer, toA, toB, recv, stored, changes>>
<1>1. peer.toB # <<>>
  BY Zenon DEF RecvPacket
<1>2. \A b : ~OneReply(peer, b)
  BY <1>1 DEF OneReply
<1>3. ~NoPackets(peer)
  BY <1>1 DEF NoPackets
<1>4. Settled(sent, self, other) /\ sent.way = "direct" /\ DirectSent(sent, self, told, answer, peer)
  BY <1>2, <1>3, Zenon DEF NextDirect, DirectIs, DirectUnsent, DirectOffered, DirectReplying, DirectIgnored, DirectEnded
<1>5. /\ Settled(sent, self, other') /\ DirectIs(sent, self, other', told', answer', peer')
      /\ UNCHANGED <<sent, self, toServer, toA, toB, recv, stored, changes>>
  BY <1>4, DirectReceives
<1>6. QED
  BY <1>4, <1>5, Zenon DEF NextDirect

LEMMA DirectAcknowledged ==
    ASSUME RecvPacketAck, NextDirect(sent, self, other, told, answer, peer)
    PROVE  /\ NextDirect(sent', self, other, told, answer, peer')
           /\ UNCHANGED <<self, other, told, answer, toServer, toA, toB, recv, stored, changes>>
<1>1. /\ peer.toA # <<>> /\ peer' = [peer EXCEPT !.toA = Tail(@)]
      /\ UNCHANGED <<self, other, told, answer, toServer, toA, toB, recv, stored, changes>>
  BY Zenon DEF RecvPacketAck
<1>2. \A b : ~OnePacket(peer, b)
  BY <1>1 DEF OnePacket
<1>3. ~NoPackets(peer)
  BY <1>1 DEF NoPackets
<1>4. Settled(sent, self, other) /\ sent.way = "direct" /\ DirectReplying(sent, self, other, told, answer, peer)
  BY <1>2, <1>3, Zenon DEF NextDirect, DirectIs, DirectUnsent, DirectSent, DirectOffered, DirectIgnored, DirectEnded
<1>5. PICK b : OneReply(peer, b) /\ Ending(sent, answer, b)
  BY <1>4, Zenon DEF DirectReplying
<1>6. PICK x : /\ ParsePacket(b, sent.version) = [command |-> Command.ACK, ist |-> x]
               /\ x.seq = SeqNum /\ Concludes(sent, x, answer)
  BY <1>5, Zenon DEF Ending
<1>7. Head(peer.toA) = b /\ NoPackets(peer')
  BY <1>1, <1>5 DEF OneReply, NoPackets
<1>8. sent' = handleIncomingACK(sent, x)
  <2>1. PICK p : /\ p = ParsePacket(b, sent.version)
                 /\ sent' = IF p.command = Command.ACK /\ p.ist.seq = SeqNum THEN handleIncomingACK(sent, p.ist) ELSE sent
    BY <1>7, Zenon DEF RecvPacketAck
  <2>2. p.command = Command.ACK /\ p.ist = x
    BY <1>6, <2>1
  <2>3. QED
    BY <1>6, <2>1, <2>2, Zenon
<1>9. Continues(sent', sent) /\ Agrees(sent', answer)
  BY <1>6, <1>8, Zenon DEF Concludes
<1>10. SentIs(sent') /\ sent'.event = sent.event /\ sent'.way = sent.way /\ sent'.version = sent.version /\ sent'.out = sent.out
  BY <1>9, Zenon DEF Continues
<1>11. sent.out = TRUE /\ TellsOnce(sent, told) /\ Replied(sent, self, other, answer) /\ Heeded(sent, answer)
  BY <1>4, Zenon DEF DirectReplying
<1>12. /\ Settled(sent', self, other) /\ TellsOnce(sent', told) /\ Replied(sent', self, other, answer)
       /\ Heeded(sent', answer)
  BY <1>4, <1>10, <1>11, SettledOn
<1>13. DirectEnded(sent', self, other, told, answer, peer')
  BY <1>7, <1>9, <1>10, <1>11, <1>12, Zenon DEF DirectEnded
<1>14. QED
  BY <1>1, <1>4, <1>10, <1>12, <1>13, Zenon DEF NextDirect, DirectIs

LEMMA FileAnswered ==
    ASSUME SendFTACK, NextDirect(sent, self, other, told, answer, peer)
    PROVE  /\ NextDirect(sent, self, other, told, answer', peer')
           /\ UNCHANGED <<sent, self, other, told, toServer, toA, toB, recv, stored, changes>>
<1>1. /\ \E i \in DOMAIN told : told[i].kind = "FileTransfer"
      /\ ~answer.given
      /\ UNCHANGED <<sent, self, other, told, toServer, toA, toB, recv, stored, changes>>
  BY Zenon DEF SendFTACK
<1>2. PICK ans, p, r :
        /\ ans \in FileAnswers /\ p = ans.port /\ r = ans.refusal /\ answer' = FileAnswerRec(p, r)
        /\ \E b \in PacketBytes(Command.ACK, FTAnswer(p, r), sent.version) : peer' = [peer EXCEPT !.toA = Append(@, b)]
  <2>1. PICK ans \in FileAnswers :
           /\ answer' = FileAnswerRec(ans.port, ans.refusal)
           /\ \E b \in Encrypted(Packet(Command.ACK, FTAnswer(ans.port, ans.refusal))) :
                  peer' = [peer EXCEPT !.toA = Append(@, b)]
    BY Zenon DEF SendFTACK, FTAnswer, FileAnswerRec
  <2>2. PICK p, r : p = ans.port /\ r = ans.refusal
    OBVIOUS
  <2>3. Encrypted(Packet(Command.ACK, FTAnswer(p, r))) = PacketBytes(Command.ACK, FTAnswer(p, r), sent.version)
    BY Zenon DEF Encrypted, PacketBytes
  <2>4. PICK b \in PacketBytes(Command.ACK, FTAnswer(p, r), sent.version) : peer' = [peer EXCEPT !.toA = Append(@, b)]
    BY <2>1, <2>2, <2>3, Zenon
  <2>5. answer' = FileAnswerRec(p, r)
    BY <2>1, <2>2, Zenon
  <2>6. QED
    BY <2>1, <2>2, <2>4, <2>5, Zenon
<1>3. PICK b \in PacketBytes(Command.ACK, FTAnswer(p, r), sent.version) : peer' = [peer EXCEPT !.toA = Append(@, b)]
  BY <1>2
<1>4. p \in Word2 /\ r \in Short
  BY <1>2, AnswersAssumption
<1>5. told # <<>>
  BY <1>1
<1>6. DirectOffered(sent, told, answer, peer)
  BY <1>1, <1>5, Zenon DEF NextDirect, DirectIs, DirectUnsent, DirectSent, DirectReplying, DirectIgnored, DirectEnded,
     Untold, Unheeded, Replied
<1>7. /\ sent.out = TRUE /\ sent.finished = FALSE /\ TellsOnce(sent, told) /\ NoPackets(peer)
      /\ sent.event.kind = "FileTransfer"
  BY <1>6, Zenon DEF DirectOffered
<1>8. OneReply(peer', b)
  BY <1>3, <1>7 DEF NoPackets, OneReply
<1>9. Settled(sent, self, other) /\ sent.way = "direct"
  BY Zenon DEF NextDirect
<1>10. Ending(sent, answer', b)
  <2>1. sent.version \in {6, 7} /\ SentIs(sent)
    BY <1>9, Zenon DEF Settled
  <2>2. PICK x : x = FileAckIn(p, r)
    OBVIOUS
  <2>3. ParsePacket(b, sent.version) = [command |-> Command.ACK, ist |-> x]
    BY <1>3, <1>4, <2>1, <2>2, FileAck
  <2>4. x.seq = SeqNum
    BY <2>2 DEF FileAckIn, Sub
  <2>5. Concludes(sent, x, FileAnswerRec(p, r))
    BY <1>4, <1>7, <2>1, <2>2, FileConcludes
  <2>6. QED
    BY <1>2, <2>3, <2>4, <2>5, Zenon DEF Ending
<1>11. Replied(sent, self, other, answer') /\ Heeded(sent, answer')
  <2>1. answer'.given = TRUE
    BY <1>2 DEF FileAnswerRec
  <2>2. QED
    BY <1>7, <2>1 DEF Replied, Heeded
<1>12. DirectReplying(sent, self, other, told, answer', peer')
  BY <1>7, <1>8, <1>10, <1>11, Zenon DEF DirectReplying
<1>13. QED
  BY <1>1, <1>9, <1>12, Zenon DEF NextDirect, DirectIs

LEMMA DirectOther ==
    ASSUME NEW s, NEW me, NEW o, NEW t, NEW a, NEW p, DirectIs(s, me, o, t, a, p), NEW n, n.contact = o.contact
    PROVE  DirectIs(s, me, n, t, a, p)
<1>1. Replied(s, me, o, a) <=> Replied(s, me, n, a)
  BY DEF Replied
<1>2. Unheeded(s, me, o, a) <=> Unheeded(s, me, n, a)
  BY <1>1, Zenon DEF Unheeded
<1>3. QED
  BY <1>1, <1>2, Zenon DEF DirectIs, DirectReplying, DirectIgnored, DirectEnded

LEMMA StatusSet ==
    ASSUME setStatus
    PROVE  /\ \E st : other' = [other EXCEPT !.status = st]
           /\ UNCHANGED <<sent, self, told, answer, toServer, toA, toB, recv, peer, stored>>
BY Zenon DEF setStatus

LEMMA StatusSettled ==
    ASSUME setStatus, Settled(sent, self, other)
    PROVE  Settled(sent, self, other') /\ other'.contact = other.contact /\ other'.online = other.online
<1>1. PICK st : other' = [other EXCEPT !.status = st]
  BY StatusSet, Zenon
<1>2. OtherKept(sent, self, other, st, st)
  BY SettledOther, Zenon
<1>3. QED
  BY <1>1, <1>2, Zenon DEF OtherKept

\* A file is only told of by a direct connection.
LEMMA NoFile ==
    ASSUME NEW s, s.event.kind # "FileTransfer", NEW t, t = <<>> \/ TellsOnce(s, t)
    PROVE  \A i \in DOMAIN t : t[i].kind # "FileTransfer"
<1>1. CASE t = <<>>
  BY <1>1
<1>2. CASE t # <<>>
  <2>1. PICK m : t = <<m>> /\ Same(m, s.event, s.way)
    BY <1>2, Zenon DEF TellsOnce
  <2>2. m.kind = s.event.kind
    BY <2>1, Zenon DEF Same
  <2>3. m.kind # "FileTransfer"
    BY <2>2
  <2>4. \A i \in DOMAIN t : t[i] = m
    BY <2>1
  <2>5. QED
    BY <2>3, <2>4, Zenon
<1>3. QED
  BY <1>1, <1>2

NoBytesSent == toServer = <<>> /\ toA = <<>> /\ toB = <<>> /\ recv = <<>> /\ stored = <<>>
DirectWay == NextDirect(sent, self, other, told, answer, peer) /\ NoBytesSent

LEMMA DirectStep ==
    ASSUME DirectWay, [Next]_vars
    PROVE  DirectWay'
<1>1. NextDirect(sent, self, other, told, answer, peer) /\ toServer = <<>> /\ toA = <<>> /\ toB = <<>>
          /\ recv = <<>> /\ stored = <<>>
  BY Zenon DEF DirectWay, NoBytesSent
<1>2. Settled(sent, self, other) /\ sent.way = "direct" /\ DirectIs(sent, self, other, told, answer, peer)
  BY <1>1, Zenon DEF NextDirect
<1>3. other.online
  <2>1. sent.way # "normal"
    BY <1>2
  <2>2. QED
    BY <1>2, <2>1, Zenon DEF Settled
<1>4. SUFFICES /\ NextDirect(sent', self', other', told', answer', peer')
               /\ toServer' = <<>> /\ toA' = <<>> /\ toB' = <<>> /\ recv' = <<>> /\ stored' = <<>>
  BY Zenon DEF DirectWay, NoBytesSent
<1>5. CASE SendDirect
  BY <1>1, <1>5, DirectSends
<1>6. CASE RecvPacket
  BY <1>1, <1>6, PacketReceived
<1>7. CASE SendFTACK
  BY <1>1, <1>7, FileAnswered
<1>8. CASE RecvPacketAck
  BY <1>1, <1>8, DirectAcknowledged
<1>9. CASE setStatus
  <2>1. UNCHANGED <<sent, self, told, answer, toServer, toA, toB, recv, peer, stored>>
    BY <1>9, StatusSet, Zenon
  <2>2. Settled(sent, self, other') /\ other'.contact = other.contact
    BY <1>2, <1>9, StatusSettled
  <2>3. DirectIs(sent, self, other', told, answer, peer)
    BY <1>2, <2>2, DirectOther, Zenon
  <2>4. QED
    BY <1>1, <1>2, <2>1, <2>2, <2>3, Zenon DEF NextDirect
<1>10. CASE UNCHANGED vars
  BY <1>1, <1>10, Zenon DEF vars
<1>11. CASE \/ SendViaServerAdvanced \/ SendViaServerNormal \/ ServerSends
  <2>1. sent.way # "advanced" /\ sent.way # "normal" /\ sent.way # "magic"
    BY <1>2
  <2>2. QED
    BY <1>11, <2>1, Zenon DEF SendViaServerAdvanced, SendViaServerNormal, ServerSends
<1>12. CASE \/ ServerRelays \/ ServerAcknowledges \/ LogIn \/ ServerForgets \/ RecvFromServer \/ SignalMessageACK
  BY <1>1, <1>3, <1>12, Zenon DEF ServerRelays, ServerAcknowledges, LogIn, ServerForgets, RecvFromServer, SignalMessageACK
<1>13. QED
  BY <1>5, <1>6, <1>7, <1>8, <1>9, <1>10, <1>11, <1>12, Zenon DEF Next

-----------------------------------------------------------------------------
(* Through the server. What it does with a request that comes from A.        *)
Request(b) == [from |-> UIN.A, family |-> 4, subtype |-> 6, body |-> b]
LEMMA RequestIs ==
    ASSUME NEW b
    PROVE  /\ Request(b).from = UIN.A /\ Request(b).family = 4 /\ Request(b).subtype = 6 /\ Request(b).body = b
BY DEF Request

RelaysAs(b, r) ==
    LET rest == SubSeq(b, r.pos + 1, Len(b))
    IN  IF r.v[2] \notin {1, 2, 4} THEN UNCHANGED <<toB, stored>>
        ELSE IF other.online
        THEN /\ toB' = toB \o FLAP(4, 7, r.v[1] \o BE(r.v[2], 2) \o UserInfo(UIN.A) \o rest)
             /\ UNCHANGED stored
        ELSE /\ stored' = stored \o FLAP(21, 3, SrvResponse(Offline(UIN.A, r.v[2], rest)))
             /\ UNCHANGED toB

LEMMA RelaysRequest ==
    ASSUME ServerRelays, NEW b, Head(toServer) = Request(b)
    PROVE  /\ RelaysAs(b, Read(Reader(b), <<Str(8), U16, ByteStr>>))
           /\ toServer' = Tail(toServer)
           /\ UNCHANGED <<sent, self, other, told, answer, toA, recv, peer, changes>>
<1>1. PICK p : p = Head(toServer) /\ p.from = UIN.A /\ p.body = b
  BY RequestIs, Zenon
<1>2. LET r == Read(Reader(p.body), <<Str(8), U16, ByteStr>>)
          rest == SubSeq(p.body, r.pos + 1, Len(p.body))
      IN  IF r.v[2] \notin {1, 2, 4} THEN UNCHANGED <<toB, stored>>
          ELSE IF other.online
          THEN /\ toB' = toB \o FLAP(4, 7, r.v[1] \o BE(r.v[2], 2) \o UserInfo(p.from) \o rest)
               /\ UNCHANGED stored
          ELSE /\ stored' = stored \o FLAP(21, 3, SrvResponse(Offline(p.from, r.v[2], rest)))
               /\ UNCHANGED toB
  BY <1>1, Zenon DEF ServerRelays
<1>3. toServer' = Tail(toServer) /\ UNCHANGED <<sent, self, other, told, answer, toA, recv, peer, changes>>
  BY Zenon DEF ServerRelays
<1>4. RelaysAs(b, Read(Reader(b), <<Str(8), U16, ByteStr>>))
  BY <1>1, <1>2, Zenon DEF RelaysAs
<1>5. QED
  BY <1>3, <1>4, Zenon

LEMMA RelaysSent ==
    ASSUME ServerRelays, NEW b, Head(toServer) = Request(b), NEW c, IsCookie(c), NEW ch \in {1, 2, 4}, NEW rest,
           Sends(b, c, ch, UIN.B, rest)
    PROVE  IF other.online THEN toB' = toB \o Relay(c, ch, UIN.A, rest) /\ UNCHANGED stored
           ELSE stored' = stored \o FLAP(21, 3, SrvResponse(Offline(UIN.A, ch, rest))) /\ UNCHANGED toB
<1>1. PICK r : r = Read(Reader(b), <<Str(8), U16, ByteStr>>)
  OBVIOUS
<1>2. ch \in Word2 /\ c \in Bytes /\ rest \in Bytes
  <2>1. ch \in Word2
    BY DEF Word2
  <2>2. c \in Bytes
    BY Zenon DEF IsCookie
  <2>3. rest \in Bytes
    BY Zenon DEF Sends
  <2>4. QED
    BY <2>1, <2>2, <2>3
<1>3. r.v[1] = c /\ r.v[2] = ch /\ SubSeq(b, r.pos + 1, Len(b)) = rest
  <2>1. IsUIN(UIN.B)
    BY UINsAre
  <2>2. LET q == Read(Reader(b), <<Str(8), U16, ByteStr>>)
        IN  q.v[1] = c /\ q.v[2] = ch /\ SubSeq(b, q.pos + 1, Len(b)) = rest
    BY <1>2, <2>1, Relayed
  <2>3. QED
    BY <1>1, <2>2, Zenon
<1>4. RelaysAs(b, r)
  BY <1>1, RelaysRequest, Zenon
<1>5. IF other.online
      THEN /\ toB' = toB \o FLAP(4, 7, c \o BE(ch, 2) \o UserInfo(UIN.A) \o rest)
           /\ UNCHANGED stored
      ELSE /\ stored' = stored \o FLAP(21, 3, SrvResponse(Offline(UIN.A, ch, rest)))
           /\ UNCHANGED toB
  <2>1. ~(ch \notin {1, 2, 4})
    OBVIOUS
  <2>2. QED
    BY <1>3, <1>4, <2>1, Zenon DEF RelaysAs
<1>6. FLAP(4, 7, c \o BE(ch, 2) \o UserInfo(UIN.A) \o rest) = Relay(c, ch, UIN.A, rest)
  <2>1. PICK u : u = UIN.A /\ IsUIN(u)
    BY UINsAre
  <2>2. FLAP(4, 7, c \o BE(ch, 2) \o UserInfo(u) \o rest) = Relay(c, ch, u, rest)
    BY <1>2, <2>1, RelayedAs
  <2>3. QED
    BY <2>1, <2>2, Zenon
<1>7. QED
  BY <1>5, <1>6, Zenon

LEMMA RelaysNothing ==
    ASSUME ServerRelays, NEW b, Head(toServer) = Request(b), Read(Reader(b), <<Str(8), U16, ByteStr>>).v[2] = 6
    PROVE  UNCHANGED <<toB, stored>>
<1>1. PICK r : r = Read(Reader(b), <<Str(8), U16, ByteStr>>)
  OBVIOUS
<1>2. RelaysAs(b, r)
  BY <1>1, RelaysRequest, Zenon
<1>3. r.v[2] \notin {1, 2, 4}
  <2>1. PICK v : v = r.v[2] /\ v = 6
    BY <1>1
  <2>2. v \notin {1, 2, 4}
    BY <2>1
  <2>3. QED
    BY <2>1, <2>2
<1>4. QED
  BY <1>2, <1>3, Zenon DEF RelaysAs

-----------------------------------------------------------------------------
(* The advanced way.                                                         *)
AckReply(b) == [from |-> UIN.B, family |-> 4, subtype |-> 11, body |-> b]
AckFrame(b) == FLAP(4, 11, Renamed(b, UIN.B))
AdvAsking(s, me, b) ==
    \E t, F, N : Wires(s.event, me.contact, t, F, N) /\ AdvCarried(b, AdvancedIn(s.event, me, t, F, N))
AdvArriving(s, me, f) ==
    \E t, F, N : Wires(s.event, me.contact, t, F, N) /\ Arrives(f, ICBMCookie, AdvancedIn(s.event, me, t, F, N))
AdvEnding(s, a, f) ==
    \E x : /\ AckArrived(f, ICBMCookie, x) /\ x # NoSubtype /\ Concludes(s, x, a)
           /\ x.type \in Acknowledgeable <=> s.event.kind # "Contacts"
AdvUnsent(s, t, a, ts, ta, fs) == s.out = FALSE /\ Untold(s, t, a) /\ ts = <<>> /\ ta = <<>> /\ fs = <<>>
AdvAsked(s, me, t, a, ts, ta, fs) ==
    s.out = TRUE /\ Untold(s, t, a) /\ (\E b : ts = <<Request(b)>> /\ AdvAsking(s, me, b)) /\ ta = <<>> /\ fs = <<>>
AdvComing(s, me, t, a, ts, ta, fs) ==
    s.out = TRUE /\ Untold(s, t, a) /\ ts = <<>> /\ ta = <<>> /\ \E f : fs = <<f>> /\ AdvArriving(s, me, f)
AdvReplying(s, me, o, t, a, ts, ta, fs) ==
    /\ s.out = TRUE /\ s.finished = FALSE /\ TellsOnce(s, t) /\ Replied(s, me, o, a) /\ Heeded(s, a)
    /\ ta = <<>> /\ fs = <<>> /\ \E b : ts = <<AckReply(b)>> /\ AdvEnding(s, a, AckFrame(b))
AdvReplied(s, me, o, t, a, ts, ta, fs) ==
    /\ s.out = TRUE /\ s.finished = FALSE /\ TellsOnce(s, t) /\ Replied(s, me, o, a) /\ Heeded(s, a)
    /\ AdvEnding(s, a, ta) /\ ts = <<>> /\ fs = <<>>
AdvOver(s, me, o, t, a, ts, ta, fs) ==
    /\ s.out = TRUE /\ TellsOnce(s, t) /\ Replied(s, me, o, a) /\ ts = <<>> /\ ta = <<>> /\ fs = <<>>
    /\ IF Heeded(s, a) /\ s.event.kind # "Contacts" THEN Agrees(s, a) ELSE s.finished = FALSE
AdvIs(s, me, o, t, a, ts, ta, fs) ==
    \/ AdvUnsent(s, t, a, ts, ta, fs)
    \/ AdvAsked(s, me, t, a, ts, ta, fs)
    \/ AdvComing(s, me, t, a, ts, ta, fs)
    \/ AdvReplying(s, me, o, t, a, ts, ta, fs)
    \/ AdvReplied(s, me, o, t, a, ts, ta, fs)
    \/ AdvOver(s, me, o, t, a, ts, ta, fs)
NextAdv(s, me, o, t, a, ts, ta, fs) == Settled(s, me, o) /\ s.way = "advanced" /\ AdvIs(s, me, o, t, a, ts, ta, fs)

LEMMA AdvAsks ==
    ASSUME NEW s, NEW me, NEW o, Settled(s, me, o), s.way = "advanced"
    PROVE  AdvAsking(s, me, MsgSend(AdvancedOf(OutOf(s.event, me)), ICBMCookie))
<1>1. Sendable(s.event) /\ s.event.granted \in BOOLEAN
  BY SettledIs
<1>2. IsEvent(s.event) /\ Known(me)
  BY Zenon DEF Settled
<1>3. PICK e : e = s.event
  OBVIOUS
<1>4. PICK t, F, N : Wires(e, me.contact, t, F, N) /\ IsOut(OutOf(e, me), e, me, t, F, N)
  BY <1>1, <1>3, OutIs
<1>5. PICK x, y : x = OutOf(e, me) /\ y = AdvancedOf(x)
  OBVIOUS
<1>6. AdvCarried(MsgSend(y, ICBMCookie), AdvancedIn(e, me, t, F, N))
  <2>1. IsEvent(e) /\ Sendable(e) /\ IsOut(x, e, me, t, F, N)
    BY <1>1, <1>2, <1>3, <1>4, <1>5, Zenon
  <2>2. QED
    BY <1>2, <1>4, <1>5, <2>1, AdvancedCarried, ZenonT(60)
<1>7. QED
  BY <1>3, <1>4, <1>5, <1>6, Zenon DEF AdvAsking

LEMMA AckTypes ==
    ASSUME NEW e, NEW st, NEW t, NEW F, NEW N, Wires(e, st, t, F, N), e.kind \in {"Normal", "URL", "AwayMessage", "Contacts"}
    PROVE  t \in Acknowledgeable <=> e.kind # "Contacts"
<1>1. PICK k : k = e.kind
  OBVIOUS
<1>2. \/ k = "Normal" /\ t = Type.Normal
      \/ k = "URL" /\ t = Type.URL
      \/ k = "AwayMessage" /\ t \in AutoReq
      \/ k = "Contacts" /\ t = Type.Contact
  <2>1. AwayType(st) \in AutoReq
    BY AwayTypes
  <2>2. \/ k = "Normal" /\ t = Type.Normal
        \/ k = "URL" /\ t = Type.URL
        \/ k = "AwayMessage" /\ t = AwayType(st)
        \/ k = "Contacts" /\ t = Type.Contact
        \/ k \in {"FileTransfer", "AuthReq", "AuthAck", "UserAdd"}
    BY <1>1 DEF Wires
  <2>3. k \in {"Normal", "URL", "AwayMessage", "Contacts"}
    BY <1>1
  <2>4. QED
    BY <2>1, <2>2, <2>3
<1>3. Type.Contact \notin Acknowledgeable
  BY DEF Type, Acknowledgeable, AutoReq
<1>4. Type.Normal \in Acknowledgeable /\ Type.URL \in Acknowledgeable /\ AutoReq \subseteq Acknowledgeable
  BY Zenon DEF Acknowledgeable
<1>5. CASE k = "Contacts"
  BY <1>1, <1>2, <1>3, <1>5
<1>6. CASE k # "Contacts"
  BY <1>1, <1>2, <1>4, <1>6
<1>7. QED
  BY <1>5, <1>6

LEMMA AdvEndingIs ==
    ASSUME NEW s, SentIs(s), s.event.kind \in {"Normal", "URL", "AwayMessage", "Contacts"}, NEW st, NEW t, NEW F, NEW N,
           Wires(s.event, st, t, F, N), NEW k, NEW w, NEW v, Answering(k, t, v, w),
           NEW d, NEW r, IsAnswer(d, r, w), d \/ r # "Ignored", s.event.kind = "AwayMessage" => d, Accepts(v, d, r)
    PROVE  AdvEnding(s, AnswerRec(d, r, w), AckFrame(MessageACK(k, ICBMCookie)))
<1>1. PICK u, x : u = UIN.B /\ x = AckIn(t, v, w, u)
  OBVIOUS
<1>2. AckArrived(AckFrame(MessageACK(k, ICBMCookie)), ICBMCookie, x)
  <2>1. AckArrived(FLAP(4, 11, Renamed(MessageACK(k, ICBMCookie), UIN.B)), ICBMCookie, AckIn(t, v, w, UIN.B))
    BY ServerAck, Zenon
  <2>2. QED
    BY <1>1, <2>1, Zenon DEF AckFrame
<1>3. x.type = t /\ (t # 0 => x # NoSubtype)
  <2>1. x.type = t /\ x.status = v /\ x.away = w /\ x.seq = SeqNum /\ (t # 0 => x # NoSubtype)
    BY <1>1, AckSeen
  <2>2. QED
    BY <2>1
<1>4. t # 0
  BY WiredType
<1>5. t \in Acknowledgeable <=> s.event.kind # "Contacts"
  BY AckTypes
<1>6. Concludes(s, x, AnswerRec(d, r, w))
  <2>1. s.event.kind # "FileTransfer"
    OBVIOUS
  <2>2. QED
    BY <1>1, <2>1, AckConcludes, ZenonT(60)
<1>7. x # NoSubtype /\ (x.type \in Acknowledgeable <=> s.event.kind # "Contacts")
  BY <1>3, <1>4, <1>5, Zenon
<1>8. QED
  BY <1>2, <1>6, <1>7, Zenon DEF AdvEnding

-----------------------------------------------------------------------------
(* A read of one frame, and of two: none of it is complete, or it is handled. *)
Unread == other' = other /\ told' = told /\ answer' = answer /\ toServer' = toServer
Became(c) == other' = c.other /\ told' = c.told /\ answer' = c.answer /\ toServer' = toServer \o c.out
LEMMA NothingRead ==
    ASSUME NEW ans, NEW c, NEW a, a = <<>>, c = Handled(Client(other, told, answer, <<>>), a, ans), Became(c),
           toServer \o <<>> = toServer
    PROVE  Unread
<1>1. PICK d : d = Client(other, told, answer, <<>>)
  OBVIOUS
<1>2. c = d
  <2>1. Handled(d, a, ans) = d
    BY HandledNone
  <2>2. QED
    BY <1>1, <2>1, Zenon
<1>3. c.other = other /\ c.told = told /\ c.answer = answer /\ c.out = <<>>
  BY <1>1, <1>2 DEF Client
<1>4. QED
  BY <1>3, Zenon DEF Became, Unread

ReadOne(f) ==
    \/ Stream(recv', toB', <<f>>) /\ Unread
    \/ \E ans \in Answers : /\ Stream(recv', toB', <<>>)
                            /\ Became(ParseCh2(Client(other, told, answer, <<>>), f, ans))
LEMMA ReadingOne ==
    ASSUME RecvFromServer, NEW f, Stream(recv, toB, <<f>>), toServer \o <<>> = toServer
    PROVE  ReadOne(f) /\ UNCHANGED <<sent, self, toA, peer, stored, changes>>
<1>1. PICK fs : fs = <<f>> /\ Stream(recv, toB, fs)
  OBVIOUS
<1>2. /\ \E a, b, c : \E ans \in Answers :
             /\ Splice(fs, a, b) /\ Stream(recv', toB', b)
             /\ c = Handled(Client(other, told, answer, <<>>), a, ans)
             /\ other' = c.other /\ told' = c.told /\ answer' = c.answer /\ toServer' = toServer \o c.out
      /\ UNCHANGED <<sent, self, toA, peer, stored, changes>>
  BY <1>1, Reading
<1>3. PICK a, b, c : \E ans \in Answers :
             /\ Splice(fs, a, b) /\ Stream(recv', toB', b)
             /\ c = Handled(Client(other, told, answer, <<>>), a, ans) /\ Became(c)
  BY <1>2, Zenon DEF Became
<1>4. PICK ans \in Answers :
             /\ Splice(fs, a, b) /\ Stream(recv', toB', b)
             /\ c = Handled(Client(other, told, answer, <<>>), a, ans) /\ Became(c)
  BY <1>3
<1>5. (a = <<>> /\ b = fs) \/ (a = fs /\ b = <<>>)
  <2>1. \A g, h : fs # <<g, h>>
    BY <1>1
  <2>2. QED
    BY <1>4, <2>1, Zenon DEF Splice
<1>6. CASE a = <<>> /\ b = fs
  <2>1. Unread
    BY <1>4, <1>6, NothingRead, Zenon
  <2>2. QED
    BY <1>1, <1>2, <1>4, <1>6, <2>1, Zenon DEF ReadOne
<1>7. CASE a = fs /\ b = <<>>
  <2>1. PICK d : d = Client(other, told, answer, <<>>)
    OBVIOUS
  <2>2. Handled(d, a, ans) = ParseCh2(d, f, ans)
    BY <1>1, <1>7, HandledOne
  <2>3. Became(ParseCh2(Client(other, told, answer, <<>>), f, ans))
    BY <1>4, <2>1, <2>2, Zenon
  <2>4. QED
    BY <1>2, <1>4, <1>7, <2>3, Zenon DEF ReadOne
<1>8. QED
  BY <1>5, <1>6, <1>7

ReadTwo(f, g) ==
    \/ Stream(recv', toB', <<f, g>>) /\ Unread
    \/ \E ans \in Answers : /\ Stream(recv', toB', <<g>>)
                            /\ Became(ParseCh2(Client(other, told, answer, <<>>), f, ans))
    \/ \E ans \in Answers : /\ Stream(recv', toB', <<>>)
                            /\ Became(ParseCh2(ParseCh2(Client(other, told, answer, <<>>), f, ans), g, ans))
LEMMA ReadingTwo ==
    ASSUME RecvFromServer, NEW f, NEW g, Stream(recv, toB, <<f, g>>), toServer \o <<>> = toServer
    PROVE  ReadTwo(f, g) /\ UNCHANGED <<sent, self, toA, peer, stored, changes>>
<1>1. PICK fs : fs = <<f, g>> /\ Stream(recv, toB, fs)
  OBVIOUS
<1>2. /\ \E a, b, c : \E ans \in Answers :
             /\ Splice(fs, a, b) /\ Stream(recv', toB', b)
             /\ c = Handled(Client(other, told, answer, <<>>), a, ans)
             /\ other' = c.other /\ told' = c.told /\ answer' = c.answer /\ toServer' = toServer \o c.out
      /\ UNCHANGED <<sent, self, toA, peer, stored, changes>>
  BY <1>1, Reading
<1>3. PICK a, b, c : \E ans \in Answers :
             /\ Splice(fs, a, b) /\ Stream(recv', toB', b)
             /\ c = Handled(Client(other, told, answer, <<>>), a, ans) /\ Became(c)
  BY <1>2, Zenon DEF Became
<1>4. PICK ans \in Answers :
             /\ Splice(fs, a, b) /\ Stream(recv', toB', b)
             /\ c = Handled(Client(other, told, answer, <<>>), a, ans) /\ Became(c)
  BY <1>3
<1>5. \/ a = <<>> /\ b = fs
      \/ a = fs /\ b = <<>>
      \/ a = <<f>> /\ b = <<g>>
  <2>1. CASE \E h, i : fs = <<h, i>> /\ a = <<h>> /\ b = <<i>>
    <3>1. PICK h, i : fs = <<h, i>> /\ a = <<h>> /\ b = <<i>>
      BY <2>1
    <3>2. h = f /\ i = g
      BY <1>1, <3>1
    <3>3. QED
      BY <3>1, <3>2, Zenon
  <2>2. QED
    BY <1>4, <2>1, Zenon DEF Splice
<1>6. CASE a = <<>> /\ b = fs
  <2>1. Unread
    BY <1>4, <1>6, NothingRead, Zenon
  <2>2. QED
    BY <1>1, <1>2, <1>4, <1>6, <2>1, Zenon DEF ReadTwo
<1>7. PICK d : d = Client(other, told, answer, <<>>)
  OBVIOUS
<1>8. CASE a = <<f>> /\ b = <<g>>
  <2>1. Handled(d, a, ans) = ParseCh2(d, f, ans)
    BY <1>8, HandledOne
  <2>2. Became(ParseCh2(Client(other, told, answer, <<>>), f, ans))
    BY <1>4, <1>7, <2>1, Zenon
  <2>3. QED
    BY <1>2, <1>4, <1>8, <2>2, Zenon DEF ReadTwo
<1>9. CASE a = fs /\ b = <<>>
  <2>1. Handled(d, a, ans) = ParseCh2(ParseCh2(d, f, ans), g, ans)
    BY <1>1, <1>9, HandledTwo
  <2>2. Became(ParseCh2(ParseCh2(Client(other, told, answer, <<>>), f, ans), g, ans))
    BY <1>4, <1>7, <2>1, Zenon
  <2>3. QED
    BY <1>2, <1>4, <1>9, <2>2, Zenon DEF ReadTwo
<1>10. QED
  BY <1>5, <1>6, <1>8, <1>9

LEMMA AdvSends ==
    ASSUME SendViaServerAdvanced, NEW fs, NextAdv(sent, self, other, told, answer, toServer, toA, fs)
    PROVE  /\ NextAdv(sent', self, other, told, answer, toServer', toA, fs)
           /\ UNCHANGED <<self, other, told, answer, toA, toB, recv, peer, stored, changes>>
<1>1. /\ ~sent.out /\ sent' = [sent EXCEPT !.out = TRUE]
      /\ toServer' = Append(toServer, Request(MsgSend([handleOutgoing(sent.event) EXCEPT !.advanced = TRUE], ICBMCookie)))
      /\ UNCHANGED <<self, other, told, answer, toA, toB, recv, peer, stored, changes>>
  BY Zenon DEF SendViaServerAdvanced, Request
<1>2. Settled(sent, self, other) /\ sent.way = "advanced"
  BY Zenon DEF NextAdv
<1>3. PICK b : b = MsgSend(AdvancedOf(OutOf(sent.event, self)), ICBMCookie)
  OBVIOUS
<1>4. AdvAsking(sent, self, b)
  BY <1>2, <1>3, AdvAsks, Zenon
<1>5. toServer' = Append(toServer, Request(b))
  BY <1>1, <1>3, Zenon DEF handleOutgoing, AdvancedOf, OutOf, AddressedTo, StatusNumber
<1>6. Untold(sent, told, answer) /\ toServer = <<>> /\ toA = <<>> /\ fs = <<>>
  BY <1>1, Zenon DEF NextAdv, AdvIs, AdvUnsent, AdvAsked, AdvComing, AdvReplying, AdvReplied, AdvOver
<1>7. toServer' = <<Request(b)>>
  <2>1. PICK q : q = Request(b)
    OBVIOUS
  <2>2. Append(toServer, q) = <<q>>
    BY <1>6
  <2>3. QED
    BY <1>5, <2>1, <2>2, Zenon
<1>8. OutNow(sent', sent)
  <2>1. SentIs(sent)
    BY <1>2, Zenon DEF Settled
  <2>2. QED
    BY <1>1, <2>1, SentOut, Zenon
<1>9. SentIs(sent') /\ sent'.event = sent.event /\ sent'.way = sent.way /\ sent'.version = sent.version
  BY <1>8, Zenon DEF OutNow
<1>10. Settled(sent', self, other)
  BY <1>2, <1>9, SettledOn
<1>11. Untold(sent', told, answer) /\ sent'.out = TRUE /\ sent'.way = "advanced" /\ AdvAsking(sent', self, b)
  BY <1>2, <1>4, <1>6, <1>8, Zenon DEF OutNow, Untold, AdvAsking
<1>12. AdvAsked(sent', self, told, answer, toServer', toA, fs)
  BY <1>6, <1>7, <1>11, Zenon DEF AdvAsked
<1>13. QED
  BY <1>1, <1>10, <1>11, <1>12, Zenon DEF NextAdv, AdvIs

LEMMA AdvRelays ==
    ASSUME ServerRelays, NEW fs, NextAdv(sent, self, other, told, answer, toServer, toA, fs), Stream(recv, toB, fs)
    PROVE  /\ \E gs : NextAdv(sent, self, other, told, answer, toServer', toA, gs) /\ Stream(recv, toB', gs)
           /\ UNCHANGED <<sent, self, other, told, answer, toA, recv, peer, stored, changes>>
<1>1. toServer # <<>> /\ Head(toServer).subtype = 6
  BY Zenon DEF ServerRelays
<1>2. \A b : toServer # <<AckReply(b)>>
  <2> SUFFICES ASSUME NEW b, toServer = <<AckReply(b)>> PROVE FALSE
    OBVIOUS
  <2>1. PICK q : q = AckReply(b) /\ q.subtype = 11
    BY DEF AckReply
  <2>2. Head(toServer) = q
    BY <2>1
  <2>3. QED
    BY <1>1, <2>1, <2>2
<1>3. Settled(sent, self, other) /\ sent.way = "advanced" /\ AdvAsked(sent, self, told, answer, toServer, toA, fs)
  BY <1>1, <1>2, Zenon DEF NextAdv, AdvIs, AdvUnsent, AdvComing, AdvReplying, AdvReplied, AdvOver
<1>4. PICK b : toServer = <<Request(b)>> /\ AdvAsking(sent, self, b)
  BY <1>3, Zenon DEF AdvAsked
<1>5. PICK q : q = Request(b) /\ toServer = <<q>>
  BY <1>4
<1>6. Head(toServer) = Request(b) /\ Tail(toServer) = <<>>
  <2>1. Head(toServer) = q /\ Tail(toServer) = <<>>
    BY <1>5
  <2>2. QED
    BY <1>5, <2>1, Zenon
<1>7. PICK t, F, N : Wires(sent.event, self.contact, t, F, N) /\ AdvCarried(b, AdvancedIn(sent.event, self, t, F, N))
  BY <1>4, Zenon DEF AdvAsking
<1>8. PICK x : x = AdvancedIn(sent.event, self, t, F, N)
  OBVIOUS
<1>9. PICK rest : /\ Sends(b, Cookie(ICBMCookie), 2, UIN.B, rest)
                  /\ Arrives(Relay(Cookie(ICBMCookie), 2, UIN.A, rest), ICBMCookie, x)
  BY <1>7, <1>8, Zenon DEF AdvCarried
<1>10. PICK c, ch : c = Cookie(ICBMCookie) /\ IsCookie(c) /\ ch = 2 /\ ch \in {1, 2, 4}
  BY ICBMCookieIs
<1>11. PICK f : f = Relay(c, ch, UIN.A, rest)
  OBVIOUS
<1>12. other.online
  <2>1. sent.way # "normal"
    BY <1>3
  <2>2. QED
    BY <1>3, <2>1, Zenon DEF Settled
<1>13. toB' = toB \o f /\ UNCHANGED stored
  <2>1. Sends(b, c, ch, UIN.B, rest)
    BY <1>9, <1>10, Zenon
  <2>2. IF other.online THEN toB' = toB \o Relay(c, ch, UIN.A, rest) /\ UNCHANGED stored
        ELSE stored' = stored \o FLAP(21, 3, SrvResponse(Offline(UIN.A, ch, rest))) /\ UNCHANGED toB
    BY <1>6, <1>10, <2>1, RelaysSent, ZenonT(60)
  <2>3. QED
    BY <1>11, <1>12, <2>2, Zenon
<1>14. Arrives(f, ICBMCookie, x)
  BY <1>9, <1>10, <1>11, Zenon
<1>15. Stream(recv, toB', <<f>>)
  <2>1. IsFrame(f)
    BY <1>14, Zenon DEF Arrives
  <2>2. fs = <<>>
    BY <1>3, Zenon DEF AdvAsked
  <2>3. Stream(recv, toB \o f, <<f>>)
    BY <2>1, <2>2, StreamGrows
  <2>4. QED
    BY <1>13, <2>3, Zenon
<1>16. toServer' = <<>> /\ UNCHANGED <<sent, self, other, told, answer, toA, recv, peer, changes>>
  <2>1. toServer' = Tail(toServer) /\ UNCHANGED <<sent, self, other, told, answer, toA, recv, peer, changes>>
    BY <1>6, RelaysRequest, Zenon
  <2>2. QED
    BY <1>6, <2>1, Zenon
<1>17. AdvArriving(sent, self, f)
  BY <1>7, <1>8, <1>14, Zenon DEF AdvArriving
<1>18. AdvComing(sent, self, told, answer, toServer', toA, <<f>>)
  BY <1>3, <1>16, <1>17, Zenon DEF AdvAsked, AdvComing
<1>19. NextAdv(sent, self, other, told, answer, toServer', toA, <<f>>)
  BY <1>3, <1>18, Zenon DEF NextAdv, AdvIs
<1>20. QED
  BY <1>13, <1>15, <1>16, <1>19, Zenon

LEMMA KnowsSettled ==
    ASSUME NEW s, NEW me, NEW o, Settled(s, me, o), NEW n, n = Knows(o, me)
    PROVE  Settled(s, me, n) /\ n.contact = StatusOf(me)
<1>1. PICK m : m = StatusOf(me)
  OBVIOUS
<1>2. OtherKept(s, me, o, m, m)
  BY SettledOther, Zenon
<1>3. QED
  BY <1>1, <1>2, Zenon DEF OtherKept, Knows

\* What B does as the message comes.
LEMMA AdvHandled ==
    ASSUME Settled(sent, self, other), sent.way = "advanced", sent.out = TRUE, Untold(sent, told, answer),
              toServer = <<>>, toA = <<>>,
           NEW f, AdvArriving(sent, self, f), NEW ans \in Answers,
           Became(ParseCh2(Client(other, told, answer, <<>>), f, ans))
    PROVE  Settled(sent, self, other') /\ AdvIs(sent, self, other', told', answer', toServer', toA, <<>>)
<1>1. PICK e : e = sent.event
  OBVIOUS
<1>2. PICK t, F, N : Wires(e, self.contact, t, F, N) /\ Arrives(f, ICBMCookie, AdvancedIn(e, self, t, F, N))
  BY <1>1, Zenon DEF AdvArriving
<1>3. PICK x, n : x = AdvancedIn(e, self, t, F, N) /\ n = ICBMCookie
  OBVIOUS
<1>4. Arrives(f, n, x)
  BY <1>2, <1>3, Zenon
<1>5. IsEvent(e) /\ e.kind # "FileTransfer" /\ Known(self) /\ SentIs(sent)
  BY <1>1, SettledIs DEF Settled
<1>6. told = <<>> /\ answer = NoAnswer /\ sent.finished = FALSE
  BY Zenon DEF Untold
<1>7. PICK c, o : o = <<>> /\ c = Client(other, told, answer, o)
  OBVIOUS
<1>8. c.out = <<>> /\ c.other = other /\ c.told = told
  BY <1>7 DEF Client
<1>9. PICK c2 : c2 = ParseCh2(c, f, ans)
  OBVIOUS
<1>10. Became(c2)
  BY <1>7, <1>9, Zenon
<1>11. AdvancedDone(c2, c, e, self, x, n)
  <2>1. c.out = <<>>
    BY <1>8
  <2>2. AdvancedDone(ParseCh2(c, f, ans), c, e, self, x, n)
    BY <1>2, <1>3, <1>4, <1>5, <2>1, AdvancedFrame, ZenonT(60)
  <2>3. QED
    BY <1>9, <2>2, Zenon
<1>12. PICK d, r, w : /\ IsAnswer(d, r, w) /\ c2.answer = AnswerRec(d, r, w)
                      /\ SentBack(c2.out, x, n, d, r, w) /\ (e.kind = "AwayMessage" => d)
  BY <1>11, Zenon DEF AdvancedDone
<1>13. Same(ToldAs(e), sent.event, sent.way)
  <2>1. PICK way : way = sent.way /\ way \in {"direct", "advanced"}
    OBVIOUS
  <2>2. Same(ToldAs(e), e, way)
    BY <2>1, ToldSame
  <2>3. QED
    BY <1>1, <2>1, <2>2, Zenon
<1>14. TellsOnce(sent, told')
  <2>1. told' = IF sent.event.kind = "AwayMessage" THEN told ELSE Append(told, ToldAs(e))
    BY <1>1, <1>8, <1>10, <1>11, Zenon DEF Became, AdvancedDone
  <2>2. QED
    BY <1>6, <1>13, <2>1, ToldThen, Zenon
<1>15. Settled(sent, self, other') /\ other'.contact = StatusOf(self)
  <2>1. other' = Knows(other, self)
    BY <1>8, <1>10, <1>11, Zenon DEF Became, AdvancedDone
  <2>2. QED
    BY <2>1, KnowsSettled, Zenon
<1>16. PICK a : a = AnswerRec(d, r, w)
  OBVIOUS
<1>17. a.given = TRUE /\ a.delivered = d /\ a.reason = r
  BY <1>16 DEF AnswerRec
<1>18. answer' = a /\ Replied(sent, self, other', a)
  BY <1>10, <1>12, <1>15, <1>16, <1>17, Zenon DEF Became, Replied
<1>19. CASE d \/ r # "Ignored"
  <2>1. PICK v : c2.out = <<AckSNAC(AckOf(x, w, v), n)>> /\ Accepts(v, d, r)
    BY <1>12, <1>19, Zenon DEF SentBack
  <2>2. PICK k, b : k = AckOf(x, w, v) /\ b = MessageACK(k, ICBMCookie)
    OBVIOUS
  <2>3. PICK q : q = AckReply(b) /\ q = AckSNAC(AckOf(x, w, v), n)
    BY <1>3, <2>2, Zenon DEF AckSNAC, AckReply
  <2>4. toServer' = <<AckReply(b)>>
    <3>1. toServer' = toServer \o <<q>>
      BY <1>10, <2>1, <2>3, Zenon DEF Became
    <3>2. toServer \o <<q>> = <<q>>
      OBVIOUS
    <3>3. QED
      BY <2>3, <3>1, <3>2, Zenon
  <2>5. Answering(k, t, v, w)
    <3>1. w \in Short /\ v \in Word2
      BY <1>12, <2>1 DEF IsAnswer, Accepts
    <3>2. QED
      BY <1>2, <1>3, <1>5, <2>2, <3>1, AckHeld, ZenonT(60)
  <2>6. AdvEnding(sent, a, AckFrame(b))
    <3>1. e.kind \in {"Normal", "URL", "AwayMessage", "Contacts"}
      <4>1. PICK way, kind : way = sent.way /\ kind = e.kind /\ Carries(way, kind)
        BY <1>1, Zenon DEF Settled
      <4>2. way = "advanced"
        BY <4>1
      <4>3. QED
        BY <4>1, <4>2, CarriedKinds
    <3>2. PICK m : m = sent /\ SentIs(m) /\ m.event = e /\ m.event.kind \in {"Normal", "URL", "AwayMessage", "Contacts"}
                   /\ (m.event.kind = "AwayMessage" => d)
      BY <1>1, <1>5, <1>12, <3>1
    <3>3. Wires(m.event, self.contact, t, F, N)
      BY <1>2, <3>2, Zenon
    <3>4. AdvEnding(m, AnswerRec(d, r, w), AckFrame(MessageACK(k, ICBMCookie)))
      BY <1>12, <1>19, <2>1, <2>5, <3>2, <3>3, AdvEndingIs, ZenonT(60)
    <3>5. QED
      BY <1>16, <2>2, <3>2, <3>4, Zenon
  <2>7. Heeded(sent, a)
    BY <1>17, <1>19, Zenon DEF Heeded
  <2>8. AdvReplying(sent, self, other', told', answer', toServer', toA, <<>>)
    BY <1>6, <1>14, <1>18, <2>4, <2>6, <2>7, Zenon DEF AdvReplying
  <2>9. QED
    BY <1>15, <2>8, Zenon DEF AdvIs
<1>20. CASE ~(d \/ r # "Ignored")
  <2>1. toServer' = <<>>
    <3>1. PICK out : out = c2.out /\ out = <<>> /\ toServer' = toServer \o out
      BY <1>10, <1>12, <1>20, Zenon DEF SentBack, Became
    <3>2. toServer \o out = <<>>
      BY <3>1
    <3>3. QED
      BY <3>1, <3>2, Zenon
  <2>2. ~Heeded(sent, a)
    BY <1>1, <1>5, <1>17, <1>20, Zenon DEF Heeded
  <2>3. AdvOver(sent, self, other', told', answer', toServer', toA, <<>>)
    <3>1. IF Heeded(sent, answer') /\ sent.event.kind # "Contacts" THEN Agrees(sent, answer') ELSE sent.finished = FALSE
      BY <1>6, <1>18, <2>2, Zenon
    <3>2. QED
      BY <1>14, <1>18, <2>1, <3>1, Zenon DEF AdvOver
  <2>4. QED
    BY <1>15, <2>3, Zenon DEF AdvIs
<1>21. QED
  BY <1>19, <1>20

LEMMA AdvReads ==
    ASSUME RecvFromServer, NEW fs, NextAdv(sent, self, other, told, answer, toServer, toA, fs), Stream(recv, toB, fs)
    PROVE  /\ \E gs : NextAdv(sent, self, other', told', answer', toServer', toA, gs) /\ Stream(recv', toB', gs)
           /\ UNCHANGED <<sent, self, toA, peer, stored, changes>>
<1>1. toB # <<>>
  BY Zenon DEF RecvFromServer
<1>2. fs # <<>>
  BY <1>1, StreamEnds
<1>3. Settled(sent, self, other) /\ sent.way = "advanced" /\ AdvComing(sent, self, told, answer, toServer, toA, fs)
  BY <1>2, Zenon DEF NextAdv, AdvIs, AdvUnsent, AdvAsked, AdvReplying, AdvReplied, AdvOver
<1>4. /\ sent.out = TRUE /\ Untold(sent, told, answer) /\ toServer = <<>> /\ toA = <<>>
      /\ \E f : fs = <<f>> /\ AdvArriving(sent, self, f)
  BY <1>3, Zenon DEF AdvComing
<1>5. PICK f : fs = <<f>> /\ AdvArriving(sent, self, f)
  BY <1>4
<1>6. ReadOne(f) /\ UNCHANGED <<sent, self, toA, peer, stored, changes>>
  <2>1. toServer \o <<>> = toServer
    BY <1>4
  <2>2. Stream(recv, toB, <<f>>)
    BY <1>5
  <2>3. QED
    BY <2>1, <2>2, ReadingOne, Zenon
<1>7. CASE Stream(recv', toB', <<f>>) /\ Unread
  BY <1>5, <1>6, <1>7, Zenon DEF Unread
<1>8. CASE \E ans \in Answers : /\ Stream(recv', toB', <<>>)
                                /\ Became(ParseCh2(Client(other, told, answer, <<>>), f, ans))
  <2>1. PICK ans \in Answers : /\ Stream(recv', toB', <<>>)
                               /\ Became(ParseCh2(Client(other, told, answer, <<>>), f, ans))
    BY <1>8
  <2>2. Settled(sent, self, other') /\ AdvIs(sent, self, other', told', answer', toServer', toA, <<>>)
    BY <1>3, <1>4, <1>5, <2>1, AdvHandled, ZenonT(60)
  <2>3. QED
    BY <1>3, <1>6, <2>1, <2>2, Zenon DEF NextAdv
<1>9. QED
  BY <1>6, <1>7, <1>8, Zenon DEF ReadOne

LEMMA AdvReturns ==
    ASSUME ServerAcknowledges, NEW fs, NextAdv(sent, self, other, told, answer, toServer, toA, fs)
    PROVE  /\ NextAdv(sent, self, other, told, answer, toServer', toA', fs)
           /\ UNCHANGED <<sent, self, other, told, answer, toB, recv, peer, stored, changes>>
<1>1. toServer # <<>> /\ Head(toServer).subtype = 11 /\ toServer' = Tail(toServer)
      /\ UNCHANGED <<sent, self, other, told, answer, toB, recv, peer, stored, changes>>
  BY Zenon DEF ServerAcknowledges
<1>2. \A b : toServer # <<Request(b)>>
  <2> SUFFICES ASSUME NEW b, toServer = <<Request(b)>> PROVE FALSE
    OBVIOUS
  <2>1. PICK q : q = Request(b) /\ q.subtype = 6
    BY DEF Request
  <2>2. Head(toServer) = q
    BY <2>1
  <2>3. QED
    BY <1>1, <2>1, <2>2
<1>3. Settled(sent, self, other) /\ sent.way = "advanced" /\ AdvReplying(sent, self, other, told, answer, toServer, toA, fs)
  BY <1>1, <1>2, Zenon DEF NextAdv, AdvIs, AdvUnsent, AdvAsked, AdvComing, AdvReplied, AdvOver
<1>4. PICK b : toServer = <<AckReply(b)>> /\ AdvEnding(sent, answer, AckFrame(b))
  BY <1>3, Zenon DEF AdvReplying
<1>5. PICK q : q = AckReply(b) /\ toServer = <<q>>
  BY <1>4
<1>6. Head(toServer) = q /\ Tail(toServer) = <<>> /\ q.from = UIN.B /\ q.body = b
  BY <1>5 DEF AckReply
<1>7. PICK em : em = <<>>
  OBVIOUS
<1>8. toA' = Join(em, AckFrame(b))
  <2>1. toA = em
    BY <1>3, <1>7, Zenon DEF AdvReplying
  <2>2. toA' = toA \o FLAP(4, 11, Renamed(b, UIN.B))
    BY <1>6, Zenon DEF ServerAcknowledges, Renamed
  <2>3. QED
    BY <2>1, <2>2, Zenon DEF Join, AckFrame
<1>9. AckFrame(b) \in Bytes
  BY <1>4, Zenon DEF AdvEnding, AckArrived, IsFrame
<1>10. toA' = AckFrame(b)
  BY <1>7, <1>8, <1>9, JoinIs
<1>11. toServer' = <<>>
  BY <1>1, <1>6, Zenon
<1>12. AdvEnding(sent, answer, toA')
  BY <1>4, <1>10, Zenon
<1>13. AdvReplied(sent, self, other, told, answer, toServer', toA', fs)
  BY <1>3, <1>11, <1>12, Zenon DEF AdvReplying, AdvReplied
<1>14. QED
  BY <1>1, <1>3, <1>13, Zenon DEF NextAdv, AdvIs

LEMMA AdvAcknowledged ==
    ASSUME SignalMessageACK, NEW fs, NextAdv(sent, self, other, told, answer, toServer, toA, fs)
    PROVE  /\ NextAdv(sent', self, other, told, answer, toServer, toA', fs)
           /\ UNCHANGED <<self, other, told, answer, toServer, toB, recv, peer, stored, changes>>
<1>1. toA # <<>> /\ UNCHANGED <<self, other, told, answer, toServer, toB, recv, peer, stored, changes>>
  BY Zenon DEF SignalMessageACK
<1>2. Settled(sent, self, other) /\ sent.way = "advanced" /\ AdvReplied(sent, self, other, told, answer, toServer, toA, fs)
  BY <1>1, Zenon DEF NextAdv, AdvIs, AdvUnsent, AdvAsked, AdvComing, AdvReplying, AdvOver
<1>3. /\ sent.out = TRUE /\ sent.finished = FALSE /\ TellsOnce(sent, told) /\ Replied(sent, self, other, answer)
      /\ Heeded(sent, answer) /\ AdvEnding(sent, answer, toA) /\ toServer = <<>> /\ fs = <<>>
  BY <1>2, Zenon DEF AdvReplied
<1>4. PICK x : /\ AckArrived(toA, ICBMCookie, x) /\ x # NoSubtype /\ Concludes(sent, x, answer)
               /\ x.type \in Acknowledgeable <=> sent.event.kind # "Contacts"
  BY <1>3, Zenon DEF AdvEnding
<1>5. PICK em : em = <<>>
  OBVIOUS
<1>6. Parse(toA) = [recv |-> em, frames |-> <<toA>>]
  <2>1. IsFrame(toA)
    BY <1>4, Zenon DEF AckArrived
  <2>2. Waits(em)
    BY <1>5, NothingWaits
  <2>3. Parse(Join(toA, em)) = [recv |-> em, frames |-> <<toA>>]
    BY <2>1, <2>2, ParseOne
  <2>4. toA \in Bytes
    BY <2>1, Zenon DEF IsFrame
  <2>5. Join(toA, em) = toA
    BY <1>5, <2>4, JoinIs
  <2>6. QED
    BY <2>3, <2>5, Zenon
<1>7. PICK p, m :
        /\ p = Parse(toA) /\ m = ParseMessageACK(ParseSNAC(p.frames[1]).r)
        /\ sent' = (IF m.ist # NoSubtype /\ m.ist.type \in Acknowledgeable /\ m.cookie = ICBMCookie
                    THEN handleIncomingACK(sent, m.ist) ELSE sent)
        /\ toA' = p.recv
  BY Zenon DEF SignalMessageACK
<1>8. p.recv = em /\ p.frames[1] = toA
  BY <1>6, <1>7
<1>9. m = [cookie |-> ICBMCookie, ist |-> x]
  BY <1>4, <1>7, <1>8, Zenon DEF AckArrived
<1>10. m.cookie = ICBMCookie /\ m.ist = x
  BY <1>9
<1>11. toA' = <<>>
  BY <1>5, <1>7, <1>8, Zenon
<1>12. CASE sent.event.kind # "Contacts"
  <2>1. sent' = handleIncomingACK(sent, x)
    BY <1>4, <1>7, <1>10, <1>12, Zenon
  <2>2. Continues(sent', sent) /\ Agrees(sent', answer)
    BY <1>4, <2>1, Zenon DEF Concludes
  <2>3. SentIs(sent') /\ sent'.event = sent.event /\ sent'.way = sent.way /\ sent'.version = sent.version
            /\ sent'.out = sent.out
    BY <2>2, Zenon DEF Continues
  <2>4. /\ Settled(sent', self, other) /\ TellsOnce(sent', told) /\ Replied(sent', self, other, answer)
        /\ Heeded(sent', answer)
    BY <1>2, <1>3, <2>3, SettledOn
  <2>5. AdvOver(sent', self, other, told, answer, toServer, toA', fs)
    <3>1. IF Heeded(sent', answer) /\ sent'.event.kind # "Contacts" THEN Agrees(sent', answer) ELSE sent'.finished = FALSE
      BY <1>12, <2>2, <2>3, <2>4, Zenon
    <3>2. QED
      BY <1>3, <1>11, <2>3, <2>4, <3>1, Zenon DEF AdvOver
  <2>6. QED
    BY <1>1, <1>2, <2>3, <2>4, <2>5, Zenon DEF NextAdv, AdvIs
<1>13. CASE sent.event.kind = "Contacts"
  <2>1. sent' = sent
    BY <1>4, <1>7, <1>10, <1>13, Zenon
  <2>2. AdvOver(sent, self, other, told, answer, toServer, toA', fs)
    <3>1. IF Heeded(sent, answer) /\ sent.event.kind # "Contacts" THEN Agrees(sent, answer) ELSE sent.finished = FALSE
      BY <1>3, <1>13, Zenon
    <3>2. QED
      BY <1>3, <1>11, <3>1, Zenon DEF AdvOver
  <2>3. QED
    BY <1>1, <1>2, <2>1, <2>2, Zenon DEF NextAdv, AdvIs
<1>14. QED
  BY <1>12, <1>13

LEMMA AdvOther ==
    ASSUME NEW s, NEW me, NEW o, NEW t, NEW a, NEW ts, NEW ta, NEW fs, AdvIs(s, me, o, t, a, ts, ta, fs),
           NEW n, n.contact = o.contact
    PROVE  AdvIs(s, me, n, t, a, ts, ta, fs)
<1>1. Replied(s, me, o, a) <=> Replied(s, me, n, a)
  BY DEF Replied
<1>2. QED
  BY <1>1, Zenon DEF AdvIs, AdvReplying, AdvReplied, AdvOver

AdvWay ==
    /\ \E fs : NextAdv(sent, self, other, told, answer, toServer, toA, fs) /\ Stream(recv, toB, fs)
    /\ stored = <<>> /\ NoPackets(peer)

LEMMA AdvFamily ==
    ASSUME NEW s, NEW me, NEW o, NEW t, NEW a, NEW ts, NEW ta, NEW fs, NextAdv(s, me, o, t, a, ts, ta, fs), ts # <<>>
    PROVE  Head(ts).family = 4
<1>1. \/ \E b : ts = <<Request(b)>>
      \/ \E b : ts = <<AckReply(b)>>
  BY Zenon DEF NextAdv, AdvIs, AdvUnsent, AdvAsked, AdvComing, AdvReplying, AdvReplied, AdvOver
<1>2. ASSUME NEW b, ts = <<Request(b)>> PROVE Head(ts).family = 4
  <2>1. PICK q : q = Request(b) /\ q.family = 4
    <3>1. Request(b).family = 4
      BY DEF Request
    <3>2. QED
      BY <3>1
  <2>2. Head(ts) = q
    BY <1>2, <2>1
  <2>3. QED
    BY <2>1, <2>2
<1>3. ASSUME NEW b, ts = <<AckReply(b)>> PROVE Head(ts).family = 4
  <2>1. PICK q : q = AckReply(b) /\ q.family = 4
    <3>1. AckReply(b).family = 4
      BY DEF AckReply
    <3>2. QED
      BY <3>1
  <2>2. Head(ts) = q
    BY <1>3, <2>1
  <2>3. QED
    BY <2>1, <2>2
<1>4. QED
  BY <1>1, <1>2, <1>3

LEMMA AdvStep ==
    ASSUME AdvWay, [Next]_vars
    PROVE  AdvWay'
<1>1. PICK fs : NextAdv(sent, self, other, told, answer, toServer, toA, fs) /\ Stream(recv, toB, fs)
  BY Zenon DEF AdvWay
<1>2. stored = <<>> /\ NoPackets(peer)
  BY Zenon DEF AdvWay
<1>3. /\ Settled(sent, self, other) /\ sent.way = "advanced"
      /\ AdvIs(sent, self, other, told, answer, toServer, toA, fs)
  BY <1>1, Zenon DEF NextAdv
<1>4. sent.way # "direct" /\ sent.way # "normal" /\ sent.way # "magic"
  BY <1>3
<1>5. other.online
  BY <1>3, <1>4, Zenon DEF Settled
<1>6. peer.toA = <<>> /\ peer.toB = <<>>
  BY <1>2 DEF NoPackets
<1>7. SUFFICES /\ \E gs : NextAdv(sent', self', other', told', answer', toServer', toA', gs) /\ Stream(recv', toB', gs)
               /\ stored' = <<>> /\ NoPackets(peer')
  BY Zenon DEF AdvWay
<1>8. CASE SendViaServerAdvanced
  BY <1>1, <1>2, <1>8, AdvSends
<1>9. CASE ServerRelays
  BY <1>1, <1>2, <1>9, AdvRelays
<1>10. CASE ServerAcknowledges
  BY <1>1, <1>2, <1>10, AdvReturns
<1>11. CASE RecvFromServer
  BY <1>1, <1>2, <1>11, AdvReads
<1>12. CASE SignalMessageACK
  BY <1>1, <1>2, <1>12, AdvAcknowledged
<1>13. CASE setStatus
  <2>1. UNCHANGED <<sent, self, told, answer, toServer, toA, toB, recv, peer, stored>>
    BY <1>13, StatusSet, Zenon
  <2>2. Settled(sent, self, other') /\ other'.contact = other.contact
    BY <1>3, <1>13, StatusSettled
  <2>3. AdvIs(sent, self, other', told, answer, toServer, toA, fs)
    BY <1>3, <2>2, AdvOther, Zenon
  <2>4. QED
    BY <1>1, <1>2, <1>3, <2>1, <2>2, <2>3, Zenon DEF NextAdv
<1>14. CASE SendFTACK
  <2>1. \E i \in DOMAIN told : told[i].kind = "FileTransfer"
    BY <1>14, Zenon DEF SendFTACK
  <2>2. told = <<>> \/ TellsOnce(sent, told)
    BY <1>3, Zenon DEF AdvIs, AdvUnsent, AdvAsked, AdvComing, AdvReplying, AdvReplied, AdvOver, Untold
  <2>3. sent.event.kind # "FileTransfer"
    BY <1>3, SettledIs
  <2>4. \A i \in DOMAIN told : told[i].kind # "FileTransfer"
    BY <2>2, <2>3, NoFile
  <2>5. QED
    BY <2>1, <2>4
<1>15. CASE UNCHANGED vars
  BY <1>1, <1>2, <1>15, Zenon DEF vars
<1>16. CASE ServerForgets
  <2>1. toServer # <<>> /\ Head(toServer).family = 21
    BY <1>16, Zenon DEF ServerForgets
  <2>2. Head(toServer).family = 4
    BY <1>1, <2>1, AdvFamily
  <2>3. QED
    BY <2>1, <2>2
<1>17. CASE SendDirect \/ SendViaServerNormal \/ ServerSends \/ LogIn \/ RecvPacket \/ RecvPacketAck
  BY <1>4, <1>5, <1>6, <1>17, Zenon DEF SendDirect, SendViaServerNormal, ServerSends, LogIn, RecvPacket, RecvPacketAck
<1>18. QED
  BY <1>8, <1>9, <1>10, <1>11, <1>12, <1>13, <1>14, <1>15, <1>16, <1>17, Zenon DEF Next

-----------------------------------------------------------------------------
(* Nobody answers: mail and pages, and what goes the normal way. A frame     *)
(* tells the application of the event, and does nothing else.                *)
Comes(s, f) ==
    IsFrame(f) /\ \A c, ans : Quiet(c.out) => OneMore(ParseCh2(c, f, ans), c, s.event, s.way)

LEMMA MagicComes ==
    ASSUME NEW s, NEW me, NEW o, Settled(s, me, o), s.way = "magic"
    PROVE  Comes(s, MagicFrame(s.event))
<1>1. PICK e, way : e = s.event /\ way = s.way /\ way = "magic"
  OBVIOUS
<1>2. IsEvent(e) /\ e.kind \in {"EmailEx", "WebPager"}
  <2>1. s.event.kind \in {"EmailEx", "WebPager"}
    BY SettledIs
  <2>2. QED
    BY <1>1, <2>1 DEF Settled
<1>3. PICK f, x : f = MagicFrame(e) /\ x = MagicIn(e)
  OBVIOUS
<1>4. Arrives(f, 0, x)
  BY <1>2, <1>3, MagicArrives
<1>5. x # NoSubtype /\ x.type # Type.FT
  <2>1. PICK t, F, from : t = MagicType(e) /\ F = MagicStrings(e.texts) /\ from = UIN.magic
    OBVIOUS
  <2>2. x = PlainIn(t, F, from)
    BY <1>3, <2>1, Zenon DEF MagicIn
  <2>3. PlainAs(x, t, F, from)
    BY <2>2, PlainSeen, Zenon
  <2>4. t # 0 /\ t # Type.FT
    <3>1. Type.EmailEx # 0 /\ Type.WebPager # 0 /\ Type.EmailEx # Type.FT /\ Type.WebPager # Type.FT
      BY DEF Type
    <3>2. t = Type.EmailEx \/ t = Type.WebPager
      BY <2>1, Zenon DEF MagicType
    <3>3. QED
      BY <3>1, <3>2
  <2>5. QED
    BY <2>3, <2>4, Zenon DEF PlainAs
<1>6. Brings(f, x) /\ IsFrame(f)
  BY <1>4, Zenon DEF Brings, Arrives
<1>7. ASSUME NEW c, NEW ans, Quiet(c.out)
      PROVE  OneMore(ParseCh2(c, f, ans), c, e, way)
  <2>1. PICK h : h = handleIncoming(c, x, ans)
    OBVIOUS
  <2>2. TellsOnly(h, c, e, "magic")
    BY <1>2, <1>3, <2>1, MagicTold
  <2>3. TellsOnly(handleIncoming(c, x, ans), c, e, way)
    BY <1>1, <2>1, <2>2, Zenon
  <2>4. QED
    BY <1>5, <1>6, <1>7, <2>3, BringsOne, ZenonT(60)
<1>8. QED
  BY <1>1, <1>3, <1>6, <1>7, Zenon DEF Comes

LEMMA OneComes ==
    ASSUME NEW s, s.event.kind # "AwayMessage", NEW f, Comes(s, f), NEW o, NEW a, NEW out, Quiet(out), NEW t, t = <<>>,
           NEW c, c = Client(o, t, a, out), NEW ans, NEW n, n = ParseCh2(c, f, ans)
    PROVE  n.other = o /\ n.answer = a /\ n.out = out /\ TellsOnce(s, n.told)
<1>1. c.other = o /\ c.told = t /\ c.answer = a /\ c.out = out
  BY DEF Client
<1>2. OneMore(n, c, s.event, s.way)
  BY <1>1, Zenon DEF Comes
<1>3. PICK m : n.told = Append(c.told, m) /\ Same(m, s.event, s.way)
  BY <1>2, Zenon DEF OneMore
<1>4. n.told = <<m>>
  <2>1. Append(t, m) = <<m>>
    OBVIOUS
  <2>2. QED
    BY <1>1, <1>3, <2>1, Zenon
<1>5. QED
  BY <1>1, <1>2, <1>3, <1>4, Zenon DEF OneMore, TellsOnce

MagicUnsent(s, t, a, fs) == s.out = FALSE /\ Untold(s, t, a) /\ fs = <<>>
MagicComing(s, t, a, fs) == s.out = TRUE /\ Untold(s, t, a) /\ \E f : fs = <<f>> /\ Comes(s, f)
MagicEnded(s, t, a, fs) ==
    s.out = TRUE /\ s.finished = FALSE /\ TellsOnce(s, t) /\ a = NoAnswer /\ fs = <<>>
MagicIs(s, t, a, fs) == MagicUnsent(s, t, a, fs) \/ MagicComing(s, t, a, fs) \/ MagicEnded(s, t, a, fs)
NextMagic(s, me, o, t, a, fs) == Settled(s, me, o) /\ s.way = "magic" /\ MagicIs(s, t, a, fs)

LEMMA MagicSends ==
    ASSUME ServerSends, NEW fs, NextMagic(sent, self, other, told, answer, fs), Stream(recv, toB, fs)
    PROVE  /\ \E gs : NextMagic(sent', self, other, told, answer, gs) /\ Stream(recv, toB', gs)
           /\ UNCHANGED <<self, other, told, answer, toServer, toA, recv, peer, stored, changes>>
<1>1. /\ ~sent.out /\ sent' = [sent EXCEPT !.out = TRUE]
      /\ UNCHANGED <<self, other, told, answer, toServer, toA, recv, peer, stored, changes>>
  BY Zenon DEF ServerSends
<1>2. PICK f : f = MagicFrame(sent.event)
  OBVIOUS
<1>3. toB' = toB \o f
  BY <1>2, Zenon DEF ServerSends, MagicFrame, MagicData, MagicType
<1>4. Settled(sent, self, other) /\ sent.way = "magic"
  BY Zenon DEF NextMagic
<1>5. Untold(sent, told, answer) /\ fs = <<>>
  BY <1>1, Zenon DEF NextMagic, MagicIs, MagicUnsent, MagicComing, MagicEnded
<1>6. Comes(sent, f)
  BY <1>2, <1>4, MagicComes, Zenon
<1>7. Stream(recv, toB', <<f>>)
  <2>1. IsFrame(f)
    BY <1>6, Zenon DEF Comes
  <2>2. Stream(recv, toB \o f, <<f>>)
    BY <1>5, <2>1, StreamGrows
  <2>3. QED
    BY <1>3, <2>2, Zenon
<1>8. OutNow(sent', sent)
  <2>1. SentIs(sent)
    BY <1>4, Zenon DEF Settled
  <2>2. QED
    BY <1>1, <2>1, SentOut, Zenon
<1>9. SentIs(sent') /\ sent'.event = sent.event /\ sent'.way = sent.way /\ sent'.version = sent.version
  BY <1>8, Zenon DEF OutNow
<1>10. Settled(sent', self, other)
  BY <1>4, <1>9, SettledOn
<1>11. Untold(sent', told, answer) /\ sent'.out = TRUE /\ sent'.way = "magic" /\ Comes(sent', f)
  BY <1>4, <1>5, <1>6, <1>8, Zenon DEF OutNow, Untold, Comes
<1>12. MagicComing(sent', told, answer, <<f>>)
  BY <1>11, Zenon DEF MagicComing
<1>13. QED
  BY <1>1, <1>7, <1>10, <1>11, <1>12, Zenon DEF NextMagic, MagicIs

LEMMA MagicReads ==
    ASSUME RecvFromServer, NEW fs, NextMagic(sent, self, other, told, answer, fs), Stream(recv, toB, fs), toServer = <<>>
    PROVE  /\ \E gs : NextMagic(sent, self, other', told', answer', gs) /\ Stream(recv', toB', gs)
           /\ toServer' = <<>> /\ UNCHANGED <<sent, self, toA, peer, stored, changes>>
<1>1. toB # <<>>
  BY Zenon DEF RecvFromServer
<1>2. fs # <<>>
  BY <1>1, StreamEnds
<1>3. Settled(sent, self, other) /\ sent.way = "magic" /\ MagicComing(sent, told, answer, fs)
  BY <1>2, Zenon DEF NextMagic, MagicIs, MagicUnsent, MagicEnded
<1>4. PICK f : fs = <<f>> /\ Comes(sent, f)
  BY <1>3, Zenon DEF MagicComing
<1>5. sent.out = TRUE /\ Untold(sent, told, answer) /\ told = <<>> /\ sent.finished = FALSE /\ answer = NoAnswer
  BY <1>3, Zenon DEF MagicComing, Untold
<1>6. ReadOne(f) /\ UNCHANGED <<sent, self, toA, peer, stored, changes>>
  <2>1. toServer \o <<>> = toServer
    OBVIOUS
  <2>2. Stream(recv, toB, <<f>>)
    BY <1>4
  <2>3. QED
    BY <2>1, <2>2, ReadingOne, Zenon
<1>7. CASE Stream(recv', toB', <<f>>) /\ Unread
  BY <1>4, <1>6, <1>7, Zenon DEF Unread
<1>8. CASE \E ans \in Answers : /\ Stream(recv', toB', <<>>)
                                /\ Became(ParseCh2(Client(other, told, answer, <<>>), f, ans))
  <2>1. PICK ans \in Answers : /\ Stream(recv', toB', <<>>)
                               /\ Became(ParseCh2(Client(other, told, answer, <<>>), f, ans))
    BY <1>8
  <2>2. PICK o, a, out, t, c, n : /\ o = other /\ a = answer /\ out = <<>> /\ t = told /\ c = Client(o, t, a, out)
                                  /\ n = ParseCh2(c, f, ans)
    OBVIOUS
  <2>3. n.other = o /\ n.answer = a /\ n.out = out /\ TellsOnce(sent, n.told)
    <3>1. Quiet(out) /\ t = <<>>
      BY <1>5, <2>2, Zenon DEF Quiet
    <3>2. sent.event.kind # "AwayMessage"
      <4>1. sent.event.kind \in {"EmailEx", "WebPager"}
        BY <1>3, SettledIs
      <4>2. QED
        BY <4>1
    <3>3. QED
      BY <1>4, <2>2, <3>1, <3>2, OneComes
  <2>4. other' = other /\ answer' = answer /\ TellsOnce(sent, told') /\ toServer' = toServer \o out
    <3>1. Became(n)
      BY <2>1, <2>2, Zenon
    <3>2. QED
      BY <2>2, <2>3, <3>1, Zenon DEF Became
  <2>5. toServer' = <<>>
    BY <2>2, <2>4
  <2>6. MagicEnded(sent, told', answer', <<>>)
    BY <1>5, <2>4, Zenon DEF MagicEnded
  <2>7. QED
    BY <1>3, <1>6, <2>1, <2>4, <2>5, <2>6, Zenon DEF NextMagic, MagicIs
<1>9. QED
  BY <1>6, <1>7, <1>8, Zenon DEF ReadOne

MagicWay ==
    /\ \E fs : NextMagic(sent, self, other, told, answer, fs) /\ Stream(recv, toB, fs)
    /\ toServer = <<>> /\ toA = <<>> /\ stored = <<>> /\ NoPackets(peer)

LEMMA MagicStep ==
    ASSUME MagicWay, [Next]_vars
    PROVE  MagicWay'
<1>1. PICK fs : NextMagic(sent, self, other, told, answer, fs) /\ Stream(recv, toB, fs)
  BY Zenon DEF MagicWay
<1>2. toServer = <<>> /\ toA = <<>> /\ stored = <<>> /\ NoPackets(peer)
  BY Zenon DEF MagicWay
<1>3. Settled(sent, self, other) /\ sent.way = "magic" /\ MagicIs(sent, told, answer, fs)
  BY <1>1, Zenon DEF NextMagic
<1>4. sent.way # "direct" /\ sent.way # "normal" /\ sent.way # "advanced"
  BY <1>3
<1>5. other.online
  BY <1>3, <1>4, Zenon DEF Settled
<1>6. peer.toA = <<>> /\ peer.toB = <<>>
  BY <1>2 DEF NoPackets
<1>7. SUFFICES /\ \E gs : NextMagic(sent', self', other', told', answer', gs) /\ Stream(recv', toB', gs)
               /\ toServer' = <<>> /\ toA' = <<>> /\ stored' = <<>> /\ NoPackets(peer')
  BY Zenon DEF MagicWay
<1>8. CASE ServerSends
  BY <1>1, <1>2, <1>8, MagicSends
<1>9. CASE RecvFromServer
  BY <1>1, <1>2, <1>9, MagicReads
<1>10. CASE setStatus
  <2>1. UNCHANGED <<sent, self, told, answer, toServer, toA, toB, recv, peer, stored>>
    BY <1>10, StatusSet, Zenon
  <2>2. Settled(sent, self, other')
    BY <1>3, <1>10, StatusSettled
  <2>3. QED
    BY <1>1, <1>2, <1>3, <2>1, <2>2, Zenon DEF NextMagic
<1>11. CASE SendFTACK
  <2>1. \E i \in DOMAIN told : told[i].kind = "FileTransfer"
    BY <1>11, Zenon DEF SendFTACK
  <2>2. told = <<>> \/ TellsOnce(sent, told)
    BY <1>3, Zenon DEF MagicIs, MagicUnsent, MagicComing, MagicEnded, Untold
  <2>3. sent.event.kind # "FileTransfer"
    <3>1. sent.event.kind \in {"EmailEx", "WebPager"}
      BY <1>3, SettledIs
    <3>2. QED
      BY <3>1
  <2>4. \A i \in DOMAIN told : told[i].kind # "FileTransfer"
    BY <2>2, <2>3, NoFile
  <2>5. QED
    BY <2>1, <2>4
<1>12. CASE UNCHANGED vars
  BY <1>1, <1>2, <1>12, Zenon DEF vars
<1>13. CASE SendDirect \/ SendViaServerAdvanced \/ SendViaServerNormal \/ LogIn \/ RecvPacket \/ RecvPacketAck
  BY <1>4, <1>5, <1>6, <1>13, Zenon DEF SendDirect, SendViaServerAdvanced, SendViaServerNormal, LogIn, RecvPacket, RecvPacketAck
<1>14. CASE ServerRelays \/ ServerAcknowledges \/ ServerForgets \/ SignalMessageACK
  BY <1>2, <1>14, Zenon DEF ServerRelays, ServerAcknowledges, ServerForgets, SignalMessageACK
<1>15. QED
  BY <1>8, <1>9, <1>10, <1>11, <1>12, <1>13, <1>14, Zenon DEF Next

-----------------------------------------------------------------------------
(* The normal way. What A asks the server for: B is told of it at once, or   *)
(* when it logs in; contacts have no such form.                              *)
Asking(s, b) ==
    IF s.event.kind = "Contacts" THEN Read(Reader(b), <<Str(8), U16, ByteStr>>).v[2] = 6
    ELSE \E c, rest : \E ch \in {1, 2, 4} :
            /\ IsCookie(c) /\ Sends(b, c, ch, UIN.B, rest)
            /\ Comes(s, Relay(c, ch, UIN.A, rest))
            /\ Comes(s, FLAP(21, 3, SrvResponse(Offline(UIN.A, ch, rest))))

LEMMA PlainComes ==
    ASSUME NEW s, NEW me, NEW o, Settled(s, me, o), s.way = "normal", s.event.kind # "Contacts", NEW t, NEW F, NEW N,
           Wires(s.event, me.contact, t, F, N), NEW f, IsFrame(f), Brings(f, PlainIn(t, F, UIN.A))
    PROVE  Comes(s, f)
<1>1. PICK e, way : e = s.event /\ way = s.way /\ way = "normal"
  OBVIOUS
<1>2. IsEvent(e) /\ e.kind # "FileTransfer" /\ e.kind # "AwayMessage"
  <2>1. s.event.kind \notin {"FileTransfer", "AwayMessage"}
    BY SettledIs
  <2>2. IsEvent(s.event)
    BY Zenon DEF Settled
  <2>3. QED
    BY <1>1, <2>1, <2>2
<1>3. PICK from, x : from = UIN.A /\ x = PlainIn(t, F, from)
  OBVIOUS
<1>4. x # NoSubtype /\ x.type # Type.FT
  <2>1. PlainAs(x, t, F, from)
    BY <1>3, PlainSeen, Zenon
  <2>2. t # 0 /\ (t = Type.FT <=> s.event.kind = "FileTransfer")
    BY WiredType
  <2>3. QED
    BY <1>1, <1>2, <2>1, <2>2, Zenon DEF PlainAs
<1>5. Brings(f, x)
  BY <1>3, Zenon
<1>6. ASSUME NEW c, NEW ans, Quiet(c.out)
      PROVE  OneMore(ParseCh2(c, f, ans), c, e, way)
  <2>1. PICK h : h = handleIncoming(c, x, ans)
    OBVIOUS
  <2>2. TellsOnly(h, c, e, "normal")
    <3>1. Wires(e, me.contact, t, F, N)
      BY <1>1, Zenon
    <3>2. x = PlainIn(t, F, UIN.A)
      BY <1>3, Zenon
    <3>3. QED
      BY <1>2, <2>1, <3>1, <3>2, NormalTold
  <2>3. TellsOnly(handleIncoming(c, x, ans), c, e, way)
    BY <1>1, <2>1, <2>2, Zenon
  <2>4. QED
    BY <1>4, <1>5, <1>6, <2>3, BringsOne, ZenonT(60)
<1>7. QED
  BY <1>1, <1>6, Zenon DEF Comes

LEMMA NormalAsks ==
    ASSUME NEW s, NEW me, NEW o, Settled(s, me, o), s.way = "normal"
    PROVE  Asking(s, MsgSend(OutOf(s.event, me), 0))
<1>1. /\ Sendable(s.event) /\ s.event.granted \in BOOLEAN
      /\ s.event.kind \notin {"FileTransfer", "AwayMessage"}
  BY SettledIs
<1>2. IsEvent(s.event)
  BY Zenon DEF Settled
<1>3. PICK e, no : e = s.event /\ no = 0
  OBVIOUS
<1>4. PICK t, F, N : Wires(e, me.contact, t, F, N) /\ IsOut(OutOf(e, me), e, me, t, F, N)
  BY <1>1, <1>3, OutIs
<1>5. PICK x, b : x = OutOf(e, me) /\ b = MsgSend(x, no)
  OBVIOUS
<1>6. IsOut(x, e, me, t, F, N)
  BY <1>4, <1>5, Zenon
<1>7. CASE e.kind = "Contacts"
  <2>1. Read(Reader(MsgSend(x, 0)), <<Str(8), U16, ByteStr>>).v[2] = 6
    BY <1>4, <1>6, <1>7, ContactsDropped
  <2>2. QED
    BY <1>3, <1>5, <1>7, <2>1, Zenon DEF Asking
<1>8. CASE e.kind # "Contacts"
  <2>1. e.kind \notin {"FileTransfer", "AwayMessage", "Contacts"} /\ IsEvent(e) /\ Sendable(e)
    BY <1>1, <1>2, <1>3, <1>8
  <2>2. Carried(MsgSend(x, 0), PlainIn(t, F, UIN.A))
    BY <1>4, <1>6, <2>1, NormalCarried
  <2>3. PICK y : y = PlainIn(t, F, UIN.A)
    OBVIOUS
  <2>4. PICK c : c = Cookie(no) /\ IsCookie(c)
    <3>1. no \in Word4
      BY <1>3, Fixed
    <3>2. IsCookie(Cookie(no))
      BY <3>1, CookieIs
    <3>3. QED
      BY <3>2
  <2>5. PICK ch, rest :
          /\ ch \in {1, 4} /\ Sends(b, c, ch, UIN.B, rest)
          /\ Arrives(Relay(c, ch, UIN.A, rest), 0, y)
          /\ Stored(FLAP(21, 3, SrvResponse(Offline(UIN.A, ch, rest))), 65, y)
    BY <1>3, <1>5, <2>2, <2>3, <2>4, Zenon DEF Carried
  <2>6. PICK f, g : f = Relay(c, ch, UIN.A, rest) /\ g = FLAP(21, 3, SrvResponse(Offline(UIN.A, ch, rest)))
    OBVIOUS
  <2>7. IsFrame(f) /\ Brings(f, y) /\ IsFrame(g) /\ Brings(g, y)
    BY <2>5, <2>6, Zenon DEF Brings, Arrives, Stored
  <2>8. Wires(s.event, me.contact, t, F, N) /\ s.event.kind # "Contacts"
    BY <1>3, <1>4, <1>8, Zenon
  <2>9. Comes(s, f)
    <3>1. Brings(f, PlainIn(t, F, UIN.A))
      BY <2>3, <2>7, Zenon
    <3>2. QED
      BY <2>7, <2>8, <3>1, PlainComes, ZenonT(60)
  <2>10. Comes(s, g)
    <3>1. Brings(g, PlainIn(t, F, UIN.A))
      BY <2>3, <2>7, Zenon
    <3>2. QED
      BY <2>7, <2>8, <3>1, PlainComes, ZenonT(60)
  <2>11. ch \in {1, 2, 4}
    BY <2>5
  <2>12. Asking(s, b)
    BY <2>4, <2>5, <2>6, <2>8, <2>9, <2>10, <2>11, Zenon DEF Asking
  <2>13. QED
    BY <1>3, <1>5, <2>12, Zenon
<1>9. QED
  BY <1>7, <1>8

\* B logs in: the last frame tells it that all came, and lets the server forget.
Idle(ts, fs) ==
    \/ fs = <<>> /\ (ts = <<>> \/ ts = <<Forget>>)
    \/ ts = <<>> /\ \E g : fs = <<g>> /\ LastOne(g)
Nowhere(ts, st, fs) == ts = <<>> /\ st = <<>> /\ fs = <<>>
Ready(o, ts, st, fs) == IF o.online THEN Idle(ts, fs) ELSE Nowhere(ts, st, fs)
ToldLast(s, t) == IF s.event.kind = "Contacts" THEN t = <<>> ELSE TellsOnce(s, t)
NormalUnsent(s, o, t, ts, st, fs) == s.out = FALSE /\ t = <<>> /\ Ready(o, ts, st, fs)
AskedFirst(b, ts, fs) ==
    \/ ts = <<Request(b)>> /\ (fs = <<>> \/ \E g : fs = <<g>> /\ LastOne(g))
    \/ ts = <<Request(b), Forget>> /\ fs = <<>>
AskedThen(b, ts, fs) == ts = <<Forget, Request(b)>> /\ fs = <<>>
NormalAsked(s, o, t, ts, st, fs) ==
    /\ s.out = TRUE /\ t = <<>>
    /\ \E b : /\ Asking(s, b)
              /\ IF o.online THEN AskedFirst(b, ts, fs) \/ AskedThen(b, ts, fs)
                 ELSE ts = <<Request(b)>> /\ st = <<>> /\ fs = <<>>
NormalStored(s, o, t, ts, st, fs) ==
    s.out = TRUE /\ t = <<>> /\ ~o.online /\ ts = <<>> /\ Comes(s, st) /\ fs = <<>> /\ s.event.kind # "Contacts"
Coming(f, ts, fs) ==
    \/ fs = <<f>> /\ (ts = <<>> \/ ts = <<Forget>>)
    \/ ts = <<>> /\ \E g : LastOne(g) /\ (fs = <<f, g>> \/ fs = <<g, f>>)
NormalComing(s, o, t, ts, fs) ==
    s.out = TRUE /\ t = <<>> /\ o.online /\ s.event.kind # "Contacts" /\ \E f : Comes(s, f) /\ Coming(f, ts, fs)
NormalOver(s, o, t, ts, st, fs) == s.out = TRUE /\ ToldLast(s, t) /\ Ready(o, ts, st, fs)
NormalIs(s, o, t, ts, st, fs) ==
    \/ NormalUnsent(s, o, t, ts, st, fs)
    \/ NormalAsked(s, o, t, ts, st, fs)
    \/ NormalStored(s, o, t, ts, st, fs)
    \/ NormalComing(s, o, t, ts, fs)
    \/ NormalOver(s, o, t, ts, st, fs)
NextNormal(s, me, o, t, ts, st, fs) == Settled(s, me, o) /\ s.way = "normal" /\ NormalIs(s, o, t, ts, st, fs)

SentOn(n, s) == SentIs(n) /\ n.event = s.event /\ n.way = s.way /\ n.version = s.version /\ n.out = TRUE
LEMMA SentSet ==
    ASSUME NEW s, SentIs(s), NEW yes
    PROVE  [s EXCEPT !.out = yes, !.finished = yes, !.delivered = yes] =
               [event |-> s.event, way |-> s.way, version |-> s.version, out |-> yes, finished |-> yes,
                delivered |-> yes, reason |-> s.reason, away |-> s.away, file |-> s.file]
<1>1. PICK a : a = [s EXCEPT !.out = yes]
  OBVIOUS
<1>2. a = [event |-> s.event, way |-> s.way, version |-> s.version, out |-> yes, finished |-> s.finished,
           delivered |-> s.delivered, reason |-> s.reason, away |-> s.away, file |-> s.file]
  BY <1>1, OutSet
<1>3. PICK b : b = [a EXCEPT !.finished = yes]
  OBVIOUS
<1>4. b = [event |-> s.event, way |-> s.way, version |-> s.version, out |-> yes, finished |-> yes,
           delivered |-> s.delivered, reason |-> s.reason, away |-> s.away, file |-> s.file]
  BY <1>2, <1>3
<1>5. [b EXCEPT !.delivered = yes] =
          [event |-> s.event, way |-> s.way, version |-> s.version, out |-> yes, finished |-> yes,
           delivered |-> yes, reason |-> s.reason, away |-> s.away, file |-> s.file]
  BY <1>4
<1>6. [s EXCEPT !.out = yes, !.finished = yes, !.delivered = yes] = [b EXCEPT !.delivered = yes]
  BY <1>1, <1>3, Zenon
<1>7. QED
  BY <1>5, <1>6, Zenon

SentWith(n, s, yes) == SentIs(n) /\ n.event = s.event /\ n.way = s.way /\ n.version = s.version /\ n.out = yes
LEMMA SentLikewise ==
    ASSUME NEW s, SentIs(s), NEW yes, NEW n, n = [s EXCEPT !.out = yes, !.finished = yes, !.delivered = yes]
    PROVE  SentWith(n, s, yes)
<1>1. n = [event |-> s.event, way |-> s.way, version |-> s.version, out |-> yes, finished |-> yes,
           delivered |-> yes, reason |-> s.reason, away |-> s.away, file |-> s.file]
  BY SentSet, Zenon
<1>2. SentIs(n)
  BY <1>1 DEF SentIs
<1>3. n.event = s.event /\ n.way = s.way /\ n.version = s.version /\ n.out = yes
  BY <1>1
<1>4. QED
  BY <1>2, <1>3, Zenon DEF SentWith
LEMMA SentOnce ==
    ASSUME NEW s, SentIs(s), NEW n, n = [s EXCEPT !.out = TRUE, !.finished = TRUE, !.delivered = TRUE]
    PROVE  SentOn(n, s)
<1>1. PICK yes : yes = TRUE
  OBVIOUS
<1>2. n = [s EXCEPT !.out = yes, !.finished = yes, !.delivered = yes]
  BY <1>1, Zenon
<1>3. SentWith(n, s, yes)
  BY <1>2, SentLikewise, Zenon
<1>4. QED
  BY <1>1, <1>3, Zenon DEF SentWith, SentOn

LEMMA AskingOn ==
    ASSUME NEW s, NEW n, n.event = s.event, n.way = s.way
    PROVE  /\ \A f : Comes(s, f) => Comes(n, f)
           /\ \A b : Asking(s, b) => Asking(n, b)
<1>1. \A f : Comes(s, f) => Comes(n, f)
  BY Zenon DEF Comes
<1>2. \A b : Asking(s, b) => Asking(n, b)
  BY <1>1, Zenon DEF Asking
<1>3. QED
  BY <1>1, <1>2

LEMMA AppendedTo ==
    ASSUME NEW q, NEW g
    PROVE  Append(<<>>, q) = <<q>> /\ Append(<<g>>, q) = <<g, q>>
<1>1. Append(<<>>, q) = <<q>>
  OBVIOUS
<1>2. Append(<<g>>, q) = <<g, q>>
  <2>1. PICK s, S, r : s = <<g>> /\ S = {g, q} /\ r = Append(s, q)
    OBVIOUS
  <2>2. s \in Seq(S) /\ q \in S /\ Len(s) = 1 /\ s[1] = g
    BY <2>1
  <2>3. r \in Seq(S) /\ Len(r) = Len(s) + 1 /\ (\A i \in 1 .. Len(s) : r[i] = s[i]) /\ r[Len(s) + 1] = q
    <3>1. /\ Append(s, q) \in Seq(S) /\ Len(Append(s, q)) = Len(s) + 1
          /\ (\A i \in 1 .. Len(s) : Append(s, q)[i] = s[i]) /\ Append(s, q)[Len(s) + 1] = q
      BY <2>2, AppendProperties, ZenonT(60)
    <3>2. QED
      BY <2>1, <3>1, Zenon
  <2>4. Len(r) = 2 /\ r[1] = g /\ r[2] = q
    BY <2>2, <2>3
  <2>5. r = <<g, q>>
    <3>1. PICK x, y \in S : r = <<x, y>>
      BY <2>3, <2>4, Texts2
    <3>2. x = g /\ y = q
      BY <2>4, <3>1
    <3>3. QED
      BY <3>1, <3>2, Zenon
  <2>6. QED
    BY <2>1, <2>5, Zenon
<1>3. QED
  BY <1>1, <1>2

LEMMA NormalSends ==
    ASSUME SendViaServerNormal, NEW fs, NextNormal(sent, self, other, told, toServer, stored, fs)
    PROVE  /\ NextNormal(sent', self, other, told, toServer', stored, fs)
           /\ UNCHANGED <<self, other, told, answer, toA, toB, recv, peer, stored, changes>>
<1>1. /\ ~sent.out /\ sent' = [sent EXCEPT !.out = TRUE, !.finished = TRUE, !.delivered = TRUE]
      /\ toServer' = Append(toServer, Request(MsgSend(handleOutgoing(sent.event), 0)))
      /\ UNCHANGED <<self, other, told, answer, toA, toB, recv, peer, stored, changes>>
  BY Zenon DEF SendViaServerNormal, Request
<1>2. Settled(sent, self, other) /\ sent.way = "normal"
  BY Zenon DEF NextNormal
<1>3. PICK b : b = MsgSend(OutOf(sent.event, self), 0)
  OBVIOUS
<1>4. Asking(sent, b)
  BY <1>2, <1>3, NormalAsks, Zenon
<1>5. toServer' = Append(toServer, Request(b))
  BY <1>1, <1>3, Zenon DEF handleOutgoing, OutOf, AddressedTo, StatusNumber
<1>6. told = <<>> /\ Ready(other, toServer, stored, fs)
  BY <1>1, Zenon DEF NextNormal, NormalIs, NormalUnsent, NormalAsked, NormalStored, NormalComing, NormalOver
<1>7. SentOn(sent', sent)
  <2>1. SentIs(sent)
    BY <1>2, Zenon DEF Settled
  <2>2. QED
    BY <1>1, <2>1, SentOnce, Zenon
<1>8. SentIs(sent') /\ sent'.event = sent.event /\ sent'.way = sent.way /\ sent'.version = sent.version /\ sent'.out = TRUE
  BY <1>7, Zenon DEF SentOn
<1>9. Settled(sent', self, other)
  BY <1>2, <1>8, SettledOn
<1>10. Asking(sent', b)
  BY <1>4, <1>8, AskingOn
<1>11. PICK q, g : q = Request(b) /\ g = Forget
  OBVIOUS
<1>12. toServer = <<>> => toServer' = <<Request(b)>>
  <2>1. toServer = <<>> => Append(toServer, q) = <<q>>
    OBVIOUS
  <2>2. QED
    BY <1>5, <1>11, <2>1, Zenon
<1>13. toServer = <<Forget>> => toServer' = <<Forget, Request(b)>>
  <2>1. toServer = <<g>> => Append(toServer, q) = <<g, q>>
    BY AppendedTo, Zenon
  <2>2. QED
    BY <1>5, <1>11, <2>1, Zenon
<1>14. IF other.online THEN AskedFirst(b, toServer', fs) \/ AskedThen(b, toServer', fs)
       ELSE toServer' = <<Request(b)>> /\ stored = <<>> /\ fs = <<>>
  BY <1>6, <1>12, <1>13, Zenon DEF Ready, Idle, Nowhere, AskedFirst, AskedThen
<1>15. NormalAsked(sent', other, told, toServer', stored, fs)
  BY <1>6, <1>8, <1>10, <1>14, Zenon DEF NormalAsked
<1>16. QED
  BY <1>1, <1>2, <1>8, <1>9, <1>15, Zenon DEF NextNormal, NormalIs

LEMMA Heads ==
    ASSUME NEW q, NEW g
    PROVE  /\ Head(<<q>>) = q /\ Tail(<<q>>) = <<>> /\ <<q>> # <<>>
           /\ Head(<<q, g>>) = q /\ Tail(<<q, g>>) = <<g>> /\ <<q, g>> # <<>>
OBVIOUS

LEMMA KindsOfSNACs ==
    ASSUME NEW b
    PROVE  Request(b).family = 4 /\ Request(b).subtype = 6 /\ Forget.family = 21 /\ Forget.subtype = 2
<1>1. Request(b).family = 4 /\ Request(b).subtype = 6
  BY DEF Request
<1>2. Forget.family = 21 /\ Forget.subtype = 2
  BY DEF Forget
<1>3. QED
  BY <1>1, <1>2

\* What is on its way to the server when it relays, and when it forgets.
LEMMA RelaysWhen ==
    ASSUME ServerRelays, NEW fs, NextNormal(sent, self, other, told, toServer, stored, fs)
    PROVE  /\ sent.out = TRUE /\ told = <<>>
           /\ \E b : /\ Asking(sent, b) /\ Head(toServer) = Request(b)
                     /\ IF other.online
                        THEN \/ Tail(toServer) = <<>> /\ (fs = <<>> \/ \E g : fs = <<g>> /\ LastOne(g))
                             \/ Tail(toServer) = <<Forget>> /\ fs = <<>>
                        ELSE Tail(toServer) = <<>> /\ stored = <<>> /\ fs = <<>>
<1>1. toServer # <<>> /\ Head(toServer).subtype = 6
  BY Zenon DEF ServerRelays
<1>2. PICK q : q = Forget /\ q.subtype = 2
  BY KindsOfSNACs, Zenon
<1>3. Head(toServer) # q
  <2>1. 2 # 6
    OBVIOUS
  <2>2. QED
    BY <1>1, <1>2, <2>1, Zenon
<1>4. toServer # <<Forget>> /\ \A p : toServer # <<Forget, p>>
  BY <1>2, <1>3, Heads, Zenon
<1>5. ~Ready(other, toServer, stored, fs)
  BY <1>1, <1>4, Zenon DEF Ready, Idle, Nowhere
<1>6. \A f : ~Coming(f, toServer, fs)
  BY <1>1, <1>4, Zenon DEF Coming
<1>7. NormalAsked(sent, other, told, toServer, stored, fs)
  BY <1>1, <1>5, <1>6, Zenon DEF NextNormal, NormalIs, NormalUnsent, NormalStored, NormalComing, NormalOver
<1>8. PICK b : /\ Asking(sent, b)
               /\ IF other.online THEN AskedFirst(b, toServer, fs) \/ AskedThen(b, toServer, fs)
                  ELSE toServer = <<Request(b)>> /\ stored = <<>> /\ fs = <<>>
  BY <1>7, Zenon DEF NormalAsked
<1>9. IF other.online THEN AskedFirst(b, toServer, fs) ELSE toServer = <<Request(b)>> /\ stored = <<>> /\ fs = <<>>
  BY <1>4, <1>8, Zenon DEF AskedThen
<1>10. Head(toServer) = Request(b)
  BY <1>9, Heads, Zenon DEF AskedFirst
<1>11. IF other.online
       THEN \/ Tail(toServer) = <<>> /\ (fs = <<>> \/ \E g : fs = <<g>> /\ LastOne(g))
            \/ Tail(toServer) = <<Forget>> /\ fs = <<>>
       ELSE Tail(toServer) = <<>> /\ stored = <<>> /\ fs = <<>>
  <2>1. toServer = <<Request(b)>> => Tail(toServer) = <<>>
    BY Heads, Zenon
  <2>2. toServer = <<Request(b), Forget>> => Tail(toServer) = <<Forget>>
    <3>1. PICK q1, q2 : q1 = Request(b) /\ q2 = Forget
      OBVIOUS
    <3>2. Tail(<<q1, q2>>) = <<q2>>
      OBVIOUS
    <3>3. QED
      BY <3>1, <3>2, Zenon
  <2>3. CASE other.online
    BY <1>9, <2>1, <2>2, <2>3, Zenon DEF AskedFirst
  <2>4. CASE ~other.online
    BY <1>9, <2>1, <2>4, Zenon
  <2>5. QED
    BY <2>3, <2>4, Zenon
<1>12. QED
  BY <1>7, <1>8, <1>10, <1>11, Zenon DEF NormalAsked

LEMMA NormalRelays ==
    ASSUME ServerRelays, NEW fs, NextNormal(sent, self, other, told, toServer, stored, fs), Stream(recv, toB, fs)
    PROVE  /\ \E gs : NextNormal(sent, self, other, told, toServer', stored', gs) /\ Stream(recv, toB', gs)
           /\ UNCHANGED <<sent, self, other, told, answer, toA, recv, peer, changes>>
<1>1. /\ sent.out = TRUE /\ told = <<>>
      /\ \E b : /\ Asking(sent, b) /\ Head(toServer) = Request(b)
                /\ IF other.online
                   THEN \/ Tail(toServer) = <<>> /\ (fs = <<>> \/ \E g : fs = <<g>> /\ LastOne(g))
                        \/ Tail(toServer) = <<Forget>> /\ fs = <<>>
                   ELSE Tail(toServer) = <<>> /\ stored = <<>> /\ fs = <<>>
  BY RelaysWhen
<1>2. PICK b : /\ Asking(sent, b) /\ Head(toServer) = Request(b)
               /\ IF other.online
                  THEN \/ Tail(toServer) = <<>> /\ (fs = <<>> \/ \E g : fs = <<g>> /\ LastOne(g))
                       \/ Tail(toServer) = <<Forget>> /\ fs = <<>>
                  ELSE Tail(toServer) = <<>> /\ stored = <<>> /\ fs = <<>>
  BY <1>1
<1>3. toServer' = Tail(toServer) /\ UNCHANGED <<sent, self, other, told, answer, toA, recv, peer, changes>>
  BY <1>2, RelaysRequest, Zenon
<1>4. Settled(sent, self, other) /\ sent.way = "normal"
  BY Zenon DEF NextNormal
<1>5. CASE sent.event.kind = "Contacts"
  <2>1. UNCHANGED <<toB, stored>>
    <3>1. Read(Reader(b), <<Str(8), U16, ByteStr>>).v[2] = 6
      BY <1>2, <1>5, Zenon DEF Asking
    <3>2. QED
      BY <1>2, <3>1, RelaysNothing
  <2>2. Ready(other, toServer', stored', fs)
    BY <1>2, <1>3, <2>1, Zenon DEF Ready, Idle, Nowhere
  <2>3. NormalOver(sent, other, told, toServer', stored', fs)
    BY <1>1, <1>5, <2>2, Zenon DEF NormalOver, ToldLast
  <2>4. QED
    BY <1>3, <1>4, <2>1, <2>3, Zenon DEF NextNormal, NormalIs
<1>6. CASE sent.event.kind # "Contacts"
  <2>1. PICK c, rest : \E ch \in {1, 2, 4} :
            /\ IsCookie(c) /\ Sends(b, c, ch, UIN.B, rest)
            /\ Comes(sent, Relay(c, ch, UIN.A, rest))
            /\ Comes(sent, FLAP(21, 3, SrvResponse(Offline(UIN.A, ch, rest))))
    BY <1>2, <1>6, Zenon DEF Asking
  <2>2. PICK ch \in {1, 2, 4} :
            /\ IsCookie(c) /\ Sends(b, c, ch, UIN.B, rest)
            /\ Comes(sent, Relay(c, ch, UIN.A, rest))
            /\ Comes(sent, FLAP(21, 3, SrvResponse(Offline(UIN.A, ch, rest))))
    BY <2>1
  <2>3. PICK f, h : f = Relay(c, ch, UIN.A, rest) /\ h = FLAP(21, 3, SrvResponse(Offline(UIN.A, ch, rest)))
    OBVIOUS
  <2>4. Comes(sent, f) /\ Comes(sent, h) /\ IsFrame(f) /\ IsFrame(h)
    BY <2>2, <2>3, Zenon DEF Comes
  <2>5. IF other.online THEN toB' = toB \o f /\ UNCHANGED stored ELSE stored' = stored \o h /\ UNCHANGED toB
    <3>1. IF other.online THEN toB' = toB \o Relay(c, ch, UIN.A, rest) /\ UNCHANGED stored
          ELSE stored' = stored \o FLAP(21, 3, SrvResponse(Offline(UIN.A, ch, rest))) /\ UNCHANGED toB
      BY <1>2, <2>2, RelaysSent, ZenonT(60)
    <3>2. QED
      BY <2>3, <3>1, Zenon
  <2>6. CASE other.online /\ fs = <<>>
    <3>1. Stream(recv, toB \o f, <<f>>)
      BY <2>4, <2>6, StreamGrows
    <3>2. Coming(f, toServer', <<f>>)
      BY <1>2, <1>3, <2>6, Zenon DEF Coming
    <3>3. NormalComing(sent, other, told, toServer', <<f>>)
      BY <1>1, <1>6, <2>4, <2>6, <3>2, Zenon DEF NormalComing
    <3>4. QED
      BY <1>3, <1>4, <2>5, <2>6, <3>1, <3>3, Zenon DEF NextNormal, NormalIs
  <2>7. CASE other.online /\ fs # <<>>
    <3>1. PICK g : fs = <<g>> /\ LastOne(g) /\ Tail(toServer) = <<>>
      BY <1>2, <2>7, Zenon
    <3>2. Stream(recv, toB \o f, <<g, f>>)
      BY <2>4, <3>1, StreamGrows
    <3>3. Coming(f, toServer', <<g, f>>)
      BY <1>3, <3>1, Zenon DEF Coming
    <3>4. NormalComing(sent, other, told, toServer', <<g, f>>)
      BY <1>1, <1>6, <2>4, <2>7, <3>3, Zenon DEF NormalComing
    <3>5. QED
      BY <1>3, <1>4, <2>5, <2>7, <3>2, <3>4, Zenon DEF NextNormal, NormalIs
  <2>8. CASE ~other.online
    <3>1. Tail(toServer) = <<>> /\ stored = <<>> /\ fs = <<>>
      BY <1>2, <2>8, Zenon
    <3>2. PICK em : em = <<>>
      OBVIOUS
    <3>3. stored' = h
      <4>1. stored' = Join(em, h)
        BY <2>5, <2>8, <3>1, <3>2, Zenon DEF Join
      <4>2. h \in Bytes
        BY <2>4, Zenon DEF IsFrame
      <4>3. QED
        BY <3>2, <4>1, <4>2, JoinIs
    <3>4. NormalStored(sent, other, told, toServer', stored', fs)
      BY <1>1, <1>3, <1>6, <2>4, <2>8, <3>1, <3>3, Zenon DEF NormalStored
    <3>5. QED
      BY <1>3, <1>4, <2>5, <2>8, <3>4, Zenon DEF NextNormal, NormalIs
  <2>9. QED
    BY <2>6, <2>7, <2>8
<1>7. QED
  BY <1>5, <1>6

LEMMA NormalOnline ==
    ASSUME NEW s, NEW o, NEW n, n.online = o.online, NEW t, NEW ts, NEW st, NEW fs, NormalIs(s, o, t, ts, st, fs)
    PROVE  NormalIs(s, n, t, ts, st, fs)
BY Zenon DEF NormalIs, NormalUnsent, NormalAsked, NormalStored, NormalComing, NormalOver, Ready

LEMMA NormalLogsIn ==
    ASSUME LogIn, NEW fs, NextNormal(sent, self, other, told, toServer, stored, fs), Stream(recv, toB, fs)
    PROVE  /\ \E gs : NextNormal(sent, self, other', told, toServer, stored, gs) /\ Stream(recv, toB', gs)
           /\ UNCHANGED <<sent, self, told, answer, toServer, toA, recv, peer, stored, changes>>
<1>1. /\ ~other.online /\ other' = [other EXCEPT !.online = TRUE]
      /\ UNCHANGED <<sent, self, told, answer, toServer, toA, recv, peer, stored, changes>>
  BY Zenon DEF LogIn
<1>2. PICK g : g = FLAP(21, 3, SrvResponse(EndPart))
  OBVIOUS
<1>3. toB' = toB \o stored \o g
  BY <1>2, Zenon DEF LogIn, EndPart
<1>4. LastOne(g) /\ IsFrame(g)
  <2>1. Stored(g, 66, NoSubtype)
    BY <1>2, EndArrives
  <2>2. QED
    BY <2>1, Zenon DEF LastOne, Stored
<1>5. Settled(sent, self, other) /\ sent.way = "normal" /\ NormalIs(sent, other, told, toServer, stored, fs)
  BY Zenon DEF NextNormal
<1>6. Settled(sent, self, other') /\ other'.online = TRUE
  <2>1. PICK c : c = other.contact
    OBVIOUS
  <2>2. OtherKept(sent, self, other, c, c)
    BY <1>5, SettledOther, Zenon
  <2>3. QED
    BY <1>1, <2>2, Zenon DEF OtherKept
<1>7. fs = <<>>
  BY <1>1, <1>5, Zenon DEF NormalIs, NormalUnsent, NormalAsked, NormalStored, NormalComing, NormalOver, Ready, Nowhere
<1>8. CASE ~NormalStored(sent, other, told, toServer, stored, fs)
  <2>1. stored = <<>>
    BY <1>1, <1>5, <1>8, Zenon DEF NormalIs, NormalUnsent, NormalAsked, NormalComing, NormalOver, Ready, Nowhere
  <2>2. toB' = toB \o g
    <3>1. PICK em : em = <<>>
      OBVIOUS
    <3>2. toB \in Bytes
      BY Zenon DEF Stream
    <3>3. Join(toB, em) = toB
      BY <3>1, <3>2, JoinIs
    <3>4. QED
      BY <1>3, <2>1, <3>1, <3>3, Zenon DEF Join
  <2>3. Stream(recv, toB', <<g>>)
    <3>1. Stream(recv, toB \o g, <<g>>)
      BY <1>4, <1>7, StreamGrows
    <3>2. QED
      BY <2>2, <3>1, Zenon
  <2>4. NormalIs(sent, other', told, toServer, stored, <<g>>)
    <3>1. CASE NormalUnsent(sent, other, told, toServer, stored, fs)
      <4>1. NormalUnsent(sent, other', told, toServer, stored, <<g>>)
        BY <1>1, <1>4, <1>6, <3>1, Zenon DEF NormalUnsent, Ready, Nowhere, Idle
      <4>2. QED
        BY <4>1, Zenon DEF NormalIs
    <3>2. CASE NormalAsked(sent, other, told, toServer, stored, fs)
      <4>1. NormalAsked(sent, other', told, toServer, stored, <<g>>)
        BY <1>1, <1>4, <1>6, <3>2, Zenon DEF NormalAsked, AskedFirst
      <4>2. QED
        BY <4>1, Zenon DEF NormalIs
    <3>3. CASE NormalOver(sent, other, told, toServer, stored, fs)
      <4>1. NormalOver(sent, other', told, toServer, stored, <<g>>)
        BY <1>1, <1>4, <1>6, <3>3, Zenon DEF NormalOver, Ready, Nowhere, Idle
      <4>2. QED
        BY <4>1, Zenon DEF NormalIs
    <3>4. ~NormalComing(sent, other, told, toServer, fs)
      BY <1>1, Zenon DEF NormalComing
    <3>5. QED
      BY <1>5, <1>8, <3>1, <3>2, <3>3, <3>4, Zenon DEF NormalIs
  <2>5. QED
    BY <1>1, <1>5, <1>6, <2>3, <2>4, Zenon DEF NextNormal
<1>9. CASE NormalStored(sent, other, told, toServer, stored, fs)
  <2>1. /\ sent.out = TRUE /\ told = <<>> /\ toServer = <<>> /\ Comes(sent, stored) /\ sent.event.kind # "Contacts"
        /\ IsFrame(stored)
    BY <1>9, Zenon DEF NormalStored, Comes
  <2>2. PICK f : f = stored
    OBVIOUS
  <2>3. Stream(recv, toB \o f, <<f>>)
    BY <1>7, <2>1, <2>2, StreamGrows
  <2>4. Stream(recv, (toB \o f) \o g, <<f, g>>)
    BY <1>4, <2>3, StreamGrows
  <2>5. Stream(recv, toB', <<f, g>>)
    BY <1>3, <2>2, <2>4, Zenon
  <2>6. Coming(f, toServer, <<f, g>>)
    BY <1>4, <2>1, Zenon DEF Coming
  <2>7. NormalComing(sent, other', told, toServer, <<f, g>>)
    BY <1>6, <2>1, <2>2, <2>6, Zenon DEF NormalComing
  <2>8. QED
    BY <1>1, <1>5, <1>6, <2>5, <2>7, Zenon DEF NextNormal, NormalIs
<1>10. QED
  BY <1>8, <1>9

LEMMA NormalForgets ==
    ASSUME ServerForgets, NEW fs, NextNormal(sent, self, other, told, toServer, stored, fs)
    PROVE  /\ NextNormal(sent, self, other, told, toServer', stored', fs)
           /\ UNCHANGED <<sent, self, other, told, answer, toA, toB, recv, peer, changes>>
<1>1. /\ toServer # <<>> /\ Head(toServer).family = 21 /\ stored' = <<>> /\ toServer' = Tail(toServer)
      /\ UNCHANGED <<sent, self, other, told, answer, toA, toB, recv, peer, changes>>
  BY Zenon DEF ServerForgets
<1>2. \A b : toServer # <<Request(b)>> /\ toServer # <<Request(b), Forget>>
  <2> SUFFICES ASSUME NEW b, toServer = <<Request(b)>> \/ toServer = <<Request(b), Forget>> PROVE FALSE
    OBVIOUS
  <2>1. PICK q, h : q = Request(b) /\ h = Forget /\ q.family = 4
    <3>1. Request(b).family = 4
      BY DEF Request
    <3>2. QED
      BY <3>1
  <2>2. Head(toServer) = q
    <3>1. toServer = <<q>> \/ toServer = <<q, h>>
      BY <2>1, Zenon
    <3>2. QED
      BY <3>1
  <2>3. QED
    BY <1>1, <2>1, <2>2
<1>3. Settled(sent, self, other) /\ sent.way = "normal" /\ NormalIs(sent, other, told, toServer, stored, fs)
  BY Zenon DEF NextNormal
<1>4. toServer = <<Forget>> => toServer' = <<>>
  <2>1. PICK q : q = Forget
    OBVIOUS
  <2>2. Tail(<<q>>) = <<>>
    OBVIOUS
  <2>3. QED
    BY <1>1, <2>1, <2>2, Zenon
<1>5. \A b : toServer = <<Forget, Request(b)>> => toServer' = <<Request(b)>>
  <2> SUFFICES ASSUME NEW b, toServer = <<Forget, Request(b)>> PROVE toServer' = <<Request(b)>>
    OBVIOUS
  <2>1. PICK q, p : q = Forget /\ p = Request(b)
    OBVIOUS
  <2>2. Tail(<<q, p>>) = <<p>>
    OBVIOUS
  <2>3. QED
    BY <1>1, <2>1, <2>2, Zenon
<1>6. Ready(other, toServer, stored, fs) => Ready(other, toServer', stored', fs)
  BY <1>1, <1>4, Zenon DEF Ready, Nowhere, Idle
<1>7. CASE NormalUnsent(sent, other, told, toServer, stored, fs)
  <2>1. NormalUnsent(sent, other, told, toServer', stored', fs)
    BY <1>6, <1>7, Zenon DEF NormalUnsent
  <2>2. QED
    BY <1>1, <1>3, <2>1, Zenon DEF NextNormal, NormalIs
<1>8. CASE NormalOver(sent, other, told, toServer, stored, fs)
  <2>1. NormalOver(sent, other, told, toServer', stored', fs)
    BY <1>6, <1>8, Zenon DEF NormalOver
  <2>2. QED
    BY <1>1, <1>3, <2>1, Zenon DEF NextNormal, NormalIs
<1>9. CASE NormalComing(sent, other, told, toServer, fs)
  <2>1. \A f : Coming(f, toServer, fs) => Coming(f, toServer', fs)
    BY <1>1, <1>4, Zenon DEF Coming
  <2>2. NormalComing(sent, other, told, toServer', fs)
    BY <1>9, <2>1, Zenon DEF NormalComing
  <2>3. QED
    BY <1>1, <1>3, <2>2, Zenon DEF NextNormal, NormalIs
<1>10. CASE NormalAsked(sent, other, told, toServer, stored, fs)
  <2>1. PICK b : /\ Asking(sent, b)
                 /\ IF other.online THEN AskedFirst(b, toServer, fs) \/ AskedThen(b, toServer, fs)
                    ELSE toServer = <<Request(b)>> /\ stored = <<>> /\ fs = <<>>
    BY <1>10, Zenon DEF NormalAsked
  <2>2. other.online /\ AskedThen(b, toServer, fs)
    BY <1>2, <2>1, Zenon DEF AskedFirst
  <2>3. AskedFirst(b, toServer', fs)
    BY <1>5, <2>2, Zenon DEF AskedFirst, AskedThen
  <2>4. NormalAsked(sent, other, told, toServer', stored', fs)
    BY <1>10, <2>1, <2>2, <2>3, Zenon DEF NormalAsked
  <2>5. QED
    BY <1>1, <1>3, <2>4, Zenon DEF NextNormal, NormalIs
<1>11. ~NormalStored(sent, other, told, toServer, stored, fs)
  BY <1>1, Zenon DEF NormalStored
<1>12. QED
  BY <1>3, <1>7, <1>8, <1>9, <1>10, <1>11, Zenon DEF NormalIs

-----------------------------------------------------------------------------
(* Whatever a frame is, the client after it is a client.                     *)
IsClient(c) == \E o, t, a, out : c = Client(o, t, a, out)
LEMMA ClientIs ==
    ASSUME NEW c, IsClient(c)
    PROVE  c = [other |-> c.other, told |-> c.told, answer |-> c.answer, out |-> c.out]
<1>1. PICK o, t, a, out : c = Client(o, t, a, out)
  BY Zenon DEF IsClient
<1>2. c = [other |-> o, told |-> t, answer |-> a, out |-> out]
  BY <1>1, Zenon DEF Client
<1>3. QED
  BY <1>2

LEMMA ClientOut ==
    ASSUME NEW c, IsClient(c), NEW y
    PROVE  IsClient([c EXCEPT !.out = y])
<1>1. PICK o, t, a, out : c = [other |-> o, told |-> t, answer |-> a, out |-> out]
  BY ClientIs
<1>2. [c EXCEPT !.out = y] = [other |-> o, told |-> t, answer |-> a, out |-> y]
  BY <1>1
<1>3. QED
  BY <1>2, Zenon DEF IsClient, Client

LEMMA SignalClient ==
    ASSUME NEW c, IsClient(c), NEW m, NEW ans
    PROVE  IsClient(SignalMessage(c, m, ans))
<1>1. PICK h : h = handleIncoming(c, m.ist, ans)
  OBVIOUS
<1>2. PICK R : R = [other |-> h.other, told |-> h.told, answer |-> h.answer,
                    out |-> c.out \o [i \in DOMAIN h.acks |->
                                        [from |-> UIN.B, family |-> 4, subtype |-> 11,
                                         body |-> MessageACK(h.acks[i], m.cookie)]]]
  OBVIOUS
<1>3. IsClient(R)
  BY <1>2, Zenon DEF IsClient, Client
<1>4. SignalMessage(c, m, ans) = IF m.ist = NoSubtype \/ m.ist.type = Type.FT THEN c ELSE R
  BY <1>1, <1>2, Zenon DEF SignalMessage
<1>5. QED
  BY <1>3, <1>4, Zenon

LEMMA ResponseClient ==
    ASSUME NEW c, IsClient(c), NEW p, NEW ans
    PROVE  IsClient(SignalSrvResponse(c, p, ans))
<1>1. PICK m, y, z : /\ m = SignalMessage(c, [ist |-> p.ist, cookie |-> 0], ans) /\ z = c.out
                     /\ y = Append(c.out, [from |-> UIN.B, family |-> 21, subtype |-> 2, body |-> SrvAckOffline(UIN.B)])
  OBVIOUS
<1>2. IsClient(m)
  BY <1>1, SignalClient, Zenon
<1>3. IsClient([c EXCEPT !.out = y]) /\ IsClient([m EXCEPT !.out = z])
  BY <1>2, ClientOut, Zenon
<1>4. SignalSrvResponse(c, p, ans) = IF p.command = 66 THEN [c EXCEPT !.out = y] ELSE [m EXCEPT !.out = z]
  BY <1>1, Zenon DEF SignalSrvResponse
<1>5. QED
  BY <1>3, <1>4, Zenon

LEMMA ParseClient ==
    ASSUME NEW c, IsClient(c), NEW f, NEW ans
    PROVE  IsClient(ParseCh2(c, f, ans))
<1>1. PICK s, m, p : /\ s = ParseSNAC(f) /\ m = SignalMessage(c, ParseMessage(s.r), ans)
                     /\ p = SignalSrvResponse(c, ParseSrvResponse(s.r), ans)
  OBVIOUS
<1>2. IsClient(m) /\ IsClient(p)
  BY <1>1, SignalClient, ResponseClient, Zenon
<1>3. ParseCh2(c, f, ans) = CASE s.family = 4 /\ s.subtype = 7 -> m
                              [] s.family = 21 /\ s.subtype = 3 -> p
                              [] OTHER -> c
  BY <1>1, Zenon DEF ParseCh2
<1>4. \/ ParseCh2(c, f, ans) = m
      \/ ParseCh2(c, f, ans) = p
      \/ ParseCh2(c, f, ans) = c
  BY <1>3
<1>5. QED
  BY <1>2, <1>4, Zenon

(* What B has heard of: nothing, or the event once.                          *)
ReadAs(c, o, a, out, t) == c.other = o /\ c.answer = a /\ c.out = out /\ c.told = t
LEMMA LastRead ==
    ASSUME NEW g, LastOne(g), NEW c, IsClient(c), NEW ans, NEW n, n = ParseCh2(c, g, ans), NEW o, NEW a, NEW out, NEW t,
           ReadAs(c, o, a, out, t)
    PROVE  ReadAs(n, o, a, Append(out, Forget), t)
<1>1. c = [other |-> o, told |-> t, answer |-> a, out |-> out]
  <2>1. c = [other |-> c.other, told |-> c.told, answer |-> c.answer, out |-> c.out]
    BY ClientIs
  <2>2. c.other = o /\ c.answer = a /\ c.out = out /\ c.told = t
    BY Zenon DEF ReadAs
  <2>3. QED
    BY <2>1, <2>2, Zenon
<1>2. PICK y : y = Append(out, Forget)
  OBVIOUS
<1>3. n = [other |-> o, told |-> t, answer |-> a, out |-> y]
  <2>1. ParseCh2(c, g, ans) = [other |-> o, told |-> t, answer |-> a, out |-> Append(out, Forget)]
    <3>1. LastOne(g)
      OBVIOUS
    <3>2. QED
      BY ONLY <1>1, <3>1, LastFrame, SMT
  <2>2. QED
    BY <1>2, <2>1, Zenon
<1>4. ReadAs(n, o, a, y, t)
  BY <1>3 DEF ReadAs
<1>5. QED
  BY <1>2, <1>4, Zenon

LEMMA ComesRead ==
    ASSUME NEW s, s.event.kind # "AwayMessage", NEW f, Comes(s, f), NEW c, IsClient(c), NEW ans, NEW n, n = ParseCh2(c, f, ans),
           NEW o, NEW a, NEW out, Quiet(out), ReadAs(c, o, a, out, <<>>)
    PROVE  \E t : TellsOnce(s, t) /\ ReadAs(n, o, a, out, t)
<1>1. PICK em : em = <<>>
  OBVIOUS
<1>2. c = Client(o, em, a, out)
  <2>1. c = [other |-> c.other, told |-> c.told, answer |-> c.answer, out |-> c.out]
    BY ClientIs
  <2>2. c.other = o /\ c.answer = a /\ c.out = out /\ c.told = em
    BY <1>1, Zenon DEF ReadAs
  <2>3. QED
    BY <2>1, <2>2, Zenon DEF Client
<1>3. n.other = o /\ n.answer = a /\ n.out = out /\ TellsOnce(s, n.told)
  BY <1>1, <1>2, OneComes
<1>4. QED
  BY <1>3, Zenon DEF ReadAs

LEMMA Lined ==
    ASSUME NEW q, NEW g
    PROVE  /\ <<>> \o <<>> = <<>> /\ <<g>> \o <<>> = <<g>>
           /\ <<>> \o <<q>> = <<q>> /\ <<g>> \o <<q>> = <<g, q>>
<1>1. <<>> \o <<>> = <<>>
  OBVIOUS
<1>2. <<g>> \o <<>> = <<g>>
  OBVIOUS
<1>3. <<>> \o <<q>> = <<q>>
  OBVIOUS
<1>4. <<g>> \o <<q>> = <<g, q>>
  <2>1. PICK s, p, S, r : s = <<g>> /\ p = <<q>> /\ S = {g, q} /\ r = s \o p
    OBVIOUS
  <2>2. s \in Seq(S) /\ p \in Seq(S) /\ Len(s) = 1 /\ Len(p) = 1 /\ s[1] = g /\ p[1] = q
    BY <2>1
  <2>3. r \in Seq(S) /\ Len(r) = 2 /\ r[1] = g /\ r[2] = q
    <3>1. /\ s \o p \in Seq(S) /\ Len(s \o p) = Len(s) + Len(p)
          /\ \A i \in 1 .. Len(s) + Len(p) : (s \o p)[i] = IF i <= Len(s) THEN s[i] ELSE p[i - Len(s)]
      BY <2>2, ConcatProperties
    <3>2. /\ r \in Seq(S) /\ Len(r) = Len(s) + Len(p)
          /\ \A i \in 1 .. Len(s) + Len(p) : r[i] = IF i <= Len(s) THEN s[i] ELSE p[i - Len(s)]
      BY <2>1, <3>1, Zenon
    <3>3. QED
      BY <2>2, <3>2
  <2>4. r = <<g, q>>
    <3>1. PICK x, y \in S : r = <<x, y>>
      BY <2>3, Texts2
    <3>2. x = g /\ y = q
      BY <2>3, <3>1
    <3>3. QED
      BY <3>1, <3>2, Zenon
  <2>5. QED
    BY <2>1, <2>4, Zenon
<1>5. QED
  BY <1>1, <1>2, <1>3, <1>4, Zenon

\* After a read: what came is "fs", the server is sent "out", and the events told are "t".
Heard(out, t, fs) ==
    other' = other /\ answer' = answer /\ told' = t /\ toServer' = toServer \o out /\ Stream(recv', toB', fs)
LEMMA HeardOf ==
    ASSUME NEW c, Became(c), NEW out, NEW t, ReadAs(c, other, answer, out, t), NEW fs, Stream(recv', toB', fs)
    PROVE  Heard(out, t, fs)
BY Zenon DEF Became, ReadAs, Heard

LEMMA FirstClient ==
    ASSUME NEW c, c = Client(other, told, answer, <<>>)
    PROVE  IsClient(c) /\ ReadAs(c, other, answer, <<>>, told)
<1>1. IsClient(c)
  BY Zenon DEF IsClient
<1>2. PICK o, t, a, out : o = other /\ t = told /\ a = answer /\ out = <<>> /\ c = Client(o, t, a, out)
  OBVIOUS
<1>3. ReadAs(c, o, a, out, t)
  BY <1>2 DEF Client, ReadAs
<1>4. QED
  BY <1>1, <1>2, <1>3, Zenon

LEMMA ForgetsOnce == Append(<<>>, Forget) = <<Forget>> /\ Quiet(<<>>) /\ Quiet(<<Forget>>)
<1>1. PICK q : q = Forget
  OBVIOUS
<1>2. Append(<<>>, q) = <<q>>
  OBVIOUS
<1>3. QED
  BY <1>1, <1>2, Zenon DEF Quiet

ReadsNone(fs) == Unread /\ Stream(recv', toB', fs)
LEMMA LastReads ==
    ASSUME RecvFromServer, NEW g, LastOne(g), Stream(recv, toB, <<g>>), toServer \o <<>> = toServer
    PROVE  ReadsNone(<<g>>) \/ Heard(<<Forget>>, told, <<>>)
<1>1. ReadOne(g)
  BY ReadingOne, Zenon
<1>2. SUFFICES ASSUME NEW ans, Stream(recv', toB', <<>>), Became(ParseCh2(Client(other, told, answer, <<>>), g, ans))
               PROVE  Heard(<<Forget>>, told, <<>>)
  BY <1>1, Zenon DEF ReadOne, ReadsNone
<1>3. PICK c, n : c = Client(other, told, answer, <<>>) /\ n = ParseCh2(c, g, ans)
  OBVIOUS
<1>4. IsClient(c) /\ ReadAs(c, other, answer, <<>>, told)
  BY <1>3, FirstClient
<1>5. ReadAs(n, other, answer, Append(<<>>, Forget), told)
  BY <1>3, <1>4, LastRead
<1>6. ReadAs(n, other, answer, <<Forget>>, told)
  BY <1>5, ForgetsOnce, Zenon
<1>7. Became(n)
  BY <1>2, <1>3, Zenon
<1>8. QED
  BY <1>2, <1>6, <1>7, HeardOf

Hears(s, out, fs) == \E t : TellsOnce(s, t) /\ Heard(out, t, fs)
LEMMA ComesReads ==
    ASSUME RecvFromServer, sent.event.kind # "AwayMessage", told = <<>>,
           NEW f, Comes(sent, f), Stream(recv, toB, <<f>>), toServer \o <<>> = toServer
    PROVE  ReadsNone(<<f>>) \/ Hears(sent, <<>>, <<>>)
<1>1. ReadOne(f)
  BY ReadingOne, Zenon
<1>2. SUFFICES ASSUME NEW ans, Stream(recv', toB', <<>>), Became(ParseCh2(Client(other, told, answer, <<>>), f, ans))
               PROVE  Hears(sent, <<>>, <<>>)
  BY <1>1, Zenon DEF ReadOne, ReadsNone
<1>3. PICK c, n : c = Client(other, told, answer, <<>>) /\ n = ParseCh2(c, f, ans)
  OBVIOUS
<1>4. IsClient(c) /\ ReadAs(c, other, answer, <<>>, <<>>)
  BY <1>3, FirstClient
<1>5. PICK t : TellsOnce(sent, t) /\ ReadAs(n, other, answer, <<>>, t)
  BY <1>3, <1>4, ForgetsOnce, ComesRead
<1>6. Became(n)
  BY <1>2, <1>3, Zenon
<1>7. Heard(<<>>, t, <<>>)
  BY <1>2, <1>5, <1>6, HeardOf
<1>8. QED
  BY <1>5, <1>7, Zenon DEF Hears

LEMMA ComesThenLast ==
    ASSUME RecvFromServer, sent.event.kind # "AwayMessage", told = <<>>, NEW f, Comes(sent, f), NEW g, LastOne(g),
           Stream(recv, toB, <<f, g>>), toServer \o <<>> = toServer
    PROVE  ReadsNone(<<f, g>>) \/ Hears(sent, <<>>, <<g>>) \/ Hears(sent, <<Forget>>, <<>>)
<1>1. PICK c : c = Client(other, told, answer, <<>>)
  OBVIOUS
<1>2. IsClient(c) /\ ReadAs(c, other, answer, <<>>, <<>>)
  BY <1>1, FirstClient
<1>3. ReadTwo(f, g)
  BY ReadingTwo, Zenon
<1>4. \/ ReadsNone(<<f, g>>)
      \/ \E ans \in Answers : Stream(recv', toB', <<g>>) /\ Became(ParseCh2(c, f, ans))
      \/ \E ans \in Answers : Stream(recv', toB', <<>>) /\ Became(ParseCh2(ParseCh2(c, f, ans), g, ans))
  BY <1>1, <1>3, Zenon DEF ReadTwo, ReadsNone
<1>5. ASSUME NEW ans
      PROVE  \E t : TellsOnce(sent, t) /\ ReadAs(ParseCh2(c, f, ans), other, answer, <<>>, t)
  <2>1. PICK n : n = ParseCh2(c, f, ans)
    OBVIOUS
  <2>2. \E t : TellsOnce(sent, t) /\ ReadAs(n, other, answer, <<>>, t)
    BY <1>2, <2>1, ForgetsOnce, ComesRead
  <2>3. QED
    BY <2>1, <2>2, Zenon
<1>6. ASSUME NEW ans, Stream(recv', toB', <<g>>), Became(ParseCh2(c, f, ans))
      PROVE  Hears(sent, <<>>, <<g>>)
  <2>1. PICK t : TellsOnce(sent, t) /\ ReadAs(ParseCh2(c, f, ans), other, answer, <<>>, t)
    BY <1>5
  <2>2. Heard(<<>>, t, <<g>>)
    BY <1>6, <2>1, HeardOf
  <2>3. QED
    BY <2>1, <2>2, Zenon DEF Hears
<1>7. ASSUME NEW ans, Stream(recv', toB', <<>>), Became(ParseCh2(ParseCh2(c, f, ans), g, ans))
      PROVE  Hears(sent, <<Forget>>, <<>>)
  <2>1. PICK t : TellsOnce(sent, t) /\ ReadAs(ParseCh2(c, f, ans), other, answer, <<>>, t)
    BY <1>5
  <2>2. PICK m, n : m = ParseCh2(c, f, ans) /\ n = ParseCh2(m, g, ans)
    OBVIOUS
  <2>3. IsClient(m) /\ ReadAs(m, other, answer, <<>>, t)
    BY <1>2, <2>1, <2>2, ParseClient, Zenon
  <2>4. ReadAs(n, other, answer, Append(<<>>, Forget), t)
    BY <2>2, <2>3, LastRead
  <2>5. ReadAs(n, other, answer, <<Forget>>, t)
    BY <2>4, ForgetsOnce, Zenon
  <2>6. Became(n)
    BY <1>7, <2>2, Zenon
  <2>7. Heard(<<Forget>>, t, <<>>)
    BY <1>7, <2>5, <2>6, HeardOf
  <2>8. QED
    BY <2>1, <2>7, Zenon DEF Hears
<1>8. QED
  BY <1>4, <1>6, <1>7, Zenon

LEMMA LastThenComes ==
    ASSUME RecvFromServer, sent.event.kind # "AwayMessage", told = <<>>, NEW f, Comes(sent, f), NEW g, LastOne(g),
           Stream(recv, toB, <<g, f>>), toServer \o <<>> = toServer
    PROVE  ReadsNone(<<g, f>>) \/ Heard(<<Forget>>, told, <<f>>) \/ Hears(sent, <<Forget>>, <<>>)
<1>1. PICK c : c = Client(other, told, answer, <<>>)
  OBVIOUS
<1>2. IsClient(c) /\ ReadAs(c, other, answer, <<>>, <<>>)
  BY <1>1, FirstClient
<1>3. ReadTwo(g, f)
  BY ReadingTwo, Zenon
<1>4. \/ ReadsNone(<<g, f>>)
      \/ \E ans \in Answers : Stream(recv', toB', <<f>>) /\ Became(ParseCh2(c, g, ans))
      \/ \E ans \in Answers : Stream(recv', toB', <<>>) /\ Became(ParseCh2(ParseCh2(c, g, ans), f, ans))
  BY <1>1, <1>3, Zenon DEF ReadTwo, ReadsNone
<1>5. ASSUME NEW ans
      PROVE  ReadAs(ParseCh2(c, g, ans), other, answer, <<Forget>>, <<>>)
  <2>1. PICK n : n = ParseCh2(c, g, ans)
    OBVIOUS
  <2>2. ReadAs(n, other, answer, Append(<<>>, Forget), <<>>)
    BY <1>2, <2>1, LastRead
  <2>3. QED
    BY <2>1, <2>2, ForgetsOnce, Zenon
<1>6. ASSUME NEW ans, Stream(recv', toB', <<f>>), Became(ParseCh2(c, g, ans))
      PROVE  Heard(<<Forget>>, told, <<f>>)
  <2>1. ReadAs(ParseCh2(c, g, ans), other, answer, <<Forget>>, told)
    BY <1>5, Zenon
  <2>2. QED
    BY <1>6, <2>1, HeardOf
<1>7. ASSUME NEW ans, Stream(recv', toB', <<>>), Became(ParseCh2(ParseCh2(c, g, ans), f, ans))
      PROVE  Hears(sent, <<Forget>>, <<>>)
  <2>1. PICK m, n : m = ParseCh2(c, g, ans) /\ n = ParseCh2(m, f, ans)
    OBVIOUS
  <2>2. IsClient(m) /\ ReadAs(m, other, answer, <<Forget>>, <<>>)
    BY <1>2, <1>5, <2>1, ParseClient, Zenon
  <2>3. PICK t : TellsOnce(sent, t) /\ ReadAs(n, other, answer, <<Forget>>, t)
    BY <2>1, <2>2, ForgetsOnce, ComesRead
  <2>4. Became(n)
    BY <1>7, <2>1, Zenon
  <2>5. Heard(<<Forget>>, t, <<>>)
    BY <1>7, <2>3, <2>4, HeardOf
  <2>6. QED
    BY <2>3, <2>5, Zenon DEF Hears
<1>8. QED
  BY <1>4, <1>6, <1>7, Zenon

LEMMA NormalToServer ==
    ASSUME NEW ts, ts = <<>> \/ ts = <<Forget>> \/ \E b : ts = <<Request(b)>>
    PROVE  /\ ts \o <<>> = ts
           /\ ts = <<>> => ts \o <<Forget>> = <<Forget>>
           /\ \A b : ts = <<Request(b)>> => ts \o <<Forget>> = <<Request(b), Forget>>
<1>1. PICK g : ts = <<>> \/ ts = <<g>>
  OBVIOUS
<1>2. ts \o <<>> = ts
  BY <1>1, Lined, Zenon
<1>3. PICK f : f = Forget
  OBVIOUS
<1>4. ts = <<>> => ts \o <<f>> = <<f>>
  BY Lined, Zenon
<1>5. \A b : ts = <<Request(b)>> => ts \o <<f>> = <<Request(b), f>>
  <2> SUFFICES ASSUME NEW b, NEW q, q = Request(b), ts = <<q>> PROVE ts \o <<f>> = <<q, f>>
    BY Zenon
  <2>1. QED
    BY Lined, Zenon
<1>6. QED
  BY <1>2, <1>3, <1>4, <1>5, Zenon

\* Only a client that is logged in has frames to read; the event is on its way, asked for or over.
NormalCame(s, o, t, ts, st, fs) ==
    \/ NormalComing(s, o, t, ts, fs)
    \/ /\ NormalUnsent(s, o, t, ts, st, fs) \/ NormalOver(s, o, t, ts, st, fs)
       /\ ts = <<>> /\ \E g : fs = <<g>> /\ LastOne(g)
    \/ /\ s.out = TRUE /\ t = <<>>
       /\ \E b, g : Asking(s, b) /\ ts = <<Request(b)>> /\ fs = <<g>> /\ LastOne(g)
LEMMA NormalFrames ==
    ASSUME NEW s, NEW o, NEW t, NEW ts, NEW st, NEW fs, NormalIs(s, o, t, ts, st, fs), fs # <<>>
    PROVE  o.online /\ NormalCame(s, o, t, ts, st, fs)
<1>1. Ready(o, ts, st, fs) => o.online /\ ts = <<>> /\ \E g : fs = <<g>> /\ LastOne(g)
  BY Zenon DEF Ready, Idle, Nowhere
<1>2. CASE NormalUnsent(s, o, t, ts, st, fs) \/ NormalOver(s, o, t, ts, st, fs)
  BY <1>1, <1>2, Zenon DEF NormalCame, NormalUnsent, NormalOver
<1>3. CASE NormalComing(s, o, t, ts, fs)
  BY <1>3, Zenon DEF NormalCame, NormalComing
<1>4. CASE NormalAsked(s, o, t, ts, st, fs)
  <2>1. PICK b : /\ Asking(s, b)
                 /\ IF o.online THEN AskedFirst(b, ts, fs) \/ AskedThen(b, ts, fs)
                    ELSE ts = <<Request(b)>> /\ st = <<>> /\ fs = <<>>
    BY <1>4, Zenon DEF NormalAsked
  <2>2. o.online /\ AskedFirst(b, ts, fs)
    BY <2>1, Zenon DEF AskedThen
  <2>3. ts = <<Request(b)>> /\ \E g : fs = <<g>> /\ LastOne(g)
    BY <2>2, Zenon DEF AskedFirst
  <2>4. QED
    BY <1>4, <2>1, <2>2, <2>3, Zenon DEF NormalCame, NormalAsked
<1>5. ~NormalStored(s, o, t, ts, st, fs)
  BY Zenon DEF NormalStored
<1>6. QED
  BY <1>2, <1>3, <1>4, <1>5, Zenon DEF NormalIs

LEMMA NormalReads ==
    ASSUME RecvFromServer, NEW fs, NextNormal(sent, self, other, told, toServer, stored, fs), Stream(recv, toB, fs)
    PROVE  /\ \E gs : NextNormal(sent, self, other', told', toServer', stored, gs) /\ Stream(recv', toB', gs)
           /\ UNCHANGED <<sent, self, toA, peer, stored, changes>>
<1>1. toB # <<>> /\ UNCHANGED <<sent, self, toA, peer, stored, changes>>
  BY Zenon DEF RecvFromServer
<1>2. fs # <<>>
  BY <1>1, StreamEnds
<1>3. Settled(sent, self, other) /\ sent.way = "normal" /\ NormalIs(sent, other, told, toServer, stored, fs)
  BY Zenon DEF NextNormal
<1>4. SUFFICES \E gs : NormalIs(sent, other', told', toServer', stored, gs) /\ Stream(recv', toB', gs) /\ other' = other
  BY <1>1, <1>3, Zenon DEF NextNormal
<1>5. other.online
  BY <1>2, <1>3, NormalFrames, Zenon
<1>6. \A gs : ReadsNone(gs) => /\ other' = other /\ told' = told /\ toServer' = toServer /\ Stream(recv', toB', gs)
  BY Zenon DEF ReadsNone, Unread
<1>7. ReadsNone(fs) => \E gs : NormalIs(sent, other', told', toServer', stored, gs) /\ Stream(recv', toB', gs) /\ other' = other
  BY <1>3, <1>6, Zenon
<1>8. CASE /\ \/ NormalUnsent(sent, other, told, toServer, stored, fs) \/ NormalOver(sent, other, told, toServer, stored, fs)
           /\ toServer = <<>> /\ \E g : fs = <<g>> /\ LastOne(g)
  <2>1. PICK g : fs = <<g>> /\ LastOne(g)
    BY <1>8
  <2>2. toServer \o <<>> = toServer /\ toServer \o <<Forget>> = <<Forget>>
    BY <1>8, NormalToServer, ZenonT(60)
  <2>3. ReadsNone(fs) \/ Heard(<<Forget>>, told, <<>>)
    <3>1. Stream(recv, toB, <<g>>)
      BY <2>1, Zenon
    <3>2. ReadsNone(<<g>>) \/ Heard(<<Forget>>, told, <<>>)
      BY <2>1, <2>2, <3>1, LastReads, Zenon
    <3>3. QED
      BY <2>1, <3>2, Zenon
  <2>4. CASE Heard(<<Forget>>, told, <<>>)
    <3>1. other' = other /\ told' = told /\ toServer' = <<Forget>> /\ Stream(recv', toB', <<>>)
      BY <2>2, <2>4, Zenon DEF Heard
    <3>2. Ready(other', toServer', stored, <<>>)
      BY <1>5, <3>1, Zenon DEF Ready, Idle
    <3>3. NormalUnsent(sent, other, told, toServer, stored, fs) => NormalUnsent(sent, other', told', toServer', stored, <<>>)
      BY <3>1, <3>2, Zenon DEF NormalUnsent
    <3>4. NormalOver(sent, other, told, toServer, stored, fs) => NormalOver(sent, other', told', toServer', stored, <<>>)
      BY <3>1, <3>2, Zenon DEF NormalOver
    <3>5. NormalIs(sent, other', told', toServer', stored, <<>>)
      BY <1>8, <3>3, <3>4, Zenon DEF NormalIs
    <3>6. QED
      BY <3>1, <3>5, Zenon
  <2>5. QED
    BY <1>7, <2>3, <2>4
<1>9. CASE /\ sent.out = TRUE /\ told = <<>>
           /\ \E b, g : Asking(sent, b) /\ toServer = <<Request(b)>> /\ fs = <<g>> /\ LastOne(g)
  <2>1. PICK b, g : Asking(sent, b) /\ toServer = <<Request(b)>> /\ fs = <<g>> /\ LastOne(g)
    BY <1>9
  <2>2. toServer \o <<>> = toServer /\ toServer \o <<Forget>> = <<Request(b), Forget>>
    BY <2>1, NormalToServer, Zenon
  <2>3. ReadsNone(fs) \/ Heard(<<Forget>>, told, <<>>)
    <3>1. Stream(recv, toB, <<g>>)
      BY <2>1, Zenon
    <3>2. ReadsNone(<<g>>) \/ Heard(<<Forget>>, told, <<>>)
      BY <2>1, <2>2, <3>1, LastReads, Zenon
    <3>3. QED
      BY <2>1, <3>2, Zenon
  <2>4. CASE Heard(<<Forget>>, told, <<>>)
    <3>1. other' = other /\ told' = told /\ toServer' = <<Request(b), Forget>> /\ Stream(recv', toB', <<>>)
      BY <2>2, <2>4, Zenon DEF Heard
    <3>2. AskedFirst(b, toServer', <<>>)
      BY <3>1, Zenon DEF AskedFirst
    <3>3. NormalAsked(sent, other', told', toServer', stored, <<>>)
      BY <1>5, <1>9, <2>1, <3>1, <3>2, Zenon DEF NormalAsked
    <3>4. QED
      BY <3>1, <3>3, Zenon DEF NormalIs
  <2>5. QED
    BY <1>7, <2>3, <2>4
<1>10. CASE NormalComing(sent, other, told, toServer, fs)
  <2>1. PICK f : Comes(sent, f) /\ Coming(f, toServer, fs)
    BY <1>10, Zenon DEF NormalComing
  <2>2. sent.out = TRUE /\ told = <<>> /\ sent.event.kind # "Contacts" /\ sent.event.kind # "AwayMessage"
    <3>1. sent.event.kind \notin {"FileTransfer", "AwayMessage"}
      BY <1>3, SettledIs
    <3>2. QED
      BY <1>10, <3>1, Zenon DEF NormalComing
  <2>3. \A t, ts, gs : /\ TellsOnce(sent, t) /\ Idle(ts, gs)
                       /\ other' = other /\ told' = t /\ toServer' = ts /\ Stream(recv', toB', gs)
            => \E hs : NormalIs(sent, other', told', toServer', stored, hs) /\ Stream(recv', toB', hs) /\ other' = other
    <3> SUFFICES ASSUME NEW t, NEW ts, NEW gs, TellsOnce(sent, t), Idle(ts, gs),
                        other' = other, told' = t, toServer' = ts, Stream(recv', toB', gs)
                 PROVE  NormalIs(sent, other', told', toServer', stored, gs)
      BY Zenon
    <3>1. Ready(other', toServer', stored, gs) /\ ToldLast(sent, told')
      BY <1>5, <2>2, Zenon DEF Ready, ToldLast
    <3>2. QED
      BY <2>2, <3>1, Zenon DEF NormalIs, NormalOver
  <2>4. /\ toServer \o <<>> = toServer
        /\ toServer = <<>> => toServer \o <<Forget>> = <<Forget>>
    BY <2>1, NormalToServer, Zenon DEF Coming
  <2>5. CASE fs = <<f>> /\ (toServer = <<>> \/ toServer = <<Forget>>)
    <3>1. ReadsNone(fs) \/ Hears(sent, <<>>, <<>>)
      <4>1. Stream(recv, toB, <<f>>)
        BY <2>5, Zenon
      <4>2. ReadsNone(<<f>>) \/ Hears(sent, <<>>, <<>>)
        BY <2>1, <2>2, <2>4, <4>1, ComesReads, Zenon
      <4>3. QED
        BY <2>5, <4>2, Zenon
    <3>2. CASE Hears(sent, <<>>, <<>>)
      <4>1. PICK t : TellsOnce(sent, t) /\ other' = other /\ told' = t /\ toServer' = toServer /\ Stream(recv', toB', <<>>)
        BY <2>4, <3>2, Zenon DEF Hears, Heard
      <4>2. Idle(toServer, <<>>)
        BY <2>5, Zenon DEF Idle
      <4>3. QED
        BY <2>3, <4>1, <4>2, Zenon
    <3>3. QED
      BY <1>7, <3>1, <3>2
  <2>6. CASE toServer = <<>> /\ \E g : LastOne(g) /\ fs = <<f, g>>
    <3>1. PICK g : LastOne(g) /\ fs = <<f, g>>
      BY <2>6
    <3>2. ReadsNone(fs) \/ Hears(sent, <<>>, <<g>>) \/ Hears(sent, <<Forget>>, <<>>)
      <4>1. Stream(recv, toB, <<f, g>>)
        BY <3>1, Zenon
      <4>2. ReadsNone(<<f, g>>) \/ Hears(sent, <<>>, <<g>>) \/ Hears(sent, <<Forget>>, <<>>)
        BY <2>1, <2>2, <2>4, <3>1, <4>1, ComesThenLast, ZenonT(60)
      <4>3. QED
        BY <3>1, <4>2, Zenon
    <3>3. CASE Hears(sent, <<>>, <<g>>)
      <4>1. PICK t : TellsOnce(sent, t) /\ other' = other /\ told' = t /\ toServer' = <<>> /\ Stream(recv', toB', <<g>>)
        BY <2>4, <2>6, <3>3, Zenon DEF Hears, Heard
      <4>2. Idle(<<>>, <<g>>)
        BY <3>1, Zenon DEF Idle
      <4>3. QED
        BY <2>3, <4>1, <4>2, Zenon
    <3>4. CASE Hears(sent, <<Forget>>, <<>>)
      <4>1. PICK t : TellsOnce(sent, t) /\ other' = other /\ told' = t /\ toServer' = <<Forget>> /\ Stream(recv', toB', <<>>)
        BY <2>4, <2>6, <3>4, Zenon DEF Hears, Heard
      <4>2. Idle(<<Forget>>, <<>>)
        BY Zenon DEF Idle
      <4>3. QED
        BY <2>3, <4>1, <4>2, Zenon
    <3>5. QED
      BY <1>7, <3>2, <3>3, <3>4
  <2>7. CASE toServer = <<>> /\ \E g : LastOne(g) /\ fs = <<g, f>>
    <3>1. PICK g : LastOne(g) /\ fs = <<g, f>>
      BY <2>7
    <3>2. ReadsNone(fs) \/ Heard(<<Forget>>, told, <<f>>) \/ Hears(sent, <<Forget>>, <<>>)
      <4>1. Stream(recv, toB, <<g, f>>)
        BY <3>1, Zenon
      <4>2. ReadsNone(<<g, f>>) \/ Heard(<<Forget>>, told, <<f>>) \/ Hears(sent, <<Forget>>, <<>>)
        BY <2>1, <2>2, <2>4, <3>1, <4>1, LastThenComes, ZenonT(60)
      <4>3. QED
        BY <3>1, <4>2, Zenon
    <3>3. CASE Heard(<<Forget>>, told, <<f>>)
      <4>1. other' = other /\ told' = <<>> /\ toServer' = <<Forget>> /\ Stream(recv', toB', <<f>>)
        BY <2>2, <2>4, <2>7, <3>3, Zenon DEF Heard
      <4>2. Coming(f, toServer', <<f>>)
        BY <4>1, Zenon DEF Coming
      <4>3. NormalComing(sent, other', told', toServer', <<f>>)
        BY <1>5, <2>1, <2>2, <4>1, <4>2, Zenon DEF NormalComing
      <4>4. QED
        BY <4>1, <4>3, Zenon DEF NormalIs
    <3>4. CASE Hears(sent, <<Forget>>, <<>>)
      <4>1. PICK t : TellsOnce(sent, t) /\ other' = other /\ told' = t /\ toServer' = <<Forget>> /\ Stream(recv', toB', <<>>)
        BY <2>4, <2>7, <3>4, Zenon DEF Hears, Heard
      <4>2. Idle(<<Forget>>, <<>>)
        BY Zenon DEF Idle
      <4>3. QED
        BY <2>3, <4>1, <4>2, Zenon
    <3>5. QED
      BY <1>7, <3>2, <3>3, <3>4
  <2>8. QED
    BY <2>1, <2>5, <2>6, <2>7, Zenon DEF Coming
<1>11. NormalCame(sent, other, told, toServer, stored, fs)
  BY <1>2, <1>3, NormalFrames, Zenon
<1>12. QED
  BY <1>8, <1>9, <1>10, <1>11, Zenon DEF NormalCame

NormalWay ==
    /\ \E fs : NextNormal(sent, self, other, told, toServer, stored, fs) /\ Stream(recv, toB, fs)
    /\ toA = <<>> /\ NoPackets(peer)

LEMMA NormalSNACs ==
    ASSUME NEW s, NEW o, NEW t, NEW ts, NEW st, NEW fs, NormalIs(s, o, t, ts, st, fs), ts # <<>>
    PROVE  Head(ts).subtype # 11
<1>1. Ready(o, ts, st, fs) => ts = <<Forget>>
  BY Zenon DEF Ready, Idle, Nowhere
<1>2. NormalComing(s, o, t, ts, fs) => ts = <<Forget>>
  BY Zenon DEF NormalComing, Coming
<1>3. \/ ts = <<Forget>>
      \/ \E b : ts = <<Request(b)>> \/ ts = <<Request(b), Forget>> \/ ts = <<Forget, Request(b)>>
  BY <1>1, <1>2, Zenon DEF NormalIs, NormalUnsent, NormalAsked, NormalStored, NormalOver, AskedFirst, AskedThen
<1>4. Head(ts) = Forget \/ \E b : Head(ts) = Request(b)
  <2>1. CASE ts = <<Forget>>
    BY <2>1, Heads, Zenon
  <2>2. ASSUME NEW b, ts = <<Request(b)>> \/ ts = <<Request(b), Forget>>
        PROVE  Head(ts) = Request(b)
    BY <2>2, Heads, ZenonT(60)
  <2>3. ASSUME NEW b, ts = <<Forget, Request(b)>>
        PROVE  Head(ts) = Forget
    BY <2>3, Heads, Zenon
  <2>4. QED
    BY <1>3, <2>1, <2>2, <2>3, Zenon
<1>5. Head(ts).subtype = 2 \/ Head(ts).subtype = 6
  BY <1>4, KindsOfSNACs, Zenon
<1>6. QED
  BY <1>5

LEMMA NormalStep ==
    ASSUME NormalWay, [Next]_vars
    PROVE  NormalWay'
<1>1. PICK fs : NextNormal(sent, self, other, told, toServer, stored, fs) /\ Stream(recv, toB, fs)
  BY Zenon DEF NormalWay
<1>2. toA = <<>> /\ NoPackets(peer)
  BY Zenon DEF NormalWay
<1>3. Settled(sent, self, other) /\ sent.way = "normal" /\ NormalIs(sent, other, told, toServer, stored, fs)
  BY <1>1, Zenon DEF NextNormal
<1>4. sent.way # "direct" /\ sent.way # "advanced" /\ sent.way # "magic"
  BY <1>3
<1>5. peer.toA = <<>> /\ peer.toB = <<>>
  BY <1>2 DEF NoPackets
<1>6. SUFFICES /\ \E gs : NextNormal(sent', self', other', told', toServer', stored', gs) /\ Stream(recv', toB', gs)
               /\ toA' = <<>> /\ NoPackets(peer')
  BY Zenon DEF NormalWay
<1>7. CASE SendViaServerNormal
  BY <1>1, <1>2, <1>7, NormalSends
<1>8. CASE ServerRelays
  BY <1>1, <1>2, <1>8, NormalRelays
<1>9. CASE LogIn
  BY <1>1, <1>2, <1>9, NormalLogsIn
<1>10. CASE ServerForgets
  BY <1>1, <1>2, <1>10, NormalForgets
<1>11. CASE RecvFromServer
  BY <1>1, <1>2, <1>11, NormalReads
<1>12. CASE setStatus
  <2>1. UNCHANGED <<sent, self, told, answer, toServer, toA, toB, recv, peer, stored>>
    BY <1>12, StatusSet, Zenon
  <2>2. Settled(sent, self, other') /\ other'.online = other.online
    BY <1>3, <1>12, StatusSettled
  <2>3. NormalIs(sent, other', told, toServer, stored, fs)
    BY <1>3, <2>2, NormalOnline, Zenon
  <2>4. QED
    BY <1>1, <1>2, <1>3, <2>1, <2>2, <2>3, Zenon DEF NextNormal
<1>13. CASE SendFTACK
  <2>1. \E i \in DOMAIN told : told[i].kind = "FileTransfer"
    BY <1>13, Zenon DEF SendFTACK
  <2>2. sent.event.kind # "FileTransfer" /\ sent.event.kind # "AwayMessage"
    <3>1. sent.event.kind \notin {"FileTransfer", "AwayMessage"}
      BY <1>3, SettledIs
    <3>2. QED
      BY <3>1
  <2>3. told = <<>> \/ TellsOnce(sent, told)
    BY <1>3, Zenon DEF NormalIs, NormalUnsent, NormalAsked, NormalStored, NormalComing, NormalOver, ToldLast
  <2>4. \A i \in DOMAIN told : told[i].kind # "FileTransfer"
    BY <2>2, <2>3, NoFile
  <2>5. QED
    BY <2>1, <2>4
<1>14. CASE ServerAcknowledges
  <2>1. toServer # <<>> /\ Head(toServer).subtype = 11
    BY <1>14, Zenon DEF ServerAcknowledges
  <2>2. Head(toServer).subtype # 11
    BY <1>3, <2>1, NormalSNACs
  <2>3. QED
    BY <2>1, <2>2
<1>15. CASE UNCHANGED vars
  BY <1>1, <1>2, <1>15, Zenon DEF vars
<1>16. CASE SendDirect \/ SendViaServerAdvanced \/ ServerSends \/ RecvPacket \/ RecvPacketAck \/ SignalMessageACK
  BY <1>2, <1>4, <1>5, <1>16, Zenon DEF SendDirect, SendViaServerAdvanced, ServerSends, RecvPacket,
            RecvPacketAck, SignalMessageACK
<1>17. QED
  BY <1>7, <1>8, <1>9, <1>10, <1>11, <1>12, <1>13, <1>14, <1>15, <1>16, Zenon DEF Next

-----------------------------------------------------------------------------
(* The inductive invariant: the event goes one of the four ways.             *)
IInv == DirectWay \/ AdvWay \/ MagicWay \/ NormalWay

LEMMA Beginning ==
    ASSUME Init
    PROVE  /\ Settled(sent, self, other) /\ sent.out = FALSE /\ Untold(sent, told, answer) /\ NoBytesSent /\ NoPackets(peer)
           /\ sent.way \in {"direct", "advanced", "normal", "magic"}
<1>1. PICK e \in Events, w \in {"direct", "advanced", "normal", "magic"}, v \in {6, 7} :
        /\ w \in e.ways
        /\ w # "direct" => v = 7
        /\ sent = [event |-> e.event, way |-> w, version |-> v, out |-> FALSE,
                   finished |-> FALSE, delivered |-> FALSE, reason |-> "None", away |-> <<>>,
                   file |-> [state |-> "NONE", port |-> 0, refusal |-> <<>>]]
        /\ \E s \in SelfStatuses, st \in Statuses, on \in BOOLEAN :
            /\ self = [status |-> s.status, invisible |-> s.invisible, contact |-> st]
            /\ other = [status |-> st, contact |-> [status |-> "OFFLINE", invisible |-> FALSE],
                        online |-> on]
            /\ w # "normal" => on
  BY DEF Init
<1>2. PICK s \in SelfStatuses, st \in Statuses, on \in BOOLEAN :
            /\ self = [status |-> s.status, invisible |-> s.invisible, contact |-> st]
            /\ other = [status |-> st, contact |-> [status |-> "OFFLINE", invisible |-> FALSE],
                        online |-> on]
            /\ w # "normal" => on
  BY <1>1
<1>3. PICK x, empty, file : /\ x = e.event /\ empty = <<>> /\ file = [state |-> "NONE", port |-> 0, refusal |-> <<>>]
                            /\ sent = [event |-> x, way |-> w, version |-> v, out |-> FALSE,
                                       finished |-> FALSE, delivered |-> FALSE, reason |-> "None", away |-> empty,
                                       file |-> file]
  BY <1>1
<1>4. sent.event = x /\ sent.way = w /\ sent.version = v /\ sent.out = FALSE /\ sent.finished = FALSE
  BY <1>3
<1>5. SentIs(sent)
  BY <1>3 DEF SentIs
<1>6. IsEvent(x) /\ Carries(w, x.kind)
  BY <1>1, <1>3, EventsAssumption, Zenon
<1>7. Known(self)
  <2>1. s.status \in Shown /\ s.invisible \in BOOLEAN
    BY StatusesAssumption
  <2>2. self.status = s.status /\ self.invisible = s.invisible
    BY <1>2
  <2>3. QED
    BY <2>1, <2>2, Zenon DEF Known
<1>8. /\ other = [status |-> other.status, contact |-> other.contact, online |-> other.online]
      /\ other.online \in BOOLEAN /\ (w # "normal" => other.online)
  BY <1>2
<1>9. Settled(sent, self, other)
  <2>1. sent.version \in {6, 7}
    BY <1>4
  <2>2. sent.way # "normal" => other.online
    BY <1>4, <1>8
  <2>3. QED
    BY <1>4, <1>5, <1>6, <1>7, <1>8, <2>1, <2>2, Zenon DEF Settled
<1>10. told = <<>> /\ answer = NoAnswer /\ NoBytesSent /\ NoPackets(peer)
  BY Zenon DEF Init, NoBytesSent, NoPackets
<1>11. Untold(sent, told, answer)
  BY <1>4, <1>10, Zenon DEF Untold
<1>12. QED
  BY <1>4, <1>9, <1>10, <1>11

LEMMA NoFrames == Stream(<<>>, <<>>, <<>>)
<1>1. <<>> \in Bytes
  BY NoBytes
<1>2. QED
  BY <1>1, Zenon DEF Stream

LEMMA InitIInv == Init => IInv
<1> SUFFICES ASSUME Init PROVE IInv
  OBVIOUS
<1>1. /\ Settled(sent, self, other) /\ sent.out = FALSE /\ Untold(sent, told, answer) /\ NoBytesSent /\ NoPackets(peer)
      /\ sent.way \in {"direct", "advanced", "normal", "magic"}
  BY Beginning
<1>2. Stream(recv, toB, <<>>)
  BY <1>1, NoFrames, Zenon DEF NoBytesSent
<1>3. CASE sent.way = "direct"
  <2>1. DirectUnsent(sent, told, answer, peer)
    BY <1>1, Zenon DEF DirectUnsent
  <2>2. QED
    BY <1>1, <1>3, <2>1, Zenon DEF IInv, DirectWay, NextDirect, DirectIs
<1>4. CASE sent.way = "advanced"
  <2>1. AdvUnsent(sent, told, answer, toServer, toA, <<>>) /\ stored = <<>>
    BY <1>1, Zenon DEF AdvUnsent, NoBytesSent
  <2>2. QED
    BY <1>1, <1>2, <1>4, <2>1, Zenon DEF IInv, AdvWay, NextAdv, AdvIs
<1>5. CASE sent.way = "magic"
  <2>1. MagicUnsent(sent, told, answer, <<>>) /\ toServer = <<>> /\ toA = <<>> /\ stored = <<>>
    BY <1>1, Zenon DEF MagicUnsent, NoBytesSent
  <2>2. QED
    BY <1>1, <1>2, <1>5, <2>1, Zenon DEF IInv, MagicWay, NextMagic, MagicIs
<1>6. CASE sent.way = "normal"
  <2>1. Ready(other, toServer, stored, <<>>) /\ told = <<>> /\ toA = <<>>
    BY <1>1, Zenon DEF Ready, Idle, Nowhere, NoBytesSent, Untold
  <2>2. NormalUnsent(sent, other, told, toServer, stored, <<>>)
    BY <1>1, <2>1, Zenon DEF NormalUnsent
  <2>3. QED
    BY <1>1, <1>2, <1>6, <2>1, <2>2, Zenon DEF IInv, NormalWay, NextNormal, NormalIs
<1>7. QED
  BY <1>1, <1>3, <1>4, <1>5, <1>6

LEMMA NextIInv == IInv /\ [Next]_vars => IInv'
<1> SUFFICES ASSUME IInv, [Next]_vars PROVE IInv'
  OBVIOUS
<1>1. CASE DirectWay
  <2>1. DirectWay'
    BY <1>1, DirectStep
  <2>2. QED
    BY <2>1, Zenon DEF IInv
<1>2. CASE AdvWay
  <2>1. AdvWay'
    BY <1>2, AdvStep
  <2>2. QED
    BY <2>1, Zenon DEF IInv
<1>3. CASE MagicWay
  <2>1. MagicWay'
    BY <1>3, MagicStep
  <2>2. QED
    BY <2>1, Zenon DEF IInv
<1>4. CASE NormalWay
  <2>1. NormalWay'
    BY <1>4, NormalStep
  <2>2. QED
    BY <2>1, Zenon DEF IInv
<1>5. QED
  BY <1>1, <1>2, <1>3, <1>4, Zenon DEF IInv

-----------------------------------------------------------------------------
(* What the invariant says of the application that is told, and of the       *)
(* answer: nobody is told of more than the event, and at the end of it.      *)
ToldOnce(s, t) == t = <<>> \/ \E m : t = <<m>> /\ Same(m, s.event, s.way)
LEMMA FrameLong ==
    ASSUME NEW f, IsFrame(f)
    PROVE  Len(f) >= 6
BY NoBytes, FrameTurn

LEMMA NoFrame == ~IsFrame(<<>>)
<1>1. SUFFICES ASSUME NEW f, f = <<>>, IsFrame(f) PROVE FALSE
  BY Zenon
<1>2. Len(f) >= 6
  BY <1>1, FrameLong
<1>3. Len(f) = 0
  BY <1>1, NoBytes, Zenon
<1>4. QED
  BY <1>2, <1>3

LEMMA WhatIsTold ==
    ASSUME IInv
    PROVE  ToldOnce(sent, told)
<1>1. ASSUME TellsOnce(sent, told) PROVE ToldOnce(sent, told)
  BY <1>1, Zenon DEF TellsOnce, ToldOnce
<1>2. ASSUME Untold(sent, told, answer) PROVE ToldOnce(sent, told)
  BY <1>2, Zenon DEF Untold, ToldOnce
<1>3. CASE DirectWay
  BY <1>1, <1>2, <1>3, Zenon DEF DirectWay, NextDirect, DirectIs, DirectUnsent, DirectSent, DirectOffered, DirectReplying,
     DirectIgnored, DirectEnded
<1>4. CASE AdvWay
  BY <1>1, <1>2, <1>4, Zenon DEF AdvWay, NextAdv, AdvIs, AdvUnsent, AdvAsked, AdvComing, AdvReplying, AdvReplied, AdvOver
<1>5. CASE MagicWay
  BY <1>1, <1>2, <1>5, Zenon DEF MagicWay, NextMagic, MagicIs, MagicUnsent, MagicComing, MagicEnded
<1>6. CASE NormalWay
  BY <1>1, <1>6, Zenon DEF NormalWay, NextNormal, NormalIs, NormalUnsent, NormalAsked, NormalStored, NormalComing,
     NormalOver, ToldLast, ToldOnce
<1>7. QED
  BY <1>3, <1>4, <1>5, <1>6, Zenon DEF IInv

\* Nothing is on its way: each way is over.
LEMMA DirectArrived ==
    ASSUME DirectWay, Arrived
    PROVE  /\ Settled(sent, self, other) /\ sent.way = "direct" /\ TellsOnce(sent, told)
           /\ \/ DirectOffered(sent, told, answer, peer)
              \/ DirectIgnored(sent, self, other, told, answer, peer)
              \/ DirectEnded(sent, self, other, told, answer, peer)
<1>1. sent.out /\ NoPackets(peer)
  BY Zenon DEF Arrived, NoPackets
<1>2. \A b : ~OnePacket(peer, b) /\ ~OneReply(peer, b)
  BY <1>1 DEF NoPackets, OnePacket, OneReply
<1>3. sent.out # FALSE
  BY <1>1
<1>4. QED
  BY <1>1, <1>2, <1>3, Zenon DEF DirectWay, NextDirect, DirectIs, DirectUnsent, DirectSent, DirectOffered, DirectReplying,
     DirectIgnored, DirectEnded

LEMMA AdvArrived ==
    ASSUME AdvWay, Arrived
    PROVE  /\ Settled(sent, self, other) /\ sent.way = "advanced"
           /\ \E fs : AdvOver(sent, self, other, told, answer, toServer, toA, fs)
<1>1. sent.out /\ toServer = <<>> /\ toA = <<>> /\ toB = <<>>
  BY Zenon DEF Arrived
<1>2. PICK fs : NextAdv(sent, self, other, told, answer, toServer, toA, fs) /\ Stream(recv, toB, fs)
  BY Zenon DEF AdvWay
<1>3. fs = <<>>
  BY <1>1, <1>2, StreamEnds
<1>4. \A f : fs # <<f>>
  BY <1>3
<1>5. \A b : toServer # <<Request(b)>> /\ toServer # <<AckReply(b)>>
  <2>1. \A q : toServer # <<q>>
    BY <1>1
  <2>2. QED
    BY <2>1, Zenon
<1>6. ~AdvEnding(sent, answer, toA)
  BY <1>1, NoFrame, Zenon DEF AdvEnding, AckArrived
<1>7. sent.out # FALSE
  BY <1>1
<1>8. QED
  BY <1>2, <1>4, <1>5, <1>6, <1>7, Zenon DEF NextAdv, AdvIs, AdvUnsent, AdvAsked, AdvComing, AdvReplying, AdvReplied

LEMMA MagicArrived ==
    ASSUME MagicWay, Arrived
    PROVE  Settled(sent, self, other) /\ sent.way = "magic" /\ TellsOnce(sent, told)
<1>1. sent.out /\ toB = <<>>
  BY Zenon DEF Arrived
<1>2. PICK fs : NextMagic(sent, self, other, told, answer, fs) /\ Stream(recv, toB, fs)
  BY Zenon DEF MagicWay
<1>3. fs = <<>>
  BY <1>1, <1>2, StreamEnds
<1>4. \A f : fs # <<f>>
  BY <1>3
<1>5. sent.out # FALSE
  BY <1>1
<1>6. QED
  BY <1>2, <1>4, <1>5, Zenon DEF NextMagic, MagicIs, MagicUnsent, MagicComing, MagicEnded

LEMMA NormalArrived ==
    ASSUME NormalWay, Arrived
    PROVE  Settled(sent, self, other) /\ sent.way = "normal" /\ ToldLast(sent, told)
<1>1. sent.out /\ toServer = <<>> /\ toB = <<>> /\ stored = <<>>
  BY Zenon DEF Arrived
<1>2. PICK fs : NextNormal(sent, self, other, told, toServer, stored, fs) /\ Stream(recv, toB, fs)
  BY Zenon DEF NormalWay
<1>3. fs = <<>>
  BY <1>1, <1>2, StreamEnds
<1>4. \A f, g : fs # <<f>> /\ fs # <<f, g>>
  BY <1>3
<1>5. \A q, r : toServer # <<q>> /\ toServer # <<q, r>>
  BY <1>1
<1>6. sent.out # FALSE
  BY <1>1
<1>7. ~NormalUnsent(sent, other, told, toServer, stored, fs)
  BY <1>6, Zenon DEF NormalUnsent
<1>8. ~NormalAsked(sent, other, told, toServer, stored, fs)
  BY <1>5, Zenon DEF NormalAsked, AskedFirst, AskedThen
<1>9. ~NormalStored(sent, other, told, toServer, stored, fs)
  BY <1>1, NoFrame, Zenon DEF NormalStored, Comes
<1>10. ~NormalComing(sent, other, told, toServer, fs)
  BY <1>4, Zenon DEF NormalComing, Coming
<1>11. NormalOver(sent, other, told, toServer, stored, fs)
  BY <1>2, <1>7, <1>8, <1>9, <1>10, Zenon DEF NextNormal, NormalIs
<1>12. QED
  BY <1>2, <1>11, Zenon DEF NextNormal, NormalOver

LEMMA ArrivedTold ==
    ASSUME IInv, Arrived
    PROVE  /\ Tellable => \E m : told = <<m>>
           /\ ~Tellable => told = <<>>
<1>1. CASE DirectWay \/ AdvWay \/ MagicWay
  <2>1. TellsOnce(sent, told) /\ sent.way \in {"direct", "advanced", "magic"}
    <3>1. CASE DirectWay
      BY <3>1, DirectArrived
    <3>2. CASE AdvWay
      BY <3>2, AdvArrived, Zenon DEF AdvOver
    <3>3. CASE MagicWay
      BY <3>3, MagicArrived
    <3>4. QED
      BY <1>1, <3>1, <3>2, <3>3, Zenon
  <2>2. sent.way # "normal"
    BY <2>1
  <2>3. QED
    BY <2>1, <2>2, Zenon DEF TellsOnce, Tellable
<1>2. CASE NormalWay
  <2>1. Settled(sent, self, other) /\ sent.way = "normal" /\ ToldLast(sent, told)
    BY <1>2, NormalArrived
  <2>2. sent.event.kind # "AwayMessage"
    <3>1. sent.event.kind \notin {"FileTransfer", "AwayMessage"}
      BY <2>1, SettledIs
    <3>2. QED
      BY <3>1
  <2>3. QED
    BY <2>1, <2>2, Zenon DEF TellsOnce, ToldLast, Tellable
<1>3. QED
  BY <1>1, <1>2, Zenon DEF IInv

LEMMA ToldInv == IInv => ToldAsSent
<1> SUFFICES ASSUME IInv PROVE ToldAsSent
  OBVIOUS
<1>1. ToldOnce(sent, told)
  BY WhatIsTold
<1>2. Len(told) <= 1
  <2>1. told = <<>> => Len(told) = 0
    OBVIOUS
  <2>2. \A m : told = <<m>> => Len(told) = 1
    OBVIOUS
  <2>3. Len(told) = 0 \/ Len(told) = 1
    BY <1>1, <2>1, <2>2, Zenon DEF ToldOnce
  <2>4. \A n : n = 0 \/ n = 1 => n <= 1
    OBVIOUS
  <2>5. QED
    BY <2>3, <2>4, Zenon
<1>3. \A i \in DOMAIN told : Same(told[i], sent.event, sent.way)
  <2>1. CASE told = <<>>
    BY <2>1
  <2>2. ASSUME NEW m, told = <<m>>, Same(m, sent.event, sent.way)
        PROVE  \A i \in DOMAIN told : Same(told[i], sent.event, sent.way)
    <3>1. \A i \in DOMAIN told : told[i] = m
      BY <2>2
    <3>2. QED
      BY <2>2, <3>1, Zenon
  <2>3. QED
    BY <1>1, <2>1, <2>2, Zenon DEF ToldOnce
<1>4. Arrived => Len(told) = IF Tellable THEN 1 ELSE 0
  <2> SUFFICES ASSUME Arrived PROVE Len(told) = IF Tellable THEN 1 ELSE 0
    OBVIOUS
  <2>1. CASE Tellable
    <3>1. PICK m : told = <<m>>
      BY <2>1, ArrivedTold
    <3>2. Len(told) = 1
      BY <3>1
    <3>3. QED
      BY <2>1, <3>2
  <2>2. CASE ~Tellable
    <3>1. told = <<>>
      BY <2>2, ArrivedTold
    <3>2. Len(told) = 0
      BY <3>1
    <3>3. QED
      BY <2>2, <3>2
  <2>3. QED
    BY <2>1, <2>2
<1>5. QED
  BY <1>2, <1>3, <1>4, Zenon DEF ToldAsSent, Same, Answerable

-----------------------------------------------------------------------------
(* The answer, and the status: of the two ways that B can answer.            *)
Answered(s, a) == a.given /\ (s.event.kind # "FileTransfer" => a.delivered \/ a.reason # "Ignored")
LEMMA NotAnswered == ~NoAnswer.given /\ NoAnswer.given = FALSE
BY DEF NoAnswer

LEMMA FinishedWhen ==
    ASSUME IInv, Arrived, Answerable
    PROVE  \/ /\ sent.finished = FALSE
              /\ ~Answered(sent, answer) \/ (sent.way = "advanced" /\ sent.event.kind = "Contacts")
           \/ /\ Agrees(sent, answer) /\ Answered(sent, answer)
              /\ ~(sent.way = "advanced" /\ sent.event.kind = "Contacts")
<1>1. DirectWay \/ AdvWay
  <2>1. sent.way # "normal" /\ sent.way # "magic"
    BY DEF Answerable
  <2>2. QED
    BY <2>1, Zenon DEF IInv, MagicWay, NextMagic, NormalWay, NextNormal
<1>2. CASE DirectWay
  <2>1. /\ sent.way = "direct"
        /\ \/ DirectOffered(sent, told, answer, peer)
           \/ DirectIgnored(sent, self, other, told, answer, peer)
           \/ DirectEnded(sent, self, other, told, answer, peer)
    BY <1>2, DirectArrived
  <2>2. ~(sent.way = "advanced" /\ sent.event.kind = "Contacts")
    BY <2>1
  <2>3. DirectOffered(sent, told, answer, peer) => sent.finished = FALSE /\ ~Answered(sent, answer)
    BY NotAnswered, Zenon DEF DirectOffered, Answered
  <2>4. DirectIgnored(sent, self, other, told, answer, peer) => sent.finished = FALSE /\ ~Answered(sent, answer)
    BY Zenon DEF DirectIgnored, Unheeded, Heeded, Answered
  <2>5. DirectEnded(sent, self, other, told, answer, peer) => Agrees(sent, answer) /\ Answered(sent, answer)
    BY Zenon DEF DirectEnded, Replied, Heeded, Answered
  <2>6. QED
    BY <2>1, <2>2, <2>3, <2>4, <2>5, Zenon
<1>3. CASE AdvWay
  <2>1. PICK fs : AdvOver(sent, self, other, told, answer, toServer, toA, fs)
    BY <1>3, AdvArrived
  <2>2. sent.way = "advanced" /\ answer.given
    BY <1>3, <2>1, AdvArrived, Zenon DEF AdvOver, Replied
  <2>3. IF Heeded(sent, answer) /\ sent.event.kind # "Contacts" THEN Agrees(sent, answer) ELSE sent.finished = FALSE
    BY <2>1, Zenon DEF AdvOver
  <2>4. Answered(sent, answer) <=> Heeded(sent, answer)
    BY <2>2, Zenon DEF Answered, Heeded
  <2>5. QED
    BY <2>2, <2>3, <2>4, Zenon
<1>4. QED
  BY <1>1, <1>2, <1>3

LEMMA FinishedAgrees ==
    ASSUME IInv, Answerable
    PROVE  sent.finished = FALSE \/ Agrees(sent, answer)
<1>1. DirectWay \/ AdvWay
  <2>1. sent.way # "normal" /\ sent.way # "magic"
    BY DEF Answerable
  <2>2. QED
    BY <2>1, Zenon DEF IInv, MagicWay, NextMagic, NormalWay, NextNormal
<1>2. CASE DirectWay
  BY <1>2, Zenon DEF DirectWay, NextDirect, DirectIs, DirectUnsent, DirectSent, DirectOffered, DirectReplying,
     DirectIgnored, DirectEnded, Untold
<1>3. CASE AdvWay
  BY <1>3, Zenon DEF AdvWay, NextAdv, AdvIs, AdvUnsent, AdvAsked, AdvComing, AdvReplying, AdvReplied, AdvOver, Untold
<1>4. QED
  BY <1>1, <1>2, <1>3

LEMMA AnswerInv == IInv => AnswerIsTheirs
<1> SUFFICES ASSUME IInv PROVE AnswerIsTheirs
  OBVIOUS
<1>1. Answerable /\ sent.finished =>
            /\ answer.given
            /\ IF sent.event.kind = "FileTransfer"
               THEN /\ sent.file.port = answer.port
                    /\ sent.file.state = IF answer.port # 0 THEN "ACCEPTED" ELSE "REJECTED"
                    /\ sent.file.refusal = answer.refusal
               ELSE /\ sent.delivered = answer.delivered
                    /\ ~answer.delivered => sent.reason = answer.reason
                    /\ sent.away = answer.away
  <2> SUFFICES ASSUME Answerable, sent.finished
               PROVE  Agrees(sent, answer)
    BY Zenon DEF Agrees
  <2>1. sent.finished # FALSE
    OBVIOUS
  <2>2. QED
    BY <2>1, FinishedAgrees
<1> DEFINE heard == ~(sent.way = "advanced" /\ sent.event.kind = "Contacts")
<1>2. Answerable /\ Arrived => sent.finished = (Answered(sent, answer) /\ heard)
  <2> SUFFICES ASSUME Answerable, Arrived
               PROVE  sent.finished = (Answered(sent, answer) /\ heard)
    OBVIOUS
  <2>1. \/ /\ sent.finished = FALSE
           /\ ~Answered(sent, answer) \/ ~heard
        \/ Agrees(sent, answer) /\ Answered(sent, answer) /\ heard
    BY FinishedWhen, Zenon
  <2>2. Agrees(sent, answer) => sent.finished = TRUE
    BY DEF Agrees
  <2>3. QED
    BY <2>1, <2>2
<1> HIDE DEF heard
<1>3. QED
  BY <1>1, <1>2, Zenon DEF AnswerIsTheirs, Answered, heard

LEMMA StatusInv == IInv => StatusIsTold
<1> SUFFICES ASSUME IInv, Answerable, answer.given, sent.event.kind # "FileTransfer"
             PROVE  other.contact = StatusOf(self)
  BY Zenon DEF StatusIsTold, StatusOf
<1>1. DirectWay \/ AdvWay
  <2>1. sent.way # "normal" /\ sent.way # "magic"
    BY DEF Answerable
  <2>2. QED
    BY <2>1, Zenon DEF IInv, MagicWay, NextMagic, NormalWay, NextNormal
<1>2. answer # NoAnswer
  BY NotAnswered, Zenon
<1>3. CASE DirectWay
  BY <1>2, <1>3, Zenon DEF DirectWay, NextDirect, DirectIs, DirectUnsent, DirectSent, DirectOffered, DirectReplying,
     DirectIgnored, DirectEnded, Untold, Unheeded, Replied
<1>4. CASE AdvWay
  BY <1>2, <1>4, Zenon DEF AdvWay, NextAdv, AdvIs, AdvUnsent, AdvAsked, AdvComing, AdvReplying, AdvReplied, AdvOver, Untold,
     Replied
<1>5. QED
  BY <1>1, <1>3, <1>4

-----------------------------------------------------------------------------
(* The theorems.                                                            *)

\* An event is in one of four stages of one of four ways, with what its frame or its packet
\* will be read as, whatever comes between (the whole of Messages).
THEOREM Invariant == Spec => []IInv
<1>1. Init => IInv
  BY InitIInv
<1>2. IInv /\ [Next]_vars => IInv'
  BY NextIInv
<1>3. QED
  BY <1>1, <1>2, PTL DEF Spec

\* B's application is told of the event once, as it was sent, and of nothing else, whatever the
\* way, the texts, the flags, the cuts of the stream and B's status (ICQ.cpp, TLV.cpp, SNAC-MSG.cpp,
\* MessageHandler.cpp, DirectClient.cpp); at the end it was told, unless its kind is never shown.
THEOREM ToldAsSentTheorem == Spec => []ToldAsSent
<1>1. IInv => ToldAsSent
  BY ToldInv
<1>2. QED
  BY <1>1, Invariant, PTL

\* A's event ends as B's application answered, a file at the port it named (handleIncomingACK and
\* handleIncomingFTACK of MessageHandler.cpp), and does not end when it was ignored.
THEOREM AnswerIsTheirsTheorem == Spec => []AnswerIsTheirs
<1>1. IInv => AnswerIsTheirs
  BY AnswerInv
<1>2. QED
  BY <1>1, Invariant, PTL

\* Whoever could answer an event knows the status its sender had, every status and invisible or not
\* (MapStatusToICQStatus and back, handleOutgoing and handleIncoming).
THEOREM StatusIsToldTheorem == Spec => []StatusIsTold
<1>1. IInv => StatusIsTold
  BY StatusInv
<1>2. QED
  BY <1>1, Invariant, PTL
=============================================================================
