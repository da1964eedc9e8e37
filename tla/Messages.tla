------------------------------- MODULE Messages -------------------------------
(***************************************************************************)
(* One event of one client, A, told to the application of another, B, and  *)
(* B's answer told to A's: MessageHandler.cpp with the parts of Client.cpp *)
(* and DirectClient.cpp that send and receive messages, over the bytes of  *)
(* module Wire. When and how often an event is sent is module Delivery's   *)
(* subject; here it is sent once, by one of its ways:                      *)
(*   "direct"    a packet of an established direct connection;             *)
(*   "advanced"  through the server, acknowledged by the other client;     *)
(*   "normal"    through the server, stored there while B is offline;      *)
(*   "magic"     mail and pages, which the server sends in a UIN's name.   *)
(*                                                                         *)
(* The server is external. Strings are carried as they are: NULLTranslator *)
(* is the default. SMS (XML) and requests to send files through the server *)
(* are left out.                                                           *)
(***************************************************************************)
EXTENDS Wire, Statuses

CONSTANTS
    Events,         \* events, each with the ways it may go
    SelfStatuses,   \* what A may be: status and invisibility
    Statuses,       \* own statuses of B, and B's as A knows it
    Answers,        \* answers of B's application to a message
    FileAnswers,    \* and to a request to send a file
    Profile,        \* alias, first and last name, e-mail and authorisation of A
    Cuts,           \* bound: the bytes a read of B may stop after, besides all
    Checks,         \* choices of rand() for the check of a packet: M1 and X2
    MaxChanges      \* bound: changes of B's status

VARIABLES
    sent,       \* A's event: what it says, its way and how it ended
    self,       \* status and invisibility of A, and B's status as A knows it
    other,      \* B: its status, what it knows of A, and whether it is logged in
    told,       \* the events B's application was told of
    answer,     \* what B's application said
    toServer,   \* SNACs on their way to the server
    toA, toB,   \* bytes of the server on their way to A and to B
    recv,       \* m_recv of B
    peer,       \* packets on their way to A and to B
    stored,     \* bytes of the messages that the server keeps for B
    changes     \* how often B's status has changed

vars == <<sent, self, other, told, answer, toServer, toA, toB, recv, peer, stored, changes>>

UIN == [A |-> 1, B |-> 23, magic |-> 10]
SeqNum == 65535         \* of the direct connection, and of the contact: their first
ICBMCookie == 77
NoAnswer == [given |-> FALSE]

Init ==
    /\ \E e \in Events, w \in {"direct", "advanced", "normal", "magic"}, v \in {6, 7} :
        /\ w \in e.ways
        /\ w # "direct" => v = 7
        /\ sent = [event |-> e.event, way |-> w, version |-> v, out |-> FALSE,
                   finished |-> FALSE, delivered |-> FALSE, reason |-> "None", away |-> <<>>,
                   file |-> [state |-> "NONE", port |-> 0, refusal |-> <<>>]]
        /\ \E s \in SelfStatuses, st \in Statuses, on \in BOOLEAN :
            /\ self = [status |-> s.status, invisible |-> s.invisible, contact |-> st]
            /\ other = [status |-> st, contact |-> [status |-> "OFFLINE", invisible |-> FALSE],
                        online |-> on]
            /\ w # "normal" => on
    /\ told = <<>>
    /\ answer = NoAnswer
    /\ toServer = <<>> /\ toA = <<>> /\ toB = <<>> /\ recv = <<>>
    /\ peer = [toA |-> <<>>, toB |-> <<>>]
    /\ stored = <<>>
    /\ changes = 0

-----------------------------------------------------------------------------
(* Events: what the application and the library tell each other. A contact *)
(* of a list of contacts is its number and its alias.                       *)

MessageEvent(kind, texts) ==
    [kind |-> kind, texts |-> texts, granted |-> FALSE, urgent |-> FALSE, tolist |-> FALSE, size |-> 0,
     from |-> 0]
NormalMessageEvent(msg) == MessageEvent("Normal", <<msg>>)
URLMessageEvent(msg, url) == MessageEvent("URL", <<msg, url>>)
AwayMessageEvent == MessageEvent("AwayMessage", <<>>)
AuthReqEvent(msg) == MessageEvent("AuthReq", <<msg>>)
AuthAckEvent(msg, granted) == [MessageEvent("AuthAck", <<msg>>) EXCEPT !.granted = granted]
EmailExEvent(email, sender, msg) == MessageEvent("EmailEx", <<sender, email, msg>>)
WebPagerEvent(email, sender, msg) == MessageEvent("WebPager", <<sender, email, msg>>)
UserAddEvent == MessageEvent("UserAdd", <<>>)
FileTransferEvent(msg, description, size) ==
    [MessageEvent("FileTransfer", <<msg, description>>) EXCEPT !.size = size]
ContactMessageEvent(content) == MessageEvent("Contacts", content)

-----------------------------------------------------------------------------
(* MessageHandler: events and ICQ subtypes.                                 *)

AwayType(st) ==
    CASE st = "OCCUPIED" -> Type.Occ [] st = "NA" -> Type.NA [] st = "DND" -> Type.DND
      [] st = "FREEFORCHAT" -> Type.FFC [] OTHER -> Type.Away

EventToUINICQSubType(e, contactStatus) ==
    LET ist == CASE e.kind = "Normal" -> Subtype(Type.Normal, e.texts)
                 [] e.kind = "URL" -> Subtype(Type.URL, e.texts)
                 [] e.kind = "FileTransfer" ->
                        [Subtype(Type.FT, e.texts) EXCEPT !.numbers = <<0, 0, e.size>>]
                 [] e.kind = "AwayMessage" -> Subtype(AwayType(contactStatus), <<>>)
                 [] e.kind = "AuthReq" -> Subtype(Type.AuthReq, Profile \o e.texts)
                 [] e.kind = "AuthAck" /\ e.granted -> Subtype(Type.AuthAcc, <<>>)
                 [] e.kind = "AuthAck" /\ ~e.granted -> Subtype(Type.AuthRej, e.texts)
                 [] e.kind = "UserAdd" -> Subtype(Type.UserAdd, Profile)
                 [] e.kind = "Contacts" -> Subtype(Type.Contact, e.texts)
    IN  [ist EXCEPT !.urgent = e.urgent, !.tolist = e.tolist]

handleOutgoing(e) ==
    [EventToUINICQSubType(e, self.contact) EXCEPT
        !.status = Number(MapStatusToICQStatus(self.status, self.invisible)),
        !.dest = UIN.B, !.source = UIN.A, !.seq = SeqNum]

\* The sender of a page is its e-mail address again.
ICQSubTypeToEvent(ist) ==
    LET e == CASE ist.type = Type.Normal -> NormalMessageEvent(ist.fields[1])
               [] ist.type = Type.URL -> URLMessageEvent(ist.fields[1], ist.fields[2])
               [] ist.type = Type.AuthReq -> AuthReqEvent(ist.fields[6])
               [] ist.type = Type.AuthRej -> AuthAckEvent(ist.fields[1], FALSE)
               [] ist.type = Type.AuthAcc -> AuthAckEvent(<<>>, TRUE)
               [] ist.type \in AutoReq -> AwayMessageEvent
               [] ist.type = Type.UserAdd -> UserAddEvent
               [] ist.type = Type.Contact -> ContactMessageEvent(ist.fields)
               [] ist.type = Type.FT -> FileTransferEvent(ist.fields[1], ist.fields[2], ist.numbers[3])
               [] ist.type = Type.EmailEx -> EmailExEvent(ist.fields[4], ist.fields[1], ist.fields[6])
               [] ist.type = Type.WebPager -> WebPagerEvent(ist.fields[4], ist.fields[4], ist.fields[6])
    IN  [e EXCEPT !.urgent = ist.urgent, !.tolist = ist.tolist]

\* AcceptStatus_... of an acknowledgement.
Accept == [Online |-> 0, Denied |-> 1, Away |-> 4, Occupied |-> 9, DND |-> 10, Occ_Accept |-> 12, NA |-> 14]

AcceptStatus_bug(ans, st) ==        \* occupied, so "occupied"
    CASE ans.delivered /\ st = "AWAY" -> Accept.Away
      [] ans.delivered /\ st = "NA" -> Accept.NA
      [] ans.delivered /\ st = "OCCUPIED" -> Accept.Occupied
      [] ans.delivered /\ st \notin {"AWAY", "NA", "OCCUPIED"} -> Accept.Online
      [] OTHER -> Accept.Denied

AcceptStatus(ans, st) ==
    CASE ans.delivered /\ st = "AWAY" -> Accept.Away
      [] ans.delivered /\ st = "NA" -> Accept.NA
      [] ans.delivered /\ st = "OCCUPIED" -> Accept.Occ_Accept
      [] ans.delivered /\ st \notin {"AWAY", "NA", "OCCUPIED"} -> Accept.Online
      [] ~ans.delivered /\ ans.reason = "Occupied" -> Accept.Occupied
      [] ~ans.delivered /\ ans.reason = "DND" -> Accept.DND
      [] ~ans.delivered /\ ans.reason \notin {"Occupied", "DND"} -> Accept.Denied

(* handleIncoming: the client after it, and the subtype that goes back. The *)
(* application answers "ans"; an away message is never shown to it, and it  *)
(* is asked for its own when it is not ONLINE.                              *)
handleIncoming(c, ist, ans) ==
    LET st == c.other.status
        isAway == ist.type \in AutoReq
        uin == ist.type \notin {Type.EmailEx, Type.WebPager}
        event == ICQSubTypeToEvent(ist)
        mev == IF uin /\ ~ist.advanced /\ st \in {"OCCUPIED", "DND"} THEN [event EXCEPT !.tolist = TRUE]
               ELSE event
        flags == FlagsOf(ist.status)
        verdict == IF isAway THEN [ans EXCEPT !.delivered = TRUE] ELSE ans
        away == IF st = "ONLINE" THEN <<>> ELSE ans.away
        asked == uin /\ ist.advanced
    IN  [other |-> IF asked THEN [c.other EXCEPT !.contact = [status |-> MapICQStatusToStatus(flags),
                                                              invisible |-> MapICQStatusToInvisible(flags)]]
                   ELSE c.other,
         told |-> IF isAway THEN c.told ELSE Append(c.told, [mev EXCEPT !.from = ist.source]),
         answer |-> IF asked THEN [given |-> TRUE, delivered |-> verdict.delivered,
                                   reason |-> verdict.reason, away |-> away]
                    ELSE c.answer,
         acks |-> IF asked /\ (verdict.delivered \/ verdict.reason # "Ignored")
                  THEN <<[ist EXCEPT !.ack = TRUE, !.away = away, !.status = AcceptStatus(verdict, st)]>>
                  ELSE <<>>]

\* What A's event says after an acknowledgement.
handleIncomingFTACK(ev, ft) ==
    LET port == IF ft.numbers[1] # 0 THEN ft.numbers[1] ELSE Swapped(ft.numbers[2])
    IN  [ev EXCEPT !.file = [state |-> IF ft.status = Accept.Online /\ port # 0 THEN "ACCEPTED" ELSE "REJECTED",
                             port |-> port, refusal |-> ft.fields[1]]]

handleIncomingACK(ev, ist) ==
    LET isFile == ev.event.kind = "FileTransfer"
        reason == CASE ist.status = Accept.Denied -> "Denied" [] ist.status = Accept.Occupied -> "Occupied"
                    [] ist.status = Accept.DND -> "DND" [] OTHER -> ev.reason
        refused == ist.status \in {Accept.Denied, Accept.Occupied, Accept.DND}
        finished == [ev EXCEPT !.away = ist.away, !.finished = TRUE, !.reason = reason,
                               !.delivered = ~refused \/ isFile \/ ev.event.kind = "AwayMessage"]
    IN  IF isFile THEN handleIncomingFTACK(finished, ist) ELSE finished

-----------------------------------------------------------------------------
(* What the constants may be. A field holds no separator, and a text leaves *)
(* a FLAP room for what is around it.                                       *)

Clean == {f \in Bytes : \A i \in 1 .. Len(f) : f[i] # Sep}
Limit == 60000
Short == {s \in Bytes : Len(s) <= Limit}

\* The text of mails and pages: nickname, e-mail and message, three fields of six.
MagicText(t) == Joined(<<t[1], <<>>, <<>>, t[2], <<>>, t[3]>>)

Carries(way, kind) ==
    \/ way \in {"direct", "advanced", "normal"} /\ kind \in {"Normal", "URL", "Contacts"}
    \/ way \in {"direct", "advanced"} /\ kind = "AwayMessage"
    \/ way = "direct" /\ kind = "FileTransfer"
    \/ way = "normal" /\ kind \in {"AuthReq", "AuthAck", "UserAdd"}
    \/ way = "magic" /\ kind \in {"EmailEx", "WebPager"}

IsText(e) ==
    LET n == Len(e.texts)
    IN  /\ e.kind \in {"Normal", "AuthAck"} => e.texts \in Seq(Bytes) /\ n = 1
        /\ e.kind = "URL" => e.texts \in Seq(Clean) /\ n = 2
        /\ e.kind = "AuthReq" => e.texts \in Seq(Clean) /\ n = 1
        /\ e.kind \in {"AwayMessage", "UserAdd"} => e.texts = <<>>
        /\ e.kind = "Contacts" => e.texts \in Seq(Clean) /\ n % 2 = 0 /\ n < 200
        /\ e.kind = "FileTransfer" => e.texts \in Seq(Short) /\ n = 2 /\ Len(e.texts[1] \o e.texts[2]) <= Limit
        /\ e.kind \in {"EmailEx", "WebPager"} =>
               e.texts \in Seq(Clean) /\ n = 3 /\ MagicText(e.texts) \in Short
        /\ e.kind \notin {"FileTransfer", "EmailEx", "WebPager"} =>
               Text(EventToUINICQSubType(e, "ONLINE")) \in Short

IsEvent(e) ==
    /\ e = [kind |-> e.kind, texts |-> e.texts, granted |-> e.granted, urgent |-> e.urgent,
            tolist |-> e.tolist, size |-> e.size, from |-> 0]
    /\ e.urgent \in BOOLEAN /\ e.tolist \in BOOLEAN /\ e.granted \in BOOLEAN
    /\ e.granted => e.kind = "AuthAck" /\ e.texts = << <<>> >>
    /\ IF e.kind = "FileTransfer" THEN e.size \in Word4 ELSE e.size = 0
    /\ IsText(e)

ASSUME EventsAssumption ==
    \A x \in Events : IsEvent(x.event) /\ \A way \in x.ways : Carries(way, x.event.kind)
ASSUME ProfileAssumption == Profile \in Seq(Clean) /\ Len(Profile) = 5
ASSUME StatusesAssumption == \A s \in SelfStatuses : s.status \in Shown /\ s.invisible \in BOOLEAN
ASSUME AnswersAssumption ==
    /\ Answers \subseteq [delivered : BOOLEAN, reason : {"None", "Denied", "Occupied", "DND", "Ignored"},
                          away : Short]
    /\ \A ans \in Answers : ~ans.delivered => ans.reason # "None"
    /\ FileAnswers \subseteq [port : Word2, refusal : Short]
ASSUME CutsAssumption == Cuts \subseteq Nat
ASSUME ChecksAssumption == \A c \in Checks : c[1] \in 10 .. 254 /\ c[2] \in 0 .. 219

-----------------------------------------------------------------------------
(* Client A sends the event.                                                *)

\* What Encrypt may make of a packet: M1 is below its size, and below 255.
Encrypted(packet) ==
    {Encrypt(packet, sent.version, c[1], c[2]) :
        c \in {ch \in Checks : ch[1] < Len(packet) /\ ch[1] < 255}}

SendDirect ==
    /\ sent.way = "direct" /\ ~sent.out
    /\ \E bytes \in Encrypted(Packet(Command.START, [handleOutgoing(sent.event) EXCEPT !.advanced = TRUE])) :
          peer' = [peer EXCEPT !.toB = Append(@, bytes)]
    /\ sent' = [sent EXCEPT !.out = TRUE]
    /\ UNCHANGED <<self, other, told, answer, toServer, toA, toB, recv, stored, changes>>

SendViaServerAdvanced ==
    /\ sent.way = "advanced" /\ ~sent.out
    /\ sent' = [sent EXCEPT !.out = TRUE]
    /\ toServer' = Append(toServer,
            [from |-> UIN.A, family |-> 4, subtype |-> 6,
             body |-> MsgSend([handleOutgoing(sent.event) EXCEPT !.advanced = TRUE], ICBMCookie)])
    /\ UNCHANGED <<self, other, told, answer, toA, toB, recv, peer, stored, changes>>

\* Counted as delivered at once; nobody acknowledges it.
SendViaServerNormal ==
    /\ sent.way = "normal" /\ ~sent.out
    /\ sent' = [sent EXCEPT !.out = TRUE, !.finished = TRUE, !.delivered = TRUE]
    /\ toServer' = Append(toServer, [from |-> UIN.A, family |-> 4, subtype |-> 6,
                                     body |-> MsgSend(handleOutgoing(sent.event), 0)])
    /\ UNCHANGED <<self, other, told, answer, toA, toB, recv, peer, stored, changes>>

-----------------------------------------------------------------------------
(* The server. It puts the sender's name where the receiver's was.          *)

UserInfo(uin) == ByteString(UINtoString(uin)) \o BE(0, 2) \o BE(1, 2) \o BE(6, 2) \o BESized(BE(0, 4))

\* What is kept of a message: the text of channel 1, or the subtype of channel 4.
KeptText(rest) ==
    LET block == Read(Reader(rest), <<U16, Skip(2), Skip(5), U16, U16, Skip(4), Str(65535)>>)
    IN  SubSeq(block.v[4], 1, block.v[3] - 4)
KeptData(rest) ==
    LET data == Read(Reader(rest), <<U16, U16, U32, Str(65535)>>)
    IN  SubSeq(data.v[4], 1, data.v[2] - 4)
Offline(from, channel, rest) ==
    LET subtype == IF channel = 1 THEN Output(Subtype(Type.Normal, <<KeptText(rest)>>)) ELSE KeptData(rest)
    IN  LE(65, 2) \o LE(0, 2) \o LE(from, 4) \o LE(2001, 2) \o <<6, 15, 12, 30>> \o subtype \o LE(0, 2)

SrvResponse(part) ==
    BE(1, 2) \o BESized(LESized(LE(UIN.B, 4) \o part))

ServerRelays ==
    /\ toServer # <<>> /\ Head(toServer).subtype = 6 /\ Head(toServer).family = 4
    /\ LET p == Head(toServer)
           r == Read(Reader(p.body), <<Str(8), U16, ByteStr>>)
           rest == SubSeq(p.body, r.pos + 1, Len(p.body))
       IN IF r.v[2] \notin {1, 2, 4} THEN UNCHANGED <<toB, stored>>
          ELSE IF other.online
          THEN /\ toB' = toB \o FLAP(4, 7, r.v[1] \o BE(r.v[2], 2) \o UserInfo(p.from) \o rest)
               /\ UNCHANGED stored
          ELSE /\ stored' = stored \o FLAP(21, 3, SrvResponse(Offline(p.from, r.v[2], rest)))
               /\ UNCHANGED toB
    /\ toServer' = Tail(toServer)
    /\ UNCHANGED <<sent, self, other, told, answer, toA, recv, peer, changes>>

ServerAcknowledges ==
    /\ toServer # <<>> /\ Head(toServer).subtype = 11
    /\ LET r == Read(Reader(Head(toServer).body), <<Str(10), ByteStr>>)
           rest == SubSeq(Head(toServer).body, r.pos + 1, Len(Head(toServer).body))
       IN toA' = toA \o FLAP(4, 11, r.v[1] \o ByteString(UINtoString(Head(toServer).from)) \o rest)
    /\ toServer' = Tail(toServer)
    /\ UNCHANGED <<sent, self, other, told, answer, toB, recv, peer, stored, changes>>

\* B asks for stored messages as it logs in, and lets the server forget them.
LogIn ==
    /\ ~other.online
    /\ other' = [other EXCEPT !.online = TRUE]
    /\ toB' = toB \o stored \o FLAP(21, 3, SrvResponse(LE(66, 2) \o LE(0, 2) \o <<0>>))
    /\ UNCHANGED <<sent, self, told, answer, toServer, toA, recv, peer, stored, changes>>

ServerForgets ==
    /\ toServer # <<>> /\ Head(toServer).family = 21
    /\ stored' = <<>>
    /\ toServer' = Tail(toServer)
    /\ UNCHANGED <<sent, self, other, told, answer, toA, toB, recv, peer, changes>>

ServerSends ==
    /\ sent.way = "magic" /\ ~sent.out
    /\ sent' = [sent EXCEPT !.out = TRUE]
    /\ LET type == IF sent.event.kind = "EmailEx" THEN Type.EmailEx ELSE Type.WebPager
           data == LE(UIN.magic, 4) \o <<type, 0>> \o NullString(MagicText(sent.event.texts))
       IN toB' = toB \o FLAP(4, 7, Cookie(0) \o BE(4, 2) \o UserInfo(UIN.magic) \o BE(5, 2) \o BESized(data))
    /\ UNCHANGED <<self, other, told, answer, toServer, toA, recv, peer, stored, changes>>

-----------------------------------------------------------------------------
(* Client B receives.                                                       *)

\* SignalMessage and SignalSrvResponse. Nothing is sent back for stored messages but that all came.
SignalMessage(c, m, ans) ==
    LET h == handleIncoming(c, m.ist, ans)
    IN  IF m.ist = NoSubtype \/ m.ist.type = Type.FT THEN c
        ELSE [other |-> h.other, told |-> h.told, answer |-> h.answer,
              out |-> c.out \o [i \in DOMAIN h.acks |->
                                    [from |-> UIN.B, family |-> 4, subtype |-> 11,
                                     body |-> MessageACK(h.acks[i], m.cookie)]]]

SignalSrvResponse(c, p, ans) ==
    IF p.command = 66
    THEN [c EXCEPT !.out = Append(@, [from |-> UIN.B, family |-> 21, subtype |-> 2,
                                      body |-> SrvAckOffline(UIN.B)])]
    ELSE [SignalMessage(c, [ist |-> p.ist, cookie |-> 0], ans) EXCEPT !.out = c.out]

ParseCh2(c, frame, ans) ==
    LET handled(s) ==
            CASE s.family = 4 /\ s.subtype = 7 -> SignalMessage(c, ParseMessage(s.r), ans)
              [] s.family = 21 /\ s.subtype = 3 -> SignalSrvResponse(c, ParseSrvResponse(s.r), ans)
              [] OTHER -> c
    IN  handled(ParseSNAC(frame))

\* The frames of a read, one after the other.
Handled(c, frames, ans) ==
    LET upto[i \in 0 .. Len(frames)] ==
            IF i = 0 THEN c ELSE ParseCh2(upto[i - 1], frames[i], ans)
    IN  upto[Len(frames)]

\* A read takes what has come, or stops in the middle of it; each complete frame is handled.
RecvFromServer ==
    /\ toB # <<>>
    /\ \E n \in (Cuts \cap 1 .. Len(toB) - 1) \cup {Len(toB)}, ans \in Answers :
        /\ n < Len(toB) => recv = <<>>
        /\ toB' = SubSeq(toB, n + 1, Len(toB))
        /\ \E p \in {Parse(recv \o SubSeq(toB, 1, n))} :
            /\ recv' = p.recv
            /\ \E c \in {Handled([other |-> other, told |-> told, answer |-> answer, out |-> <<>>],
                                 p.frames, ans)} :
                /\ other' = c.other /\ told' = c.told /\ answer' = c.answer
                /\ toServer' = toServer \o c.out
    /\ UNCHANGED <<sent, self, toA, peer, stored, changes>>

SendPacketAck(ist) ==
    \E bytes \in Encrypted(Packet(Command.ACK, ist)) :
        peer' = [toB |-> Tail(peer.toB), toA |-> Append(peer.toA, bytes)]

\* ParsePacketInt: a file is offered to the application, which answers it later.
HandlePacket(command, ist) ==
    \/ /\ command # Command.START
       /\ peer' = [peer EXCEPT !.toB = Tail(@)]
       /\ UNCHANGED <<other, told, answer>>
    \/ /\ command = Command.START /\ ist.type = Type.FT
       /\ told' = Append(told, [ICQSubTypeToEvent(ist) EXCEPT !.from = UIN.A])
       /\ peer' = [peer EXCEPT !.toB = Tail(@)]
       /\ UNCHANGED <<other, answer>>
    \/ /\ command = Command.START /\ ist.type # Type.FT
       /\ \E ans \in Answers :
            LET h == handleIncoming([other |-> other, told |-> told, answer |-> answer], ist, ans)
            IN /\ other' = h.other /\ told' = h.told /\ answer' = h.answer
               /\ IF h.acks # <<>> THEN SendPacketAck(h.acks[1])
                  ELSE peer' = [peer EXCEPT !.toB = Tail(@)]

RecvPacket ==
    /\ peer.toB # <<>>
    /\ \E p \in {ParsePacket(Head(peer.toB), sent.version)} :
          HandlePacket(p.command, From(p.ist, UIN.A))
    /\ UNCHANGED <<sent, self, toServer, toA, toB, recv, stored, changes>>

\* The application accepts a file at a port, or refuses it.
SendFTACK ==
    /\ \E i \in DOMAIN told : told[i].kind = "FileTransfer"
    /\ ~answer.given
    /\ \E ans \in FileAnswers :
        LET ist == [Subtype(Type.FT, <<ans.refusal, <<>>>>) EXCEPT
                        !.advanced = TRUE, !.ack = TRUE, !.seq = SeqNum,
                        !.status = IF ans.port # 0 THEN 0 ELSE Accept.Denied,
                        !.numbers = <<ans.port, Swapped(ans.port), 0>>]
        IN /\ answer' = [given |-> TRUE, port |-> ans.port, refusal |-> ans.refusal]
           /\ \E bytes \in Encrypted(Packet(Command.ACK, ist)) : peer' = [peer EXCEPT !.toA = Append(@, bytes)]
    /\ UNCHANGED <<sent, self, other, told, toServer, toA, toB, recv, stored, changes>>

setStatus ==
    /\ changes < MaxChanges
    /\ \E st \in Statuses \ {other.status} : other' = [other EXCEPT !.status = st]
    /\ changes' = changes + 1
    /\ UNCHANGED <<sent, self, told, answer, toServer, toA, toB, recv, peer, stored>>

-----------------------------------------------------------------------------
(* Client A is acknowledged.                                                *)

Acknowledgeable == {Type.Normal, Type.URL, Type.FT} \cup AutoReq

SignalMessageACK ==
    /\ toA # <<>>
    /\ \E p \in {Parse(toA)} :
        /\ \E m \in {ParseMessageACK(ParseSNAC(p.frames[1]).r)} :
              sent' = IF m.ist # NoSubtype /\ m.ist.type \in Acknowledgeable /\ m.cookie = ICBMCookie
                      THEN handleIncomingACK(sent, m.ist) ELSE sent
        /\ toA' = p.recv
    /\ UNCHANGED <<self, other, told, answer, toServer, toB, recv, peer, stored, changes>>

RecvPacketAck ==
    /\ peer.toA # <<>>
    /\ \E p \in {ParsePacket(Head(peer.toA), sent.version)} :
          sent' = IF p.command = Command.ACK /\ p.ist.seq = SeqNum THEN handleIncomingACK(sent, p.ist)
                  ELSE sent
    /\ peer' = [peer EXCEPT !.toA = Tail(@)]
    /\ UNCHANGED <<self, other, told, answer, toServer, toA, toB, recv, stored, changes>>

Next ==
    \/ SendDirect \/ SendViaServerAdvanced \/ SendViaServerNormal
    \/ ServerRelays \/ ServerAcknowledges \/ LogIn \/ ServerForgets \/ ServerSends
    \/ RecvFromServer \/ RecvPacket \/ SendFTACK \/ setStatus
    \/ SignalMessageACK \/ RecvPacketAck

Spec == Init /\ [][Next]_vars

-----------------------------------------------------------------------------
(* Properties.                                                              *)

\* Nothing is on its way any more.
Arrived ==
    /\ sent.out
    /\ toServer = <<>> /\ toA = <<>> /\ toB = <<>> /\ recv = <<>>
    /\ peer = [toA |-> <<>>, toB |-> <<>>]
    /\ stored = <<>>

\* Contacts have no form but the advanced one, an away message is asked for without a word.
Tellable == sent.event.kind # "AwayMessage" /\ ~(sent.way = "normal" /\ sent.event.kind = "Contacts")
Answerable == sent.way \in {"direct", "advanced"}

(* Whatever way an event goes, the other application is told of it once,    *)
(* as the event it was: its kind, its strings, its size and who sent it.    *)
(* Flags arrive where the way has them: one sent to the contact list stays  *)
(* so, one marked urgent stays so unless it is for the list as well, and    *)
(* none becomes urgent on its way (ICQ.cpp, TLV.cpp, MessageHandler.cpp).   *)
(* A stored message is told before the server is let forget it.             *)
ToldAsSent ==
    LET e == sent.event
        same(t) ==
            /\ t.kind = e.kind /\ t.granted = e.granted /\ t.size = e.size
            /\ IF sent.way = "magic" THEN Tail(t.texts) = Tail(e.texts) ELSE t.texts = e.texts
            /\ sent.way # "magic" => t.from = UIN.A
            /\ Answerable => t.tolist = e.tolist /\ t.urgent = (e.urgent /\ ~e.tolist)
            /\ ~Answerable => ~t.urgent
    IN  /\ Len(told) <= 1
        /\ \A i \in DOMAIN told : same(told[i])
        /\ Arrived => Len(told) = IF Tellable THEN 1 ELSE 0

(* A's event ends as B's application said: delivered or why not, with its   *)
(* away message, and a file accepted at the very port it named or refused   *)
(* in its words. An event that was ignored, or whose acknowledgement has a  *)
(* type nobody waits for (contacts through the server), does not end here.  *)
AnswerIsTheirs ==
    LET e == sent.event
        heard == ~(sent.way = "advanced" /\ e.kind = "Contacts")
        answered == answer.given /\ (e.kind # "FileTransfer" => answer.delivered \/ answer.reason # "Ignored")
    IN  /\ Answerable /\ Arrived => sent.finished = (answered /\ heard)
        /\ Answerable /\ sent.finished =>
            /\ answer.given
            /\ IF e.kind = "FileTransfer"
               THEN /\ sent.file.port = answer.port
                    /\ sent.file.state = IF answer.port # 0 THEN "ACCEPTED" ELSE "REJECTED"
                    /\ sent.file.refusal = answer.refusal
               ELSE /\ sent.delivered = answer.delivered
                    /\ ~answer.delivered => sent.reason = answer.reason
                    /\ sent.away = answer.away

(* An event that B could answer told B the status A had, invisibility       *)
(* included (handleOutgoing and handleIncoming of MessageHandler.cpp).      *)
StatusIsTold ==
    Answerable /\ answer.given /\ sent.event.kind # "FileTransfer" =>
        other.contact = [status |-> self.status, invisible |-> self.invisible]
===============================================================================
