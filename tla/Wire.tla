--------------------------------- MODULE Wire ---------------------------------
(***************************************************************************)
(* What messages look like in bytes: Buffer, ICQ subtypes, TLVs, the       *)
(* message SNACs, FLAPs and the packets of direct connections (buffer.cpp, *)
(* ICQ.cpp, TLV.cpp, SNAC-MSG.cpp, SNAC-SRV.cpp, DirectClient.cpp).        *)
(*                                                                         *)
(* Bytes are 0 .. 255 and strings are sequences of them. What is written   *)
(* and what is read are translated apart, each from its own function: that *)
(* they fit together is what module Messages is about.                     *)
(***************************************************************************)
EXTENDS Integers, Sequences, SequencesExt, FiniteSets

-----------------------------------------------------------------------------
(* Buffer: writing. Bytes, and the integers of two and four of them.        *)

Byte == 0 .. 255
Bytes == Seq(Byte)
Word2 == {n \in Nat : n < 65536}
Word4 == {n \in Nat : n \div 65536 < 65536}
Weight == <<1, 256, 65536, 16777216>>
Bit(n, mask) == (n \div mask) % 2 = 1
a ^^ b ==
    LET bit(mask) == IF Bit(a, mask) # Bit(b, mask) THEN mask ELSE 0
    IN  bit(1) + bit(2) + bit(4) + bit(8) + bit(16) + bit(32) + bit(64) + bit(128)
LE(v, w) == [i \in 1 .. w |-> (v \div Weight[i]) % 256]
BE(v, w) == [i \in 1 .. w |-> (v \div Weight[w + 1 - i]) % 256]
Zeros(n) == [i \in 1 .. n |-> 0]
\* PackUint16StringNull and PackByteString; the former in Intel order only.
NullString(s) == LE(Len(s) + 1, 2) \o s \o <<0>>
ByteString(s) == <<Len(s)>> \o s
\* getAutoSizeShortMarker ... setAutoSizeMarker around a part, in either order.
BESized(part) == BE(Len(part), 2) \o part
LESized(part) == LE(Len(part), 2) \o part

(* Buffer: reading. A reader has a position, a byte order, and the values   *)
(* it has read; past the end integers are 0 and strings are cut. "ist" is   *)
(* the ICQ subtype that was found on the way.                               *)

Subtype(type, fields) ==
    [type |-> type, fields |-> fields, numbers |-> <<0, 0, 0>>, status |-> 0, urgent |-> FALSE,
     tolist |-> FALSE, advanced |-> FALSE, ack |-> FALSE, away |-> <<>>, seq |-> 0, source |-> 0,
     dest |-> 0]
NoSubtype == Subtype(0, <<>>)       \* the parser threw, or there was nothing
Reader(data) == [data |-> data, pos |-> 0, order |-> "big", v |-> <<>>, ist |-> NoSubtype]
Remains(r) == Len(r.data) - r.pos
Field(k, n) == [k |-> k, n |-> n]
U8 == Field("int", 1)
U16 == Field("int", 2)
U32 == Field("int", 4)
Skip(n) == Field("skip", n)
Str(n) == Field("str", n)           \* Unpack
ByteStr == Field("byte", 0)         \* UnpackByteString
NullStr == Field("null", 0)         \* UnpackUint16StringNull
Little == Field("le", 0)

ValueAt(r, w) ==
    LET part(i) == IF i > w THEN 0
                   ELSE Weight[i] * r.data[r.pos + IF r.order = "little" THEN i ELSE w + 1 - i]
    IN  IF Remains(r) < w THEN 0 ELSE part(1) + part(2) + part(3) + part(4)
Unpack(r, n) == SubSeq(r.data, r.pos + 1, IF n < Remains(r) THEN r.pos + n ELSE Len(r.data))
After(r, n) == [r EXCEPT !.pos = @ + n]
Got(r, value, n) == [After(r, n) EXCEPT !.v = Append(@, value)]
GotString(r, s, before, after) == Got(r, s, before + Len(s) + after)

ReadField(r, f) ==
    CASE f.k = "int" -> Got(r, ValueAt(r, f.n), IF f.n = 1 /\ Remains(r) < 1 THEN 0 ELSE f.n)
      [] f.k = "skip" -> After(r, f.n)
      [] f.k = "str" -> GotString(r, Unpack(r, f.n), 0, 0)
      [] f.k = "byte" -> GotString(r, Unpack(After(r, 1), ValueAt(r, 1)), 1, 0)
      [] f.k = "null" -> IF ValueAt(r, 2) = 0 THEN Got(r, <<>>, 2)
                         ELSE GotString(r, Unpack(After(r, 2), ValueAt(r, 2) - 1), 2, 1)
      [] f.k = "le" -> [r EXCEPT !.order = "little"]

\* The fields of a layout, read one after the other.
Read(r, layout) ==
    LET upto[i \in 0 .. Len(layout)] ==
            IF i = 0 THEN [r EXCEPT !.v = <<>>] ELSE ReadField(upto[i - 1], layout[i])
    IN  upto[Len(layout)]

-----------------------------------------------------------------------------
(* UINs as strings, and fields with 0xfe between them.                      *)

UINtoString(n) == IF n < 10 THEN <<48 + n>> ELSE <<48 + (n \div 10), 48 + (n % 10)>>
StringtoUIN(s) ==
    LET upto[i \in 0 .. Len(s)] == IF i = 0 THEN 0 ELSE 10 * upto[i - 1] + s[i] - 48
    IN  upto[Len(s)]

Sep == 254
Ended(fields) == FlattenSeq([i \in DOMAIN fields |-> fields[i] \o <<Sep>>])
Joined(fields) == Front(Ended(fields))

\* The first separator at p or after it, or the end.
SepFrom(s, p) ==
    CHOOSE i \in p .. Len(s) + 1 :
        (i = Len(s) + 1 \/ s[i] = Sep) /\ \A j \in p .. i - 1 : s[j] # Sep

\* Nothing follows a separator at the end; missing fields are empty.
string_split(s, count) ==
    LET start[k \in 1 .. Len(s)] ==
            IF k = 1 THEN 1
            ELSE IF start[k - 1] > Len(s) THEN start[k - 1] ELSE SepFrom(s, start[k - 1]) + 1
        n == Cardinality({k \in 1 .. Len(s) : start[k] <= Len(s)})
        field(k) == SubSeq(s, start[k], SepFrom(s, start[k]) - 1)
    IN  [k \in 1 .. (IF count > n THEN count ELSE n) |-> IF k <= n THEN field(k) ELSE <<>>]

-----------------------------------------------------------------------------
(* ICQ subtypes. "fields" are the strings of the message, "numbers" those   *)
(* of a file transfer: port, revport and size.                              *)

Type == [Normal |-> 1, FT |-> 3, URL |-> 4, AuthReq |-> 6, AuthRej |-> 7, AuthAcc |-> 8,
         UserAdd |-> 12, WebPager |-> 13, EmailEx |-> 14, Contact |-> 19, Away |-> 232,
         Occ |-> 233, NA |-> 234, DND |-> 235, FFC |-> 236]
AutoReq == {Type.Away, Type.Occ, Type.NA, Type.DND, Type.FFC}
Types == {Type[n] : n \in DOMAIN Type}

\* setRevPort and getRevPort swap the bytes of the port.
Swapped(port) == (port % 256) * 256 + (port \div 256)

AuthReqText(ist) == Joined(ist.fields)
ContactText(ist) == Ended(<<UINtoString(Len(ist.fields) \div 2)>> \o ist.fields)

Text(ist) ==
    CASE ist.type = Type.URL -> Joined(ist.fields)
      [] ist.type = Type.AuthReq -> AuthReqText(ist)
      [] ist.type = Type.UserAdd -> Ended(ist.fields)
      [] ist.type = Type.Contact -> ContactText(ist)
      [] ist.type \in {Type.Normal, Type.AuthRej} -> ist.fields[1]
      [] OTHER -> <<>>

FTBody(ist) ==
    NullString(ist.fields[1]) \o LE(ist.numbers[2], 2) \o LE(0, 2)
    \o NullString(ist.fields[2]) \o LE(ist.numbers[3], 4) \o LE(ist.numbers[1], 2) \o LE(0, 2)
White == 16777215       \* the background of a message, its foreground is 0
NormalBody(ist) == NullString(Text(ist)) \o IF ist.advanced THEN LE(0, 4) \o LE(White, 4) ELSE <<>>

OutputBodyUIN(ist) ==
    CASE ist.type = Type.FT -> FTBody(ist)
      [] ist.type = Type.Normal -> NormalBody(ist)
      [] OTHER -> NullString(Text(ist))

OutputBodyUINACK(ist) ==
    CASE ist.type = Type.FT -> FTBody(ist)
      [] ist.type = Type.Normal /\ ist.advanced -> NullString(ist.away) \o Zeros(4) \o <<255, 255, 255, 255>>
      [] OTHER -> NullString(ist.away)

OutputBody(ist) ==
    (IF ~ist.advanced THEN <<>>
     ELSE LE(ist.status, 2)
          \o LE(IF ist.ack THEN 0 ELSE IF ist.tolist THEN 4 ELSE IF ist.urgent THEN 2 ELSE 1, 2))
    \o IF ist.ack THEN OutputBodyUINACK(ist) ELSE OutputBodyUIN(ist)

Output(ist) == <<ist.type, IF ist.type \in AutoReq THEN 3 ELSE 0>> \o OutputBody(ist)

\* ParseBodyUIN of each type: what its text says.
URLFields(text) ==
    LET end == SepFrom(text, 1)
    IN  IF end > Len(text) THEN <<text, <<>>>>
        ELSE <<SubSeq(text, 1, end - 1), SubSeq(text, end + 1, Len(text))>>
AuthReqFields(text) == SubSeq(string_split(text, 6), 1, 6)
MagicFields(text) == SubSeq(string_split(text, 6), 1, 6)    \* mail and pages
UserAddFields(text) == SubSeq(string_split(text, 5), 1, 5)
Pairs(fields) == IF Len(fields) % 2 = 0 THEN fields ELSE Front(fields)
CountedFields(count, rest) == Pairs(string_split(rest, StringtoUIN(count)))
ContactFields(text) ==
    LET end == SepFrom(text, 1)
    IN  IF end > Len(text) THEN <<>>
        ELSE CountedFields(SubSeq(text, 1, end - 1), SubSeq(text, end + 1, Len(text)))

Fields(type, text) ==
    CASE type = Type.URL -> URLFields(text)
      [] type = Type.AuthReq -> AuthReqFields(text)
      [] type \in {Type.EmailEx, Type.WebPager} -> MagicFields(text)
      [] type = Type.UserAdd -> UserAddFields(text)
      [] type = Type.Contact -> ContactFields(text)
      [] type \in {Type.Normal, Type.AuthRej} -> <<text>>
      [] OTHER -> <<>>

FTLayout == <<NullStr, U16, Skip(2), NullStr, U32, U16, Skip(2)>>
BodyLayout(type, advanced, ack) ==
    CASE type = Type.FT -> FTLayout
      [] type = Type.Normal /\ ack -> <<NullStr, Skip(8)>>
      [] type = Type.Normal /\ ~ack /\ advanced -> <<NullStr, U32, U32>>
      [] OTHER -> <<NullStr>>

ParsePriority_bug(ist, priority) ==     \* lenient to urgent messages as well
    [ist EXCEPT !.urgent = Bit(priority, 2), !.tolist = Bit(priority, 4) \/ priority \notin {0, 1}]
ParsePriority(ist, priority) ==
    [ist EXCEPT !.urgent = Bit(priority, 2),
                !.tolist = Bit(priority, 4) \/ (~Bit(priority, 2) /\ priority \notin {0, 1})]

\* The reader at the body, with the subtype it holds; status and priority were read before.
WithSubtype(body, type, status, priority, advanced, ack) ==
    LET fields == CASE type = Type.FT -> <<body.v[1], body.v[3]>>
                    [] type # Type.FT /\ ack -> <<>>
                    [] OTHER -> Fields(type, body.v[1])
        ist == [Subtype(type, fields) EXCEPT
                    !.status = status, !.advanced = advanced, !.ack = ack,
                    !.away = IF ack /\ type # Type.FT THEN body.v[1] ELSE <<>>,
                    !.numbers = IF type = Type.FT THEN <<body.v[5], body.v[2], body.v[4]>> ELSE @]
    IN  [body EXCEPT !.ist = ParsePriority(ist, priority)]
ParseBody(r, type, advanced, ack) ==
    WithSubtype(Read(r, BodyLayout(type, advanced, ack)), type, r.v[1], r.v[2], advanced, ack)
ParseAfter(head, advanced, ack) ==
    IF head.v[1] \notin Types THEN head
    ELSE ParseBody(IF advanced THEN Read(head, <<U16, U16>>) ELSE [head EXCEPT !.v = <<0, 0>>],
                   head.v[1], advanced, ack)
ParseICQSubType(r, advanced, ack) == ParseAfter(Read(r, <<U8, U8>>), advanced, ack)

-----------------------------------------------------------------------------
(* The SNACs of messages, without their headers.                            *)

Cookie(c) == BE(c, 4) \o Zeros(4)
Capability == [i \in 1 .. 16 |-> 9]     \* ICQServerRelay
\* The two subsections of advanced messages and of their acknowledgements.
Subsections(seq) ==
    LESized(LE(7, 2) \o Zeros(18) \o LE(3, 4) \o <<0>> \o LE(seq, 2)) \o LESized(LE(seq, 2) \o Zeros(12))

OnChannel4 == {Type.URL, Type.AuthReq, Type.AuthAcc, Type.AuthRej, Type.UserAdd}

\* The data of an advanced message, with its cookie again.
AdvData(cookie, message) ==
    BE(0, 2) \o cookie \o Capability \o BE(10, 2) \o BE(2, 2) \o BE(1, 2)
    \o BE(15, 2) \o BE(0, 2) \o BE(10001, 2) \o BESized(message)

\* MsgSendSNAC. A type that no channel carries leaves the packet without one.
MsgSend(ist, cookie) ==
    LET body == Output(ist)
        advanced == AdvData(Cookie(cookie), Subsections(ist.seq) \o body)
        text == BE(257, 2) \o BESized(BE(0, 2) \o BE(0, 2) \o ist.fields[1])
        dest == ByteString(UINtoString(ist.dest))
    IN  Cookie(cookie) \o
        CASE ist.advanced -> BE(2, 2) \o dest \o BE(5, 2) \o BESized(advanced) \o BE(3, 2) \o BE(0, 2)
          [] ~ist.advanced /\ ist.type = Type.Normal ->
                BE(1, 2) \o dest \o BE(2, 2) \o BESized(BE(1281, 2) \o BE(1, 2) \o <<1>> \o text)
                \o BE(6, 2) \o BE(0, 2)
          [] ~ist.advanced /\ ist.type \in OnChannel4 ->
                BE(4, 2) \o dest \o BE(5, 2) \o BESized(LE(ist.source, 4) \o body) \o BE(6, 2) \o BE(0, 2)
          [] OTHER -> BE(6, 2) \o BE(0, 2)

(* The TLVs of a list, to the end of the buffer: a list inside a TLV does   *)
(* not end with it. "count" is the most TLVs the list takes.                *)
TLVs(ParseTLV(_), r, count) ==
    LET after(prev, n) == IF n > count \/ prev.pos >= Len(r.data) THEN prev
                          ELSE ParseTLV(Read(prev, <<U16>>))
        list[n \in 0 .. Len(r.data)] == IF n = 0 THEN r ELSE after(list[n - 1], n)
    IN  list[Len(r.data)]
MaxTLVs == 65535

RawTLV(r) == LET raw == Read(r, <<U16>>) IN After(raw, raw.v[1])
MessageTextTLV(r) ==
    LET text == Read(r, <<U16, U16, U16, Str(Read(r, <<U16>>).v[1] - 4)>>)
    IN  [text EXCEPT !.ist = Subtype(Type.Normal, <<text.v[4]>>)]
ICQDataTLV(r) == ParseICQSubType(Read(r, <<U16, Little, U32>>), FALSE, FALSE)
\* The queries of other clients (18) are parsed and thrown away.
Numbered(message, seq) ==
    IF message.ist = NoSubtype THEN message ELSE [message EXCEPT !.ist.seq = seq]
AdvMsgBody(r) == IF r.v[3] = 14 THEN Numbered(ParseICQSubType(r, TRUE, FALSE), r.v[4]) ELSE r
AdvMsgBodyTLV(r) == AdvMsgBody(Read(r, <<U16, Skip(27), Little, U16, U16, U16, Skip(12)>>))

\* InTLV::ParseTLV in each of its modes; "head" has read the type.
InMessageData(head) == IF head.v[1] = 257 THEN MessageTextTLV(head) ELSE RawTLV(head)
InAdvMsgData(head) == IF head.v[1] = 10001 THEN AdvMsgBodyTLV(head) ELSE RawTLV(head)
MessageDataTLV(r) == TLVs(InMessageData, Read(r, <<U16>>), MaxTLVs)
AdvMsgDataTLV(r) == TLVs(InAdvMsgData, Read(r, <<U16, U16, Skip(8), Skip(16)>>), MaxTLVs)
MessageBlock(head) ==
    IF head.v[1] = 2 THEN MessageDataTLV(head)
    ELSE IF head.v[1] = 5 THEN ICQDataTLV(head) ELSE RawTLV(head)
AdvMsgBlock(head) == IF head.v[1] = 5 THEN AdvMsgDataTLV(head) ELSE RawTLV(head)

\* UserInfoBlock: a name, and TLVs that no message looks at.
ParseUserInfo(r) ==
    LET list(head) == [TLVs(RawTLV, head, head.v[3]) EXCEPT !.v = <<StringtoUIN(head.v[1])>>]
    IN  list(Read(r, <<ByteStr, U16, U16>>))

From(ist, uin) == IF ist = NoSubtype THEN ist ELSE [ist EXCEPT !.source = uin]

\* MessageSNAC: the cookie, and the subtype of the sender.
ParseMessage(r) ==
    LET block(info, channel) ==
            From(IF channel = 2 THEN TLVs(AdvMsgBlock, info, MaxTLVs).ist
                 ELSE TLVs(MessageBlock, info, MaxTLVs).ist, info.v[1])
        message(head) ==
            [cookie |-> head.v[1],
             ist |-> IF head.v[2] \notin {1, 2, 4} THEN NoSubtype
                     ELSE block(ParseUserInfo(head), head.v[2])]
    IN  message(Read(r, <<U32, Skip(4), U16>>))

MessageACK(ist, cookie) ==
    Cookie(cookie) \o BE(2, 2) \o ByteString(UINtoString(ist.source)) \o BE(3, 2)
    \o Subsections(ist.seq) \o Output(ist)

ParseMessageACK(r) ==
    LET from(message, uin) == [message EXCEPT !.ist = From(@, uin)]
        message(first, uin) ==
            from(Numbered(ParseICQSubType(After(first, first.v[1] - 2), TRUE, TRUE),
                          first.v[2]), uin)
        ack(head) ==
            [cookie |-> head.v[1],
             ist |-> message(Read(After(head, head.v[4]), <<U16, U16>>),
                             StringtoUIN(head.v[3])).ist]
    IN  ack(Read(r, <<U32, Skip(4), U16, ByteStr, Skip(2), Little, U16>>))

\* SrvAckOfflineSNAC, and SrvResponseSNAC with a stored message or without.
SrvAckOffline(uin) == BE(1, 2) \o BE(10, 2) \o LE(8, 2) \o LE(uin, 4) \o LE(62, 2) \o LE(0, 2)

ParseSrvResponse(r) ==
    LET message(from) == From(ParseICQSubType(from, FALSE, FALSE).ist, from.v[1])
        response(head) ==
            [command |-> head.v[5],
             ist |-> IF head.v[5] # 65 THEN NoSubtype
                     ELSE message(Read(head, <<U32, U16, U8, U8, U8, U8>>))]
    IN  response(Read(r, <<U16, U16, Little, U16, U32, U16, U16>>))

-----------------------------------------------------------------------------
(* FLAPs. The frames that are complete leave the buffer, the rest waits.    *)

FLAP(family, subtype, body) ==
    LET snac == BE(family, 2) \o BE(subtype, 2) \o BE(0, 2) \o BE(0, 4) \o body
    IN  <<42, 2>> \o BE(0, 2) \o BESized(snac)

\* One turn of the loop of Client::Parse, and the loop.
ParseFLAP(p) ==
    LET size == Read(Reader(p.recv), <<U8, U8, U16, U16>>).v[4] + 6
    IN  IF p.recv = <<>> THEN p
        ELSE IF p.recv[1] # 42 THEN [p EXCEPT !.recv = <<>>]
        ELSE IF Len(p.recv) < 6 \/ Len(p.recv) < size THEN p
        ELSE [recv |-> SubSeq(p.recv, size + 1, Len(p.recv)),
              frames |-> Append(p.frames, SubSeq(p.recv, 1, size))]
Parse(recv) ==
    LET turn[i \in 0 .. Len(recv)] ==
            IF i = 0 THEN [recv |-> recv, frames |-> <<>>] ELSE ParseFLAP(turn[i - 1])
    IN  turn[Len(recv)]

\* ParseSNAC of a frame: its family, its subtype, and the reader at its body.
ParseSNAC(frame) ==
    LET snac(r) == [family |-> r.v[1], subtype |-> r.v[2], r |-> r]
    IN  snac(Read(After(Reader(frame), 6), <<U16, U16, U16, U32>>))

-----------------------------------------------------------------------------
(* Packets between clients. Encrypt hides the check of the packet under two *)
(* of its bytes, and its head under a key that sizes and check give.        *)

Command == [START |-> 2030, ACK |-> 2010]
Packet(command, ist) ==
    Zeros(4) \o LE(command, 2) \o LE(14, 2) \o LE(ist.seq, 2) \o Zeros(12) \o Output(ist)

\* These stand for the table of check data and the bytes of the key.
CheckData(i) == (7 * i + 73) % 256
KeyByte(size, check, i) == (size + check[1] + 3 * check[2] + 5 * check[3] + 7 * check[4] + i) % 256

\* Bytes 4 .. 4 + 4k - 1 of the data, k the steps of "for (i = 4; i < (size + 3) / 4; i += 4)".
Keyed(data, size, check) ==
    LET k == Cardinality({i \in 4 .. (size + 3) \div 4 : i % 4 = 0 /\ i < (size + 3) \div 4})
    IN  [i \in DOMAIN data |-> IF i - 1 \in 4 .. 4 * k + 3 THEN data[i] ^^ KeyByte(size, check, i) ELSE data[i]]

Correction(version) == IF version = 7 THEN 3 ELSE 2
\* The four bytes of the check, the lowest first: B1 is two bytes of the data, twice.
Check(data, m1, x1, x2, x3) == <<x3 ^^ data[7], x2 ^^ data[5], x1 ^^ data[7], m1 ^^ data[5]>>

Encrypt(in, version, m1, x2) ==
    LET check == Check(in, m1, in[m1 + 1] ^^ 255, x2, CheckData(x2) ^^ 255)
        head == IF version = 7 THEN LE(Len(in) + 1, 2) \o <<2>> ELSE LE(Len(in), 2)
    IN  head \o check \o SubSeq(Keyed(in, Len(in), check), 5, Len(in))

\* The deciphered packet, and whether its check is right.
Decrypt(in, version) ==
    LET c == Correction(version)
        size == Len(in) - c
        check == SubSeq(in, c + 1, c + 4)
        data == Keyed(SubSeq(in, c + 1, Len(in)), size, check)
        b1 == Check(data, check[4], check[3], check[2], check[1])
        m1 == b1[4]
    IN  [packet |-> SubSeq(in, 1, c) \o data,
         ok |-> /\ m1 \in 10 .. size - 1
                /\ b1[3] = data[m1 + 1] ^^ 255
                /\ b1[2] < 220 => b1[1] = CheckData(b1[2]) ^^ 255]

\* ParsePacketInt up to the subtype: the command and the subtype, or neither.
ParsePacket(in, version) ==
    LET start == IF version = 7 THEN <<U8>> ELSE <<>>
        neither == [command |-> 0, ist |-> NoSubtype]
        packet(command, ist, seq) ==
            IF ist = NoSubtype THEN neither ELSE [command |-> command, ist |-> [ist EXCEPT !.seq = seq]]
        body(r, n) ==
            IF (version = 7 /\ r.v[2] # 2) \/ r.v[n - 1] # 14 THEN neither
            ELSE packet(r.v[n - 2], ParseICQSubType(r, TRUE, r.v[n - 2] = Command.ACK).ist, r.v[n])
        checked(out) ==
            IF ~out.ok THEN neither
            ELSE body(Read(Reader(out.packet),
                           <<Little, U16>> \o start \o <<Skip(4), U16, U16, U16, Skip(12)>>),
                      4 + Len(start))
    IN  checked(Decrypt(in, version))
===============================================================================
