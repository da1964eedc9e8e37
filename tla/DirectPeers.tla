------------------------------ MODULE DirectPeers ------------------------------
(***************************************************************************)
(* Both ends of one direct connection: two DirectClients                   *)
(* (src/src/DirectClient.cpp), one that called and one that was called,    *)
(* their handshake, the messages and file transfer requests they number,   *)
(* and the acknowledges and cancellations that name those numbers.         *)
(*                                                                         *)
(* Module Delivery has one end of every connection of a client, and takes  *)
(* the packets of the other end as they come; here both ends are the code. *)
(* Of the loop of Recv an action is one packet. A timeout may strike at    *)
(* any Poll, and two entries of a cache are inserted in different seconds. *)
(* An event is sent once (FileTransfer has a request that is sent again),  *)
(* and of other connections between the two there are only the requests    *)
(* they left behind, which are answered over this one.                     *)
(***************************************************************************)
EXTENDS Integers, Sequences, SequencesExt

CONSTANTS
    Messages,       \* MessageEvents that are no file transfers
    Requests,       \* FileTransferEvents
    Callers,        \* those of both that the calling side sends
    Earlier,        \* Requests that an earlier connection told, not answered yet
    Foreign,        \* numbers that requests have from elsewhere: the Earlier ones, and
                    \* those of this connection, by their constructor, until they are sent
    Published       \* TCP versions the caller may have been told of the other

Events == Messages \cup Requests
Number == {n \in Nat : n < 65536}    \* of packets: an unsigned short
ASSUME Separate == Messages \cap Requests = {} /\ Callers \subseteq Events
ASSUME EarlierOnes == Earlier \subseteq Requests /\ Foreign \subseteq Number
ASSUME Versions == Published \subseteq Nat

VARIABLES
    m_state,        \* DirectClient::m_state of each side
    remote_version, \* m_remote_tcp_version of each side
    early,          \* the caller sent an ACK or a CANCEL in the middle of its handshake
    m_seqnum,       \* the number each side gives to its next packet
    m_msgqueue,     \* messages that wait for the handshake
    m_msgcache,     \* [seqnum, ev]: own messages and the peer's file requests
    wire,           \* packets on their way to each side
    number,         \* the number each event was sent under, -1 if it was not
    sent,           \* fate of each event on the side that sends it
    asked,          \* fate of each file request on the side it is sent to
    handled,        \* messages and requests each side was told of, in order
    undefined       \* an event was used as what it is not

linkVars == <<m_state, remote_version, early>>
vars == <<linkVars, m_seqnum, m_msgqueue, m_msgcache, wire, number, sent, asked, handled, undefined>>

-----------------------------------------------------------------------------

Sides == {"caller", "called"}
Other(s) == CHOOSE t \in Sides : t # s
Sender(e) == IF e \in Callers THEN "caller" ELSE "called"

\* CONNECTING is WAITING_FOR_INIT_ACK with the socket in NONBLOCKING_CONNECT.
States == {"NOT_CONNECTED", "CONNECTING", "WAITING_FOR_INIT", "WAITING_FOR_INIT_ACK",
           "WAITING_FOR_INIT2", "CONNECTED", "GONE"}

\* m_eff_tcp_version: the version both speak, as each side computes it.
EffVersion(s) == IF remote_version[s] >= 7 THEN 7 ELSE remote_version[s]

\* m_seqnum is an unsigned short, 0xffff at first.
Wrap(n) == n % 65536

Init ==
    /\ m_state = [s \in Sides |-> "NOT_CONNECTED"]
    /\ remote_version = [s \in Sides |-> 0]
    /\ early = FALSE
    /\ m_seqnum = [s \in Sides |-> Wrap(-1)]
    /\ m_msgqueue = [s \in Sides |-> <<>>]
    /\ m_msgcache = [s \in Sides |-> <<>>]
    /\ wire = [s \in Sides |-> <<>>]
    /\ \E foreign \in [Earlier -> Foreign] :
         number = [e \in Events |-> IF e \in Earlier THEN foreign[e] ELSE -1]
    /\ sent = [e \in Events |-> IF e \in Earlier THEN "expired" ELSE "new"]
    /\ asked = [e \in Requests |-> IF e \in Earlier THEN "expired" ELSE "new"]
    /\ handled = [s \in Sides |-> <<>>]
    /\ undefined = FALSE

-----------------------------------------------------------------------------
(* The cache of a connection, and packets.                                  *)

Entries(s, n) == {i \in DOMAIN m_msgcache[s] : m_msgcache[s][i].seqnum = n}
exists(s, n) == Entries(s, n) # {}

Removed_bug(s, n) == Front(m_msgcache[s])    \* the newest entry goes

\* lookup finds the first entry with the number.
Lookup(s, n) == CHOOSE i \in Entries(s, n) : \A j \in Entries(s, n) : i <= j

Removed(s, n) == RemoveAt(m_msgcache[s], Lookup(s, n))

\* The entries q that are left when all with number n are removed.
Without(q, n) ==
    LET kept[i \in 0 .. Len(q)] ==
          IF i = 0 THEN <<>>
          ELSE IF q[i].seqnum = n THEN kept[i - 1] ELSE Append(kept[i - 1], q[i])
    IN  kept[Len(q)]

\* Packets of s to the other side; the ones to a connection that is gone are lost.
SendTo(t, w, packets) == [w EXCEPT ![t] = IF m_state[t] = "GONE" THEN @ ELSE @ \o packets]
Receive(s) == [wire EXCEPT ![s] = Tail(@)]

Numbered_bug(s, list) ==    \* the number is read once
    [i \in DOMAIN list |-> [seqnum |-> m_seqnum[s], ev |-> list[i]]]
\* SendPacketEvent for each of a list of events: the numbers they are sent with.
Numbered(s, list) == [i \in DOMAIN list |-> [seqnum |-> Wrap(m_seqnum[s] - (i - 1)), ev |-> list[i]]]
Starts(entries) == [i \in DOMAIN entries |-> [type |-> "START", seqnum |-> entries[i].seqnum, ev |-> entries[i].ev]]

\* Side s sends a list of events with w the wires so far, and remembers them. A
\* request that was taken back while it was queued is sent like any other.
SendPacketEvents(s, list, w) ==
    LET entries == Numbered(s, list) IN
    /\ m_seqnum' = [m_seqnum EXCEPT ![s] = Wrap(@ - Len(list))]
    /\ m_msgcache' = [m_msgcache EXCEPT ![s] = @ \o entries]
    /\ wire' = SendTo(Other(s), w, Starts(entries))
    /\ number' = [e \in Events |->
                    IF e \in ToSet(list) THEN entries[CHOOSE i \in DOMAIN list : list[i] = e].seqnum
                    ELSE number[e]]
    /\ sent' = [e \in Events |-> IF e \in ToSet(list) /\ sent[e] # "withdrawn" THEN "pending" ELSE sent[e]]

Expired_bug(s) ==    \* the queue is forgotten
    LET held == {m_msgcache[s][i].ev : i \in DOMAIN m_msgcache[s]} IN
    [e \in Events |-> IF e \in held /\ Sender(e) = s THEN "expired" ELSE sent[e]]

\* expireAll, and then the queue: what the end of side s does to the events it sends.
Expired(s) ==
    LET held == {m_msgcache[s][i].ev : i \in DOMAIN m_msgcache[s]} IN
    [e \in Events |-> IF e \in held \cup ToSet(m_msgqueue[s]) /\ Sender(e) = s
                      THEN "expired" ELSE sent[e]]

\* ~DirectClient of side s, and after it the events it sends have the given fates.
Destroy(s, fates) ==
    LET held == {m_msgcache[s][i].ev : i \in DOMAIN m_msgcache[s]} IN
    /\ m_state' = [m_state EXCEPT ![s] = "GONE"]
    /\ sent' = fates
    /\ asked' = [e \in Requests |-> IF e \in held /\ Sender(e) # s THEN "expired" ELSE asked[e]]
    /\ m_msgqueue' = [m_msgqueue EXCEPT ![s] = <<>>]
    /\ m_msgcache' = [m_msgcache EXCEPT ![s] = <<>>]
    /\ wire' = [wire EXCEPT ![s] = <<>>]
    /\ UNCHANGED <<remote_version, early, m_seqnum, number, handled, undefined>>

-----------------------------------------------------------------------------
(* The handshake.                                                           *)

\* SendInitPacket: version 7 is claimed to any peer.
InitPacket(version) == [type |-> "INIT", version |-> 7, long |-> version >= 7]
Ack == [type |-> "INIT_ACK"]

\* SendInit2 and ParseInit2: the last packet of a handshake of version 7.
Init2(s) == [type |-> "INIT2", incoming |-> s = "called"]

\* Connect: the caller begins a connect that does not block.
Connect(version) ==
    /\ m_state["caller"] = "NOT_CONNECTED" /\ version >= 6
    /\ m_state' = [m_state EXCEPT !["caller"] = "CONNECTING"]
    /\ remote_version' = [remote_version EXCEPT !["caller"] = version]
    /\ UNCHANGED <<early, m_seqnum, m_msgqueue, m_msgcache, wire, number, sent, asked, handled, undefined>>

\* The called side accepts, and with FinishNonBlockingConnect the caller sends INIT.
FinishNonBlockingConnect ==
    /\ m_state["caller"] = "CONNECTING"
    /\ m_state' = [caller |-> "WAITING_FOR_INIT_ACK", called |-> "WAITING_FOR_INIT"]
    /\ wire' = [wire EXCEPT !["called"] = <<InitPacket(remote_version["caller"])>>]
    /\ UNCHANGED <<remote_version, early, m_seqnum, m_msgqueue, m_msgcache, number, sent, asked,
                   handled, undefined>>

\* What a packet of the handshake must be, or the connection is torn down.
Expected(s, p) ==
    \/ /\ m_state[s] = "WAITING_FOR_INIT" /\ p.type = "INIT"
       /\ IF s = "called" THEN p.version > 5 ELSE p.version = remote_version[s]
    \/ m_state[s] = "WAITING_FOR_INIT_ACK" /\ p.type = "INIT_ACK"
    \/ m_state[s] = "WAITING_FOR_INIT2" /\ p.type = "INIT2"

\* ParseInitPacket: our ACK, and the called side's own INIT or the INIT2 that a
\* handshake of version 7 goes on with.
ParseInitPacket(s) ==
    LET p == Head(wire[s])
        version == IF s = "called" THEN p.version ELSE remote_version[s]
    IN
    /\ m_state[s] = "WAITING_FOR_INIT" /\ wire[s] # <<>> /\ Expected(s, p)
    /\ remote_version' = [remote_version EXCEPT ![s] = version]
    /\ m_state' = [m_state EXCEPT ![s] =
                     IF s = "called" THEN "WAITING_FOR_INIT_ACK" ELSE "WAITING_FOR_INIT2"]
    /\ wire' = SendTo(Other(s), Receive(s),
                 IF s = "called"
                 THEN <<Ack, InitPacket(version)>>
                 ELSE <<Ack, Init2(s)>>)
    /\ s = "caller" => EffVersion(s) = 7
    /\ UNCHANGED <<early, m_seqnum, m_msgqueue, m_msgcache, number, sent, asked, handled, undefined>>

ParseInitAck_bug(s) ==    \* the called side does not wait for INIT2
    /\ m_state[s] = "WAITING_FOR_INIT_ACK" /\ wire[s] # <<>> /\ Expected(s, Head(wire[s]))
    /\ m_state' = [m_state EXCEPT ![s] = IF s = "called" THEN "CONNECTED" ELSE "WAITING_FOR_INIT"]
    /\ wire' = Receive(s)
    /\ UNCHANGED <<remote_version, early, m_seqnum, m_msgqueue, m_msgcache, number, sent, asked, handled, undefined>>

\* ParseInitAck: the caller then awaits INIT, the called side INIT2.
ParseInitAck(s) ==
    /\ m_state[s] = "WAITING_FOR_INIT_ACK" /\ wire[s] # <<>> /\ Expected(s, Head(wire[s]))
    /\ s = "called" => EffVersion(s) = 7
    /\ m_state' = [m_state EXCEPT ![s] = IF s = "called" THEN "WAITING_FOR_INIT2" ELSE "WAITING_FOR_INIT"]
    /\ wire' = Receive(s)
    /\ UNCHANGED <<remote_version, early, m_seqnum, m_msgqueue, m_msgcache, number, sent, asked, handled, undefined>>

\* ParseInit2: the called side answers it and confirms the caller's UIN; then
\* both are connected, and flush_queue sends what waited.
ParseInit2(s) ==
    /\ m_state[s] = "WAITING_FOR_INIT2" /\ wire[s] # <<>> /\ Expected(s, Head(wire[s]))
    /\ m_state' = [m_state EXCEPT ![s] = "CONNECTED"]
    /\ SendPacketEvents(s, m_msgqueue[s],
         IF s = "called" THEN SendTo(Other(s), Receive(s), <<Init2(s)>>) ELSE Receive(s))
    /\ m_msgqueue' = [m_msgqueue EXCEPT ![s] = <<>>]
    /\ UNCHANGED <<remote_version, early, asked, handled, undefined>>

\* A packet is not the one of the handshake that is expected, or ConfirmUIN
\* refuses the caller, after INIT2 was sent.
Refuse(s) ==
    /\ m_state[s] \in {"WAITING_FOR_INIT", "WAITING_FOR_INIT_ACK", "WAITING_FOR_INIT2"}
    /\ wire[s] # <<>>
    /\ ~Expected(s, Head(wire[s])) \/ (s = "called" /\ m_state[s] = "WAITING_FOR_INIT2")
    /\ Destroy(s, Expired(s))

\* The connection times out, the session ends, or the peer has closed it.
Close(s) ==
    /\ m_state[s] \notin {"NOT_CONNECTED", "GONE"}
    /\ Destroy(s, Expired(s))

-----------------------------------------------------------------------------
(* Messages, requests, and what is said of them.                            *)

\* SendEvent: at once over a finished connection, or queued by the caller.
SendEvent(e) ==
    LET s == Sender(e) IN
    /\ sent[e] = "new"
    /\ \/ /\ m_state[s] = "CONNECTED"
          /\ SendPacketEvents(s, <<e>>, wire)
          /\ UNCHANGED m_msgqueue
       \/ /\ s = "caller" /\ m_state[s] \notin {"NOT_CONNECTED", "CONNECTED", "GONE"}
          /\ m_msgqueue' = [m_msgqueue EXCEPT ![s] = Append(@, e)]
          /\ sent' = [sent EXCEPT ![e] = "queued"]
          /\ UNCHANGED <<m_seqnum, m_msgcache, wire, number>>
    /\ UNCHANGED <<linkVars, asked, handled, undefined>>

\* ParsePacketInt, V6_TCP_START: a message is told and acknowledged, a request
\* is told and kept under the number its sender gave it.
ParseStart(s) ==
    LET p == Head(wire[s]) IN
    /\ m_state[s] = "CONNECTED" /\ wire[s] # <<>> /\ p.type = "START"
    /\ handled' = [handled EXCEPT ![s] = Append(@, p.ev)]
    /\ IF p.ev \in Requests
       THEN /\ asked' = [asked EXCEPT ![p.ev] = "asked"]
            /\ m_msgcache' = [m_msgcache EXCEPT ![s] = Append(@, [seqnum |-> p.seqnum, ev |-> p.ev])]
            /\ wire' = Receive(s)
       ELSE /\ wire' = SendTo(Other(s), Receive(s), <<[type |-> "ACK", seqnum |-> p.seqnum, ev |-> p.ev]>>)
            /\ UNCHANGED <<asked, m_msgcache>>
    /\ UNCHANGED <<linkVars, m_seqnum, m_msgqueue, number, sent, undefined>>

ParseAck_bug(s) ==    \* answers are taken in the order of the packets
    LET p == Head(wire[s]) IN
    /\ m_state[s] = "CONNECTED" /\ wire[s] # <<>> /\ p.type = "ACK" /\ m_msgcache[s] # <<>>
    /\ wire' = Receive(s)
    /\ sent' = [sent EXCEPT ![Head(m_msgcache[s]).ev] = "acked"]
    /\ m_msgcache' = [m_msgcache EXCEPT ![s] = Tail(@)]
    /\ UNCHANGED <<linkVars, m_seqnum, m_msgqueue, number, asked, handled, undefined>>

\* ParsePacketInt, V6_TCP_ACK: the first entry with the number is settled. A
\* file request that meets the acknowledge of a message is taken for what it is
\* not, and deleted.
ParseAck(s) ==
    LET p == Head(wire[s])
        found == m_msgcache[s][Lookup(s, p.seqnum)].ev
    IN
    /\ m_state[s] = "CONNECTED" /\ wire[s] # <<>> /\ p.type = "ACK"
    /\ wire' = Receive(s)
    /\ IF exists(s, p.seqnum)
       THEN /\ m_msgcache' = [m_msgcache EXCEPT ![s] = Removed(s, p.seqnum)]
            /\ sent' = [sent EXCEPT ![found] = IF Sender(found) = s THEN "acked" ELSE @]
            /\ undefined' = (found \in Requests /\ p.ev \notin Requests)
       ELSE UNCHANGED <<m_msgcache, sent, undefined>>
    /\ UNCHANGED <<linkVars, m_seqnum, m_msgqueue, number, asked, handled>>

\* ParsePacketInt, V6_TCP_CANCEL: a file request under the number is ended.
ParseCancel(s) ==
    LET p == Head(wire[s])
        found == m_msgcache[s][Lookup(s, p.seqnum)].ev
    IN
    /\ m_state[s] = "CONNECTED" /\ wire[s] # <<>> /\ p.type = "CANCEL"
    /\ wire' = Receive(s)
    /\ IF exists(s, p.seqnum) /\ found \in Requests
       THEN /\ m_msgcache' = [m_msgcache EXCEPT ![s] = Removed(s, p.seqnum)]
            /\ asked' = IF Sender(found) # s THEN [asked EXCEPT ![found] = "cancelled"] ELSE asked
            /\ sent' = IF Sender(found) = s THEN [sent EXCEPT ![found] = "cancelled"] ELSE sent
       ELSE UNCHANGED <<m_msgcache, asked, sent>>
    /\ UNCHANGED <<linkVars, m_seqnum, m_msgqueue, number, handled, undefined>>

\* An ACK or a CANCEL of side s, which is sent whatever the state is. What the
\* caller sends before its INIT_ACK and INIT2 the peer reads instead of them.
Tells(s, p) ==
    /\ wire' = SendTo(Other(s), wire, <<p>>)
    /\ early' = (early \/ m_state[s] \in {"WAITING_FOR_INIT_ACK", "WAITING_FOR_INIT"})
    /\ UNCHANGED <<m_state, remote_version>>

\* The application of side s has a connection to use: the called side knows
\* only at the end of the handshake whom it is connected to.
Usable(s) == m_state[s] = "CONNECTED" \/ (s = "caller" /\ m_state[s] \notin {"NOT_CONNECTED", "GONE"})

\* SendFTACK: the application answers a request, of this connection or an
\* earlier one, and whatever is kept under its number is forgotten. If the
\* connection is not up yet the Send fails, and ends it.
SendFTACK(r) ==
    LET s == Other(Sender(r)) IN
    /\ Usable(s) /\ asked[r] \in {"asked", "expired"}
    /\ \/ /\ m_state[s] # "CONNECTING"
          /\ Tells(s, [type |-> "ACK", seqnum |-> number[r], ev |-> r])
          /\ asked' = [asked EXCEPT ![r] = "answered"]
          /\ m_msgcache' = [m_msgcache EXCEPT ![s] = Without(@, number[r])]
          /\ UNCHANGED <<m_seqnum, m_msgqueue, number, sent, handled, undefined>>
       \/ m_state[s] = "CONNECTING" /\ Destroy(s, Expired(s))

SendFTCancel_bug(r) ==    \* the entry stays in the cache
    LET s == Sender(r) IN
    /\ m_state[s] = "CONNECTED" /\ sent[r] = "pending"
    /\ sent' = [sent EXCEPT ![r] = "cancelled"]
    /\ Tells(s, [type |-> "CANCEL", seqnum |-> number[r], ev |-> r])
    /\ UNCHANGED <<m_seqnum, m_msgqueue, m_msgcache, number, asked, handled, undefined>>

\* SendFTCancel: the application takes back a request that waits for an answer.
\* If that is queued it stays so, and is sent later on. If the connection is not
\* up yet the Send fails, and ends it and the request.
SendFTCancel(r) ==
    LET s == Sender(r) IN
    /\ Usable(s) /\ sent[r] \in {"queued", "pending"}
    /\ \/ /\ m_state[s] # "CONNECTING"
          /\ \E n \in IF sent[r] = "queued" THEN Foreign ELSE {number[r]} :
               /\ Tells(s, [type |-> "CANCEL", seqnum |-> n, ev |-> r])
               /\ m_msgcache' = [m_msgcache EXCEPT ![s] = IF exists(s, n) THEN Removed(s, n) ELSE @]
          /\ sent' = [sent EXCEPT ![r] = IF @ = "queued" THEN "withdrawn" ELSE "cancelled"]
          /\ UNCHANGED <<m_seqnum, m_msgqueue, number, asked, handled, undefined>>
       \/ m_state[s] = "CONNECTING" /\ Destroy(s, [Expired(s) EXCEPT ![r] = "cancelled"])

\* clearoutMessagesPoll: the oldest entry of a cache times out.
Expire(s) ==
    /\ m_msgcache[s] # <<>>
    /\ LET e == Head(m_msgcache[s]).ev IN
       IF Sender(e) = s
       THEN sent' = [sent EXCEPT ![e] = "expired"] /\ UNCHANGED asked
       ELSE asked' = [asked EXCEPT ![e] = "expired"] /\ UNCHANGED sent
    /\ m_msgcache' = [m_msgcache EXCEPT ![s] = Tail(@)]
    /\ UNCHANGED <<linkVars, m_seqnum, m_msgqueue, wire, number, handled, undefined>>

-----------------------------------------------------------------------------

Parse(s) == ParseInitPacket(s) \/ ParseInitAck(s) \/ ParseInit2(s) \/ Refuse(s)
            \/ ParseStart(s) \/ ParseAck(s) \/ ParseCancel(s)

Next ==
    /\ ~undefined
    /\ \/ \E version \in Published : Connect(version)
       \/ FinishNonBlockingConnect
       \/ \E s \in Sides : Parse(s) \/ Close(s) \/ Expire(s)
       \/ \E e \in Events : SendEvent(e)
       \/ \E r \in Requests : SendFTACK(r) \/ SendFTCancel(r)

\* Sockets are served and Poll is called: what is sent is read, what is not
\* answered times out, and so does a handshake that does not end.
Fairness ==
    \A s \in Sides :
        /\ WF_vars(~undefined /\ Parse(s))
        /\ WF_vars(~undefined /\ Expire(s))
        /\ WF_vars(~undefined /\ m_state[s] # "CONNECTED" /\ Close(s))

Spec == Init /\ [][Next]_vars /\ Fairness

-----------------------------------------------------------------------------

Entry == [seqnum : Number, ev : Events]
Packet == [type : {"INIT"}, version : Nat, long : BOOLEAN] \cup [type : {"INIT_ACK"}]
          \cup [type : {"INIT2"}, incoming : BOOLEAN]
          \cup [type : {"START", "ACK", "CANCEL"}, seqnum : Number, ev : Events]

\* A queued request that is taken back is withdrawn: the application has ended it,
\* and yet it is sent, and acknowledged or given up.
Fates == {"new", "queued", "pending", "withdrawn", "acked", "expired", "cancelled"}
Askings == {"new", "asked", "answered", "expired", "cancelled"}

TypeOK ==
    /\ m_state \in [Sides -> States]
    /\ remote_version \in [Sides -> Nat]
    /\ early \in BOOLEAN
    /\ m_seqnum \in [Sides -> Number]
    /\ m_msgqueue \in [Sides -> Seq(Events)]
    /\ m_msgcache \in [Sides -> Seq(Entry)]
    /\ wire \in [Sides -> Seq(Packet)]
    /\ number \in [Events -> Number \cup {-1}]
    /\ sent \in [Events -> Fates]
    /\ asked \in [Requests -> Askings]
    /\ handled \in [Sides -> Seq(Events)]
    /\ undefined \in BOOLEAN

Dialogue == {"START", "ACK", "CANCEL"}

\* Neither side takes a packet of the dialogue for one of the handshake, or the
\* other way round: but for an ACK or a CANCEL that the caller sends in the
\* middle of its handshake, and then neither side is ever connected.
HandshakeAgrees ==
    \A s \in Sides :
        \/ wire[s] # <<>> => (Head(wire[s]).type \in Dialogue <=> m_state[s] = "CONNECTED")
        \/ early /\ s = "called" /\ \A t \in Sides : m_state[t] # "CONNECTED"

\* Another event has gone under the number of e: a request of the peer, which
\* has come, now or over an earlier connection, or, once the numbers wrap, one
\* of the same sender.
Crossed(e) ==
    \E f \in Events \ {e} :
        /\ number[f] = number[e] /\ number[e] # -1
        /\ Sender(f) = Sender(e) \/ (f \in Requests /\ asked[f] # "new")

\* What is told to the application of one side is what the other sent, in that
\* order and without a gap, up to the end of the connection.
ToldInOrder ==
    \A s \in Sides : \A i \in DOMAIN handled[s] :
        /\ Sender(handled[s][i]) = Other(s)
        /\ number[handled[s][i]] = Wrap(-i)

\* A message that is acknowledged was told to the application of the peer, and
\* a request that is answered was answered there, unless numbers have crossed.
AckedWasTold ==
    \A e \in Events : sent[e] = "acked" /\ ~Crossed(e) =>
        /\ e \in ToSet(handled[Other(Sender(e))])
        /\ e \in Requests => asked[e] = "answered"

\* The event of a message persists in the cache until it is confirmed or given
\* up, unless numbers have crossed.
PendingIsKept ==
    \A e \in Events : sent[e] = "pending" /\ ~Crossed(e) =>
        \E i \in DOMAIN m_msgcache[Sender(e)] : m_msgcache[Sender(e)][i].ev = e

\* The fate of an event is settled once: neither a late answer, nor a timeout
\* after it, nor the end of the connection changes it, unless numbers have
\* crossed. (A request that is withdrawn is settled by what comes after that.)
SettledOnce ==
    [][\A e \in Events : sent[e] \in {"acked", "expired", "cancelled"} /\ ~Crossed(e)
                         => sent'[e] = sent[e]]_vars

\* Every event that was handed to the connection is settled, as long as the
\* numbers of messages and requests do not cross.
Settles ==
    [](\A e \in Events : ~Crossed(e)) =>
        \A e \in Events : sent[e] \in {"queued", "pending", "withdrawn"}
                         ~> sent[e] \in {"acked", "expired", "cancelled"}

===============================================================================
