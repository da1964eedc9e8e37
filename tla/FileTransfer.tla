----------------------------- MODULE FileTransfer -----------------------------
(***************************************************************************)
(* One file transfer between two users of the library: the request and its *)
(* answer (SendFileTransfer, SendFileTransferACK, CancelFileTransfer in    *)
(* src/src/Client.cpp), and then the FileTransferClients of both sides     *)
(* (src/src/FileTransferClient.cpp) over a connection of their own.        *)
(*                                                                         *)
(* An action is one call into the library on one side; of the loop of Recv *)
(* an action is one packet, since the other side may act between two. The  *)
(* sizes of files are counted in packets of data (2048 bytes). A timeout   *)
(* may strike at any Poll. What a libicq2000 peer cannot send (another     *)
(* UIN, another session, an offset other than 0) is left out. The numbers  *)
(* of requests are counted up, and never meet again (see DirectPeers).     *)
(***************************************************************************)
EXTENDS Naturals, Sequences

CONSTANTS
    FileLists,  \* the lists of entries [kind, size] that may be sent: SendFileTransfer
                \* asks for one that is set up
    Published,  \* TCP versions that the sender may have been told of the receiver
    MaxCalls,   \* bound: calls of SendFileTransfer that ask
    Window      \* bound: packets on their way to the receiver

Kinds == {"file", "dir", "other"}
ASSUME Lists ==
    /\ Window \in Nat \ {0} /\ MaxCalls \in Nat /\ Published \subseteq Nat
    /\ FileLists \subseteq Seq([kind : Kinds, size : Nat]) \ {<<>>}
    /\ \A list \in FileLists : \A i \in 1..Len(list) :    \* announced with size 0
         list[i].kind = "dir" => list[i].size = 0

VARIABLES
    sent,       \* the list of files as it was when the transfer was asked for
    direct,     \* is the request made over a direct connection or the server
    m_files,    \* FileTransferEvent::m_files of the sender: not yet announced
    ev,         \* the FileTransferEvent of each side
    calls,      \* how often the sending application has asked
    twice,      \* it last did so when something of the event was still at work
    seq,        \* the number of the event: that of the last request sent, 0 if none
    queued,     \* how often the event is in m_msgqueue of the sender
    cached,     \* the requests in m_msgcache (direct) or m_cookiecache (server)
    asked,      \* the request that the event of the receiver is of
    aside,      \* requests whose events the receiving application leaves aside
    answered,   \* has the receiving application answered `asked`
    control,    \* requests, answers and cancellations under way to each side
    ftc,        \* the FileTransferClient of each side
    data,       \* packets on their way to each side (external)
    stored,     \* what the receiver has given to mkdir, open and write, and counted
    disk,       \* what is there: how much of each entry, and what failed unnoticed
    undefined   \* memory was used that was deleted or never initialised

askVars == <<calls, twice, seq, queued>>
askedVars == <<asked, aside, answered>>
requestVars == <<sent, direct, askVars, askedVars>>
vars == <<requestVars, m_files, ev, cached, control, ftc, data, stored, disk, undefined>>

-----------------------------------------------------------------------------

Sides == {"sender", "receiver"}
Other(s) == CHOOSE t \in Sides : t # s

EventStates == {"NONE", "NOT_CONNECTED", "SEND", "RECEIVE", "WAIT_RESPONS",
                "ACCEPTED", "REJECTED", "ERROR", "COMPLETE", "CANCELLED", "TIMEOUT"}
Ended == {"ERROR", "CANCELLED", "COMPLETE"}

ClientStates == {"NONE", "WAITING_FOR_INIT", "WAITING_FOR_INIT_ACK", "CONNECTED"}

\* What m_socket of a client is; the constructor of an incoming one leaves it
\* unset, and what it then holds is zero or not.
Sockets == {"ZERO", "GARBAGE", "NONBLOCKING_CONNECT", "CONNECTED"}
Unset == {"ZERO", "GARBAGE"}

Client(state, socket) ==
    [m_state |-> state, m_socket |-> socket, m_more |-> FALSE, m_continue |-> FALSE,
     m_msgqueue |-> FALSE, m_senddir |-> FALSE, m_remote_tcp_version |-> 0]
NoClient == Client("NONE", "ZERO")

Event(state, files) ==
    [state |-> state, told |-> state, size |-> 0, pos |-> 0, totalPos |-> 0,
     totalSize |-> 0, totalFiles |-> files, currFile |-> 0]

\* The application is told the state of the event (filetransfer_update_signal).
Told(e) == [e EXCEPT !.told = e.state]

\* The number of packets of data in a list of entries.
Content(list) ==
    LET f[i \in 0..Len(list)] == IF i = 0 THEN 0 ELSE f[i-1] + list[i].size
    IN  f[Len(list)]

Init ==
    /\ sent \in FileLists
    /\ direct \in BOOLEAN
    /\ m_files = sent
    /\ ev = [s \in Sides |-> IF s = "sender" THEN Event("NOT_CONNECTED", 0) ELSE Event("NONE", 0)]
    /\ calls = 0 /\ twice = FALSE /\ seq = 0 /\ queued = 0
    /\ cached = [s \in Sides |-> {}]
    /\ asked = 0 /\ aside = {} /\ answered = FALSE
    /\ control = [s \in Sides |-> <<>>]
    /\ ftc = [s \in Sides |-> NoClient]
    /\ data = [s \in Sides |-> <<>>]
    /\ stored = <<>> /\ disk = [got |-> <<>>, failed |-> {}]
    /\ undefined = FALSE

Clients ==
    [m_state : ClientStates, m_socket : Sockets, m_more : BOOLEAN, m_continue : BOOLEAN,
     m_msgqueue : BOOLEAN, m_senddir : BOOLEAN, m_remote_tcp_version : Nat]

Events ==
    [state : EventStates, told : EventStates, size : Nat, pos : Nat, totalPos : Nat,
     totalSize : Nat, totalFiles : Nat, currFile : Nat]

Packets ==
    [type : {"ACK", "0x01", "0x05"}]
    \cup [type : {"INIT"}, version : {7}, long : BOOLEAN]
    \cup [type : {"0x00"}, files : Nat, size : Nat]
    \cup [type : {"0x02"}, dir : BOOLEAN, size : Nat]
    \cup [type : {"0x03"}, files : Nat]
    \cup [type : {"0x06"}, length : {0, 1}]

Messages == [type : {"REQUEST", "CANCEL", "ACCEPT", "DENY"}, number : Nat]

\* The type invariant.
TypeOK ==
    /\ sent \in FileLists /\ m_files \in Seq([kind : Kinds, size : Nat])
    /\ direct \in BOOLEAN /\ answered \in BOOLEAN /\ undefined \in BOOLEAN
    /\ calls \in Nat /\ twice \in BOOLEAN /\ seq \in Nat /\ queued \in Nat
    /\ asked \in Nat /\ aside \subseteq Nat
    /\ ev \in [Sides -> Events] /\ cached \in [Sides -> SUBSET Nat] /\ ftc \in [Sides -> Clients]
    /\ control \in [Sides -> Seq(Messages)]
    /\ data \in [Sides -> Seq(Packets)]
    /\ stored \in Seq([dir : BOOLEAN, got : Nat])
    /\ disk \in [got : Seq(Nat), failed : SUBSET Nat]

-----------------------------------------------------------------------------
(* The end of a client and of its socket.                                   *)

\* Side s has sent `packets`, and closes its socket with `rest` unread: that is
\* lost, and the reset that this causes may overtake what it had sent.
CloseSocket(s, rest, packets) ==
    \E lost \in IF rest = <<>> THEN {FALSE} ELSE BOOLEAN :
        data' = [data EXCEPT
                   ![s] = <<>>,
                   ![Other(s)] = IF lost \/ ftc[Other(s)].m_state = "NONE" THEN <<>> ELSE @ \o packets]

\* DisconnectDirectConn for the client of side s, whose event is now e.
DisconnectDirectConn(s, e, rest, packets) ==
    /\ ftc' = [ftc EXCEPT ![s] = NoClient]
    /\ ev' = [ev EXCEPT ![s] =
                Told([e EXCEPT !.state = IF @ \in {"COMPLETE", "ERROR"} THEN @ ELSE "CANCELLED"])]
    /\ CloseSocket(s, rest, packets)

\* The client of side s goes on as c with event e, having read up to `rest`
\* and sent `packets`.
Continue(s, c, e, rest, packets) ==
    /\ ftc' = [ftc EXCEPT ![s] = c]
    /\ ev' = [ev EXCEPT ![s] = e]
    /\ data' = [data EXCEPT ![s] = rest,
                            ![Other(s)] = IF ftc[Other(s)].m_state = "NONE" THEN @ ELSE @ \o packets]

-----------------------------------------------------------------------------
(* The request, its answer and its cancellation.                            *)

\* The first k entries of m_msgqueue, or a request that need not be queued, are
\* sent: each gets the next number.
SendPacketEvents(k) ==
    /\ seq' = seq + k
    /\ cached' = [cached EXCEPT !["sender"] = @ \cup (seq+1)..(seq+k)]
    /\ control' = [control EXCEPT !["receiver"] =
                     @ \o [i \in 1..k |-> [type |-> "REQUEST", number |-> seq + i]]]

\* SendFileTransfer for an event that is NOT_CONNECTED: the request is sent, or
\* queued as long as the direct connection is not up.
SendRequest ==
    /\ ev["sender"].state = "NOT_CONNECTED" /\ sent = m_files /\ calls < MaxCalls
    /\ calls' = calls + 1
    /\ twice' = (queued > 0 \/ cached["sender"] # {} \/ ftc["sender"].m_state # "NONE")
    /\ ev' = [ev EXCEPT !["sender"] =
                Told([@ EXCEPT !.state = "WAIT_RESPONS", !.totalSize = Content(m_files),
                               !.totalFiles = Len(m_files), !.currFile = 0])]
    /\ \/ direct /\ queued' = queued + 1 /\ UNCHANGED <<seq, cached, control>>
       \/ queued = 0 /\ SendPacketEvents(1) /\ UNCHANGED queued
    /\ UNCHANGED <<sent, direct, askedVars, m_files, ftc, data, stored, disk, undefined>>

\* The direct connection of the sender is up: flush_queue sends all requests
\* that are queued, the cancelled ones too.
flush_queue ==
    /\ queued > 0 /\ SendPacketEvents(queued) /\ queued' = 0
    /\ UNCHANGED <<sent, direct, calls, twice, askedVars, m_files, ev, ftc, data, stored, disk, undefined>>

\* The direct connection ends before it was up: ~DirectClient expires the queue.
QueueExpires ==
    /\ queued > 0 /\ queued' = 0
    /\ ev' = [ev EXCEPT !["sender"] = Told([@ EXCEPT !.state = "TIMEOUT"])]
    /\ UNCHANGED <<sent, direct, calls, twice, seq, askedVars, m_files, cached, control,
                   ftc, data, stored, disk, undefined>>

\* A request reaches the receiver: handleIncomingFT makes an event of it, which
\* is cached. The application deals with one of the events, and leaves the
\* others aside.
handleIncomingFT ==
    LET n == Head(control["receiver"]).number IN
    /\ control["receiver"] # <<>> /\ Head(control["receiver"]).type = "REQUEST"
    /\ control' = [control EXCEPT !["receiver"] = Tail(@)]
    /\ \/ /\ ~answered
          /\ asked' = n /\ aside' = IF asked = 0 THEN aside ELSE aside \cup {asked}
          /\ ev' = [ev EXCEPT !["receiver"] =
                      [Event("NOT_CONNECTED", 0) EXCEPT !.totalSize = ev["sender"].totalSize]]
          /\ cached' = [cached EXCEPT !["receiver"] = {n}]
       \/ aside' = aside \cup {n} /\ UNCHANGED <<asked, ev, cached>>
    /\ UNCHANGED <<sent, direct, askVars, answered, m_files, ftc, data, stored, disk, undefined>>

handleIncomingFTCancel_bug ==    \* m_msgcache is not asked
    /\ control["receiver"] # <<>> /\ Head(control["receiver"]).type = "CANCEL"
    /\ control' = [control EXCEPT !["receiver"] = Tail(@)]
    /\ ev' = [ev EXCEPT !["receiver"] = Told([@ EXCEPT !.state = "CANCELLED"])]
    /\ cached' = [cached EXCEPT !["receiver"] = {}]
    /\ UNCHANGED <<requestVars, m_files, ftc, data, stored, disk, undefined>>

\* A cancellation reaches the receiver: only an event that is cached is ended.
handleIncomingFTCancel ==
    LET n == Head(control["receiver"]).number IN
    /\ control["receiver"] # <<>> /\ Head(control["receiver"]).type = "CANCEL"
    /\ control' = [control EXCEPT !["receiver"] = Tail(@)]
    /\ IF n \in cached["receiver"]
       THEN /\ ev' = [ev EXCEPT !["receiver"] = Told([@ EXCEPT !.state = "CANCELLED"])]
            /\ cached' = [cached EXCEPT !["receiver"] = @ \ {n}]
       ELSE UNCHANGED <<ev, cached>>
    /\ UNCHANGED <<requestVars, m_files, ftc, data, stored, disk, undefined>>

\* SendFileTransferACK: the receiving application accepts or refuses. A client
\* of its own then listens. Over the server the answer carries a fresh cookie,
\* and the request stays in m_cookiecache.
SendFileTransferACK ==
    /\ ev["receiver"].state \in {"NOT_CONNECTED", "TIMEOUT"} /\ ~answered
    /\ answered' = TRUE
    /\ \E accept \in BOOLEAN, socket \in Unset :
         /\ ftc' = IF accept
                   THEN [ftc EXCEPT !["receiver"] = Client("WAITING_FOR_INIT", socket)]
                   ELSE ftc
         /\ control' = [control EXCEPT !["sender"] =
                          Append(@, [type |-> IF accept THEN "ACCEPT" ELSE "DENY", number |-> asked])]
         /\ ev' = [ev EXCEPT !["receiver"] =
                     Told([@ EXCEPT !.state = IF accept THEN "RECEIVE" ELSE "NOT_CONNECTED"])]
    /\ cached' = [cached EXCEPT !["receiver"] = IF direct THEN {} ELSE @]
    /\ UNCHANGED <<sent, direct, askVars, asked, aside, m_files, data, stored, disk, undefined>>

\* SendFileTransferACK when the direct connection is lost, which has expired the
\* event, and no other can be opened.
AnswerNotSent ==
    /\ ev["receiver"].state = "TIMEOUT" /\ ~answered /\ direct
    /\ answered' = TRUE
    /\ ev' = [ev EXCEPT !["receiver"] = Told([@ EXCEPT !.state = "ERROR"])]
    /\ UNCHANGED <<sent, direct, askVars, asked, aside, m_files, cached, control, ftc, data,
                   stored, disk, undefined>>

\* SendFileTransferACK for an event that was left aside: it is refused.
RefuseAside ==
    /\ \E n \in aside :
         /\ aside' = aside \ {n}
         /\ control' = [control EXCEPT !["sender"] = Append(@, [type |-> "DENY", number |-> n])]
    /\ UNCHANGED <<sent, direct, askVars, asked, answered, m_files, ev, cached, ftc, data,
                   stored, disk, undefined>>

handleIncomingFTACK_bug ==    \* the request stays in m_msgcache
    LET answer == Head(control["sender"]) IN
    /\ control["sender"] # <<>> /\ answer.number \in cached["sender"] /\ direct
    /\ control' = [control EXCEPT !["sender"] = Tail(@)]
    /\ ev' = [ev EXCEPT !["sender"] = Told([@ EXCEPT
                 !.state = IF answer.type = "ACCEPT" THEN "ACCEPTED" ELSE "REJECTED"])]
    /\ UNCHANGED <<requestVars, cached, m_files, ftc, data, stored, disk, undefined>>

\* The answer reaches the sender: handleIncomingFTACK if the request is found
\* in the cache, which over the server it never is.
handleIncomingFTACK ==
    LET answer == Head(control["sender"]) IN
    /\ control["sender"] # <<>>
    /\ control' = [control EXCEPT !["sender"] = Tail(@)]
    /\ IF answer.number \in cached["sender"] /\ direct
       THEN /\ ev' = [ev EXCEPT !["sender"] = Told([@ EXCEPT
                        !.state = IF answer.type = "ACCEPT" THEN "ACCEPTED" ELSE "REJECTED"])]
            /\ cached' = [cached EXCEPT !["sender"] = @ \ {answer.number}]
       ELSE UNCHANGED <<ev, cached>>
    /\ UNCHANGED <<requestVars, m_files, ftc, data, stored, disk, undefined>>

\* 30 seconds without an answer, or the direct connection is lost:
\* dc_messageack_cb or ICBMCookieCache_expired_cb.
Expire(s) ==
    /\ \E n \in cached[s] : cached' = [cached EXCEPT ![s] = @ \ {n}]
    /\ ev' = [ev EXCEPT ![s] = Told([@ EXCEPT !.state = "TIMEOUT"])]
    /\ UNCHANGED <<requestVars, m_files, control, ftc, data, stored, disk, undefined>>

\* What the direct connection or the server had under way is lost.
ControlLost(s) ==
    /\ control[s] # <<>>
    /\ control' = [control EXCEPT ![s] = <<>>]
    /\ UNCHANGED <<requestVars, m_files, ev, cached, ftc, data, stored, disk, undefined>>

\* CancelFileTransfer. A request that waits for its answer over a direct
\* connection is cancelled by number: the one last sent leaves m_msgcache, what
\* is queued stays. As long as the connection is not up the Send fails, or the
\* peer reads a CANCEL it does not expect: then the connection ends, with all it
\* holds. The clients of a transfer in SEND or RECEIVE go on.
CancelFileTransfer(s) ==
    LET e == ev[s] IN
    /\ e.state # "NONE"
    /\ ev' = [ev EXCEPT ![s] = Told([e EXCEPT !.state = "NOT_CONNECTED"])]
    /\ IF s = "sender" /\ e.state = "WAIT_RESPONS" /\ direct
       THEN \/ /\ control' = [control EXCEPT !["receiver"] = Append(@, [type |-> "CANCEL", number |-> seq])]
               /\ cached' = [cached EXCEPT !["sender"] = @ \ {seq}]
               /\ UNCHANGED queued
            \/ /\ cached' = [cached EXCEPT !["sender"] = {}] /\ queued' = 0
               /\ UNCHANGED control
       ELSE UNCHANGED <<control, cached, queued>>
    /\ IF e.state \in {"ACCEPTED", "TIMEOUT"} /\ ftc[s].m_state # "NONE"
       THEN IF ftc[s].m_socket \in Unset
            THEN undefined' = TRUE /\ UNCHANGED <<ftc, data>>
            ELSE /\ ftc' = [ftc EXCEPT ![s] = NoClient]
                 /\ CloseSocket(s, data[s], <<>>)
                 /\ UNCHANGED undefined
       ELSE UNCHANGED <<ftc, data, undefined>>
    /\ UNCHANGED <<sent, direct, calls, twice, seq, askedVars, m_files, stored, disk>>

\* The session of side s ends: DisconnectDirectConns deletes its client, and
\* tells the application nothing of it.
DisconnectDirectConns(s) ==
    /\ ftc[s].m_state # "NONE"
    /\ IF ftc[s].m_socket \in Unset
       THEN undefined' = TRUE /\ UNCHANGED <<ftc, data>>
       ELSE /\ ftc' = [ftc EXCEPT ![s] = NoClient]
            /\ CloseSocket(s, data[s], <<>>)
            /\ UNCHANGED undefined
    /\ UNCHANGED <<requestVars, m_files, ev, cached, control, stored, disk>>

-----------------------------------------------------------------------------
(* The connection and its handshake.                                        *)

\* SendInitPacket: it claims version 7 whatever the peer speaks, and has the last
\* field for a peer of version 7 or later.
SendInitPacket(c) == [type |-> "INIT", version |-> 7, long |-> c.m_remote_tcp_version >= 7]

\* ParseInitPacket: the one that connects insists on the version it knows.
ParseInitPacket(s, p) == s = "sender" => p.version = ftc[s].m_remote_tcp_version

\* SendFileTransfer once the request is accepted: Connect, which may complete
\* at once, or fail at once.
Connect ==
    /\ ev["sender"].state = "ACCEPTED" /\ ftc["sender"].m_state = "NONE"
    /\ \/ \E socket \in {"NONBLOCKING_CONNECT", "CONNECTED"}, version \in Published :
            /\ version >= 6
            /\ socket = "CONNECTED" => ftc["receiver"].m_socket \in Unset
                                       /\ ftc["receiver"].m_state # "NONE"
            /\ ftc' = [ftc EXCEPT !["sender"] =
                         [Client("WAITING_FOR_INIT_ACK", socket) EXCEPT
                            !.m_msgqueue = TRUE, !.m_remote_tcp_version = version]]
            /\ ev' = [ev EXCEPT !["sender"] = Told([@ EXCEPT !.state = "SEND"])]
       \/ /\ ev' = [ev EXCEPT !["sender"] = Told([@ EXCEPT !.state = "ERROR"])]
          /\ UNCHANGED ftc
    /\ UNCHANGED <<requestVars, m_files, cached, control, data, stored, disk, undefined>>

\* The connect completes: the INIT packet is sent, if somebody listens. A Send
\* that fails is followed by a use of the client that was deleted for it.
FinishNonBlockingConnect ==
    /\ ftc["sender"].m_socket = "NONBLOCKING_CONNECT"
    /\ \/ /\ ftc["receiver"].m_socket \in Unset /\ ftc["receiver"].m_state # "NONE"
          /\ \/ /\ Continue("sender", [ftc["sender"] EXCEPT !.m_socket = "CONNECTED"],
                            ev["sender"], data["sender"], <<SendInitPacket(ftc["sender"])>>)
                /\ UNCHANGED undefined
             \/ undefined' = TRUE /\ UNCHANGED <<ftc, ev, data>>
       \/ /\ DisconnectDirectConn("sender", ev["sender"], <<>>, <<>>)
          /\ UNCHANGED undefined
    /\ UNCHANGED <<requestVars, m_files, cached, control, stored, disk>>

\* The listening socket is readable: setSocket, if m_socket happens to be zero.
Accept ==
    /\ ftc["receiver"].m_socket = "ZERO" /\ ftc["receiver"].m_state # "NONE"
    /\ ftc["sender"].m_socket = "CONNECTED"
    /\ ftc' = [ftc EXCEPT !["receiver"].m_socket = "CONNECTED"]
    /\ UNCHANGED <<requestVars, m_files, ev, cached, control, data, stored, disk, undefined>>

\* clearoutMessagesPoll, 60 seconds after the client was created and at every
\* Poll from then on. Only a client that accepted a connection tells.
ClientTimeout(s) ==
    /\ ftc[s].m_state \notin {"NONE", "CONNECTED"}
    /\ LET e == [ev[s] EXCEPT !.state = "TIMEOUT"]
       IN  ev' = [ev EXCEPT ![s] = IF s = "receiver" /\ ftc[s].m_socket = "CONNECTED"
                                   THEN Told(e) ELSE e]
    /\ UNCHANGED <<requestVars, m_files, cached, control, ftc, data, stored, disk, undefined>>

-----------------------------------------------------------------------------
(* The sender's dialogue.                                                   *)

\* SendPacket0x00: what is going to be sent in all.
Totals(e) == [type |-> "0x00", files |-> e.totalFiles, size |-> e.totalSize]

\* SendPacket0x02: the next entry is announced, or cannot be opened, or is of a
\* kind that is passed over in silence.
SendPacket0x02(c, e, rest, prefix) ==
    LET f == Head(m_files)
    IN  /\ m_files' = Tail(m_files)
        /\ \/ /\ f.kind # "other"
              /\ Continue("sender", [c EXCEPT !.m_senddir = (f.kind = "dir")],
                          Told([e EXCEPT !.currFile = @ + 1, !.pos = 0, !.size = f.size]),
                          rest, Append(prefix, [type |-> "0x02", dir |-> f.kind = "dir", size |-> f.size]))
           \/ f.kind = "other" /\ Continue("sender", c, Told(e), rest, prefix)
           \/ f.kind = "file" /\ DisconnectDirectConn("sender", [e EXCEPT !.state = "ERROR"], rest, <<>>)

SendPacket0x06_bug(c, e, rest) ==    \* the last packet of a file is dropped
    LET len  == IF e.pos < e.size THEN 1 ELSE 0
        sentEv == [e EXCEPT !.pos = @ + len, !.totalPos = @ + len]
        packet == <<[type |-> "0x06", length |-> len]>>
        more == sentEv.pos + 1 < e.size
    IN  IF more \/ m_files # <<>>
        THEN Continue("sender", [c EXCEPT !.m_more = more], Told(sentEv), rest, packet)
        ELSE DisconnectDirectConn("sender", [sentEv EXCEPT !.state = "COMPLETE"], rest, packet)

\* SendPacket0x06: a packet of the open file, of no data if the file is empty,
\* and the transfer is complete after the last one of the last entry.
SendPacket0x06(c, e, rest) ==
    LET len  == IF e.pos < e.size THEN 1 ELSE 0
        sentEv == [e EXCEPT !.pos = @ + len, !.totalPos = @ + len]
        packet == <<[type |-> "0x06", length |-> len]>>
        more == sentEv.pos < e.size
    IN  \/ (more \/ m_files # <<>>) /\ Continue("sender", [c EXCEPT !.m_more = more], Told(sentEv), rest, packet)
        \/ /\ ~(more \/ m_files # <<>>)
           /\ DisconnectDirectConn("sender", [sentEv EXCEPT !.state = "COMPLETE"], rest, packet)
        \/ DisconnectDirectConn("sender", [e EXCEPT !.state = "ERROR"], rest, <<>>)

\* SendFile: what the sender does when it may go on, and always the last step
\* of the packet or of the event it follows.
SendFile(c, e, rest) ==
    \/ /\ c.m_state = "CONNECTED" /\ c.m_msgqueue
       /\ Continue("sender", [c EXCEPT !.m_msgqueue = FALSE], Told(e), rest,
                   <<Totals(e)>>)
       /\ UNCHANGED m_files
    \/ /\ ~c.m_msgqueue /\ c.m_continue /\ c.m_more
       /\ SendPacket0x06(c, e, rest)
       /\ UNCHANGED m_files
    \/ /\ ~c.m_msgqueue /\ c.m_continue /\ ~c.m_more /\ e.currFile < e.totalFiles
       /\ SendPacket0x02([c EXCEPT !.m_continue = FALSE], e, rest, <<>>)
    \/ /\ ~c.m_msgqueue /\ c.m_continue /\ ~c.m_more /\ e.currFile >= e.totalFiles
       /\ DisconnectDirectConn("sender", [e EXCEPT !.state = "COMPLETE"], rest, <<>>)
       /\ UNCHANGED m_files
    \/ /\ ~c.m_msgqueue /\ ~c.m_continue
       /\ Continue("sender", c, Told(e), rest, <<>>)
       /\ UNCHANGED m_files

\* A packet for the sender: the handshake, then ParsePacket.
SenderReceives ==
    LET c == ftc["sender"]
        e == ev["sender"]
        p == Head(data["sender"])
        rest == Tail(data["sender"])
    IN
    /\ c.m_socket = "CONNECTED" /\ data["sender"] # <<>>
    /\ \/ /\ c.m_state = "WAITING_FOR_INIT_ACK"
          /\ Continue("sender", [c EXCEPT !.m_state = "WAITING_FOR_INIT"], e, rest, <<>>)
          /\ UNCHANGED m_files
       \/ /\ c.m_state = "WAITING_FOR_INIT" /\ ~ParseInitPacket("sender", p)
          /\ DisconnectDirectConn("sender", e, rest, <<>>)
          /\ UNCHANGED m_files
       \/ /\ c.m_state = "WAITING_FOR_INIT" /\ ParseInitPacket("sender", p) \* then flush_queue
          /\ Continue("sender", [c EXCEPT !.m_state = "CONNECTED", !.m_msgqueue = FALSE],
                      IF c.m_msgqueue THEN Told(e) ELSE e, rest,
                      <<[type |-> "ACK"]>> \o IF c.m_msgqueue THEN <<Totals(e)>> ELSE <<>>)
          /\ UNCHANGED m_files
       \/ c.m_state = "CONNECTED" /\ p.type = "0x01" /\ SendPacket0x02(c, e, rest, <<>>)
       \/ /\ c.m_state = "CONNECTED" /\ p.type = "0x03"
          /\ SendFile([c EXCEPT !.m_continue = TRUE, !.m_more = @ \/ ~c.m_senddir],
                      [e EXCEPT !.pos = 0, !.currFile = p.files], rest)
       \/ /\ c.m_state = "CONNECTED" /\ p.type = "0x05"
          /\ Continue("sender", c, e, rest, <<>>) /\ UNCHANGED m_files
    /\ UNCHANGED <<requestVars, cached, control, stored, disk, undefined>>

\* The sender's socket is writable, the only mode it is selected on, and there
\* is nothing to read: SendEvent(NULL).
SenderWrites ==
    LET c == ftc["sender"] IN
    /\ c.m_socket = "CONNECTED" /\ data["sender"] = <<>>
    /\ Len(data["receiver"]) < Window
    /\ \/ c.m_state = "CONNECTED" /\ SendFile(c, ev["sender"], <<>>)
       \/ /\ c.m_state # "CONNECTED"
          /\ Continue("sender", [c EXCEPT !.m_msgqueue = TRUE], ev["sender"], <<>>, <<>>)
          /\ UNCHANGED m_files
    /\ UNCHANGED <<requestVars, cached, control, stored, disk, undefined>>

-----------------------------------------------------------------------------
(* The receiver's dialogue.                                                 *)

\* mkdir, whose result is not looked at, or a file that could be opened.
MakesEntry(p) ==
    /\ stored' = Append(stored, [dir |-> p.dir, got |-> 0])
    /\ \/ disk' = [disk EXCEPT !.got = Append(@, 0)]
       \/ p.dir /\ disk' = [got |-> Append(disk.got, 0), failed |-> disk.failed \cup {Len(stored) + 1}]

\* m_fout.write for the last entry, whose result is not looked at either: the
\* data is counted, and a stream that failed once does not write again.
Writes(length) ==
    LET last == Len(stored) IN
    /\ stored' = [stored EXCEPT ![last].got = @ + length]
    /\ \/ last \notin disk.failed /\ disk' = [disk EXCEPT !.got[last] = @ + length]
       \/ length > 0 /\ disk' = [disk EXCEPT !.failed = @ \cup {last}]

ParsePacket0x02_bug(c, e, p, rest) ==    \* a directory is not answered
    LET announced == [e EXCEPT !.size = p.size, !.pos = 0, !.currFile = @ + 1]
    IN  /\ MakesEntry(p)
        /\ Continue("receiver", c, Told(announced), rest,
                    IF p.dir THEN <<>> ELSE <<[type |-> "0x03", files |-> announced.currFile]>>)

\* ParsePacket0x02: the directory is made or the file opened.
ParsePacket0x02(c, e, p, rest) ==
    LET announced == [e EXCEPT !.size = p.size, !.pos = 0, !.currFile = @ + 1]
    IN  \/ /\ MakesEntry(p)
           /\ Continue("receiver", c, Told(announced), rest,
                       <<[type |-> "0x03", files |-> announced.currFile]>>)
        \/ /\ ~p.dir
           /\ DisconnectDirectConn("receiver", [announced EXCEPT !.state = "ERROR"], rest, <<>>)
           /\ UNCHANGED <<stored, disk>>

\* ParsePacket0x06: the data is written, and the transfer is complete with as
\* much of it as was announced.
ParsePacket0x06(c, e, p, rest) ==
    LET received == [e EXCEPT !.pos = @ + p.length, !.totalPos = @ + p.length]
    IN  /\ Writes(p.length)
        /\ IF received.totalPos >= received.totalSize
           THEN DisconnectDirectConn("receiver", [received EXCEPT !.state = "COMPLETE"], rest, <<>>)
           ELSE Continue("receiver", c, received, rest, <<>>)

\* A packet for the receiver: the handshake, in which ConfirmUIN may refuse the
\* peer, then ParsePacket.
ReceiverReceives ==
    LET c == ftc["receiver"]
        e == ev["receiver"]
        p == Head(data["receiver"])
        rest == Tail(data["receiver"])
    IN
    /\ c.m_socket = "CONNECTED" /\ data["receiver"] # <<>>
    /\ \/ /\ c.m_state = "WAITING_FOR_INIT" /\ ParseInitPacket("receiver", p)
          /\ LET d == [c EXCEPT !.m_state = "WAITING_FOR_INIT_ACK", !.m_remote_tcp_version = p.version]
             IN  Continue("receiver", d, e, rest, <<[type |-> "ACK"], SendInitPacket(d)>>)
          /\ UNCHANGED <<stored, disk>>
       \/ /\ c.m_state = "WAITING_FOR_INIT_ACK"
          /\ \/ Continue("receiver", [c EXCEPT !.m_state = "CONNECTED"], e, rest, <<>>)
             \/ DisconnectDirectConn("receiver", e, rest, <<>>)
          /\ UNCHANGED <<stored, disk>>
       \/ /\ c.m_state = "CONNECTED" /\ p.type = "0x00"
          /\ Continue("receiver", c, [e EXCEPT !.totalSize = p.size, !.totalFiles = p.files, !.currFile = 0],
                      rest, <<[type |-> "0x05"], [type |-> "0x01"]>>)
          /\ UNCHANGED <<stored, disk>>
       \/ c.m_state = "CONNECTED" /\ p.type = "0x02" /\ ParsePacket0x02(c, e, p, rest)
       \/ c.m_state = "CONNECTED" /\ p.type = "0x06" /\ ParsePacket0x06(c, e, p, rest)
    /\ UNCHANGED <<requestVars, m_files, cached, control, undefined>>

\* Everything was read and the other side has closed.
EndOfFile(s) ==
    /\ ftc[s].m_socket = "CONNECTED" /\ data[s] = <<>> /\ ftc[Other(s)].m_state = "NONE"
    /\ DisconnectDirectConn(s, ev[s], <<>>, <<>>)
    /\ UNCHANGED <<requestVars, m_files, cached, control, stored, disk, undefined>>

-----------------------------------------------------------------------------

Application == SendRequest \/ SendFileTransferACK \/ AnswerNotSent \/ RefuseAside \/ Connect
               \/ \E s \in Sides : CancelFileTransfer(s) \/ DisconnectDirectConns(s)
Network == flush_queue \/ handleIncomingFT \/ handleIncomingFTCancel \/ handleIncomingFTACK
           \/ \E s \in Sides : ControlLost(s)
Timeouts == QueueExpires \/ \E s \in Sides : Expire(s) \/ ClientTimeout(s)
SenderSocket == FinishNonBlockingConnect \/ SenderReceives \/ SenderWrites \/ EndOfFile("sender")
ReceiverSocket == Accept \/ ReceiverReceives \/ EndOfFile("receiver")

Next == ~undefined /\ (Application \/ Network \/ Timeouts \/ SenderSocket \/ ReceiverSocket)

\* The application selects on both sockets and calls socket_cb.
Spec == Init /\ [][Next]_vars
             /\ WF_vars(~undefined /\ SenderSocket) /\ WF_vars(~undefined /\ ReceiverSocket)

-----------------------------------------------------------------------------

\* What is under way to the receiver, as it would store it.
Arriving ==
    LET f[i \in 0..Len(data["receiver"])] ==
          IF i = 0 THEN stored
          ELSE LET p == data["receiver"][i] IN
               CASE p.type = "0x02" -> Append(f[i-1], [dir |-> p.dir, got |-> 0])
                 [] p.type = "0x06" -> [f[i-1] EXCEPT ![Len(f[i-1])].got = @ + p.length]
                 [] OTHER -> f[i-1]
    IN  f[Len(data["receiver"])]

Whole(list) == [i \in 1..Len(list) |-> [dir |-> list[i].kind = "dir", got |-> list[i].size]]

\* Entry i is there: all of it was stored, or the file system has failed for it.
Has(i) == i \in disk.failed \/ disk.got[i] = sent[i].size

\* The receiver has begun the entries in the order of the list, and stored each
\* whole before the next is begun, if the file system has not failed.
StoredInOrder ==
    /\ Len(stored) <= Len(sent) /\ Len(disk.got) = Len(stored)
    /\ \A i \in 1..Len(stored) :
         /\ stored[i].dir = (sent[i].kind = "dir")
         /\ disk.got[i] <= sent[i].size
         /\ i < Len(stored) => Has(i)

\* A receiver that says COMPLETE has all of the data, but for what the file
\* system did not take; it has begun all entries only if the last one is a file
\* that is not empty.
CompleteHasAllContent ==
    ev["receiver"].state = "COMPLETE" =>
        /\ \A i \in 1..Len(sent) : sent[i].size > 0 => i <= Len(stored) /\ Has(i)
        /\ sent # <<>> /\ sent[Len(sent)].size > 0 =>
              Len(stored) = Len(sent) /\ \A i \in 1..Len(sent) : Has(i)

\* A sender that says COMPLETE has sent everything, and it still arrives as long
\* as the receiver lives: nothing unread makes the close a reset.
SentIsComplete ==
    ev["sender"].state = "COMPLETE" /\ ftc["receiver"].m_state # "NONE" => Arriving = Whole(sent)

\* Whatever happens to the transfer (a refusal, a timeout, a cancellation, a cut
\* of the connection), what is stored is the list up to some point, and
\* COMPLETE means that the files are there, or that they arrive; but for the
\* entries of which a mkdir or a write has failed, which nobody is told of.
FilesArriveWhole == StoredInOrder /\ CompleteHasAllContent /\ SentIsComplete

\* When an event is COMPLETE, CANCELLED or ERROR the application was told, and
\* the client is deleted, as CancelFileTransfer relies on.
EndedIsToldAndGone ==
    \A s \in Sides : ev[s].state \in Ended => ev[s].told = ev[s].state /\ ftc[s].m_state = "NONE"

\* COMPLETE is never taken back, neither by a late timeout, nor by the end of
\* the connection, nor by a late answer: only the application may put it back.
\* But a request that was cancelled while queued is sent all the same, and one
\* asked for again before it was settled has two fates: when the sending
\* application has asked again with something of the event still queued, cached
\* or at work, the other request may overwrite COMPLETE.
CompleteIsFinal ==
    [][\A s \in Sides : ev[s].state = "COMPLETE" /\ ~(s = "sender" /\ twice) =>
         ev'[s].state \in {"COMPLETE", "NOT_CONNECTED"}]_vars

\* Once both sides are connected the transfer ends on both, if only entries
\* that can be sent are in the list.
TransferEnds ==
    (\A i \in 1..Len(sent) : sent[i].kind # "other") =>
        ((\A s \in Sides : ftc[s].m_state = "CONNECTED")
            ~> (undefined \/ \A s \in Sides : ftc[s].m_state = "NONE"))

===============================================================================
