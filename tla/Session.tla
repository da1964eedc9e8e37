------------------------------- MODULE Session -------------------------------
(***************************************************************************)
(* The connection of Client (src/src/Client.cpp) to the ICQ service: the   *)
(* authorizer, the BOS server, the login dialogue, the keep-alive ping,    *)
(* the listening socket for direct connections and what the application    *)
(* is told: which descriptors to select on, ConnectedEvents and            *)
(* DisconnectedEvents, the status of the contacts.                         *)
(*                                                                         *)
(* The library is single threaded: an action is one call of the            *)
(* application into it (setStatus, Poll, ...), except socket_cb on the     *)
(* server socket, which runs the loops of RecvFromServer and Parse one     *)
(* receive and one FLAP at a time (pc) with nothing else in between.       *)
(*                                                                         *)
(* m_recv holds whole FLAPs; the splitting of a FLAP over two receives is  *)
(* not modelled here. A FLAP that a reset connection loses stays lost.     *)
(*                                                                         *)
(* Definitions whose name ends in _bug are seeded mistakes: each takes the *)
(* place of the definition that follows it when a property is tested.      *)
(***************************************************************************)
EXTENDS Naturals, Sequences

CONSTANTS
    Contacts,   \* contacts of m_contact_tree whose status the server reports
    Self,       \* m_self
    Nobody,     \* the subject of a FLAP that is about no contact
    MaxBuffer   \* bound: FLAPs in flight and in m_recv together

ASSUME SelfNotContact == Self \notin Contacts /\ Nobody \notin Contacts \cup {Self}
ASSUME MaxBufferNat == MaxBuffer \in Nat

VARIABLES
    m_state,        \* Client::m_state
    sock,           \* m_serverSocket->getState()
    watch,          \* mode the application selects on for the server socket
    listener,       \* m_listenServer: is it started, is it selected on
    m_in_dc,        \* incoming direct connections are accepted
    online,         \* contacts (and Self) whose status is not OFFLINE
    signalled,      \* the last of ConnectedEvent, DisconnectedEvent
    pingDue,        \* now > m_last_server_ping + 60
    pc,             \* where the library is: "idle" between calls, "recv", "parse"
    m_recv,         \* FLAPs received and not yet parsed
    wire,           \* FLAPs on their way from the server (external)
    server          \* what the server does next on this connection (external)

connVars == <<sock, watch, wire, server>>
toldVars == <<online, signalled>>
vars == <<m_state, connVars, listener, m_in_dc, toldVars, pingDue, pc, m_recv>>

-----------------------------------------------------------------------------

AuthStates == {"AUTH_AWAITING_CONN_ACK", "AUTH_AWAITING_AUTH_REPLY",
               "UIN_AWAITING_CONN_ACK", "UIN_AWAITING_UIN_REPLY"}
AuthReplyStates == {"AUTH_AWAITING_AUTH_REPLY", "UIN_AWAITING_UIN_REPLY"}
BOSStates == {"BOS_AWAITING_CONN_ACK", "BOS_AWAITING_LOGIN_REPLY", "BOS_LOGGED_IN"}
State == {"NOT_CONNECTED"} \cup AuthStates \cup BOSStates

\* The BOS server's greeting is taken for the end of the login.
AfterConnAck_bug ==
    [s \in {"AUTH_AWAITING_CONN_ACK", "UIN_AWAITING_CONN_ACK", "BOS_AWAITING_CONN_ACK"} |->
        CASE s = "AUTH_AWAITING_CONN_ACK" -> "AUTH_AWAITING_AUTH_REPLY"
          [] s = "UIN_AWAITING_CONN_ACK"  -> "UIN_AWAITING_UIN_REPLY"
          [] s = "BOS_AWAITING_CONN_ACK"  -> "BOS_LOGGED_IN"]

\* The state that follows each state in which a connection acknowledge is due.
AfterConnAck ==
    [s \in {"AUTH_AWAITING_CONN_ACK", "UIN_AWAITING_CONN_ACK", "BOS_AWAITING_CONN_ACK"} |->
        CASE s = "AUTH_AWAITING_CONN_ACK" -> "AUTH_AWAITING_AUTH_REPLY"
          [] s = "UIN_AWAITING_CONN_ACK"  -> "UIN_AWAITING_UIN_REPLY"
          [] s = "BOS_AWAITING_CONN_ACK"  -> "BOS_AWAITING_LOGIN_REPLY"]

\* What a server that got the client's answer to its greeting says next.
Reply ==
    [s \in DOMAIN AfterConnAck |->
        CASE s = "AUTH_AWAITING_CONN_ACK" -> "AuthReply"
          [] s = "UIN_AWAITING_CONN_ACK"  -> "UINResponse"
          [] s = "BOS_AWAITING_CONN_ACK"  -> "ServerReady"]

Roster == Contacts \cup {Self}

(* The FLAPs the session tells apart: the channel 1 greeting, the channel 4 *)
(* packets with and without cookie and redirect, the SNACs of the login     *)
(* dialogue, the status of a contact or of Self (UserInfo), and any SNAC    *)
(* the client answers at once (message to acknowledge, end of the offline   *)
(* messages, server-based list).                                            *)
Kinds == {"ConnAck", "Redirect", "Close", "ServerReady", "CapAck", "RateInfo",
          "UINResponse", "Answered"}
Flap == [kind : Kinds, who : {Nobody}] \cup [kind : {"Online", "Offline"}, who : Roster]
Plain(k) == [kind |-> k, who |-> Nobody]
About(k, c) == [kind |-> k, who |-> c]

Servers == {"None", "ConnAck", "AuthReply", "UINResponse", "ServerReady", "CapAck",
            "RateInfo", "Online", "Quiet", "Closed"}

(* The listening socket: closed; listening, with the application selecting  *)
(* on it; unbound, when StartServer opened a descriptor, threw, and kept    *)
(* it; lost, when a failed Accept closed it under the application's select. *)
(* (The next socket reuses the number of a lost one.)                       *)
Listeners == {"closed", "listening", "unbound", "lost"}
Started(l) == l \in {"listening", "unbound"}

TypeOK ==
    /\ m_state \in State
    /\ sock \in {"NOT_CONNECTED", "NONBLOCKING_CONNECT", "CONNECTED"}
    /\ watch \in {"NONE", "READ", "WRITE"}
    /\ listener \in Listeners /\ m_in_dc \in BOOLEAN
    /\ online \in SUBSET Roster
    /\ signalled \in {"nothing", "connected", "disconnected"}
    /\ pingDue \in BOOLEAN
    /\ pc \in {"idle", "recv", "parse"}
    /\ m_recv \in Seq(Flap) /\ wire \in Seq(Flap)
    /\ server \in Servers

\* m_last_server_ping is not initialised: the first Poll may or may not ping.
Init ==
    /\ m_state = "NOT_CONNECTED"
    /\ sock = "NOT_CONNECTED" /\ watch = "NONE"
    /\ listener = "closed" /\ m_in_dc = TRUE
    /\ online = {} /\ signalled = "nothing"
    /\ pingDue \in BOOLEAN
    /\ pc = "idle" /\ m_recv = <<>>
    /\ wire = <<>> /\ server = "None"

-----------------------------------------------------------------------------
(* Effects shared by the operations. Each leaves m_state to its user.       *)

\* SignalRemoveSocket is forgotten.
CloseServerSocket_bug ==
    /\ sock' = "NOT_CONNECTED" /\ UNCHANGED watch
    /\ wire' = <<>> /\ server' = "None"

\* TCPSocket::Disconnect or a failed operation closes the descriptor, and
\* SignalRemoveSocket takes it out of the application's select.
CloseServerSocket ==
    /\ sock' = "NOT_CONNECTED" /\ watch' = "NONE"
    /\ wire' = <<>> /\ server' = "None"

SignalDisconnect == signalled' = "disconnected" /\ online' = {}

\* The part of DisconnectBOS that stops the listening server.
Stop(l) == IF Started(l) THEN "closed" ELSE l

\* DisconnectBOS leaves the listening server alone.
Dropped_bug(l) == l

\* The listening server after Client::Disconnect in the current state.
Dropped(l) == IF m_state \in BOSStates THEN Stop(l) ELSE l

\* Disconnect without SignalDisconnect.
TearDown_bug == CloseServerSocket /\ listener' = Dropped(listener) /\ UNCHANGED toldVars

\* Client::Disconnect past its first test: DisconnectAuthorizer or
\* DisconnectBOS, then the application is told.
TearDown == CloseServerSocket /\ listener' = Dropped(listener) /\ SignalDisconnect

Disconnect ==
    IF m_state = "NOT_CONNECTED"
    THEN UNCHANGED <<connVars, listener, toldVars>>
    ELSE TearDown

\* Client::Send. It either writes everything (next says how the server takes
\* it), or throws inside TCPSocket::Send, which Client::Send turns into a
\* Disconnect: m_state is then NOT_CONNECTED when Send returns.
SendOk(next) ==
    /\ sock = "CONNECTED"
    /\ server' = IF server = "Closed" THEN server ELSE next
    /\ UNCHANGED <<sock, watch, wire, listener, toldVars>>

\* The SocketException is logged and dropped.
SendOrDisconnect_bug(next) ==
    \/ SendOk(next) /\ UNCHANGED m_state
    \/ CloseServerSocket /\ UNCHANGED <<m_state, listener, toldVars>>

SendOrDisconnect(next) ==
    \/ SendOk(next) /\ UNCHANGED m_state
    \/ Disconnect /\ m_state' = "NOT_CONNECTED"

-----------------------------------------------------------------------------
(* Calls of the application.                                                *)

\* TCPSocket::Connect: refused at once, in progress, or (to a local server)
\* connected at once. In both good cases the application selects for WRITE.
Connect(state) ==
    \/ /\ SignalDisconnect /\ CloseServerSocket
       /\ UNCHANGED m_state
    \/ /\ sock' = "NONBLOCKING_CONNECT" /\ server' = "None"
       /\ watch' = "WRITE" /\ wire' = <<>>
       /\ m_state' = state /\ UNCHANGED toldVars
    \/ /\ sock' = "CONNECTED" /\ server' = "ConnAck"
       /\ watch' = "WRITE" /\ wire' = <<>>
       /\ m_state' = state /\ UNCHANGED toldVars

\* setStatus(st) and RegisterUIN when NOT_CONNECTED.
ConnectAuthorizer ==
    /\ pc = "idle" /\ m_state = "NOT_CONNECTED"
    /\ \E s \in {"AUTH_AWAITING_CONN_ACK", "UIN_AWAITING_CONN_ACK"} : Connect(s)
    /\ UNCHANGED <<listener, m_in_dc, pingDue, pc, m_recv>>

\* setStatus(STATUS_OFFLINE).
SetStatusOffline ==
    /\ pc = "idle" /\ m_state # "NOT_CONNECTED"
    /\ Disconnect /\ m_state' = "NOT_CONNECTED"
    /\ UNCHANGED <<m_in_dc, pingDue, pc, m_recv>>

\* Any request that sends without looking at m_state (searches, details,
\* contact list uploads), and setStatus when already logged in.
Request ==
    /\ pc = "idle"
    /\ SendOrDisconnect(server)
    /\ UNCHANGED <<m_in_dc, pingDue, pc, m_recv>>

\* The ping is sent by a session that is logged in only.
PingServer_bug ==
    /\ pc = "idle" /\ pingDue
    /\ IF m_state = "BOS_LOGGED_IN"
       THEN SendOrDisconnect(server)
       ELSE UNCHANGED <<m_state, connVars, listener, toldVars>>
    /\ pingDue' = FALSE
    /\ UNCHANGED <<m_in_dc, pc, m_recv>>

\* The part of Poll that concerns the server connection.
PingServer ==
    /\ pc = "idle" /\ pingDue
    /\ SendOrDisconnect(server)
    /\ pingDue' = FALSE
    /\ UNCHANGED <<m_in_dc, pc, m_recv>>

Elapse ==
    /\ pc = "idle" /\ ~pingDue
    /\ pingDue' = TRUE
    /\ UNCHANGED <<m_state, connVars, listener, m_in_dc, toldVars, pc, m_recv>>

SetAcceptInDC(d) ==
    /\ pc = "idle" /\ m_in_dc # d
    /\ m_in_dc' = d
    /\ listener' = IF d THEN listener ELSE Stop(listener)
    /\ UNCHANGED <<m_state, connVars, toldVars, pingDue, pc, m_recv>>

-----------------------------------------------------------------------------
(* socket_cb: the application saw a descriptor it selects on become ready.  *)

\* The non-blocking connect has completed, well or not.
FinishNonBlockingConnect ==
    /\ pc = "idle" /\ watch = "WRITE" /\ sock = "NONBLOCKING_CONNECT"
    /\ \/ /\ sock' = "CONNECTED" /\ watch' = "READ" /\ server' = "ConnAck"
          /\ UNCHANGED <<m_state, wire, listener, toldVars>>
       \/ Disconnect /\ m_state' = "NOT_CONNECTED"
    /\ UNCHANGED <<m_in_dc, pingDue, pc, m_recv>>

\* The remaining branch: any other mode than the socket's state expects.
InconsistentState ==
    /\ pc = "idle" /\ watch # "NONE"
    /\ ~(sock = "NONBLOCKING_CONNECT" /\ watch = "WRITE")
    /\ ~(sock = "CONNECTED" /\ watch = "READ")
    /\ Disconnect /\ m_state' = "NOT_CONNECTED"
    /\ UNCHANGED <<m_in_dc, pingDue, pc, m_recv>>

\* Accept on the listening socket fails: the descriptor is closed, the
\* exception leaves socket_cb, and nobody tells the application. (A
\* successful accept changes no state of this module.)
AcceptFails ==
    /\ pc = "idle" /\ listener = "listening" /\ m_in_dc
    /\ listener' = "lost"
    /\ UNCHANGED <<m_state, connVars, m_in_dc, toldVars, pingDue, pc, m_recv>>

Readable == wire # <<>> \/ server = "Closed"

\* RecvFromServer, one turn of its loop: some FLAPs, or EAGAIN, or an error
\* (among them the end of the stream).
Recv ==
    /\ \/ pc = "idle" /\ watch = "READ" /\ sock = "CONNECTED" /\ Readable
       \/ pc = "recv"
    /\ \/ \E n \in 1..Len(wire) :
            /\ m_recv' = m_recv \o SubSeq(wire, 1, n)
            /\ wire' = SubSeq(wire, n + 1, Len(wire))
            /\ pc' = "parse"
            /\ UNCHANGED <<m_state, sock, watch, server, listener, toldVars>>
       \/ /\ ~Readable
          /\ pc' = "idle"
          /\ UNCHANGED <<m_state, connVars, listener, toldVars, m_recv>>
       \/ /\ server = "Closed"
          /\ Disconnect /\ m_state' = "NOT_CONNECTED"
          /\ pc' = "idle" /\ UNCHANGED m_recv
    /\ UNCHANGED <<m_in_dc, pingDue>>

-----------------------------------------------------------------------------
(* Parse: the first FLAP of m_recv, then the next turn of the two loops.    *)

Parsing(kind) == pc = "parse" /\ m_recv # <<>> /\ Head(m_recv).kind = kind

Consume ==
    /\ m_recv' = Tail(m_recv)
    /\ pc' = CASE Tail(m_recv) # <<>>   -> "parse"
               [] Tail(m_recv) = <<>> /\ sock' = "CONNECTED" -> "recv"
               [] OTHER                 -> "idle"

\* ParseCh1. m_state is assigned after the Send, whatever became of it.
ParseConnAck ==
    /\ Parsing("ConnAck")
    /\ IF m_state \in DOMAIN AfterConnAck
       THEN /\ SendOk(Reply[m_state]) \/ Disconnect
            /\ m_state' = AfterConnAck[m_state]
       ELSE UNCHANGED <<m_state, connVars, listener, toldVars>>
    /\ Consume
    /\ UNCHANGED <<m_in_dc, pingDue>>

\* ParseCh4 with cookie and redirect: DisconnectAuthorizer, ConnectBOS.
ParseRedirect ==
    /\ Parsing("Redirect")
    /\ m_state \in AuthReplyStates
    /\ \/ /\ SignalDisconnect /\ CloseServerSocket
          /\ m_state' = "NOT_CONNECTED"
       \/ /\ \/ sock' = "NONBLOCKING_CONNECT" /\ server' = "None"
             \/ sock' = "CONNECTED" /\ server' = "ConnAck"
          /\ watch' = "WRITE" /\ wire' = <<>>
          /\ m_state' = "BOS_AWAITING_CONN_ACK" /\ UNCHANGED toldVars
    /\ Consume
    /\ UNCHANGED <<listener, m_in_dc, pingDue>>

\* Every other packet on channel 4 ends the session, even one that is over.
ParseClose ==
    /\ \/ Parsing("Close")
       \/ Parsing("Redirect") /\ m_state \notin AuthReplyStates
    /\ CloseServerSocket /\ SignalDisconnect
    /\ listener' = IF m_state \in AuthReplyStates THEN listener ELSE Stop(listener)
    /\ m_state' = "NOT_CONNECTED"
    /\ Consume
    /\ UNCHANGED <<m_in_dc, pingDue>>

\* The SNACs that are answered by one Send, in any m_state.
ParseAnswered ==
    /\ \/ Parsing("ServerReady") /\ SendOrDisconnect("CapAck")
       \/ Parsing("CapAck") /\ SendOrDisconnect("RateInfo")
       \/ Parsing("Answered") /\ SendOrDisconnect(server)
    /\ Consume
    /\ UNCHANGED <<m_in_dc, pingDue>>

\* SignalUserOnline, SignalUserOffline, HandleUserInfoSNAC, SignalUINResponse.
ParseStatus ==
    /\ Parsing("Online") \/ Parsing("Offline") \/ Parsing("UINResponse")
    /\ online' = CASE Head(m_recv).kind = "Online"  -> online \cup {Head(m_recv).who}
                   [] Head(m_recv).kind = "Offline" -> online \ {Head(m_recv).who}
                   [] OTHER -> online
    /\ UNCHANGED <<m_state, connVars, listener, signalled, m_in_dc, pingDue>>
    /\ Consume

\* StartServer, if incoming connections are wanted, and the selection.
CanStart(l) == m_in_dc => ~Started(l)
Start(l) == IF m_in_dc THEN "listening" ELSE l

\* SendLogin to its end: BOS_LOGGED_IN and the ConnectedEvent.
LoggedIn ==
    /\ m_state' = "BOS_LOGGED_IN" /\ signalled' = "connected"
    /\ pingDue' = FALSE

\* The answer to RateInfo when every Send succeeds.
LoginSent ==
    /\ CanStart(listener) /\ listener' = Start(listener)
    /\ sock = "CONNECTED"
    /\ server' = IF server = "Closed" THEN server ELSE "Online"
    /\ LoggedIn
    /\ UNCHANGED <<sock, watch, wire, online>>

\* The last Send fails, after StartServer: Disconnect stops the listening
\* server again, and SendLogin goes on to SignalConnect.
LoginLastSendFails ==
    /\ CanStart(listener) /\ listener' = Dropped(Start(listener))
    /\ sock = "CONNECTED" /\ CloseServerSocket
    /\ online' = {}
    /\ LoggedIn

\* An earlier Send fails, or the session was over already: SendLogin starts
\* the listening server all the same, and goes on to SignalConnect.
LoginEarlySendFails ==
    /\ CanStart(Dropped(listener)) /\ listener' = Start(Dropped(listener))
    /\ CloseServerSocket
    /\ online' = IF m_state = "NOT_CONNECTED" THEN online ELSE {}
    /\ LoggedIn

\* What StartServer may leave behind when it throws: "Already listening", no
\* descriptor, or a descriptor it could not bind and did not close.
StartFails(l) == IF Started(l) THEN {l} ELSE {l, "unbound"}

\* The exception leaves Parse, and RecvFromServer disconnects, unless an
\* earlier failed Send did already.
LoginNoListener ==
    /\ m_in_dc
    /\ \/ \E l \in StartFails(listener) : listener' = Dropped(l)
       \/ listener' \in StartFails(Dropped(listener))
    /\ CloseServerSocket
    /\ IF m_state = "NOT_CONNECTED" THEN UNCHANGED toldVars ELSE SignalDisconnect
    /\ m_state' = "NOT_CONNECTED"
    /\ m_recv' = Tail(m_recv) /\ pc' = "idle"
    /\ UNCHANGED pingDue

ParseRateInfo ==
    /\ Parsing("RateInfo")
    /\ \/ LoginSent /\ Consume
       \/ LoginLastSendFails /\ Consume
       \/ LoginEarlySendFails /\ Consume
       \/ LoginNoListener
    /\ UNCHANGED m_in_dc

-----------------------------------------------------------------------------
(* The servers (external): they greet, answer what the client asked, report *)
(* the contacts of a logged-in user, and may hang up at any time.           *)

Established == sock = "CONNECTED" /\ server \notin {"None", "Closed"}

ServerSends(f, next) ==
    /\ Established /\ Len(wire) + Len(m_recv) < MaxBuffer
    /\ wire' = Append(wire, f)
    /\ server' = next

ServerAnswers ==
    /\ \/ \E k \in {"ConnAck", "ServerReady", "CapAck", "RateInfo"} :
            server = k /\ ServerSends(Plain(k), "Quiet")
       \/ server = "UINResponse" /\ ServerSends(Plain("UINResponse"), "AuthReply")
       \/ server = "AuthReply" /\ \E k \in {"Redirect", "Close"} : ServerSends(Plain(k), "Quiet")
    /\ UNCHANGED <<m_state, sock, watch, listener, m_in_dc, toldVars, pingDue, pc, m_recv>>

ServerReports ==
    /\ server = "Online"
    /\ \E f \in {About("Online", c) : c \in Roster} \cup {About("Offline", c) : c \in Contacts}
                \cup {Plain("Answered")} : ServerSends(f, "Online")
    /\ UNCHANGED <<m_state, sock, watch, listener, m_in_dc, toldVars, pingDue, pc, m_recv>>

\* With a channel 4 packet (for instance a second login), or without a word.
ServerHangsUp ==
    /\ Established
    /\ \/ server = "Online" /\ ServerSends(Plain("Close"), "Closed")
       \/ server' = "Closed" /\ UNCHANGED wire
    /\ UNCHANGED <<m_state, sock, watch, listener, m_in_dc, toldVars, pingDue, pc, m_recv>>

-----------------------------------------------------------------------------

Parse == ParseConnAck \/ ParseRedirect \/ ParseClose \/ ParseAnswered \/ ParseStatus \/ ParseRateInfo

SocketCallback == FinishNonBlockingConnect \/ InconsistentState \/ Recv

Next ==
    \/ ConnectAuthorizer \/ SetStatusOffline \/ Request \/ PingServer \/ Elapse
    \/ \E d \in BOOLEAN : SetAcceptInDC(d)
    \/ SocketCallback \/ AcceptFails
    \/ Parse
    \/ ServerAnswers \/ ServerReports \/ ServerHangsUp

Spec == Init /\ [][Next]_vars

\* The application calls socket_cb when a descriptor it selects on is ready,
\* and Poll regularly (both asked for in Client.h); a loop of the library
\* goes on; time passes; a server that has to answer does, or hangs up.
Fairness ==
    /\ WF_vars(FinishNonBlockingConnect) /\ WF_vars(InconsistentState)
    /\ WF_vars(Recv) /\ WF_vars(Parse)
    /\ WF_vars(Elapse) /\ WF_vars(PingServer)
    /\ WF_vars(ServerAnswers)

FairSpec == Spec /\ Fairness

-----------------------------------------------------------------------------
(* Properties.                                                              *)

(* Client.h promises that isConnected() corresponds exactly to the          *)
(* ConnectedEvents and DisconnectedEvents: the client is in BOS_LOGGED_IN   *)
(* when the last event was a ConnectedEvent, and only then.                 *)
EventsMatchState == m_state = "BOS_LOGGED_IN" <=> signalled = "connected"

(* The application selects on the server socket exactly while it is open,   *)
(* and for READ only once it is connected; no socket is open without a      *)
(* session that will close it.                                              *)
SocketOwned ==
    /\ m_state = "NOT_CONNECTED" => sock = "NOT_CONNECTED"
    /\ watch = "NONE" <=> sock = "NOT_CONNECTED"
    /\ watch = "READ" => sock = "CONNECTED"

(* A listening socket the application selects on belongs to an announced    *)
(* session that accepts direct connections: socket_cb would dispatch its    *)
(* readiness nowhere otherwise, and nothing would ever close it.            *)
ListenerOwned ==
    /\ listener = "listening" => m_state = "BOS_LOGGED_IN"
    /\ Started(listener) => m_in_dc

(* The client and the BOS server agree: the server reports contacts only to *)
(* a client that announced the session, and a client with a live announced  *)
(* session is known to the server (unless that one hung up).                *)
LoginAgreed ==
    /\ server = "Online" => m_state = "BOS_LOGGED_IN"
    /\ m_state = "BOS_LOGGED_IN" /\ sock = "CONNECTED" => server \in {"Online", "Closed"}

(* A login attempt ends: with a logged-in client or a disconnected one, as  *)
(* long as the servers answer or hang up, even if a Send failed unnoticed   *)
(* in the middle of it (only the ping of Poll finds that out).              *)
LoginResolves ==
    m_state \notin {"NOT_CONNECTED", "BOS_LOGGED_IN"} ~> m_state \in {"NOT_CONNECTED", "BOS_LOGGED_IN"}

(* A session whose socket is gone is given up in the end.                   *)
DeadSessionEnds ==
    m_state # "NOT_CONNECTED" /\ sock = "NOT_CONNECTED" ~> m_state = "NOT_CONNECTED"
=============================================================================
