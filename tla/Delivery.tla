------------------------------- MODULE Delivery -------------------------------
(***************************************************************************)
(* The way of a MessageEvent through the library (src/src/Client.cpp,      *)
(* DirectClient.cpp, DCCache.h, SeqNumCache.h, ICBMCookieCache.h):         *)
(* SendEvent tries a direct connection first and the server next; the      *)
(* event waits in the queue or the sequence number cache of a DirectClient *)
(* or in the cookie cache, until an acknowledge, a timeout or the end of   *)
(* a connection settles it or sends it on its way again.                   *)
(*                                                                         *)
(* An action is one call into the library. Only the destruction of a       *)
(* DirectClient, which resubmits its messages one by one, takes several    *)
(* steps (doomed), with nothing else in between.                           *)
(*                                                                         *)
(* The session is reduced to what SendViaServer sees of m_state (module    *)
(* Session has it in full), a timeout may strike at any Poll, and a queue  *)
(* or a cache is the set of its messages.                                  *)
(*                                                                         *)
(* Definitions whose name ends in _bug are seeded mistakes: each takes the *)
(* place of the definition that follows it when a property is tested.      *)
(***************************************************************************)
EXTENDS FiniteSets

CONSTANTS
    Messages,   \* the MessageEvents the application will send
    Contacts,
    Fds,        \* descriptors for direct connections
    To,         \* the contact each message is for
    Kind,       \* MessageEvent::getType()
    Nobody      \* the peer of an incoming connection before ConfirmUIN

\* Normal stands for URL and Contacts, AuthReq for AuthAck and UserAdd too.
Kinds == {"Normal", "AwayMessage", "FileTransfer", "AuthReq"}

ASSUME Addressed ==
    /\ To \in [Messages -> Contacts]
    /\ Kind \in [Messages -> Kinds]
    /\ Nobody \notin Contacts

VARIABLES
    m_state,        \* NOT_CONNECTED, with the authorizer, or with the BOS server
    online,         \* contacts whose status is not OFFLINE
    direct,         \* contacts with m_direct set
    advanced,       \* contacts whose capabilities accept advanced messages
    m_dccache,      \* descriptor -> DirectClient
    m_msgqueue,     \* of each DirectClient: to send once it is connected
    m_msgcache,     \* of each DirectClient: sent, awaiting the peer's ACK
    m_cookiecache,  \* sent through the server as advanced, awaiting an ACK
    doomed,         \* descriptors whose DirectClient is being destroyed
    ack,            \* per message, what SendEvent and messageack told last
    undefined       \* a DirectClient was destroyed within its own destructor

contactVars == <<online, direct, advanced>>
connVars == <<m_dccache, m_msgqueue, m_msgcache>>
vars == <<m_state, contactVars, connVars, m_cookiecache, doomed, ack, undefined>>

-----------------------------------------------------------------------------

\* A DirectClient: still connecting or shaking hands, connected, or dead (a
\* Send of the application failed, and nothing but the exception told).
Link == [state : {"waiting", "connected", "dead"}, peer : Contacts \cup {Nobody}]
        \cup {[state |-> "none", peer |-> Nobody]}
NoLink == [state |-> "none", peer |-> Nobody]

Final == {"delivered", "failed", "timeout"}
Pending == {"waiting", "retrying"}
Acks == {"unsent", "thrown"} \cup Pending \cup Final

TypeOK ==
    /\ m_state \in {"NOT_CONNECTED", "AUTH", "BOS"}
    /\ online \in SUBSET Contacts /\ direct \in SUBSET Contacts
    /\ advanced \in SUBSET Contacts
    /\ m_dccache \in [Fds -> Link]
    /\ m_msgqueue \in [Fds -> SUBSET Messages]
    /\ m_msgcache \in [Fds -> SUBSET Messages]
    /\ m_cookiecache \in SUBSET Messages
    /\ doomed \in SUBSET Fds
    /\ ack \in [Messages -> Acks]
    /\ undefined \in BOOLEAN

Nothing == [f \in Fds |-> {}]

Init ==
    /\ m_state = "NOT_CONNECTED"
    /\ online = {} /\ direct = {} /\ advanced = {}
    /\ m_dccache = [f \in Fds |-> NoLink]
    /\ m_msgqueue = Nothing /\ m_msgcache = Nothing
    /\ m_cookiecache = {} /\ doomed = {}
    /\ ack = [m \in Messages |-> "unsent"]
    /\ undefined = FALSE

Idle == doomed = {} /\ ~undefined
Held(f) == m_msgqueue[f] \cup m_msgcache[f]

-----------------------------------------------------------------------------
(* The end of a session.                                                    *)

\* DisconnectBOS resets m_state first and destroys the direct connections
\* next, so what they held is not resubmitted but given up.
GivenUp(m) == IF Kind[m] = "FileTransfer" THEN "timeout" ELSE "failed"

DisconnectBOS(acks) ==
    LET scrapped == UNION {Held(f) : f \in Fds}
    IN  /\ ack' = [m \in Messages |-> IF m \in scrapped THEN GivenUp(m) ELSE acks[m]]
        /\ direct' = direct \ {To[m] : m \in {x \in scrapped : Kind[x] # "FileTransfer"}}
        /\ m_dccache' = [f \in Fds |-> NoLink]
        /\ m_msgqueue' = Nothing /\ m_msgcache' = Nothing

DisconnectAuthorizer(acks) == ack' = acks /\ UNCHANGED <<direct, connVars>>

\* Client::Disconnect and SignalDisconnect (an offline contact has no
\* capabilities); acks is ack, but for the message whose Send went wrong.
LinkBreaks(acks) ==
    /\ IF m_state = "AUTH" THEN DisconnectAuthorizer(acks) ELSE DisconnectBOS(acks)
    /\ m_state' = "NOT_CONNECTED"
    /\ online' = {} /\ advanced' = {}

Disconnect ==
    /\ Idle /\ m_state # "NOT_CONNECTED"
    /\ LinkBreaks(ack)
    /\ UNCHANGED <<m_cookiecache, doomed, undefined>>

\* A stray packet on channel 4: DisconnectBOS whatever m_state is.
Hangup ==
    /\ Idle /\ m_state # "BOS"
    /\ DisconnectBOS(ack)
    /\ m_state' = "NOT_CONNECTED"
    /\ online' = {} /\ advanced' = {}
    /\ UNCHANGED <<m_cookiecache, doomed, undefined>>

\* The login moves on. (Module Session also has the step that announces a
\* session on a connection that is gone; it is left out here.)
Login ==
    /\ Idle
    /\ \/ m_state = "NOT_CONNECTED" /\ m_state' = "AUTH"
       \/ m_state = "AUTH" /\ m_state' = "BOS"
    /\ UNCHANGED <<contactVars, connVars, m_cookiecache, doomed, ack, undefined>>

-----------------------------------------------------------------------------
(* SendViaServer.                                                           *)

\* Offline is part of the test: an offline contact's capabilities are clear.
Route(m) ==
    IF Kind[m] = "FileTransfer" THEN "advanced"
    ELSE IF Kind[m] = "AuthReq" THEN "normal"
    ELSE IF To[m] \in online \cap advanced THEN "advanced"
    ELSE IF Kind[m] = "AwayMessage" THEN "refused" ELSE "normal"

Connected == m_state # "NOT_CONNECTED"
Writes(m) == Connected /\ Route(m) # "refused"

\* The cookie is remembered before the Send; a normal message is told to be
\* delivered after it, whatever became of it.
Verdict(m, pending) ==
    IF Writes(m)
    THEN IF Route(m) = "advanced" THEN pending ELSE "delivered"
    ELSE "failed"

Remembered(m) ==
    IF Connected /\ Route(m) = "advanced" THEN m_cookiecache \cup {m} ELSE m_cookiecache

SendViaServer(m) ==
    LET acks == [ack EXCEPT ![m] = Verdict(m, "waiting")]
    IN  /\ m_cookiecache' = Remembered(m)
        /\ \/ /\ ack' = acks
              /\ UNCHANGED <<m_state, contactVars, connVars>>
           \/ Writes(m) /\ LinkBreaks(acks)

-----------------------------------------------------------------------------
(* SendEvent.                                                               *)

TriesDirect(m) == Kind[m] # "AuthReq" /\ To[m] \in online \cap direct

\* getByContact finds the connections nobody has claimed yet, too.
Between_bug(c) == {f \in Fds : m_dccache[f].state # "none" /\ m_dccache[f].peer \in {c, Nobody}}

Between(c) == {f \in Fds : m_dccache[f].state # "none" /\ m_dccache[f].peer = c}

\* Descriptors the next connection may get. That of a dead connection is
\* closed, so the number can be given out again, while the cache still has it.
Free == {f \in Fds : m_dccache[f].state \in {"none", "dead"}}

SendToServer(m) ==
    /\ Idle /\ ack[m] = "unsent"
    /\ TriesDirect(m) => Between(To[m]) = {}      \* ConnectDirect fails
    /\ SendViaServer(m)
    /\ UNCHANGED <<doomed, undefined>>

\* ConnectDirect opens a connection for the message.
SendOpensDirect(m, f) ==
    /\ Idle /\ ack[m] = "unsent"
    /\ TriesDirect(m) /\ Between(To[m]) = {} /\ f \in Free
    /\ m_dccache' = [m_dccache EXCEPT ![f] = [state |-> "waiting", peer |-> To[m]]]
    /\ m_msgqueue' = [m_msgqueue EXCEPT ![f] = {m}]
    /\ m_msgcache' = [m_msgcache EXCEPT ![f] = {}]
    /\ ack' = [ack EXCEPT ![m] = "waiting"]
    /\ UNCHANGED <<m_state, contactVars, m_cookiecache, doomed, undefined>>

\* DirectClient::SendEvent on the connection there is.
SendOnDirect(m, f) ==
    /\ Idle /\ ack[m] = "unsent"
    /\ TriesDirect(m) /\ f \in Between(To[m])
    /\ \/ /\ m_dccache[f].state = "waiting"
          /\ m_msgqueue' = [m_msgqueue EXCEPT ![f] = @ \cup {m}]
          /\ ack' = [ack EXCEPT ![m] = "waiting"]
          /\ UNCHANGED <<m_dccache, m_msgcache>>
       \/ /\ m_dccache[f].state = "connected"
          /\ m_msgcache' = [m_msgcache EXCEPT ![f] = @ \cup {m}]
          /\ ack' = [ack EXCEPT ![m] = "waiting"]
          /\ UNCHANGED <<m_dccache, m_msgqueue>>
       \/ /\ m_dccache[f].state \in {"connected", "dead"}
          /\ m_dccache' = [m_dccache EXCEPT ![f].state = "dead"]
          /\ ack' = [ack EXCEPT ![m] = "thrown"]
          /\ UNCHANGED <<m_msgqueue, m_msgcache>>
    /\ UNCHANGED <<m_state, contactVars, m_cookiecache, doomed, undefined>>

-----------------------------------------------------------------------------
(* Direct connections.                                                      *)

\* socket_cb on the listening socket.
Accept(f) ==
    /\ Idle /\ m_state = "BOS" /\ f \in Free
    /\ m_dccache' = [m_dccache EXCEPT ![f] = [state |-> "waiting", peer |-> Nobody]]
    /\ m_msgqueue' = [m_msgqueue EXCEPT ![f] = {}]
    /\ m_msgcache' = [m_msgcache EXCEPT ![f] = {}]
    /\ UNCHANGED <<m_state, contactVars, m_cookiecache, doomed, ack, undefined>>

\* m_state becomes CONNECTED, and the queue is not flushed.
Shaken_bug(f, c, sent) ==
    /\ Idle /\ m_dccache[f].state = "waiting"
    /\ m_dccache[f].peer \in {c, Nobody}
    /\ sent = {}
    /\ m_dccache' = [m_dccache EXCEPT ![f] = [state |-> "connected", peer |-> c]]
    /\ UNCHANGED <<m_state, contactVars, m_msgqueue, m_msgcache, m_cookiecache, doomed, ack,
                   undefined>>

\* The handshake is over: flush_queue moves a message at a time, and a Send
\* that fails keeps the rest queued and tears the connection down.
Shaken(f, c, sent) ==
    /\ Idle /\ m_dccache[f].state = "waiting"
    /\ m_dccache[f].peer \in {c, Nobody}
    /\ sent \subseteq m_msgqueue[f]
    /\ m_msgqueue' = [m_msgqueue EXCEPT ![f] = @ \ sent]
    /\ m_msgcache' = [m_msgcache EXCEPT ![f] = @ \cup sent]
    /\ IF sent = m_msgqueue[f]
       THEN /\ m_dccache' = [m_dccache EXCEPT ![f] = [state |-> "connected", peer |-> c]]
            /\ UNCHANGED doomed
       ELSE /\ m_dccache' = [m_dccache EXCEPT ![f] = [state |-> "dead", peer |-> c]]
            /\ doomed' = {f}
    /\ UNCHANGED <<m_state, contactVars, m_cookiecache, ack, undefined>>

\* DisconnectDirectConn (a connect, a handshake or a receive failed, or a
\* dead socket was selected), or the timeout of the connection itself.
DirectConnEnds(f) ==
    /\ Idle /\ m_dccache[f].state # "none"
    /\ doomed' = {f}
    /\ UNCHANGED <<m_state, contactVars, connVars, m_cookiecache, ack, undefined>>

\* contactlist_cb, UserRemoved: the contact's direct connections go.
RemoveContact(c) ==
    /\ Idle
    /\ \/ doomed' = Between(c) /\ UNCHANGED <<m_state, contactVars, connVars, ack>>
       \/ m_state = "BOS" /\ LinkBreaks(ack) /\ UNCHANGED doomed
    /\ UNCHANGED <<m_cookiecache, undefined>>

\* expireItem signals the message and keeps it in the cache.
TakeOut_bug(f, m) ==
    /\ m_msgqueue' = [m_msgqueue EXCEPT ![f] = @ \ {m}]
    /\ UNCHANGED <<m_dccache, m_msgcache>>

\* The message leaves the DirectClient.
TakeOut(f, m) ==
    /\ m_msgqueue' = [m_msgqueue EXCEPT ![f] = @ \ {m}]
    /\ m_msgcache' = [m_msgcache EXCEPT ![f] = @ \ {m}]
    /\ UNCHANGED m_dccache

\* The message goes to the server, and back into the queue.
Resubmit_bug(f, m) ==
    /\ Connected /\ Kind[m] # "FileTransfer"
    /\ ack' = [ack EXCEPT ![m] = Verdict(m, "retrying")]
    /\ m_msgqueue' = [m_msgqueue EXCEPT ![f] = @ \cup {m}]
    /\ m_msgcache' = [m_msgcache EXCEPT ![f] = @ \ {m}]
    /\ UNCHANGED <<m_state, contactVars, m_dccache, m_cookiecache, undefined>>

\* expired_cb and dc_messageack_cb for a message of f: the application hears
\* that the direct attempt failed, and the server gets it; a file transfer
\* is over. If that Send fails in a BOS session, Disconnect destroys the very
\* DirectClient whose member function is running.
Resubmit(f, m) ==
    \/ /\ Kind[m] = "FileTransfer"
       /\ ack' = [ack EXCEPT ![m] = "timeout"]
       /\ TakeOut(f, m)
       /\ UNCHANGED <<m_state, contactVars, m_cookiecache, undefined>>
    \/ /\ Kind[m] # "FileTransfer"
       /\ ack' = [ack EXCEPT ![m] = Verdict(m, "retrying")]
       /\ direct' = direct \ {To[m]}
       /\ m_cookiecache' = Remembered(m)
       /\ TakeOut(f, m)
       /\ UNCHANGED undefined
       /\ \/ UNCHANGED <<m_state, online, advanced>>
          \/ /\ m_state = "AUTH" /\ Writes(m)
             /\ m_state' = "NOT_CONNECTED" /\ online' = {} /\ advanced' = {}
    \/ /\ Kind[m] # "FileTransfer"
       /\ m_state = "BOS" /\ Writes(m)
       /\ undefined' = TRUE
       /\ UNCHANGED <<m_state, contactVars, connVars, m_cookiecache, ack>>

\* ~DirectClient, one message at a time: the cache, then the queue.
DestroyResubmits(f, m) ==
    /\ f \in doomed /\ ~undefined
    /\ m \in IF m_msgcache[f] # {} THEN m_msgcache[f] ELSE m_msgqueue[f]
    /\ Resubmit(f, m)
    /\ UNCHANGED doomed

Destroyed(f) ==
    /\ f \in doomed /\ ~undefined /\ Held(f) = {}
    /\ m_dccache' = [m_dccache EXCEPT ![f] = NoLink]
    /\ doomed' = doomed \ {f}
    /\ UNCHANGED <<m_state, contactVars, m_msgqueue, m_msgcache, m_cookiecache, ack, undefined>>

\* Poll: DirectClient::clearoutMessagesPoll.
DirectMessageExpires(f, m) ==
    /\ Idle /\ m \in m_msgcache[f]
    /\ Resubmit(f, m)
    /\ UNCHANGED doomed

-----------------------------------------------------------------------------
(* What contacts and the server say.                                        *)

\* In any m_state: FLAPs still in m_recv are parsed after a Disconnect.
UserOnline(c) ==
    /\ Idle
    /\ online' = online \cup {c} /\ direct' = direct \cup {c}
    /\ advanced' \in {advanced, advanced \cup {c}, advanced \ {c}}
    /\ UNCHANGED <<m_state, connVars, m_cookiecache, doomed, ack, undefined>>

UserOffline(c) ==
    /\ Idle /\ c \in online
    /\ online' = online \ {c} /\ advanced' = advanced \ {c}
    /\ UNCHANGED <<m_state, direct, connVars, m_cookiecache, doomed, ack, undefined>>

\* handleIncomingACK: only a plain message can be turned down.
Answers(m) == IF Kind[m] = "Normal" THEN {"delivered", "failed"} ELSE {"delivered"}

\* The acknowledged message stays in the sequence number cache.
DirectACK_bug(f, m) ==
    /\ Idle /\ m_dccache[f].state = "connected" /\ m \in m_msgcache[f]
    /\ \E a \in Answers(m) : ack' = [ack EXCEPT ![m] = a]
    /\ UNCHANGED <<m_state, contactVars, connVars, m_cookiecache, doomed, undefined>>

DirectACK(f, m) ==
    /\ Idle /\ m_dccache[f].state = "connected" /\ m \in m_msgcache[f]
    /\ \E a \in Answers(m) : ack' = [ack EXCEPT ![m] = a]
    /\ m_msgcache' = [m_msgcache EXCEPT ![f] = @ \ {m}]
    /\ UNCHANGED <<m_state, contactVars, m_dccache, m_msgqueue, m_cookiecache, doomed, undefined>>

\* The acknowledged message stays in the cookie cache.
ServerACK_bug(m) ==
    /\ Idle /\ m \in m_cookiecache
    /\ \E a \in Answers(m) : ack' = [ack EXCEPT ![m] = a]
    /\ UNCHANGED <<m_state, contactVars, connVars, m_cookiecache, doomed, undefined>>

\* SignalMessageACK, and SignalMessage for a file transfer.
ServerACK(m) ==
    /\ Idle /\ m \in m_cookiecache
    /\ \E a \in Answers(m) : ack' = [ack EXCEPT ![m] = a]
    /\ m_cookiecache' = m_cookiecache \ {m}
    /\ UNCHANGED <<m_state, contactVars, connVars, doomed, undefined>>

\* SignalMessageOfflineUser: the server took the message, no more than that.
OfflineACK(m) ==
    /\ Idle /\ m \in m_cookiecache
    /\ ack' = [ack EXCEPT ![m] = "retrying"]
    /\ UNCHANGED <<m_state, contactVars, connVars, m_cookiecache, doomed, undefined>>

\* A file transfer in the cookie cache does not time out.
CookieExpires_bug(m) ==
    /\ Idle /\ m \in m_cookiecache /\ Kind[m] # "FileTransfer"
    /\ m_cookiecache' = m_cookiecache \ {m}
    /\ ack' = [ack EXCEPT ![m] = IF Connected THEN "delivered" ELSE "failed"]
    /\ advanced' = advanced \ {To[m]}
    /\ UNCHANGED <<m_state, online, direct, connVars, doomed, undefined>>

\* ICBMCookieCache_expired_cb: SendViaServerNormal, and the contact is taken
\* not to understand advanced messages.
CookieExpires(m) ==
    /\ Idle /\ m \in m_cookiecache
    /\ m_cookiecache' = m_cookiecache \ {m}
    /\ \/ /\ Kind[m] = "FileTransfer"
          /\ ack' = [ack EXCEPT ![m] = "timeout"]
          /\ UNCHANGED <<m_state, contactVars, connVars>>
       \/ /\ Kind[m] # "FileTransfer"
          /\ ack' = [ack EXCEPT ![m] = IF Connected THEN "delivered" ELSE "failed"]
          /\ advanced' = advanced \ {To[m]}
          /\ UNCHANGED <<m_state, online, direct, connVars>>
       \/ /\ Kind[m] # "FileTransfer" /\ Connected
          /\ LinkBreaks([ack EXCEPT ![m] = "delivered"])
    /\ UNCHANGED <<doomed, undefined>>

-----------------------------------------------------------------------------

\* After a double destruction nothing is known; the model stops there.
Crashed == undefined /\ UNCHANGED vars

Next ==
    \/ Disconnect \/ Hangup \/ Login
    \/ \E m \in Messages :
          \/ SendToServer(m) \/ ServerACK(m) \/ OfflineACK(m) \/ CookieExpires(m)
          \/ \E f \in Fds :
                \/ SendOpensDirect(m, f) \/ SendOnDirect(m, f) \/ DirectACK(f, m)
                \/ DirectMessageExpires(f, m) \/ DestroyResubmits(f, m)
    \/ \E f \in Fds :
          \/ Accept(f) \/ DirectConnEnds(f) \/ Destroyed(f)
          \/ \E c \in Contacts, sent \in SUBSET Messages : Shaken(f, c, sent)
    \/ \E c \in Contacts : RemoveContact(c) \/ UserOnline(c) \/ UserOffline(c)
    \/ Crashed

Spec == Init /\ [][Next]_vars

\* A destructor runs to its end. Poll is called again and again while the
\* library is idle, so a cached message and a cached connection expire.
Fairness ==
    /\ \A f \in Fds :
          /\ WF_vars(Destroyed(f)) /\ SF_vars(DirectConnEnds(f))
          /\ WF_vars(\E m \in Messages : DestroyResubmits(f, m))
    /\ \A m \in Messages : SF_vars(CookieExpires(m))

FairSpec == Spec /\ Fairness

-----------------------------------------------------------------------------
(* Properties.                                                              *)

(* Ownership: a MessageEvent is in one place at a time (one DirectClient's  *)
(* queue or cache, or the cookie cache), so no acknowledge or timeout ends  *)
(* it while somebody else still points to it.                               *)
HeldOnce ==
    /\ \A f \in Fds :
          /\ m_msgqueue[f] \cap m_msgcache[f] = {}
          /\ Held(f) \cap m_cookiecache = {}
          /\ \A g \in Fds \ {f} : Held(f) \cap Held(g) = {}

(* An event that is held has not been told its end: the application may     *)
(* still touch it, and the library still deletes it once.                   *)
HeldIsPending ==
    /\ \A f \in Fds : \A m \in Held(f) : ack[m] \in Pending
    /\ \A m \in m_cookiecache : ack[m] \in Pending

(* A direct connection only carries messages for the contact at its other   *)
(* end, though descriptors are reused and incoming peers name themselves.   *)
RightPeer == \A f \in Fds : \A m \in Held(f) : m_dccache[f].peer = To[m]

(* Messages are queued only until the handshake is over, and cached only    *)
(* after it: none is left behind in the queue of a working connection.      *)
QueueFlushed ==
    \A f \in Fds :
        /\ m_msgqueue[f] # {} => m_dccache[f].state = "waiting" \/ f \in doomed
        /\ m_msgcache[f] # {} => m_dccache[f].state \in {"connected", "dead"}

(* A message that failed on a direct connection goes by the server from     *)
(* then on, never by a direct connection again.                             *)
FallbackOnce == \A f \in Fds : \A m \in Held(f) : ack[m] = "waiting"

(* The application's view of each event follows MessageLife: one final      *)
(* acknowledge, nothing after it, and no end for an event never sent.       *)
Everywhere == m_cookiecache \cup UNION {Held(f) : f \in Fds}
Stage(m) ==
    CASE ack[m] = "unsent"                                 -> "new"
      [] ack[m] \in Final                                  -> ack[m]
      [] ack[m] \in Pending /\ m \in Everywhere /\ ~undefined -> "pending"
      [] OTHER                                             -> "dropped"

Life == INSTANCE MessageLife WITH life <- [m \in Messages |-> Stage(m)]
LifeSpec == Life!Spec

(* Every event the library holds is settled in the end, because everything  *)
(* that holds events has a timeout.                                         *)
LifeLive == Life!LiveSpec

(* "The library will take care of deleting it when appropriate" (SendEvent):*)
(* no DirectClient, and no event in it, is destroyed twice.                 *)
DestroyedOnce == ~undefined
=============================================================================
