--------------------------------- MODULE Smtp ---------------------------------
(***************************************************************************)
(* E-mails and SMS messages: SMTPClient (src/src/SMTPClient.cpp) with its  *)
(* queue and its dialogue with a mail server, and the request id cache,    *)
(* which owns an SMS while the ICQ server is asked, even after that server *)
(* has handed it over to be mailed (SignalSrvResponse in Client.cpp).      *)
(*                                                                         *)
(* An action is one call into the library; of the loop of                  *)
(* SMTPClient::Recv an action is one turn, since between two turns the     *)
(* library does nothing and the next line might as well arrive later.      *)
(* A timeout may strike at any Poll. The part of a line that was received  *)
(* without the rest is still counted as on the wire, and dropped with the  *)
(* connection; in the code it then spoils the greeting of the next one,    *)
(* which may be a bad one here anyway.                                     *)
(*                                                                         *)
(* Definitions whose name ends in _bug are seeded mistakes: each takes the *)
(* place of the definition that follows it when a property is tested.      *)
(***************************************************************************)
EXTENDS Naturals, Sequences

CONSTANTS
    Emails,     \* EmailMessageEvents the application will send
    SMSs,       \* SMSMessageEvents the application will send
    Null,       \* the null pointer, which socket_cb may queue
    MaxQueue,   \* bound: null pointers are queued below this length
    MaxLines    \* bound: lines received and not yet parsed

ASSUME Separate == Emails \cap SMSs = {} /\ Null \notin Emails \cup SMSs
ASSUME Bounds == MaxQueue \in Nat /\ MaxLines \in Nat

VARIABLES
    m_state,        \* SMTPClient::m_state
    sock,           \* m_socket->getState()
    watch,          \* mode the application selects on for the socket
    m_msgqueue,     \* messages to mail
    m_recv,         \* lines received and not yet parsed
    shifted,        \* began the connection with lines left over, or was a part parsed
    m_reqidcache,   \* SMS messages with a request id in the cache
    asked,          \* requests the ICQ server has yet to answer (external)
    wire,           \* lines on their way from the mail server (external)
    smtpd,          \* what the mail server reads next (external)
    accepted,       \* messages the mail server took (external)
    ack,            \* what messageack told about each message
    deleted,        \* messages that were deleted
    undefined       \* a deleted message or the null pointer was used

connVars == <<m_state, sock, watch, wire, smtpd, accepted>>
requestVars == <<m_reqidcache, asked>>
eventVars == <<ack, deleted>>
vars == <<connVars, m_msgqueue, m_recv, shifted, requestVars, eventVars, undefined>>

-----------------------------------------------------------------------------

Messages == Emails \cup SMSs

\* What the server must say in each state of the dialogue for it to go on.
Answer == [WAITING_FOR_INVITATION |-> "220", WAITING_FOR_HELO_ACK |-> "250",
           WAITING_FOR_MAIL_ACK |-> "250", WAITING_FOR_RCPT_ACK |-> "250",
           WAITING_FOR_DATA_ACK |-> "354", WAITING_FOR_TEXT_ACK |-> "250"]

Opening == {"WAITING_FOR_INVITATION", "WAITING_FOR_HELO_ACK"}
Transaction == DOMAIN Answer \ Opening
State == DOMAIN Answer \cup {"NOT_CONNECTED", "WAITING_FOR_CONNECT", "DISCONNECTING"}

Lines == {"220", "250", "354", "221", "no"}

TypeOK ==
    /\ m_state \in State
    /\ sock \in {"NOT_CONNECTED", "NONBLOCKING_CONNECT", "CONNECTED"}
    /\ watch \in {"NONE", "READ", "WRITE"}
    /\ m_msgqueue \in Seq(Messages \cup {Null})
    /\ m_recv \in Seq(Lines) /\ wire \in Seq(Lines)
    /\ m_reqidcache \in SUBSET SMSs /\ asked \in SUBSET SMSs
    /\ smtpd \in {"none", "command", "data", "closed"}
    /\ accepted \in SUBSET Messages
    /\ ack \in [Messages -> {"unsent", "waiting", "delivered", "failed"}]
    /\ deleted \in SUBSET Messages
    /\ shifted \in BOOLEAN /\ undefined \in BOOLEAN

Init ==
    /\ m_state = "NOT_CONNECTED" /\ sock = "NOT_CONNECTED" /\ watch = "NONE"
    /\ m_msgqueue = <<>> /\ m_recv = <<>>
    /\ m_reqidcache = {} /\ asked = {}
    /\ wire = <<>> /\ smtpd = "none" /\ accepted = {}
    /\ ack = [m \in Messages |-> "unsent"] /\ deleted = {}
    /\ shifted = FALSE /\ undefined = FALSE

-----------------------------------------------------------------------------
(* The mail server (external) answers each command with one line, good or   *)
(* bad, and may hang up. While it reads a text, commands are part of it.    *)

Greeting == wire' \in {<<"220">>, <<"no">>} /\ smtpd' = "command"

\* rest is what is on the wire before the answer to the command.
MailServer(command, rest) ==
    \/ /\ smtpd = "command"
       /\ \/ command \in {"HELO", "MAIL", "RCPT"}
             /\ wire' = Append(rest, "250") /\ UNCHANGED smtpd
          \/ command = "DATA" /\ wire' = Append(rest, "354") /\ smtpd' = "data"
          \/ command = "QUIT" /\ wire' = Append(rest, "221") /\ smtpd' = "closed"
          \/ command # "QUIT" /\ wire' = Append(rest, "no") /\ UNCHANGED smtpd
       /\ UNCHANGED accepted
    \/ /\ smtpd = "data" /\ command = "TEXT"
       /\ smtpd' = "command"
       /\ \/ wire' = Append(rest, "250") /\ accepted' = accepted \cup {Head(m_msgqueue)}
          \/ wire' = Append(rest, "no") /\ UNCHANGED accepted
    \/ /\ smtpd = "closed" \/ (smtpd = "data" /\ command # "TEXT")
       /\ wire' = rest /\ UNCHANGED <<smtpd, accepted>>

HangsUp ==
    /\ ~undefined /\ smtpd \in {"command", "data"}
    /\ smtpd' = "closed"
    /\ UNCHANGED <<m_state, sock, watch, wire, accepted, m_msgqueue, m_recv, shifted,
                   requestVars, eventVars, undefined>>

-----------------------------------------------------------------------------
(* Connecting.                                                              *)

Closed == sock' = "NOT_CONNECTED" /\ wire' = <<>> /\ smtpd' = "none" /\ UNCHANGED accepted

\* SMTPClient::Disconnect. What m_recv holds stays there.
Disconnect == Closed /\ m_state' = "NOT_CONNECTED" /\ watch' = "NONE"

\* SMTPClient::Connect. "Already connected", or a connect that fails at
\* once, is caught and leads to Disconnect; a local server may be connected
\* at once. Lines left over will be taken for answers of this connection.
Connect ==
    \/ Disconnect /\ UNCHANGED shifted
    \/ /\ sock = "NOT_CONNECTED"
       /\ shifted' = (m_recv # <<>>)
       /\ m_state' = "WAITING_FOR_CONNECT" /\ watch' = "WRITE"
       /\ \/ sock' = "NONBLOCKING_CONNECT" /\ UNCHANGED <<wire, smtpd>>
          \/ sock' = "CONNECTED" /\ Greeting
       /\ UNCHANGED accepted

\* SMTPClient::SendEvent.
Enqueue(m) ==
    /\ m_msgqueue' = Append(m_msgqueue, m)
    /\ IF m_state = "NOT_CONNECTED" THEN Connect ELSE UNCHANGED <<connVars, shifted>>

SendEmail(m) ==
    /\ ~undefined /\ ack[m] = "unsent"
    /\ Enqueue(m)
    /\ ack' = [ack EXCEPT ![m] = "waiting"]
    /\ UNCHANGED <<m_recv, requestVars, deleted, undefined>>

\* socket_cb: the non-blocking connect has completed, well or not. If not,
\* DisconnectDirectConn removes the socket, and m_state is not told.
FinishNonBlockingConnect ==
    /\ ~undefined /\ watch = "WRITE" /\ sock = "NONBLOCKING_CONNECT"
    /\ \/ /\ sock' = "CONNECTED" /\ watch' = "READ"
          /\ m_state' = "WAITING_FOR_INVITATION"
          /\ Greeting /\ UNCHANGED accepted
       \/ Closed /\ watch' = "NONE" /\ UNCHANGED m_state
    /\ UNCHANGED <<m_msgqueue, m_recv, shifted, requestVars, eventVars, undefined>>

\* Poll: clearoutMessagesPoll.
PollConnects ==
    /\ ~undefined /\ m_msgqueue # <<>> /\ m_state = "NOT_CONNECTED"
    /\ Connect
    /\ UNCHANGED <<m_msgqueue, m_recv, requestVars, eventVars, undefined>>

\* No timeout strikes once the connection is up.
PollTimesOut_bug ==
    /\ ~undefined /\ m_msgqueue # <<>> /\ m_state = "WAITING_FOR_CONNECT"
    /\ Disconnect
    /\ UNCHANGED <<m_msgqueue, m_recv, shifted, requestVars, eventVars, undefined>>

\* Poll: check_timeout.
PollTimesOut ==
    /\ ~undefined /\ m_msgqueue # <<>> /\ m_state # "NOT_CONNECTED"
    /\ Disconnect
    /\ UNCHANGED <<m_msgqueue, m_recv, shifted, requestVars, eventVars, undefined>>

-----------------------------------------------------------------------------
(* SMTPClient::Recv and Parse.                                              *)

\* One turn of the loop of Recv: n more lines are received, and the first
\* line in m_recv is parsed. There is none if only a part was received.
Turn(n) ==
    LET buffer == m_recv \o SubSeq(wire, 1, n)
    IN  [line |-> IF buffer = <<>> THEN "part" ELSE Head(buffer),
         recv |-> IF buffer = <<>> THEN <<>> ELSE Tail(buffer),
         rest |-> SubSeq(wire, n + 1, Len(wire))]

Turns ==
    {Turn(n) : n \in {k \in 0..Len(wire) : wire # <<>> /\ Len(m_recv) + k <= MaxLines}}

\* A part that was parsed leaves the rest of the line to come as an answer.
Shifts(t) == shifted' = (shifted \/ t.line = "part")

\* The exception leaves m_state as it was.
Say_bug(command, state, rest) ==
    \/ MailServer(command, rest) /\ m_state' = state /\ UNCHANGED <<sock, watch>>
    \/ Closed /\ watch' = "NONE" /\ UNCHANGED m_state

\* SayHello ... SayQuit. A Send that fails closes the socket, and its
\* exception reaches socket_cb, which ends the selection.
Say(command, state, rest) ==
    \/ MailServer(command, rest) /\ m_state' = state /\ UNCHANGED <<sock, watch>>
    \/ Disconnect

\* The exceptions of Parse leave the socket connected; socket_cb ends the
\* selection.
Abandon(rest) ==
    /\ m_state' = "NOT_CONNECTED" /\ watch' = "NONE"
    /\ wire' = rest /\ UNCHANGED <<sock, smtpd, accepted>>

\* A line was parsed in one of the states; it is what the state waits for,
\* or it is not.
Parsed(t, states, good) ==
    /\ ~undefined /\ sock = "CONNECTED" /\ watch = "READ"
    /\ m_state \in states
    /\ good <=> t.line = Answer[m_state]
    /\ m_recv' = t.recv /\ Shifts(t)
    /\ UNCHANGED requestVars

Dangling(m) == m = Null \/ m \in deleted

\* What SayFrom, SayTo, SendText and the acknowledges do with a message.
Use(m, action) ==
    IF Dangling(m)
    THEN undefined' = TRUE /\ UNCHANGED connVars
    ELSE action /\ UNCHANGED undefined

SayFrom(q, rest) == Use(Head(q), Say("MAIL", "WAITING_FOR_MAIL_ACK", rest))

SayHello(t) ==
    /\ Parsed(t, {"WAITING_FOR_INVITATION"}, TRUE)
    /\ Say("HELO", "WAITING_FOR_HELO_ACK", t.rest)
    /\ UNCHANGED <<m_msgqueue, eventVars, undefined>>

SayFirst(t) ==
    /\ Parsed(t, {"WAITING_FOR_HELO_ACK"}, TRUE)
    /\ SayFrom(m_msgqueue, t.rest)
    /\ UNCHANGED <<m_msgqueue, eventVars>>

SayTo(t) ==
    /\ Parsed(t, {"WAITING_FOR_MAIL_ACK"}, TRUE)
    /\ Use(Head(m_msgqueue), Say("RCPT", "WAITING_FOR_RCPT_ACK", t.rest))
    /\ UNCHANGED <<m_msgqueue, eventVars>>

SayData(t) ==
    /\ Parsed(t, {"WAITING_FOR_RCPT_ACK"}, TRUE)
    /\ Say("DATA", "WAITING_FOR_DATA_ACK", t.rest)
    /\ UNCHANGED <<m_msgqueue, eventVars, undefined>>

SendText(t) ==
    /\ Parsed(t, {"WAITING_FOR_DATA_ACK"}, TRUE)
    /\ Use(Head(m_msgqueue), Say("TEXT", "WAITING_FOR_TEXT_ACK", t.rest))
    /\ UNCHANGED <<m_msgqueue, eventVars>>

\* After the last message the dialogue waits for the next line all the same.
Finish_bug(end, t, otherwise) ==
    /\ ack' = [ack EXCEPT ![Head(m_msgqueue)] = end]
    /\ m_msgqueue' = Tail(m_msgqueue)
    /\ IF Tail(m_msgqueue) = <<>>
       THEN wire' = t.rest /\ UNCHANGED <<m_state, sock, watch, smtpd, accepted, undefined>>
       ELSE SayFrom(Tail(m_msgqueue), t.rest)

\* The first message leaves the queue with its end told; then the next one
\* begins on the same connection, or, after the last one, otherwise.
Finish(end, t, otherwise) ==
    /\ ack' = [ack EXCEPT ![Head(m_msgqueue)] = end]
    /\ m_msgqueue' = Tail(m_msgqueue)
    /\ IF Tail(m_msgqueue) = <<>>
       THEN otherwise /\ UNCHANGED undefined
       ELSE SayFrom(Tail(m_msgqueue), t.rest)

\* A line parsed while the first message is dangling.
FinishDangling(t) ==
    /\ Dangling(Head(m_msgqueue))
    /\ undefined' = TRUE /\ UNCHANGED <<connVars, m_msgqueue, eventVars>>

\* Any answer to the text will do.
TextAccepted_bug(t) ==
    /\ Parsed(t, {"WAITING_FOR_TEXT_ACK"}, TRUE) \/ Parsed(t, {"WAITING_FOR_TEXT_ACK"}, FALSE)
    /\ \/ FinishDangling(t)
       \/ /\ ~Dangling(Head(m_msgqueue))
          /\ Finish("delivered", t, Say("QUIT", "DISCONNECTING", t.rest))
          /\ UNCHANGED deleted

\* The mail server took the message, and nobody deletes it here.
TextAccepted(t) ==
    /\ Parsed(t, {"WAITING_FOR_TEXT_ACK"}, TRUE)
    /\ \/ FinishDangling(t)
       \/ /\ ~Dangling(Head(m_msgqueue))
          /\ Finish("delivered", t, Say("QUIT", "DISCONNECTING", t.rest))
          /\ UNCHANGED deleted

\* The refused message is told to have failed, and stays in the queue.
Refused_bug(t) ==
    /\ Parsed(t, Transaction, FALSE)
    /\ \/ FinishDangling(t)
       \/ /\ ~Dangling(Head(m_msgqueue))
          /\ ack' = [ack EXCEPT ![Head(m_msgqueue)] = "failed"]
          /\ Abandon(t.rest)
          /\ UNCHANGED <<m_msgqueue, deleted, undefined>>

\* SMTPException.
Refused(t) ==
    /\ Parsed(t, Transaction, FALSE)
    /\ \/ FinishDangling(t)
       \/ /\ ~Dangling(Head(m_msgqueue))
          /\ Finish("failed", t, Abandon(t.rest))
          /\ deleted' = deleted \cup {Head(m_msgqueue)}

\* ParseException: before the dialogue comes to a message.
Unwelcome(t) ==
    /\ Parsed(t, Opening, FALSE)
    /\ Abandon(t.rest)
    /\ UNCHANGED <<m_msgqueue, eventVars, undefined>>

\* The answer to QUIT.
Ignored(t) ==
    /\ ~undefined /\ m_state = "DISCONNECTING" /\ sock = "CONNECTED" /\ watch = "READ"
    /\ m_recv' = t.recv /\ wire' = t.rest /\ Shifts(t)
    /\ UNCHANGED <<m_state, sock, watch, smtpd, accepted, m_msgqueue, requestVars,
                   eventVars, undefined>>

\* socket_cb on a connection that was there at once: a line is parsed in
\* WAITING_FOR_CONNECT, to no effect, and SendEvent(NULL) follows, as for a
\* FileTransferClient. The application still selects for WRITE.
Writable ==
    /\ ~undefined /\ watch = "WRITE" /\ sock = "CONNECTED" /\ smtpd # "closed"
    /\ \/ wire = <<>> /\ UNCHANGED <<wire, m_recv, shifted>>
       \/ \E t \in Turns : m_recv' = t.recv /\ wire' = t.rest /\ Shifts(t)
    /\ Len(m_msgqueue) < MaxQueue
    /\ m_msgqueue' = Append(m_msgqueue, Null)
    /\ UNCHANGED <<m_state, sock, watch, smtpd, accepted, requestVars, eventVars, undefined>>

\* SocketException in Recv, with or without the lines still on the wire.
ConnectionLost ==
    /\ ~undefined /\ watch # "NONE" /\ sock = "CONNECTED" /\ smtpd = "closed"
    /\ Disconnect
    /\ \/ UNCHANGED <<m_recv, shifted>>
       \/ watch = "WRITE" /\ \E t \in Turns : m_recv' = t.recv /\ Shifts(t)
    /\ UNCHANGED <<m_msgqueue, requestVars, eventVars, undefined>>

-----------------------------------------------------------------------------
(* SMS messages. The ICQ server (external) answers a request once; the      *)
(* "DUPLEX RESPONSE" the code ignores changes nothing and is left out.      *)

\* SendViaServer: the event goes into the cache before the request is sent.
SendSMS(m) ==
    /\ ~undefined /\ ack[m] = "unsent"
    /\ m_reqidcache' = m_reqidcache \cup {m}
    /\ asked' \in {asked, asked \cup {m}}
    /\ ack' = [ack EXCEPT ![m] = "waiting"]
    /\ UNCHANGED <<connVars, m_msgqueue, m_recv, shifted, deleted, undefined>>

\* Delivered, or undeliverable: RequestIDCache::remove deletes the event.
SMSResponse(m, end) ==
    /\ ~undefined /\ m \in asked \cap m_reqidcache
    /\ ack' = [ack EXCEPT ![m] = end]
    /\ m_reqidcache' = m_reqidcache \ {m} /\ deleted' = deleted \cup {m}
    /\ asked' = asked \ {m}
    /\ UNCHANGED <<connVars, m_msgqueue, m_recv, shifted, undefined>>

\* The ICQ server's answer is taken for a delivery.
SMSHandedOver_bug(m) ==
    /\ ~undefined /\ m \in asked \cap m_reqidcache
    /\ Enqueue(m)
    /\ ack' = [ack EXCEPT ![m] = "delivered"]
    /\ asked' = asked \ {m}
    /\ UNCHANGED <<m_recv, m_reqidcache, deleted, undefined>>

\* smtp_deliverable: the event is queued, and stays in the cache.
SMSHandedOver(m) ==
    /\ ~undefined /\ m \in asked \cap m_reqidcache
    /\ Enqueue(m)
    /\ asked' = asked \ {m}
    /\ UNCHANGED <<m_recv, m_reqidcache, eventVars, undefined>>

\* A ParseException for an unknown request id leaves socket_cb.
SMSLate(m) ==
    /\ ~undefined /\ m \in asked \ m_reqidcache
    /\ asked' = asked \ {m}
    /\ UNCHANGED <<connVars, m_msgqueue, m_recv, shifted, m_reqidcache, eventVars, undefined>>

\* Poll: expireItem deletes the event, and reqidcache_expired_cb tells
\* nobody about an SMS.
RequestExpires(m) ==
    /\ ~undefined /\ m \in m_reqidcache
    /\ undefined' = (m \in deleted)
    /\ m_reqidcache' = m_reqidcache \ {m} /\ deleted' = deleted \cup {m}
    /\ UNCHANGED <<connVars, m_msgqueue, m_recv, shifted, asked, ack>>

-----------------------------------------------------------------------------

Recv ==
    \E t \in Turns :
        \/ SayHello(t) \/ SayFirst(t) \/ SayTo(t) \/ SayData(t) \/ SendText(t)
        \/ TextAccepted(t) \/ Refused(t) \/ Unwelcome(t) \/ Ignored(t)

\* After a dangling message was used nothing is known; the model stops.
Crashed == undefined /\ UNCHANGED vars

\* Everything was sent and settled, and nothing is selected on.
Quiet ==
    /\ ~undefined /\ m_msgqueue = <<>> /\ watch = "NONE" /\ m_reqidcache = {} /\ asked = {}
    /\ \A m \in Messages : ack[m] # "unsent"
    /\ UNCHANGED vars

Next ==
    \/ FinishNonBlockingConnect \/ Writable \/ ConnectionLost \/ Recv
    \/ PollConnects \/ PollTimesOut \/ HangsUp
    \/ \E m \in Emails : SendEmail(m)
    \/ \E m \in SMSs :
          \/ SendSMS(m) \/ SMSHandedOver(m) \/ SMSLate(m) \/ RequestExpires(m)
          \/ \E end \in {"delivered", "failed"} : SMSResponse(m, end)
    \/ Crashed \/ Quiet

Spec == Init /\ [][Next]_vars

\* A command that is answered, and an answer that lets the dialogue go on.
Answered(t) == Len(wire') > Len(t.rest)
Begins == PollConnects /\ sock' = "NONBLOCKING_CONNECT"
Succeeds == FinishNonBlockingConnect /\ wire' = <<"220">>
Welcomed(t) == SayHello(t) /\ wire' = Append(t.rest, "250")

\* Poll is called again and again, so a request and a dialogue time out.
\* The mail server is there: whatever may work, works in the end if it is
\* tried again and again.
Fairness ==
    /\ WF_vars(PollTimesOut) /\ WF_vars(PollConnects)
    /\ \A m \in SMSs : WF_vars(RequestExpires(m))
    /\ SF_vars(Begins) /\ SF_vars(Succeeds)
    /\ SF_vars(\E t \in Turns : Welcomed(t))
    /\ SF_vars(\E t \in Turns : SayFirst(t) /\ Answered(t))
    /\ SF_vars(\E t \in Turns : SayTo(t) /\ Answered(t))
    /\ SF_vars(\E t \in Turns : SayData(t) /\ Answered(t))
    /\ SF_vars(\E t \in Turns : SendText(t) /\ Answered(t))
    /\ SF_vars(\E t \in Turns : TextAccepted(t) \/ Refused(t))

FairSpec == Spec /\ Fairness

-----------------------------------------------------------------------------
(* Properties.                                                              *)

\* Positions in the queue that hold a message and not the null pointer.
Queued == {i \in DOMAIN m_msgqueue : m_msgqueue[i] # Null}

(* The dialogue is always about somebody: *m_msgqueue.begin() exists        *)
(* whenever a line may make SMTPClient look at it, through every refusal,   *)
(* failed Send and reconnection.                                            *)
DialogueHasMessage == m_state \notin {"NOT_CONNECTED", "DISCONNECTING"} => m_msgqueue # <<>>

(* The application selects on an open socket only, and a dialogue that      *)
(* waits for a line has the application waiting for it too.                 *)
DialogueSelected ==
    /\ watch # "NONE" => sock # "NOT_CONNECTED"
    /\ m_state \in DOMAIN Answer \cup {"DISCONNECTING"} => watch = "READ" /\ sock = "CONNECTED"

(* A message is in the queue once, and only until its end is told: none is  *)
(* mailed, acknowledged or deleted by SMTPClient a second time.             *)
QueuedOnce ==
    /\ \A i, j \in Queued : m_msgqueue[i] = m_msgqueue[j] => i = j
    /\ \A i \in Queued : ack[m_msgqueue[i]] = "waiting"

(* An e-mail is told to be delivered only if the mail server took that very *)
(* message, although answers are told apart by their order alone, and a     *)
(* refused dialogue goes on with the next message on the same connection    *)
(* (SMTPClient.cpp:98-119, 161-175). The exception is a connection that is  *)
(* shifted: a line that came in two parts was parsed twice there, or it     *)
(* began with lines of another. README, section 6, says what happens then.  *)
DeliveredWasAccepted ==
    [][\A m \in Emails :
         ack[m] # "delivered" /\ ack'[m] = "delivered" => m \in accepted \/ shifted]_vars

(* SMS messages and e-mails follow MessageLife too: one end, and no other   *)
(* end after it, whoever of the two owners is first.                        *)
Stage(m) ==
    CASE ack[m] = "unsent"                                      -> "new"
      [] ack[m] \in {"delivered", "failed"}                     -> ack[m]
      [] ack[m] = "waiting" /\ m \notin deleted /\ ~undefined   -> "pending"
      [] OTHER                                                  -> "dropped"

Life == INSTANCE MessageLife WITH life <- [m \in Messages |-> Stage(m)]
LifeSpec == Life!Spec

(* Every message is settled, unless lines stay behind in m_recv for ever:   *)
(* the dialogue is tried again, after whatever a refusal, a failed Send or  *)
(* a half line did to it, until it comes to its end, and a request that the *)
(* ICQ server never answers times out. Lines that stay behind answer for    *)
(* the commands of the next dialogue, and put that out of step as well.     *)
LifeLive == <>[](m_recv = <<>>) => Life!Settled
===============================================================================
