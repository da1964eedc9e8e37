------------------------------ MODULE SmtpProofs ------------------------------
(* Theorems about Smtp, for any e-mails and SMS messages.                   *)
EXTENDS Smtp, SequenceTheorems, TLAPS

-----------------------------------------------------------------------------
(* The inductive invariant, in two halves: the connection, and who holds    *)
(* which message.                                                           *)

ConnOK ==
    /\ m_state \in State
    /\ sock \in {"NOT_CONNECTED", "NONBLOCKING_CONNECT", "CONNECTED"}
    /\ watch \in {"NONE", "READ", "WRITE"}
    /\ wire \in Seq(Lines)
    /\ smtpd \in {"none", "command", "data", "closed"}
    /\ accepted \in SUBSET Messages
    /\ DialogueSelected
    /\ watch = "WRITE" => m_state = "WAITING_FOR_CONNECT"

\* A request under way is about a message that waits, and is not queued yet;
\* while the cache knows the request, the message exists.
Asked ==
    \A m \in asked :
        /\ ack[m] = "waiting"
        /\ \A i \in DOMAIN m_msgqueue : m_msgqueue[i] # m
        /\ m \in m_reqidcache => m \notin deleted

\* A message that was not sent is nowhere.
Unsent == \A m \in Messages : ack[m] = "unsent" => m \notin deleted \cup m_reqidcache

QueueOK ==
    /\ m_msgqueue \in Seq(Messages \cup {Null})
    /\ m_reqidcache \in SUBSET SMSs /\ asked \in SUBSET SMSs
    /\ ack \in [Messages -> {"unsent", "waiting", "delivered", "failed"}]
    /\ deleted \in SUBSET Messages
    /\ QueuedOnce /\ Asked /\ Unsent

Inv ==
    /\ ConnOK /\ QueueOK /\ DialogueHasMessage
    /\ m_recv \in Seq(Lines) /\ undefined \in BOOLEAN

LEMMA InvGivesType == Inv /\ shifted \in BOOLEAN => TypeOK
BY DEF Inv, ConnOK, QueueOK, TypeOK

LEMMA InvInit == Init => Inv
<1> SUFFICES ASSUME Init PROVE Inv
  OBVIOUS
<1>1. Queued = {}
  BY DEF Queued, Init
<1>2. ConnOK
  <2>1. m_state \in State /\ DialogueSelected
    BY DEF Init, DialogueSelected, State, Answer
  <2>2. QED
    BY <2>1 DEF ConnOK, Init
<1>3. QueueOK
  <2>1. QueuedOnce
    BY <1>1 DEF QueuedOnce
  <2>2. Asked /\ Unsent
    BY DEF Init, Asked, Unsent
  <2>3. QED
    BY <2>1, <2>2 DEF QueueOK, Init
<1>4. QED
  BY <1>2, <1>3, EmptySeq DEF Inv, Init, DialogueHasMessage

-----------------------------------------------------------------------------
(* What the connection goes through keeps ConnOK.                           *)

\* What a turn leaves in m_recv and on the wire are lines.
LEMMA TurnTypes ==
    ASSUME m_recv \in Seq(Lines), wire \in Seq(Lines), NEW t \in Turns
    PROVE  t.recv \in Seq(Lines) /\ t.rest \in Seq(Lines)
<1>1. PICK n \in 0..Len(wire) : t = Turn(n)
  BY DEF Turns
<1> DEFINE buffer == m_recv \o SubSeq(wire, 1, n)
<1>2. Len(wire) \in Nat /\ n \in Int /\ n + 1 \in Int
  BY LenProperties
<1>3. SubSeq(wire, 1, n) \in Seq(Lines)
  <2>1. \A i \in 1..n : wire[i] \in Lines
    BY ElementOfSeq, <1>2
  <2>2. QED
    BY <1>2, <2>1, SubSeqProperties
<1>4. SubSeq(wire, n + 1, Len(wire)) \in Seq(Lines)
  <2>1. \A i \in (n + 1)..Len(wire) : wire[i] \in Lines
    BY ElementOfSeq, <1>2
  <2>2. QED
    BY <1>2, <2>1, SubSeqProperties
<1>5. buffer \in Seq(Lines)
  BY <1>3, ConcatProperties
<1>6. (IF buffer = <<>> THEN <<>> ELSE Tail(buffer)) \in Seq(Lines)
  BY <1>5, EmptySeq, HeadTailProperties
<1>7. QED
  BY <1>1, <1>4, <1>6 DEF Turn

LEMMA LineTypes == \A l \in Lines : <<>> \in Seq(Lines) /\ <<l>> \in Seq(Lines)
OBVIOUS

LEMMA DisconnectOK ==
    ASSUME ConnOK, Disconnect
    PROVE  ConnOK' /\ m_state' = "NOT_CONNECTED"
BY LineTypes DEF ConnOK, Disconnect, Closed, DialogueSelected, State, Answer, Lines

LEMMA ConnectOK ==
    ASSUME ConnOK, Connect
    PROVE  ConnOK'
<1>1. CASE Disconnect
  BY <1>1, DisconnectOK
<1>2. CASE ~Disconnect
  BY <1>2, LineTypes DEF ConnOK, Connect, Greeting, DialogueSelected, State, Answer, Lines
<1>3. QED
  BY <1>1, <1>2

\* A command that is answered, or whose Send fails.
LEMMA SayOK ==
    ASSUME ConnOK, NEW command, NEW state \in State, NEW rest \in Seq(Lines),
           sock = "CONNECTED", watch = "READ",
           command = "TEXT" => Head(m_msgqueue) \in Messages,
           Say(command, state, rest)
    PROVE  ConnOK' /\ m_state' \in {state, "NOT_CONNECTED"}
<1>1. CASE Disconnect
  BY <1>1, DisconnectOK
<1>2. CASE MailServer(command, rest) /\ m_state' = state /\ UNCHANGED <<sock, watch>>
  <2>1. \A l \in Lines : Append(rest, l) \in Seq(Lines)
    BY AppendProperties
  <2>2. wire' \in Seq(Lines) /\ smtpd' \in {"none", "command", "data", "closed"}
    BY <1>2, <2>1 DEF MailServer, ConnOK, Lines
  <2>3. accepted' \in SUBSET Messages
    BY <1>2 DEF MailServer, ConnOK
  <2>4. DialogueSelected'
    BY <1>2 DEF DialogueSelected
  <2>5. QED
    BY <1>2, <2>2, <2>3, <2>4 DEF ConnOK
<1>3. QED
  BY <1>1, <1>2 DEF Say

LEMMA AbandonOK ==
    ASSUME ConnOK, NEW rest \in Seq(Lines), Abandon(rest)
    PROVE  ConnOK' /\ m_state' = "NOT_CONNECTED"
BY DEF ConnOK, Abandon, DialogueSelected, State, Answer

-----------------------------------------------------------------------------
(* What happens to the queue keeps QueueOK.                                 *)

\* What is queued is a message or the null pointer.
LEMMA QueuedMessages ==
    ASSUME QueueOK
    PROVE  /\ Len(m_msgqueue) \in Nat /\ DOMAIN m_msgqueue = 1..Len(m_msgqueue)
           /\ \A i \in DOMAIN m_msgqueue : m_msgqueue[i] \in Messages \cup {Null}
           /\ \A i \in Queued : m_msgqueue[i] \in Messages
BY LenProperties DEF QueueOK, Queued

LEMMA NullIsNoMessage == Null \notin Messages
BY Separate DEF Messages

\* A message that waits and is not queued yet may be queued.
LEMMA EnqueueOK ==
    ASSUME QueueOK, NEW m \in Messages, \A i \in DOMAIN m_msgqueue : m_msgqueue[i] # m,
           m_msgqueue' = Append(m_msgqueue, m),
           ack' \in [Messages -> {"unsent", "waiting", "delivered", "failed"}],
           ack'[m] = "waiting", \A x \in Messages : x # m => ack'[x] = ack[x],
           asked' = asked \ {m}, UNCHANGED <<m_reqidcache, deleted>>
    PROVE  QueueOK'
<1>1. /\ m_msgqueue' \in Seq(Messages \cup {Null})
      /\ Len(m_msgqueue') = Len(m_msgqueue) + 1
      /\ \A i \in 1..Len(m_msgqueue) : m_msgqueue'[i] = m_msgqueue[i]
      /\ m_msgqueue'[Len(m_msgqueue) + 1] = m
  BY AppendProperties DEF QueueOK
<1>2. DOMAIN m_msgqueue' = 1..(Len(m_msgqueue) + 1)
  BY <1>1, LenProperties
<1>3. Queued' = Queued \cup {Len(m_msgqueue) + 1}
  BY <1>1, <1>2, QueuedMessages, NullIsNoMessage DEF Queued
<1>4. QueuedOnce'
  <2>1. \A i \in Queued : m_msgqueue'[i] = m_msgqueue[i] /\ m_msgqueue[i] # m /\ m_msgqueue[i] \in Messages
    BY <1>1, QueuedMessages DEF Queued
  <2>2. /\ \A i, j \in Queued : m_msgqueue[i] = m_msgqueue[j] => i = j
        /\ \A i \in Queued : ack[m_msgqueue[i]] = "waiting"
    BY DEF QueueOK, QueuedOnce
  <2>3. ASSUME NEW i \in Queued', NEW j \in Queued', m_msgqueue'[i] = m_msgqueue'[j] PROVE i = j
    <3>1. CASE i \in Queued /\ j \in Queued
      BY <2>1, <2>2, <2>3, <3>1
    <3>2. CASE i \notin Queued \/ j \notin Queued
      <4>1. i = Len(m_msgqueue) + 1 \/ j = Len(m_msgqueue) + 1
        BY <1>3, <3>2
      <4>2. m_msgqueue'[i] = m /\ m_msgqueue'[j] = m
        BY <1>1, <2>3, <4>1
      <4>3. i \notin Queued /\ j \notin Queued
        BY <2>1, <4>2
      <4>4. QED
        BY <1>3, <4>3
    <3>3. QED
      BY <3>1, <3>2
  <2>4. ASSUME NEW i \in Queued' PROVE ack'[m_msgqueue'[i]] = "waiting"
    BY <1>1, <1>3, <2>1, <2>2
  <2>5. QED
    BY <2>3, <2>4 DEF QueuedOnce
<1>5. Asked'
  BY <1>1, <1>2, QueuedMessages DEF Asked, QueueOK, Messages
<1>6. Unsent'
  BY DEF Unsent, QueueOK
<1>7. QED
  BY <1>1, <1>4, <1>5, <1>6 DEF QueueOK

\* The null pointer is queued to no effect on the messages.
LEMMA EnqueueNullOK ==
    ASSUME QueueOK, m_msgqueue' = Append(m_msgqueue, Null), UNCHANGED <<requestVars, eventVars>>
    PROVE  QueueOK'
<1>1. /\ m_msgqueue' \in Seq(Messages \cup {Null})
      /\ Len(m_msgqueue') = Len(m_msgqueue) + 1
      /\ \A i \in 1..Len(m_msgqueue) : m_msgqueue'[i] = m_msgqueue[i]
      /\ m_msgqueue'[Len(m_msgqueue) + 1] = Null
  BY AppendProperties DEF QueueOK
<1>2. DOMAIN m_msgqueue' = 1..(Len(m_msgqueue) + 1)
  BY <1>1, LenProperties
<1>3. Queued' = Queued /\ \A i \in Queued : m_msgqueue'[i] = m_msgqueue[i]
  BY <1>1, <1>2, QueuedMessages DEF Queued
<1>4. QueuedOnce' /\ Unsent'
  <2>1. /\ \A i, j \in Queued : m_msgqueue[i] = m_msgqueue[j] => i = j
        /\ \A i \in Queued : ack[m_msgqueue[i]] = "waiting"
    BY DEF QueueOK, QueuedOnce
  <2>2. ASSUME NEW i \in Queued', NEW j \in Queued', m_msgqueue'[i] = m_msgqueue'[j] PROVE i = j
    BY <1>3, <2>1, <2>2
  <2>3. ASSUME NEW i \in Queued' PROVE ack'[m_msgqueue'[i]] = "waiting"
    BY <1>3, <2>1 DEF eventVars
  <2>4. QED
    BY <2>2, <2>3 DEF QueuedOnce, QueueOK, Unsent, requestVars, eventVars
<1>5. Asked'
  BY <1>1, <1>2, QueuedMessages, NullIsNoMessage DEF Asked, QueueOK, requestVars, eventVars, Messages
<1>6. QED
  BY <1>1, <1>4, <1>5 DEF QueueOK, requestVars, eventVars

\* The first message may leave the queue with its end told.
LEMMA FinishOK ==
    ASSUME QueueOK, m_msgqueue # <<>>, Head(m_msgqueue) \in Messages,
           NEW end \in {"delivered", "failed"},
           m_msgqueue' = Tail(m_msgqueue), ack' = [ack EXCEPT ![Head(m_msgqueue)] = end],
           deleted' \in {deleted, deleted \cup {Head(m_msgqueue)}}, UNCHANGED requestVars
    PROVE  QueueOK' /\ ack[Head(m_msgqueue)] = "waiting"
<1> DEFINE m == Head(m_msgqueue)
<1>1. /\ m_msgqueue' \in Seq(Messages \cup {Null})
      /\ Len(m_msgqueue') = Len(m_msgqueue) - 1
      /\ \A i \in 1..Len(m_msgqueue') : m_msgqueue'[i] = m_msgqueue[i + 1]
  BY HeadTailProperties DEF QueueOK
<1>2. DOMAIN m_msgqueue' = 1..(Len(m_msgqueue) - 1)
  BY <1>1, LenProperties
<1>3. 1 \in Queued /\ m_msgqueue[1] = m
  BY QueuedMessages, NullIsNoMessage, EmptySeq DEF Queued, QueueOK
<1>4. ack[m] = "waiting"
  BY <1>3 DEF QueueOK, QueuedOnce
<1>5. \A i \in Queued' : i + 1 \in Queued /\ m_msgqueue'[i] = m_msgqueue[i + 1] /\ i + 1 # 1 /\ i \in Nat
  BY <1>1, <1>2, QueuedMessages DEF Queued
<1>0. /\ \A i, j \in Queued : m_msgqueue[i] = m_msgqueue[j] => i = j
      /\ \A i \in Queued : ack[m_msgqueue[i]] = "waiting"
  BY DEF QueueOK, QueuedOnce
<1>6. ASSUME NEW i \in Queued'
      PROVE  m_msgqueue'[i] # m /\ m_msgqueue'[i] \in Messages /\ ack[m_msgqueue'[i]] = "waiting"
  <2>1. i + 1 \in Queued /\ m_msgqueue'[i] = m_msgqueue[i + 1] /\ i + 1 # 1
    BY <1>5
  <2>2. m_msgqueue[i + 1] # m_msgqueue[1]
    BY <1>0, <1>3, <2>1
  <2>3. QED
    BY <1>0, <1>3, <2>1, <2>2, QueuedMessages
<1>7. QueuedOnce'
  <2>1. ASSUME NEW i \in Queued', NEW j \in Queued', m_msgqueue'[i] = m_msgqueue'[j] PROVE i = j
    <3>1. i + 1 \in Queued /\ j + 1 \in Queued /\ i \in Nat /\ j \in Nat
      BY <1>5
    <3>2. m_msgqueue[i + 1] = m_msgqueue[j + 1]
      BY <1>5, <2>1
    <3>3. i + 1 = j + 1
      BY <1>0, <3>1, <3>2
    <3>4. QED
      BY <3>1, <3>3
  <2>2. ASSUME NEW i \in Queued' PROVE ack'[m_msgqueue'[i]] = "waiting"
    BY <1>6 DEF QueueOK
  <2>3. QED
    BY <2>1, <2>2 DEF QueuedOnce
<1>8. m \notin asked
  BY <1>3 DEF QueueOK, Asked, Queued
<1>9. Asked'
  <2>1. \A i \in DOMAIN m_msgqueue' : i + 1 \in DOMAIN m_msgqueue /\ m_msgqueue'[i] = m_msgqueue[i + 1]
    BY <1>1, <1>2, QueuedMessages
  <2>2. \A x \in asked : x \in Messages
    BY DEF QueueOK, Messages
  <2>3. QED
    BY <1>8, <2>1, <2>2 DEF Asked, QueueOK, requestVars
<1>10. Unsent'
  BY <1>4 DEF Unsent, QueueOK, requestVars
<1>11. QED
  BY <1>1, <1>4, <1>7, <1>9, <1>10 DEF QueueOK, requestVars

-----------------------------------------------------------------------------
(* Every step keeps the invariant.                                          *)

\* A step that leaves the messages alone keeps QueueOK.
LEMMA FrameQueue ==
    ASSUME QueueOK, UNCHANGED <<m_msgqueue, requestVars, eventVars>>
    PROVE  QueueOK'
BY DEF QueueOK, QueuedOnce, Queued, Asked, Unsent, requestVars, eventVars

LEMMA FrameConn ==
    ASSUME ConnOK, UNCHANGED connVars
    PROVE  ConnOK'
BY DEF ConnOK, DialogueSelected, connVars

\* What holds whenever a line is parsed.
LEMMA ParsedFacts ==
    ASSUME Inv, NEW t \in Turns, NEW states, NEW good \in BOOLEAN, Parsed(t, states, good)
    PROVE  /\ t.rest \in Seq(Lines) /\ m_recv' \in Seq(Lines)
           /\ sock = "CONNECTED" /\ watch = "READ" /\ m_state \in states
           /\ states \subseteq DOMAIN Answer => m_msgqueue # <<>>
           /\ m_msgqueue # <<>> => Head(m_msgqueue) \in Messages \cup {Null}
           /\ ~undefined /\ UNCHANGED requestVars
<1>1. t.recv \in Seq(Lines) /\ t.rest \in Seq(Lines)
  BY TurnTypes DEF Inv, ConnOK
<1>2. m_msgqueue # <<>> => Head(m_msgqueue) \in Messages \cup {Null}
  BY HeadTailProperties DEF Inv, QueueOK
<1>3. states \subseteq DOMAIN Answer => m_msgqueue # <<>>
  BY DEF Parsed, Inv, DialogueHasMessage, Answer
<1>4. QED
  BY <1>1, <1>2, <1>3 DEF Parsed

\* A command about a message: it is sent, or the message is dangling.
LEMMA UseOK ==
    ASSUME ConnOK, sock = "CONNECTED", watch = "READ", undefined \in BOOLEAN,
           NEW m \in Messages \cup {Null}, NEW command, NEW state \in State,
           NEW rest \in Seq(Lines), command = "TEXT" => m = Head(m_msgqueue),
           Use(m, Say(command, state, rest))
    PROVE  ConnOK' /\ undefined' \in BOOLEAN /\ m_state' \in {m_state, state, "NOT_CONNECTED"}
<1>1. CASE Dangling(m)
  BY <1>1, FrameConn DEF Use, connVars
<1>2. CASE ~Dangling(m)
  <2>1. m \in Messages
    BY <1>2 DEF Dangling
  <2>2. Say(command, state, rest) /\ UNCHANGED undefined
    BY <1>2 DEF Use
  <2>3. QED
    BY <2>1, <2>2, SayOK
<1>3. QED
  BY <1>1, <1>2

LEMMA States == DOMAIN Answer \subseteq State /\ "DISCONNECTING" \in State
BY DEF State

LEMMA InDomain ==
    /\ Opening \subseteq DOMAIN Answer /\ Transaction \subseteq DOMAIN Answer
    /\ {"WAITING_FOR_TEXT_ACK"} \subseteq DOMAIN Answer
BY DEF Opening, Transaction, Answer

\* The dialogue about the first message goes on.
LEMMA SayStep ==
    ASSUME Inv, NEW t \in Turns, SayHello(t) \/ SayFirst(t) \/ SayTo(t) \/ SayData(t) \/ SendText(t)
    PROVE  Inv'
<1>1. PICK states \in SUBSET DOMAIN Answer : Parsed(t, states, TRUE)
  BY DEF SayHello, SayFirst, SayTo, SayData, SendText, Answer
<1>2. /\ t.rest \in Seq(Lines) /\ m_recv' \in Seq(Lines) /\ sock = "CONNECTED" /\ watch = "READ"
      /\ m_msgqueue # <<>> /\ Head(m_msgqueue) \in Messages \cup {Null} /\ UNCHANGED requestVars
  BY <1>1, ParsedFacts
<1>3. UNCHANGED <<m_msgqueue, eventVars>>
  BY DEF SayHello, SayFirst, SayTo, SayData, SendText
<1>4. QueueOK' /\ DialogueHasMessage'
  BY <1>2, <1>3, FrameQueue DEF Inv, DialogueHasMessage
<1>5. ConnOK' /\ undefined' \in BOOLEAN
  <2> DEFINE states2 == {"WAITING_FOR_HELO_ACK", "WAITING_FOR_MAIL_ACK", "WAITING_FOR_RCPT_ACK",
                         "WAITING_FOR_DATA_ACK", "WAITING_FOR_TEXT_ACK"}
  <2>1. states2 \subseteq State
    BY DEF State, Answer
  <2>2. CASE SayHello(t)
    <3>1. Say("HELO", "WAITING_FOR_HELO_ACK", t.rest) /\ UNCHANGED undefined
      BY <2>2 DEF SayHello
    <3>2. QED
      BY <1>2, <2>1, <3>1, SayOK DEF Inv
  <2>3. CASE SayFirst(t)
    <3>1. Use(Head(m_msgqueue), Say("MAIL", "WAITING_FOR_MAIL_ACK", t.rest))
      BY <2>3 DEF SayFirst, SayFrom
    <3>2. QED
      BY <1>2, <2>1, <3>1, UseOK DEF Inv
  <2>4. CASE SayTo(t)
    <3>1. Use(Head(m_msgqueue), Say("RCPT", "WAITING_FOR_RCPT_ACK", t.rest))
      BY <2>4 DEF SayTo
    <3>2. QED
      BY <1>2, <2>1, <3>1, UseOK DEF Inv
  <2>5. CASE SayData(t)
    <3>1. Say("DATA", "WAITING_FOR_DATA_ACK", t.rest) /\ UNCHANGED undefined
      BY <2>5 DEF SayData
    <3>2. QED
      BY <1>2, <2>1, <3>1, SayOK DEF Inv
  <2>6. CASE SendText(t)
    <3>1. Use(Head(m_msgqueue), Say("TEXT", "WAITING_FOR_TEXT_ACK", t.rest))
      BY <2>6 DEF SendText
    <3>2. QED
      BY <1>2, <2>1, <3>1, UseOK DEF Inv
  <2>7. QED
    BY <2>2, <2>3, <2>4, <2>5, <2>6
<1>6. QED
  BY <1>2, <1>4, <1>5 DEF Inv

\* The first message leaves, and the next one begins or the dialogue ends.
LEMMA FinishStep ==
    ASSUME Inv, NEW t \in Turns, TextAccepted(t) \/ Refused(t)
    PROVE  Inv'
<1>1. PICK states \in SUBSET DOMAIN Answer, good \in BOOLEAN : Parsed(t, states, good)
  BY InDomain DEF TextAccepted, Refused
<1>2. /\ t.rest \in Seq(Lines) /\ m_recv' \in Seq(Lines) /\ sock = "CONNECTED" /\ watch = "READ"
      /\ m_msgqueue # <<>> /\ Head(m_msgqueue) \in Messages \cup {Null} /\ UNCHANGED requestVars
  BY <1>1, ParsedFacts
<1>3. CASE FinishDangling(t)
  <2>1. ConnOK' /\ QueueOK' /\ DialogueHasMessage'
    BY <1>2, <1>3, FrameConn, FrameQueue DEF FinishDangling, Inv, DialogueHasMessage, connVars
  <2>2. QED
    BY <1>2, <1>3, <2>1 DEF FinishDangling, Inv
<1>4. ASSUME ~Dangling(Head(m_msgqueue)), NEW end \in {"delivered", "failed"}, NEW otherwise \in BOOLEAN,
             Finish(end, t, otherwise),
             otherwise => ConnOK' /\ m_state' \in {"DISCONNECTING", "NOT_CONNECTED"},
             deleted' \in {deleted, deleted \cup {Head(m_msgqueue)}}
      PROVE  Inv'
  <2>1. Head(m_msgqueue) \in Messages
    BY <1>2, <1>4 DEF Dangling
  <2>2. QueueOK'
    BY <1>2, <1>4, <2>1, FinishOK DEF Finish, Inv
  <2>3. CASE Tail(m_msgqueue) = <<>>
    BY <1>2, <1>4, <2>2, <2>3 DEF Finish, Inv, DialogueHasMessage
  <2>4. CASE Tail(m_msgqueue) # <<>>
    <3>1. Head(Tail(m_msgqueue)) \in Messages \cup {Null}
      BY <1>2, <2>4, HeadTailProperties DEF Inv, QueueOK
    <3>2. Use(Head(Tail(m_msgqueue)), Say("MAIL", "WAITING_FOR_MAIL_ACK", t.rest))
      BY <1>4, <2>4 DEF Finish, SayFrom
    <3>3. "WAITING_FOR_MAIL_ACK" \in State
      BY DEF State, Answer
    <3>4. ConnOK' /\ undefined' \in BOOLEAN
      BY <1>2, <3>1, <3>2, <3>3, UseOK DEF Inv
    <3>5. DialogueHasMessage'
      BY <1>4, <2>4 DEF Finish, DialogueHasMessage
    <3>6. QED
      BY <1>2, <2>2, <3>4, <3>5 DEF Inv
  <2>5. QED
    BY <2>3, <2>4
<1>5. CASE TextAccepted(t) /\ ~FinishDangling(t)
  <2> DEFINE otherwise == Say("QUIT", "DISCONNECTING", t.rest)
  <2>1. ~Dangling(Head(m_msgqueue)) /\ Finish("delivered", t, otherwise) /\ UNCHANGED deleted
    BY <1>5 DEF TextAccepted
  <2>2. otherwise => ConnOK' /\ m_state' \in {"DISCONNECTING", "NOT_CONNECTED"}
    BY <1>2, States, SayOK DEF Inv
  <2>3. otherwise \in BOOLEAN
    BY DEF Say, MailServer, Disconnect, Closed
  <2> HIDE DEF otherwise
  <2>4. QED
    BY <1>4, <2>1, <2>2, <2>3
<1>6. CASE Refused(t) /\ ~FinishDangling(t)
  <2> DEFINE otherwise == Abandon(t.rest)
  <2>1. /\ ~Dangling(Head(m_msgqueue)) /\ Finish("failed", t, otherwise)
        /\ deleted' = deleted \cup {Head(m_msgqueue)}
    BY <1>6 DEF Refused
  <2>2. otherwise => ConnOK' /\ m_state' \in {"DISCONNECTING", "NOT_CONNECTED"}
    BY <1>2, AbandonOK DEF Inv
  <2>3. otherwise \in BOOLEAN
    BY DEF Abandon
  <2> HIDE DEF otherwise
  <2>4. QED
    BY <1>4, <2>1, <2>2, <2>3
<1>7. QED
  BY <1>3, <1>5, <1>6

\* The dialogue ends, or nothing comes of the line.
LEMMA EndStep ==
    ASSUME Inv, NEW t \in Turns, Unwelcome(t) \/ Ignored(t)
    PROVE  Inv'
<1>1. t.recv \in Seq(Lines) /\ t.rest \in Seq(Lines)
  BY TurnTypes DEF Inv, ConnOK
<1>2. QueueOK' /\ m_recv' \in Seq(Lines) /\ undefined' \in BOOLEAN
  <2>1. UNCHANGED <<m_msgqueue, requestVars, eventVars, undefined>> /\ m_recv' = t.recv
    BY DEF Unwelcome, Ignored, Parsed
  <2>2. QED
    BY <1>1, <2>1, FrameQueue DEF Inv
<1>3. CASE Unwelcome(t)
  <2>1. ConnOK' /\ m_state' = "NOT_CONNECTED"
    BY <1>1, <1>3, AbandonOK DEF Unwelcome, Inv
  <2>2. QED
    BY <1>2, <2>1 DEF Inv, DialogueHasMessage
<1>4. CASE Ignored(t)
  BY <1>1, <1>2, <1>4 DEF Ignored, Inv, ConnOK, DialogueHasMessage, DialogueSelected
<1>5. QED
  BY <1>3, <1>4

\* A message is queued, and a connection begins if there is none.
LEMMA EnqueueConn ==
    ASSUME ConnOK, m_msgqueue \in Seq(Messages \cup {Null}), NEW m \in Messages, Enqueue(m)
    PROVE  ConnOK' /\ DialogueHasMessage'
<1>1. ConnOK'
  BY ConnectOK, FrameConn DEF Enqueue
<1>2. m_msgqueue' # <<>>
  BY AppendProperties DEF Enqueue
<1>3. QED
  BY <1>1, <1>2 DEF DialogueHasMessage

\* A message that was not sent is not queued.
LEMMA UnsentNotQueued ==
    ASSUME QueueOK, NEW m \in Messages, ack[m] = "unsent"
    PROVE  (\A i \in DOMAIN m_msgqueue : m_msgqueue[i] # m) /\ m \notin asked
BY NullIsNoMessage DEF QueueOK, QueuedOnce, Queued, Asked

LEMMA SendEmailStep ==
    ASSUME Inv, NEW m \in Emails, SendEmail(m)
    PROVE  Inv'
<1>1. /\ m \in Messages /\ ack[m] = "unsent" /\ Enqueue(m) /\ ack' = [ack EXCEPT ![m] = "waiting"]
      /\ UNCHANGED <<m_recv, requestVars, deleted, undefined>>
  BY DEF SendEmail, Messages
<1>2. (\A i \in DOMAIN m_msgqueue : m_msgqueue[i] # m) /\ m \notin asked
  BY <1>1, UnsentNotQueued DEF Inv
<1>3. QueueOK'
  <2>1. m_msgqueue' = Append(m_msgqueue, m)
    BY <1>1 DEF Enqueue
  <2>2. /\ ack' \in [Messages -> {"unsent", "waiting", "delivered", "failed"}]
        /\ ack'[m] = "waiting" /\ \A x \in Messages : x # m => ack'[x] = ack[x]
    BY <1>1 DEF Inv, QueueOK
  <2>3. asked' = asked \ {m} /\ UNCHANGED <<m_reqidcache, deleted>>
    BY <1>1, <1>2 DEF requestVars
  <2>4. QED
    BY <1>1, <1>2, <2>1, <2>2, <2>3, EnqueueOK DEF Inv
<1>4. QED
  BY <1>1, <1>3, EnqueueConn DEF Inv, QueueOK

LEMMA HandedOverStep ==
    ASSUME Inv, NEW m \in SMSs, SMSHandedOver(m)
    PROVE  Inv'
<1>1. /\ m \in Messages /\ m \in asked /\ Enqueue(m) /\ asked' = asked \ {m}
      /\ UNCHANGED <<m_recv, m_reqidcache, eventVars, undefined>>
  BY DEF SMSHandedOver, Messages
<1>2. ack[m] = "waiting" /\ \A i \in DOMAIN m_msgqueue : m_msgqueue[i] # m
  BY <1>1 DEF Inv, QueueOK, Asked
<1>3. QueueOK'
  <2>1. m_msgqueue' = Append(m_msgqueue, m)
    BY <1>1 DEF Enqueue
  <2>2. ack' = ack /\ deleted' = deleted
    BY <1>1 DEF eventVars
  <2>3. ack' \in [Messages -> {"unsent", "waiting", "delivered", "failed"}]
    BY <2>2 DEF Inv, QueueOK
  <2>4. QED
    BY <1>1, <1>2, <2>1, <2>2, <2>3, EnqueueOK DEF Inv
<1>4. QED
  BY <1>1, <1>3, EnqueueConn DEF Inv, QueueOK

\* The connection alone changes.
LEMMA ConnectionStep ==
    ASSUME Inv, FinishNonBlockingConnect \/ PollConnects \/ PollTimesOut \/ HangsUp
    PROVE  Inv'
<1>1. UNCHANGED <<m_msgqueue, m_recv, requestVars, eventVars, undefined>>
  BY DEF FinishNonBlockingConnect, PollConnects, PollTimesOut, HangsUp
<1>2. QueueOK' /\ m_recv' \in Seq(Lines) /\ undefined' \in BOOLEAN
  BY <1>1, FrameQueue DEF Inv
<1>3. CASE FinishNonBlockingConnect
  <2>1. m_state' \in State /\ wire' \in Seq(Lines)
    BY <1>3, LineTypes DEF FinishNonBlockingConnect, Greeting, Closed, State, Answer, Lines, Inv, ConnOK
  <2>2. CASE watch' = "READ"
    <3>1. ConnOK'
      BY <1>3, <2>1, <2>2 DEF FinishNonBlockingConnect, Greeting, Closed, Inv, ConnOK, DialogueSelected
    <3>2. DialogueHasMessage'
      <4>1. m_state = "WAITING_FOR_CONNECT"
        BY <1>3 DEF FinishNonBlockingConnect, Inv, ConnOK
      <4>2. QED
        BY <1>1, <4>1 DEF Inv, DialogueHasMessage
    <3>3. QED
      BY <1>2, <3>1, <3>2 DEF Inv
  <2>3. CASE watch' # "READ"
    <3>1. UNCHANGED m_state /\ Closed /\ watch' = "NONE"
      BY <1>3, <2>3 DEF FinishNonBlockingConnect
    <3>2. m_state \notin DOMAIN Answer \cup {"DISCONNECTING"}
      BY <1>3 DEF FinishNonBlockingConnect, Inv, ConnOK, DialogueSelected
    <3>3. ConnOK'
      BY <2>1, <3>1, <3>2 DEF Closed, Inv, ConnOK, DialogueSelected
    <3>4. QED
      BY <1>1, <1>2, <3>1, <3>3 DEF Inv, DialogueHasMessage
  <2>4. QED
    BY <2>2, <2>3
<1>4. CASE PollConnects
  BY <1>1, <1>2, <1>4, ConnectOK DEF PollConnects, Inv, DialogueHasMessage
<1>5. CASE PollTimesOut
  BY <1>1, <1>2, <1>5, DisconnectOK DEF PollTimesOut, Inv, DialogueHasMessage
<1>6. CASE HangsUp
  BY <1>1, <1>2, <1>6 DEF HangsUp, Inv, ConnOK, DialogueSelected, DialogueHasMessage
<1>7. QED
  BY <1>3, <1>4, <1>5, <1>6

LEMMA LostStep ==
    ASSUME Inv, ConnectionLost
    PROVE  Inv'
<1>1. ConnOK' /\ m_state' = "NOT_CONNECTED"
  BY DisconnectOK DEF ConnectionLost, Inv
<1>2. m_recv' \in Seq(Lines)
  BY TurnTypes DEF ConnectionLost, Inv, ConnOK
<1>3. QueueOK' /\ undefined' \in BOOLEAN
  BY FrameQueue DEF ConnectionLost, Inv
<1>4. QED
  BY <1>1, <1>2, <1>3 DEF Inv, DialogueHasMessage

LEMMA WritableStep ==
    ASSUME Inv, Writable
    PROVE  Inv'
<1>1. m_recv' \in Seq(Lines) /\ wire' \in Seq(Lines)
  BY TurnTypes DEF Writable, Inv, ConnOK
<1>2. QueueOK' /\ undefined' \in BOOLEAN
  BY EnqueueNullOK DEF Writable, Inv
<1>3. m_msgqueue' # <<>>
  BY AppendProperties DEF Writable, Inv, QueueOK
<1>4. ConnOK' /\ DialogueHasMessage'
  BY <1>1, <1>3 DEF Writable, Inv, ConnOK, DialogueSelected, DialogueHasMessage
<1>5. QED
  BY <1>1, <1>2, <1>4 DEF Inv

\* The requests, without the connection.
LEMMA RequestStep ==
    ASSUME Inv, NEW m \in SMSs, NEW end \in {"delivered", "failed"},
           SendSMS(m) \/ SMSResponse(m, end) \/ SMSLate(m) \/ RequestExpires(m)
    PROVE  Inv'
<1>1. UNCHANGED <<connVars, m_msgqueue, m_recv>> /\ undefined' \in BOOLEAN /\ m \in Messages
  <2>1. UNCHANGED <<connVars, m_msgqueue, m_recv>> /\ m \in Messages
    BY DEF SendSMS, SMSResponse, SMSLate, RequestExpires, Messages
  <2>2. CASE RequestExpires(m)
    <3>1. undefined' = (m \in deleted)
      BY <2>2 DEF RequestExpires
    <3>2. QED
      BY <2>1, <3>1
  <2>3. CASE SendSMS(m) \/ SMSResponse(m, end) \/ SMSLate(m)
    BY <2>1, <2>3 DEF SendSMS, SMSResponse, SMSLate, Inv
  <2>4. QED
    BY <2>2, <2>3
<1>2. ConnOK' /\ DialogueHasMessage' /\ m_recv' \in Seq(Lines)
  BY <1>1, FrameConn DEF Inv, DialogueHasMessage, connVars
<1>3. Queued' = Queued /\ \A i \in Queued : m_msgqueue[i] \in Messages
  BY <1>1, QueuedMessages DEF Queued, Inv
<1>4. \A x \in asked : x \in Messages /\ ack[x] = "waiting" /\ \A i \in Queued : m_msgqueue[i] # x
  BY DEF Inv, QueueOK, Asked, Queued, Messages
<1>5. QueueOK'
  <2>1. CASE SendSMS(m)
    <3>1. ack[m] = "unsent" /\ ack' = [ack EXCEPT ![m] = "waiting"]
      BY <2>1 DEF SendSMS
    <3>2. (\A i \in DOMAIN m_msgqueue : m_msgqueue[i] # m) /\ m \notin deleted
      BY <1>1, <3>1, UnsentNotQueued DEF Inv, QueueOK, Unsent
    <3>3. QueuedOnce'
      BY <1>1, <1>3, <3>1 DEF Inv, QueueOK, QueuedOnce
    <3>4. Asked' /\ Unsent'
      BY <1>1, <1>4, <2>1, <3>1, <3>2 DEF SendSMS, Inv, QueueOK, Asked, Unsent
    <3>5. QED
      BY <1>1, <2>1, <3>1, <3>3, <3>4 DEF SendSMS, Inv, QueueOK
  <2>2. CASE SMSResponse(m, end)
    <3>1. m \in asked /\ ack' = [ack EXCEPT ![m] = end] /\ asked' = asked \ {m}
      BY <2>2 DEF SMSResponse
    <3>2. QueuedOnce'
      BY <1>1, <1>3, <1>4, <3>1 DEF Inv, QueueOK, QueuedOnce
    <3>3. Asked' /\ Unsent'
      BY <1>1, <1>4, <2>2, <3>1 DEF SMSResponse, Inv, QueueOK, Asked, Unsent
    <3>4. QED
      BY <1>1, <2>2, <3>1, <3>2, <3>3 DEF SMSResponse, Inv, QueueOK
  <2>3. CASE SMSLate(m)
    BY <1>1, <1>3, <2>3 DEF SMSLate, Inv, QueueOK, QueuedOnce, Asked, Unsent, eventVars
  <2>4. CASE RequestExpires(m)
    <3>1. ack[m] # "unsent" /\ UNCHANGED <<ack, asked>>
      BY <1>1, <2>4 DEF RequestExpires, Inv, QueueOK, Unsent
    <3>2. QueuedOnce'
      BY <1>1, <1>3, <3>1 DEF Inv, QueueOK, QueuedOnce
    <3>3. Asked' /\ Unsent'
      BY <1>1, <2>4, <3>1 DEF RequestExpires, Inv, QueueOK, Asked, Unsent
    <3>4. QED
      BY <1>1, <2>4, <3>1, <3>2, <3>3 DEF RequestExpires, Inv, QueueOK
  <2>5. QED
    BY <2>1, <2>2, <2>3, <2>4
<1>6. QED
  BY <1>1, <1>2, <1>5 DEF Inv

LEMMA InvStep == Inv /\ [Next]_vars => Inv'
<1> SUFFICES ASSUME Inv, [Next]_vars PROVE Inv'
  OBVIOUS
<1>1. CASE FinishNonBlockingConnect \/ PollConnects \/ PollTimesOut \/ HangsUp
  BY <1>1, ConnectionStep
<1>2. CASE Writable
  BY <1>2, WritableStep
<1>3. CASE ConnectionLost
  BY <1>3, LostStep
<1>4. CASE Recv
  BY <1>4, SayStep, FinishStep, EndStep DEF Recv
<1>5. ASSUME NEW m \in Emails, SendEmail(m) PROVE Inv'
  BY <1>5, SendEmailStep
<1>6. ASSUME NEW m \in SMSs, SMSHandedOver(m) PROVE Inv'
  BY <1>6, HandedOverStep
<1>7. ASSUME NEW m \in SMSs, NEW end \in {"delivered", "failed"},
             SendSMS(m) \/ SMSResponse(m, end) \/ SMSLate(m) \/ RequestExpires(m)
      PROVE  Inv'
  BY <1>7, RequestStep
<1>8. CASE UNCHANGED vars
  <2>1. ConnOK' /\ QueueOK'
    BY <1>8, FrameConn, FrameQueue DEF vars, Inv
  <2>2. QED
    BY <1>8, <2>1 DEF vars, connVars, Inv, DialogueHasMessage
<1>9. QED
  BY <1>1, <1>2, <1>3, <1>4, <1>5, <1>6, <1>7, <1>8 DEF Next, Crashed, Quiet

LEMMA ShiftedType == shifted \in BOOLEAN /\ [Next]_vars => shifted' \in BOOLEAN
<1> SUFFICES ASSUME shifted \in BOOLEAN, [Next]_vars PROVE shifted' \in BOOLEAN
  OBVIOUS
<1>1. ASSUME NEW t, Shifts(t) PROVE shifted' \in BOOLEAN
  BY <1>1 DEF Shifts
<1>2. ASSUME Connect PROVE shifted' \in BOOLEAN
  BY <1>2 DEF Connect
<1>3. CASE Recv
  BY <1>1, <1>3 DEF Recv, SayHello, SayFirst, SayTo, SayData, SendText, TextAccepted, Refused,
     Unwelcome, Ignored, Parsed
<1>4. CASE Writable \/ ConnectionLost
  BY <1>1, <1>4 DEF Writable, ConnectionLost
<1>5. CASE FinishNonBlockingConnect \/ PollConnects \/ PollTimesOut \/ HangsUp
  BY <1>2, <1>5 DEF FinishNonBlockingConnect, PollConnects, PollTimesOut, HangsUp
<1>6. ASSUME NEW m \in Messages, SendEmail(m) \/ SMSHandedOver(m) PROVE shifted' \in BOOLEAN
  BY <1>2, <1>6 DEF SendEmail, SMSHandedOver, Enqueue
<1>7. ASSUME NEW m \in SMSs, NEW end, SendSMS(m) \/ SMSResponse(m, end) \/ SMSLate(m) \/ RequestExpires(m)
      PROVE  shifted' \in BOOLEAN
  BY <1>7 DEF SendSMS, SMSResponse, SMSLate, RequestExpires
<1>8. CASE UNCHANGED vars
  BY <1>8 DEF vars
<1>9. QED
  BY <1>3, <1>4, <1>5, <1>6, <1>7, <1>8 DEF Next, Crashed, Quiet, Messages

LEMMA SmtpInvariant == Spec => []Inv
<1>1. QED
  BY InvInit, InvStep, PTL DEF Spec

(* Type correctness for any e-mails and SMS messages: in particular what the *)
(* mail server accepts are messages, never the null pointer.                *)
THEOREM SmtpTypeOK == Spec => []TypeOK
<1>1. Init => shifted \in BOOLEAN
  BY DEF Init
<1>2. shifted \in BOOLEAN /\ [Next]_vars => (shifted \in BOOLEAN)'
  BY ShiftedType
<1>3. QED
  BY <1>1, <1>2, SmtpInvariant, InvGivesType, PTL DEF Spec

(* Whenever a line makes SMTPClient look at *m_msgqueue.begin(), there is a *)
(* message there.                                                           *)
THEOREM DialogueAlwaysHasMessage == Spec => []DialogueHasMessage
<1>1. Inv => DialogueHasMessage
  BY DEF Inv
<1>2. QED
  BY <1>1, SmtpInvariant, PTL

(* A dialogue that waits for a line has an open socket the application      *)
(* selects on.                                                              *)
THEOREM DialogueAlwaysSelected == Spec => []DialogueSelected
<1>1. Inv => DialogueSelected
  BY DEF Inv, ConnOK
<1>2. QED
  BY <1>1, SmtpInvariant, PTL

(* No message is queued twice, or after its end was told, although the      *)
(* request id cache and the queue hold the same SMS.                        *)
THEOREM AlwaysQueuedOnce == Spec => []QueuedOnce
<1>1. Inv => QueuedOnce
  BY DEF Inv, QueueOK
<1>2. QED
  BY <1>1, SmtpInvariant, PTL

-----------------------------------------------------------------------------
(* Smtp implements MessageLife.                                             *)

\* After a dangling message was used nothing changes any more.
LEMMA UndefinedStays == undefined /\ [Next]_vars => UNCHANGED vars
BY DEF Next, Crashed, Quiet, vars, FinishNonBlockingConnect, Writable, ConnectionLost, Recv, SayHello, SayFirst,
       SayTo, SayData, SendText, TextAccepted, Refused, Unwelcome, Ignored, Parsed, PollConnects,
       PollTimesOut, HangsUp, SendEmail, SendSMS, SMSHandedOver, SMSLate, RequestExpires, SMSResponse

\* What a step may do to one message: nothing, send it, or settle it, if it
\* waits and exists.
Settles(m) == ack[m] = "waiting" /\ m \notin deleted /\ ack'[m] \in {"delivered", "failed"}

Lives ==
    /\ \A m \in Messages : ack'[m] = ack[m] \/ ack[m] = "unsent" \/ Settles(m)
    /\ deleted \subseteq deleted'

LEMMA FinishLives ==
    ASSUME Inv, NEW t \in Turns, TextAccepted(t) \/ Refused(t)
    PROVE  Lives
<1>1. PICK states \in SUBSET DOMAIN Answer, good \in BOOLEAN : Parsed(t, states, good)
  BY InDomain DEF TextAccepted, Refused
<1>2. m_msgqueue # <<>> /\ Head(m_msgqueue) \in Messages \cup {Null} /\ UNCHANGED requestVars
  BY <1>1, ParsedFacts
<1>3. CASE FinishDangling(t)
  BY <1>3 DEF FinishDangling, eventVars, Lives
<1>4. CASE ~FinishDangling(t)
  <2>1. ~Dangling(Head(m_msgqueue)) /\ m_msgqueue' = Tail(m_msgqueue)
    BY <1>4 DEF TextAccepted, Refused, Finish
  <2>2. PICK end \in {"delivered", "failed"} : ack' = [ack EXCEPT ![Head(m_msgqueue)] = end]
    BY <1>4 DEF TextAccepted, Refused, Finish
  <2>3. deleted' \in {deleted, deleted \cup {Head(m_msgqueue)}}
    BY <1>4 DEF TextAccepted, Refused
  <2>4. Head(m_msgqueue) \in Messages /\ Head(m_msgqueue) \notin deleted
    BY <1>2, <2>1 DEF Dangling
  <2>5. ack[Head(m_msgqueue)] = "waiting"
    BY <1>2, <2>1, <2>2, <2>3, <2>4, FinishOK DEF Inv
  <2>6. QED
    BY <2>2, <2>3, <2>4, <2>5 DEF Lives, Settles, Inv, QueueOK
<1>5. QED
  BY <1>3, <1>4

LEMMA StepLives == Inv /\ [Next]_vars => Lives
<1> SUFFICES ASSUME Inv, [Next]_vars PROVE Lives
  OBVIOUS
<1>1. ASSUME UNCHANGED eventVars PROVE Lives
  BY <1>1 DEF eventVars, Lives
<1>2. CASE FinishNonBlockingConnect \/ PollConnects \/ PollTimesOut \/ HangsUp \/ Writable \/ ConnectionLost
  BY <1>1, <1>2 DEF FinishNonBlockingConnect, PollConnects, PollTimesOut, HangsUp, Writable, ConnectionLost
<1>3. CASE Recv
  <2>1. PICK t \in Turns : \/ SayHello(t) \/ SayFirst(t) \/ SayTo(t) \/ SayData(t) \/ SendText(t)
                          \/ TextAccepted(t) \/ Refused(t) \/ Unwelcome(t) \/ Ignored(t)
    BY <1>3 DEF Recv
  <2>2. CASE TextAccepted(t) \/ Refused(t)
    BY <2>2, FinishLives
  <2>3. CASE ~TextAccepted(t) /\ ~Refused(t)
    BY <1>1, <2>1, <2>3 DEF SayHello, SayFirst, SayTo, SayData, SendText, Unwelcome, Ignored
  <2>4. QED
    BY <2>2, <2>3
<1>4. ASSUME NEW m \in Messages, ack[m] = "unsent", ack' = [ack EXCEPT ![m] = "waiting"], UNCHANGED deleted
      PROVE  Lives
  BY <1>4 DEF Lives, Inv, QueueOK
<1>5. ASSUME NEW m \in Emails, SendEmail(m) PROVE Lives
  BY <1>4, <1>5 DEF SendEmail, Messages
<1>6. ASSUME NEW m \in SMSs, SendSMS(m) PROVE Lives
  BY <1>4, <1>6 DEF SendSMS, Messages
<1>7. ASSUME NEW m \in SMSs, SMSHandedOver(m) \/ SMSLate(m) PROVE Lives
  BY <1>1, <1>7 DEF SMSHandedOver, SMSLate
<1>8. ASSUME NEW m \in SMSs, RequestExpires(m) PROVE Lives
  BY <1>8 DEF RequestExpires, Lives
<1>9. ASSUME NEW m \in SMSs, NEW end \in {"delivered", "failed"}, SMSResponse(m, end) PROVE Lives
  <2>1. ack[m] = "waiting" /\ m \notin deleted /\ m \in Messages
    BY <1>9 DEF SMSResponse, Inv, QueueOK, Asked, Messages
  <2>2. QED
    BY <1>9, <2>1 DEF SMSResponse, Lives, Settles, Inv, QueueOK
<1>10. CASE UNCHANGED vars
  BY <1>1, <1>10 DEF vars
<1>11. QED
  BY <1>2, <1>3, <1>5, <1>6, <1>7, <1>8, <1>9, <1>10 DEF Next, Crashed, Quiet

\* The stages of a step follow one another.
LEMMA StageStep ==
    ASSUME Inv, Inv', [Next]_vars, NEW m \in Messages
    PROVE  Stage(m)' \in Life!Follows(Stage(m))
<1> DEFINE Acks == {"unsent", "waiting", "delivered", "failed"}
<1> USE DEF Life!Follows, Life!Fates, Stage
<1>1. ack[m] \in Acks /\ ack'[m] \in Acks
  BY DEF Inv, QueueOK
<1>2. ack'[m] = ack[m] \/ ack[m] = "unsent" \/ Settles(m)
  BY StepLives DEF Lives
<1>3. m \in deleted => m \in deleted'
  BY StepLives DEF Lives
<1>4. CASE undefined
  <2>1. undefined' /\ ack'[m] = ack[m]
    BY <1>4, UndefinedStays DEF vars, eventVars
  <2>2. QED
    BY <1>1, <1>4, <2>1
<1>5. CASE ~undefined /\ ack[m] = "unsent"
  BY <1>1, <1>5
<1>6. CASE ~undefined /\ ack[m] \in {"delivered", "failed"}
  BY <1>2, <1>6 DEF Settles
<1>7. CASE ~undefined /\ ack[m] = "waiting" /\ m \in deleted
  BY <1>2, <1>3, <1>7 DEF Settles
<1>8. CASE ~undefined /\ ack[m] = "waiting" /\ m \notin deleted
  BY <1>1, <1>2, <1>8 DEF Settles
<1>9. QED
  BY <1>1, <1>4, <1>5, <1>6, <1>7, <1>8

(* Smtp implements MessageLife: an e-mail or an SMS has one end at most,    *)
(* and nothing is told of it afterwards, whichever of the request id cache  *)
(* and the mail queue comes first.                                          *)
THEOREM ImplementsMessageLife == Spec => LifeSpec
<1>1. Init => Life!Init
  <2> SUFFICES ASSUME Init PROVE Life!Init
    OBVIOUS
  <2>1. \A m \in Messages : Stage(m) = "new"
    BY DEF Init, Stage
  <2>2. QED
    BY <2>1 DEF Life!Init
<1>2. Inv /\ Inv' /\ [Next]_vars => [Life!Next]_([m \in Messages |-> Stage(m)])
  <2> SUFFICES ASSUME Inv, Inv', [Next]_vars PROVE Life!Next
    OBVIOUS
  <2>1. \A m \in Messages : Stage(m)' \in Life!Follows(Stage(m))
    BY StageStep
  <2>2. QED
    BY <2>1 DEF Life!Next
<1>3. QED
  BY <1>1, <1>2, SmtpInvariant, PTL DEF Spec, LifeSpec, Life!Spec

-----------------------------------------------------------------------------
(* A delivered e-mail was accepted. On a connection that is not shifted no  *)
(* line outlives the turn it is received in, and the one on the wire        *)
(* answers the last command.                                                *)

OneLine(lines) == lines = <<>> \/ \E l \in Lines : lines = <<l>>

\* The line on the wire that will have the first message acknowledged.
TextAnswered ==
    ~undefined /\ m_state = "WAITING_FOR_TEXT_ACK" /\ wire = <<"250">> => Head(m_msgqueue) \in accepted

WholeInv == ~shifted => m_recv = <<>> /\ OneLine(wire) /\ TextAnswered

NoWire == sock # "CONNECTED" => wire = <<>>

\* A turn that parses no part parses the line on the wire, and leaves nothing.
LEMMA WholeTurn ==
    ASSUME m_recv = <<>>, OneLine(wire), NEW t \in Turns, t.line # "part"
    PROVE  t.recv = <<>> /\ t.rest = <<>> /\ wire = <<t.line>>
<1>1. PICK n \in 0..Len(wire) : t = Turn(n) /\ wire # <<>>
  BY DEF Turns
<1>2. PICK l \in Lines : wire = <<l>>
  BY <1>1 DEF OneLine
<1>3. Len(wire) = 1 /\ n = 1
  <2>1. Len(wire) = 1
    BY <1>2
  <2>2. n # 0
    <3>1. ASSUME n = 0 PROVE m_recv \o SubSeq(wire, 1, n) = <<>>
      BY <1>2, <3>1
    <3>2. QED
      BY <1>1, <3>1 DEF Turn
  <2>3. QED
    BY <1>1, <2>1, <2>2
<1>4. m_recv \o SubSeq(wire, 1, n) = <<l>>
  <2>1. <<l>> \in Seq(Lines)
    OBVIOUS
  <2>2. SubSeq(wire, 1, n) = <<l>>
    BY <1>2, <1>3, <2>1, SubSeqFull
  <2>3. QED
    BY <2>1, <2>2, ConcatEmptySeq
<1>5. SubSeq(wire, n + 1, Len(wire)) = <<>>
  BY <1>2, <1>3
<1>6. Head(<<l>>) = l /\ Tail(<<l>>) = <<>> /\ <<l>> # <<>>
  OBVIOUS
<1>7. QED
  BY <1>1, <1>2, <1>4, <1>5, <1>6 DEF Turn

\* A command that is answered leaves one line, or none.
LEMMA WholeSay ==
    ASSUME NEW command, NEW state, Say(command, state, <<>>)
    PROVE  /\ OneLine(wire') /\ accepted \subseteq accepted'
           /\ m_state' \in {state, "NOT_CONNECTED"}
           /\ command = "TEXT" /\ wire' = <<"250">> => Head(m_msgqueue) \in accepted'
<1>1. \A l \in Lines : Append(<<>>, l) = <<l>>
  OBVIOUS
<1>2. <<"no">> # <<"250">> /\ <<>> # <<"250">> /\ {"250", "354", "221", "no"} \subseteq Lines
  BY DEF Lines
<1>3. CASE Disconnect
  BY <1>2, <1>3 DEF Disconnect, Closed, OneLine
<1>4. CASE MailServer(command, <<>>) /\ m_state' = state
  <2>1. OneLine(wire') /\ accepted \subseteq accepted'
    BY <1>1, <1>2, <1>4 DEF MailServer, OneLine
  <2>2. command = "TEXT" /\ wire' = <<"250">> => Head(m_msgqueue) \in accepted'
    BY <1>1, <1>2, <1>4 DEF MailServer, Lines
  <2>3. QED
    BY <1>4, <2>1, <2>2
<1>5. QED
  BY <1>3, <1>4 DEF Say

LEMMA WholeUse ==
    ASSUME OneLine(wire), NEW m, NEW command, NEW state,
           state = "WAITING_FOR_TEXT_ACK" => command = "TEXT",
           Use(m, Say(command, state, <<>>))
    PROVE  /\ OneLine(wire')
           /\ ~undefined' /\ m_state' = "WAITING_FOR_TEXT_ACK" /\ wire' = <<"250">> =>
                 Head(m_msgqueue) \in accepted'
<1>1. CASE Dangling(m)
  BY <1>1 DEF Use, connVars
<1>2. CASE ~Dangling(m)
  <2>1. Say(command, state, <<>>)
    BY <1>2 DEF Use
  <2>2. QED
    BY <2>1, WholeSay
<1>3. QED
  BY <1>1, <1>2

\* A turn of Recv that parsed no part and has none behind it.
LEMMA WholeRecv ==
    ASSUME Inv, WholeInv, Recv, ~shifted'
    PROVE  m_recv' = <<>> /\ OneLine(wire') /\ TextAnswered'
<1>1. PICK t \in Turns :
         \/ SayHello(t) \/ SayFirst(t) \/ SayTo(t) \/ SayData(t) \/ SendText(t)
         \/ TextAccepted(t) \/ Refused(t) \/ Unwelcome(t) \/ Ignored(t)
  BY DEF Recv
<1>2. Shifts(t) /\ m_recv' = t.recv
  BY <1>1 DEF SayHello, SayFirst, SayTo, SayData, SendText, TextAccepted, Refused,
     Unwelcome, Ignored, Parsed
<1>3. ~shifted /\ t.line # "part"
  BY <1>2 DEF Shifts
<1>4. m_recv = <<>> /\ OneLine(wire) /\ TextAnswered
  BY <1>3 DEF WholeInv
<1>5. t.recv = <<>> /\ t.rest = <<>> /\ wire = <<t.line>>
  BY <1>3, <1>4, WholeTurn
<1>6. m_recv' = <<>>
  BY <1>2, <1>5
<1>7. CASE SayHello(t) \/ SayFirst(t) \/ SayTo(t) \/ SayData(t) \/ SendText(t)
  <2>1. UNCHANGED m_msgqueue
    BY <1>7 DEF SayHello, SayFirst, SayTo, SayData, SendText
  <2>2. \/ Say("HELO", "WAITING_FOR_HELO_ACK", <<>>)
        \/ \E m : Use(m, Say("MAIL", "WAITING_FOR_MAIL_ACK", <<>>))
        \/ \E m : Use(m, Say("RCPT", "WAITING_FOR_RCPT_ACK", <<>>))
        \/ Say("DATA", "WAITING_FOR_DATA_ACK", <<>>)
        \/ \E m : Use(m, Say("TEXT", "WAITING_FOR_TEXT_ACK", <<>>))
    BY <1>5, <1>7 DEF SayHello, SayFirst, SayTo, SayData, SendText, SayFrom
  <2>3. /\ OneLine(wire')
        /\ ~undefined' /\ m_state' = "WAITING_FOR_TEXT_ACK" /\ wire' = <<"250">> =>
              Head(m_msgqueue) \in accepted'
    BY <1>4, <2>2, WholeSay, WholeUse
  <2>4. QED
    BY <1>6, <2>1, <2>3 DEF TextAnswered
<1>8. ASSUME NEW end, NEW otherwise \in BOOLEAN, Finish(end, t, otherwise),
             otherwise => OneLine(wire') /\ m_state' # "WAITING_FOR_TEXT_ACK"
      PROVE  OneLine(wire') /\ TextAnswered'
  <2>1. CASE Tail(m_msgqueue) = <<>>
    BY <1>8, <2>1 DEF Finish, TextAnswered
  <2>2. CASE Tail(m_msgqueue) # <<>>
    <3>1. SayFrom(Tail(m_msgqueue), <<>>)
      BY <1>5, <1>8, <2>2 DEF Finish
    <3>2. CASE Dangling(Head(Tail(m_msgqueue)))
      BY <1>4, <3>1, <3>2 DEF SayFrom, Use, connVars, TextAnswered
    <3>3. CASE ~Dangling(Head(Tail(m_msgqueue)))
      <4>1. Say("MAIL", "WAITING_FOR_MAIL_ACK", <<>>)
        BY <3>1, <3>3 DEF SayFrom, Use
      <4>2. QED
        BY <4>1, WholeSay DEF TextAnswered
    <3>4. QED
      BY <3>2, <3>3
  <2>3. QED
    BY <2>1, <2>2
<1>9. CASE TextAccepted(t) \/ Refused(t)
  <2>1. CASE FinishDangling(t)
    BY <1>4, <1>6, <2>1 DEF FinishDangling, connVars, TextAnswered
  <2>2. CASE TextAccepted(t) /\ ~FinishDangling(t)
    <3> DEFINE otherwise == Say("QUIT", "DISCONNECTING", t.rest)
    <3>1. Finish("delivered", t, otherwise)
      BY <2>2 DEF TextAccepted
    <3>2. otherwise => OneLine(wire') /\ m_state' # "WAITING_FOR_TEXT_ACK"
      BY <1>5, WholeSay
    <3>3. otherwise \in BOOLEAN
      BY DEF Say, MailServer, Disconnect, Closed
    <3> HIDE DEF otherwise
    <3>4. QED
      BY <1>6, <1>8, <3>1, <3>2, <3>3
  <2>3. CASE Refused(t) /\ ~FinishDangling(t)
    <3> DEFINE otherwise == Abandon(t.rest)
    <3>1. Finish("failed", t, otherwise)
      BY <2>3 DEF Refused
    <3>2. otherwise => OneLine(wire') /\ m_state' # "WAITING_FOR_TEXT_ACK"
      BY <1>5 DEF Abandon, OneLine
    <3>3. otherwise \in BOOLEAN
      BY DEF Abandon
    <3> HIDE DEF otherwise
    <3>4. QED
      BY <1>6, <1>8, <3>1, <3>2, <3>3
  <2>4. QED
    BY <1>9, <2>1, <2>2, <2>3
<1>10. CASE Unwelcome(t) \/ Ignored(t)
  <2>1. wire' = <<>> /\ m_state' # "WAITING_FOR_TEXT_ACK"
    BY <1>5, <1>10 DEF Unwelcome, Ignored, Abandon
  <2>2. QED
    BY <1>6, <2>1 DEF OneLine, TextAnswered
<1>11. QED
  BY <1>1, <1>6, <1>7, <1>9, <1>10

\* Without a connection nothing is on the wire.
LEMMA NoWireStep ==
    ASSUME Inv, NoWire, [Next]_vars
    PROVE  NoWire'
<1>1. ASSUME UNCHANGED sock, sock = "CONNECTED" PROVE NoWire'
  BY <1>1 DEF NoWire
<1>2. ASSUME Closed PROVE NoWire'
  BY <1>2 DEF Closed, NoWire
<1>3. ASSUME UNCHANGED <<sock, wire>> PROVE NoWire'
  BY <1>3 DEF NoWire
<1>4. ASSUME NEW command, NEW state, NEW rest, Say(command, state, rest), sock = "CONNECTED"
      PROVE  NoWire'
  BY <1>1, <1>2, <1>4 DEF Say, Disconnect
<1>5. ASSUME NEW m, NEW command, NEW state, NEW rest, Use(m, Say(command, state, rest)),
             sock = "CONNECTED"
      PROVE  NoWire'
  BY <1>1, <1>4, <1>5 DEF Use, connVars
<1>6. ASSUME NEW rest, Abandon(rest), sock = "CONNECTED" PROVE NoWire'
  BY <1>1, <1>6 DEF Abandon
<1>7. CASE Recv
  <2>1. PICK t \in Turns :
         \/ SayHello(t) \/ SayFirst(t) \/ SayTo(t) \/ SayData(t) \/ SendText(t)
         \/ TextAccepted(t) \/ Refused(t) \/ Unwelcome(t) \/ Ignored(t)
    BY <1>7 DEF Recv
  <2>2. sock = "CONNECTED"
    BY <2>1 DEF SayHello, SayFirst, SayTo, SayData, SendText, TextAccepted, Refused,
       Unwelcome, Ignored, Parsed
  <2>3. ASSUME NEW end, NEW command, NEW state, NEW rest,
               Finish(end, t, Say(command, state, rest)) \/ Finish(end, t, Abandon(rest))
        PROVE  NoWire'
    BY <1>4, <1>5, <1>6, <2>2, <2>3 DEF Finish, SayFrom
  <2>4. CASE TextAccepted(t) \/ Refused(t)
    <3>1. CASE FinishDangling(t)
      BY <1>1, <2>2, <3>1 DEF FinishDangling, connVars
    <3>2. CASE ~FinishDangling(t)
      BY <2>3, <2>4, <3>2 DEF TextAccepted, Refused
    <3>3. QED
      BY <3>1, <3>2
  <2>5. CASE SayHello(t) \/ SayData(t)
    BY <1>4, <2>2, <2>5 DEF SayHello, SayData
  <2>6. CASE SayFirst(t) \/ SayTo(t) \/ SendText(t)
    BY <1>5, <2>2, <2>6 DEF SayFirst, SayTo, SendText, SayFrom
  <2>7. CASE Unwelcome(t) \/ Ignored(t)
    BY <1>1, <1>6, <2>2, <2>7 DEF Unwelcome, Ignored
  <2>8. QED
    BY <2>1, <2>4, <2>5, <2>6, <2>7
<1>8. ASSUME Connect PROVE NoWire'
  BY <1>2, <1>8 DEF Connect, Disconnect, NoWire
<1>9. CASE FinishNonBlockingConnect
  BY <1>2, <1>9 DEF FinishNonBlockingConnect, NoWire
<1>10. CASE PollConnects \/ PollTimesOut \/ ConnectionLost
  BY <1>2, <1>8, <1>10 DEF PollConnects, PollTimesOut, ConnectionLost, Disconnect
<1>11. CASE Writable \/ HangsUp
  BY <1>1, <1>3, <1>11 DEF Writable, HangsUp
<1>12. ASSUME NEW m \in Messages, SendEmail(m) \/ SMSHandedOver(m) PROVE NoWire'
  BY <1>3, <1>8, <1>12 DEF SendEmail, SMSHandedOver, Enqueue, connVars
<1>13. ASSUME NEW m \in SMSs, NEW end, SendSMS(m) \/ SMSResponse(m, end) \/ SMSLate(m) \/ RequestExpires(m)
       PROVE  NoWire'
  BY <1>3, <1>13 DEF SendSMS, SMSResponse, SMSLate, RequestExpires, connVars
<1>14. CASE UNCHANGED vars
  BY <1>3, <1>14 DEF vars, connVars
<1>15. QED
  BY <1>7, <1>9, <1>10, <1>11, <1>12, <1>13, <1>14 DEF Next, Crashed, Quiet, Messages

\* A new connection that finds m_recv empty begins in step.
LEMMA WholeConn ==
    ASSUME Inv, WholeInv, NoWire, Connect, UNCHANGED m_recv
    PROVE  WholeInv'
<1>1. {"220", "no"} \subseteq Lines
  BY DEF Lines
<1>2. CASE Disconnect /\ UNCHANGED shifted
  BY <1>2 DEF Disconnect, Closed, WholeInv, OneLine, TextAnswered
<1>3. CASE sock = "NOT_CONNECTED" /\ shifted' = (m_recv # <<>>) /\ m_state' = "WAITING_FOR_CONNECT"
  <2>1. wire = <<>> /\ OneLine(wire)
    BY <1>3 DEF NoWire, OneLine
  <2>2. OneLine(wire')
    BY <1>1, <1>3, <2>1 DEF Connect, Disconnect, Closed, Greeting, OneLine
  <2>3. QED
    BY <1>3, <2>2 DEF WholeInv, TextAnswered
<1>4. QED
  BY <1>2, <1>3 DEF Connect

\* The queue may grow behind the first message, and the connection go.
LEMMA WholeStep ==
    ASSUME Inv, WholeInv, NoWire, [Next]_vars
    PROVE  WholeInv'
<1>1. ASSUME UNCHANGED <<m_recv, shifted>>, OneLine(wire'), m_state' # "WAITING_FOR_TEXT_ACK"
      PROVE  WholeInv'
  BY <1>1 DEF WholeInv, TextAnswered
<1>2. ASSUME UNCHANGED <<m_recv, shifted, m_state, wire, accepted>>, ~undefined' => ~undefined,
             m_state = "WAITING_FOR_TEXT_ACK" => Head(m_msgqueue') = Head(m_msgqueue)
      PROVE  WholeInv'
  BY <1>2 DEF WholeInv, TextAnswered
<1>3. CASE Recv
  BY <1>3, WholeRecv DEF WholeInv
<1>4. CASE FinishNonBlockingConnect
  <2>1. m_state' # "WAITING_FOR_TEXT_ACK" /\ OneLine(wire')
    BY <1>4 DEF FinishNonBlockingConnect, Greeting, Closed, Inv, ConnOK, OneLine, Lines
  <2>2. UNCHANGED <<m_recv, shifted>>
    BY <1>4 DEF FinishNonBlockingConnect
  <2>3. QED
    BY <1>1, <2>1, <2>2
<1>5. CASE PollConnects
  BY <1>5, WholeConn DEF PollConnects
<1>6. CASE PollTimesOut
  BY <1>1, <1>6 DEF PollTimesOut, Disconnect, Closed, OneLine
<1>7. ASSUME NEW t \in Turns, Shifts(t), m_recv' = t.recv, ~shifted'
      PROVE  m_recv' = <<>> /\ t.rest = <<>>
  <2>1. ~shifted /\ t.line # "part"
    BY <1>7 DEF Shifts
  <2>2. QED
    BY <1>7, <2>1, WholeTurn DEF WholeInv
<1>8. CASE Writable
  <2>1. m_state' # "WAITING_FOR_TEXT_ACK"
    BY <1>8 DEF Writable, Inv, ConnOK
  <2>2. CASE wire = <<>> /\ UNCHANGED <<wire, m_recv, shifted>>
    BY <1>1, <2>1, <2>2 DEF OneLine
  <2>3. ASSUME NEW t \in Turns, m_recv' = t.recv, wire' = t.rest, Shifts(t) PROVE WholeInv'
    BY <1>7, <2>1, <2>3 DEF WholeInv, OneLine, TextAnswered
  <2>4. QED
    BY <1>8, <2>2, <2>3 DEF Writable
<1>9. CASE ConnectionLost
  <2>1. m_state' # "WAITING_FOR_TEXT_ACK" /\ wire' = <<>>
    BY <1>9 DEF ConnectionLost, Disconnect, Closed
  <2>2. CASE UNCHANGED <<m_recv, shifted>>
    BY <1>1, <2>1, <2>2 DEF OneLine
  <2>3. ASSUME NEW t \in Turns, m_recv' = t.recv, Shifts(t) PROVE WholeInv'
    BY <1>7, <2>1, <2>3 DEF WholeInv, OneLine, TextAnswered
  <2>4. QED
    BY <1>9, <2>2, <2>3 DEF ConnectionLost
<1>10. CASE HangsUp
  BY <1>2, <1>10 DEF HangsUp
<1>11. ASSUME NEW m \in Messages, Enqueue(m), UNCHANGED <<m_recv, undefined>> PROVE WholeInv'
  <2>1. CASE m_state = "NOT_CONNECTED"
    BY <1>11, <2>1, WholeConn DEF Enqueue
  <2>2. CASE m_state # "NOT_CONNECTED"
    <3>1. m_state = "WAITING_FOR_TEXT_ACK" => m_msgqueue # <<>>
      BY DEF Inv, DialogueHasMessage, Answer
    <3>2. m_msgqueue # <<>> => Head(m_msgqueue') = Head(m_msgqueue)
      BY <1>11, AppendProperties, HeadTailProperties, LenProperties, EmptySeq DEF Enqueue, Inv, QueueOK
    <3>3. QED
      BY <1>2, <1>11, <2>2, <3>1, <3>2 DEF Enqueue, connVars
  <2>3. QED
    BY <2>1, <2>2
<1>12. ASSUME NEW m \in Messages, SendEmail(m) \/ SMSHandedOver(m) PROVE WholeInv'
  BY <1>11, <1>12 DEF SendEmail, SMSHandedOver
<1>13. ASSUME NEW m \in SMSs, NEW end, SendSMS(m) \/ SMSLate(m) \/ RequestExpires(m) \/ SMSResponse(m, end)
       PROVE  WholeInv'
  BY <1>2, <1>13 DEF SendSMS, SMSLate, RequestExpires, SMSResponse, connVars
<1>14. CASE UNCHANGED vars
  BY <1>2, <1>14 DEF vars, connVars
<1>15. QED
  BY <1>3, <1>4, <1>5, <1>6, <1>8, <1>9, <1>10, <1>12, <1>13, <1>14 DEF Next, Crashed, Quiet, Messages

\* Only the answer to a text tells that an e-mail was delivered.
LEMMA OnlyAccepted ==
    ASSUME Inv, WholeInv, [Next]_vars, NEW m \in Emails, ack[m] # "delivered", ack'[m] = "delivered"
    PROVE  m \in accepted \/ shifted
<1>1. m \in Messages /\ m \notin SMSs /\ ack \in [Messages -> {"unsent", "waiting", "delivered", "failed"}]
  BY Separate DEF Messages, Inv, QueueOK
<1>2. ASSUME UNCHANGED ack PROVE FALSE
  BY <1>2
<1>3. ASSUME NEW x, ack' = [ack EXCEPT ![x] = "waiting"] \/ ack' = [ack EXCEPT ![x] = "failed"] PROVE FALSE
  BY <1>1, <1>3
<1>4. ASSUME NEW x \in SMSs, NEW end, ack' = [ack EXCEPT ![x] = end] PROVE FALSE
  BY <1>1, <1>4
<1>5. CASE Recv
  <2>1. PICK t \in Turns : TextAccepted(t)
    <3>1. PICK t \in Turns :
         \/ SayHello(t) \/ SayFirst(t) \/ SayTo(t) \/ SayData(t) \/ SendText(t)
         \/ TextAccepted(t) \/ Refused(t) \/ Unwelcome(t) \/ Ignored(t)
      BY <1>5 DEF Recv
    <3>2. ASSUME SayHello(t) \/ SayFirst(t) \/ SayTo(t) \/ SayData(t) \/ SendText(t)
                 \/ Unwelcome(t) \/ Ignored(t)
          PROVE  FALSE
      BY <1>2, <3>2 DEF SayHello, SayFirst, SayTo, SayData, SendText, Unwelcome, Ignored, eventVars
    <3>3. ASSUME Refused(t) PROVE FALSE
      BY <1>2, <1>3, <3>3 DEF Refused, FinishDangling, Finish, eventVars
    <3>4. QED
      BY <3>1, <3>2, <3>3
  <2>2. t.line = "250" /\ ~FinishDangling(t)
    BY <1>2, <2>1 DEF TextAccepted, Parsed, Answer, FinishDangling, eventVars
  <2>3. m = Head(m_msgqueue) /\ ~undefined /\ m_state = "WAITING_FOR_TEXT_ACK"
    BY <1>1, <2>1, <2>2 DEF TextAccepted, Finish, Parsed
  <2>4. ~shifted => wire = <<"250">>
    BY <2>2, WholeTurn DEF WholeInv
  <2>5. QED
    BY <2>3, <2>4 DEF WholeInv, TextAnswered
<1>6. ASSUME NEW x \in SMSs, SMSHandedOver(x) PROVE FALSE
  BY <1>2, <1>6 DEF SMSHandedOver, eventVars
<1>7. ASSUME NEW x \in Emails, SendEmail(x) PROVE FALSE
  BY <1>3, <1>7 DEF SendEmail
<1>8. ASSUME NEW x \in SMSs, NEW end, SendSMS(x) \/ SMSLate(x) \/ RequestExpires(x) \/ SMSResponse(x, end)
      PROVE  FALSE
  BY <1>2, <1>4, <1>8 DEF SendSMS, SMSLate, RequestExpires, SMSResponse, eventVars
<1>9. CASE FinishNonBlockingConnect \/ Writable \/ ConnectionLost \/ PollConnects \/ PollTimesOut
           \/ HangsUp \/ UNCHANGED vars
  BY <1>2, <1>9 DEF FinishNonBlockingConnect, Writable, ConnectionLost, PollConnects, PollTimesOut,
     HangsUp, vars, eventVars
<1>10. QED
  BY <1>5, <1>6, <1>7, <1>8, <1>9 DEF Next, Crashed, Quiet

(* An e-mail is told to be delivered only if the mail server took it,       *)
(* whatever is refused and whenever the connection is lost (SMTPClient.cpp: *)
(* 98-119, 161-175), on every connection that did not begin with lines left *)
(* over and on which no part of a line was parsed.                          *)
THEOREM DeliveredAlwaysAccepted == Spec => DeliveredWasAccepted
<1>1. Init => WholeInv /\ NoWire
  BY DEF Init, WholeInv, OneLine, NoWire, TextAnswered
<1>2. Inv /\ WholeInv /\ NoWire /\ [Next]_vars => WholeInv' /\ NoWire'
  BY WholeStep, NoWireStep
<1>3. Inv /\ WholeInv /\ [Next]_vars =>
        [\A m \in Emails :
           ack[m] # "delivered" /\ ack'[m] = "delivered" => m \in accepted \/ shifted]_vars
  BY OnlyAccepted
<1>4. QED
  BY <1>1, <1>2, <1>3, SmtpInvariant, PTL DEF Spec, DeliveredWasAccepted
===============================================================================
