# A TLA+ model of libicq2000

libicq2000 is a C++ library that speaks the ICQ2000 protocol for an
application: it logs a user in, reports the status of the user's contacts, and
sends and receives messages through the ICQ server, through direct connections
between two clients, or (for SMS and e-mail) through a mail server. It has no
thread of its own. The application selects on the descriptors the library asks
for, calls `Client::socket_cb` when one of them is ready and `Client::Poll`
every few seconds, and learns what happens from signals
(`src/libicq2000/Client.h:468-486`).

The hard part is therefore not parallelism but *order*: any Send may fail in
the middle of a handler and run the whole teardown of the session inside it;
destructors resubmit messages; five kinds of caches time out against late
answers; the own status follows the answers of a server that is always a few
packets behind; and every event must be owned by one place and told its end
once. That is what the modules here are about.

## 1. Inventory

| Component | State it keeps | Operations | Talks to | Module |
|---|---|---|---|---|
| Session (`Client.cpp`) | `m_state`, the server socket, `m_recv`, the listening socket, `m_last_server_ping` | setStatus, RegisterUIN, Poll, socket_cb on the server socket, ParseCh1/2/4, SendLogin, Disconnect | authorizer and BOS server, the application's select, the contacts' status | Session |
| Delivery (`Client.cpp`, `DirectClient.cpp`, `DCCache.h`, `SeqNumCache.h`, `ICBMCookieCache.h`) | `m_dccache`, per connection `m_msgqueue` and `m_msgcache`, `m_cookiecache` | SendEvent, SendViaServer*, dc_messageack_cb, *_expired_cb, the destruction of a DirectClient, the three kinds of acknowledge | Session (m_state, Send), contacts (direct, capabilities) | MessageLife, Delivery |
| Direct connection (`DirectClient.cpp`) | `m_state`, the peer's version, `m_seqnum`, queue and cache, at both ends | Connect, Parse, ConfirmUIN, flush_queue, SendFTACK, SendFTCancel | Delivery, the other client | DirectPeers |
| Timed caches (`Cache.h`) | entries in the order of their expiry | insert, operator[], remove, setTimeout, refresh, clearoutPoll, expireAll, removeAll | all of these | DueSet, TimedCache |
| SMTP, SMS (`SMTPClient.cpp`, `RequestIDCache.h`, `SignalSrvResponse`) | its own `m_state`, socket and queue; the request id cache | SendEvent, Connect, Recv, Parse, Poll | Delivery, mail server | Smtp |
| File transfer (`FileTransferClient.cpp`, `FTCache.h`) | the event of each side, `m_files`, flags of the dialogue, two sockets | SendFileTransfer, SendFileTransferACK, CancelFileTransfer, Recv, SendFile | Delivery (the request travels as a message) | FileTransfer |
| Requests by id (`RequestIDCache.h`, `Client.cpp`) | `m_requestid`, `m_reqidcache`, SearchResultEvents | searchForContacts, fetchDetailContactInfo, fetchSimpleContactInfo, SignalSrvResponse, Poll | Session, contacts, the slots of search_result | Requests |
| Contact tree (`ContactTree.cpp`, `Contact.cpp`) | groups, members, the group an object's signals go to | add_group, remove_group, add, remove, relocate_contact | Session (contactlist_cb) | Contacts |
| Status and visibility (`Client.cpp`, `Contact.cpp`) | `m_self`, `m_status_wanted`, the server's lists | setStatus, setInvisible, SendLogin, SignalUserOnline/Offline, HandleUserInfoSNAC | Session, Contacts | Statuses, Contacts |
| Message handler (`MessageHandler.cpp`) | none of its own | handleOutgoing, handleIncoming, handleIncomingACK | Delivery, the wire | Messages |
| Bytes (`buffer.cpp`, `ICQ.cpp`, `TLV.cpp`, `SNAC-MSG.cpp`, `SNAC-SRV.cpp`, the packets of `DirectClient.cpp`) | `m_recv` | write, read, cut FLAPs out of the stream | all | Wire, Messages |
| Server-based contact list, translator, XML, capabilities, signals, example client | none that matters | | | not modelled (section 7) |

What makes each of them correct:

* Session: the application's picture (connected or not, which descriptors to
  select on) agrees with the library's; the two ends of the connection agree on
  the login; an attempt or a dead session ends.
* Delivery: an event is owned by one place at a time, is told its end once and
  for good, travels only to the right peer, and is settled in the end.
* Direct connection: both ends agree on where the handshake is; what is
  acknowledged was told; what was sent is settled once.
* Caches: expired entries leave in order, none early, none never.
* SMTP/SMS: one owner for an event; the dialogue survives a refusal.
* File transfer: what is stored is what was sent; COMPLETE means it and stays;
  a transfer that was begun ends on both sides.
* Requests: results belong to the search that is told of them; a search ends
  once, and does end; nobody shows another user's details.
* Contacts and status: what is shown settles on what is so; the server has a
  list before the status that the list is for.
* Messages: the event that is told is the event that was sent, by every way,
  and so is the answer.

`PROJECT.json` lists every component with its status and every hazard with the
line where it bites.

## 2. Plan

The plan of the project, in the order of importance; all of it is done, and
the module that has it is named.

1. The session and its proofs: `Session`, `ClientProofs`.
2. The life of an event (abstract) and the delivery of messages that implements
   it: `MessageLife`, `Delivery`, `DeliveryProofs`.
3. SMTP and SMS, which implement the same life: `Smtp`, `SmtpProofs`.
4. Both ends of a direct connection: `DirectPeers`, `DirectPeersProofs`.
5. The cache against a set of deadlines: `DueSet`, `TimedCache`,
   `ClientProofs`.
6. File transfer with both peers: `FileTransfer`, `UsersProofs`.
7. Contact tree, presence and visibility: `Contacts`, `Statuses`,
   `UsersProofs`.
8. Searches and user information: `Requests`, `RequestsProofs`.
9. FLAPs over a byte stream, and messages in bytes: `Wire`, `Messages`,
   `WireProofs`, `MessagesProofs`.

What a next step would take up: the application's calls from inside a signal
handler (each handler becomes several steps), and file transfers whose answer
goes through the server.

## 3. Modules

The modules share no state: each has one component and, as external, what the
others and the network do to it. Where two components meet, one of them is
reduced in the other's module (the session is three values of `m_state` in
Delivery; the cache is a set there, and a list in TimedCache; a connection's
other end is free in Delivery, and the code itself in DirectPeers), and the
promise made in one module is what the other relies on. `Delivery` and `Smtp`
implement one abstract specification, `MessageLife`; `TimedCache` implements
`DueSet`; `Contacts` and `Messages` extend `Statuses`, and `Messages` `Wire`.

### Session

One action is one call of the application into the library, except that
`socket_cb` on the server socket is split at each receive and each FLAP (`pc` =
`recv`, `parse`): nothing else of the library or the application runs in
between, but the servers do, and their FLAPs pile up.

| Model | Code |
|---|---|
| `m_state`, `sock` | `Client::m_state`, `m_serverSocket->getState()` |
| `watch`, `listener` | what SignalAddSocket and SignalRemoveSocket told the application; `TCPServer` |
| `online`, `signalled` | the contacts' status; ConnectedEvent and DisconnectedEvent |
| `pingDue` | `now > m_last_server_ping + 60`, uninitialised at first |
| `m_recv`, `wire`, `server` | the receive buffer; what travels; what the server says next (external) |
| `ConnectAuthorizer` ... `SetAcceptInDC` | the calls of the application |
| `FinishNonBlockingConnect`, `InconsistentState`, `Recv`, `AcceptFails` | the branches of `socket_cb` |
| `ParseConnAck`, `ParseRedirect`, `ParseClose`, `ParseAnswered`, `ParseStatus`, `ParseRateInfo` | ParseCh1, ParseCh4, ParseCh2 with SendLogin |

`SendOrDisconnect` is `Client::Send`: each use of it may fail and disconnect,
and what the caller does *after* it (assign a state, signal, send more) is
done on top of that, as in the code. `ParseRateInfo` answers with five Sends
and StartServer; its disjuncts are the outcomes that differ: all succeed, an
early one or the last one fails, StartServer throws.

Abstractions: whole FLAPs (`Messages` has FLAPs cut over several reads; that
half a FLAP of one connection is left for the next is in neither); a
ParseException (malformed input) is left out; the application does not call
back from inside a signal; SNACs that only carry data to the application are
left out or stand for "Answered". A contact is online or not here; its status,
and how the tree changes meanwhile, is in `Contacts`.

### MessageLife and Delivery

`MessageLife` is the promise in the comment above `Client::SendEvent`: an event
is new, pending, or has an end, and an end is final. `Delivery` is the code:

| Model | Code |
|---|---|
| `m_dccache`, `m_msgqueue`, `m_msgcache` | the direct connections and what each holds |
| `m_cookiecache` | advanced messages sent through the server |
| `doomed` | DirectClients inside `delete` |
| `ack` | what the application was told last about each event (`retrying`: told that one attempt failed) |
| `undefined` | history: a DirectClient was destroyed twice |
| `SendToServer`, `SendOpensDirect`, `SendOnDirect` | the branches of `SendEvent` |
| `SendViaServer`, `Verdict`, `Remembered` | SendViaServer, SendViaServerAdvanced, SendViaServerNormal |
| `Shaken`, `DirectACK`, `DirectMessageExpires` | DirectClient: flush_queue, ParsePacketInt, clearoutMessagesPoll |
| `DestroyResubmits`, `Destroyed`, `Resubmit` | `~DirectClient`, dc_messageack_cb |
| `ServerACK`, `OfflineACK`, `CookieExpires` | SignalMessageACK, SignalMessageOfflineUser, ICBMCookieCache_expired_cb |
| `LinkBreaks`, `Hangup`, `Disconnect` | Client::Disconnect, DisconnectBOS, DisconnectDirectConns |

Only the destruction of a DirectClient takes several steps, because it sends,
and each Send can fail. When such a Send disconnects a BOS session, the code
deletes the DirectClient whose destructor is running: what happens then is
undefined, and the model stops in `undefined` (the run `delivery_twice` shows
the way there; the other properties are about the behaviours without it). The
entry of a dead connection may be overwritten by a new connection with its
descriptor number: its messages are then never settled, and count as `dropped`.

Abstractions: the session is reduced to three values of `m_state`, and the
announced session on a dead connection that `Session` finds is left out;
queues and caches are sets (no property is about their order); timeouts may
strike at any Poll; a contact's status may change in any `m_state`, because
FLAPs left in `m_recv` are parsed after a disconnect. SMS and e-mail go by
another route: `Smtp`.

### Smtp

E-mails, and the SMS messages the ICQ server declines to deliver but names a
mail gateway for, are mailed by `SMTPClient`. The module has the whole dialogue
and the request id cache as far as it holds SMS messages, and maps to
`MessageLife` like `Delivery`.

| Model | Code |
|---|---|
| `m_state`, `m_msgqueue`, `m_recv` | the fields of `SMTPClient` |
| `shifted` | history: the connection began with lines in `m_recv`, or a part of a line was parsed as a line |
| `sock`, `watch` | `m_socket->getState()`; what the application selects on |
| `m_reqidcache`, `asked` | SMS requests in the cache; those the ICQ server has yet to answer (external) |
| `wire`, `smtpd`, `accepted` | the mail server (external): its answers, what it reads next, what it took |
| `ack`, `deleted`, `undefined` | history: what was told, what was deleted, use of a dangling pointer |
| `SendEmail`, `SendSMS` | `Client::SendEvent`, `SendViaServer` |
| `SMSResponse`, `SMSHandedOver`, `SMSLate` | the branches of `SignalSrvResponse` |
| `RequestExpires` | `RequestIDCache::expireItem` |
| `Connect`, `Disconnect`, `PollConnects`, `PollTimesOut` | the same in `SMTPClient` |
| `FinishNonBlockingConnect`, `Writable` | the branches of `socket_cb` |
| `SayHello` ... `SendText`, `TextAccepted`, `Unwelcome`, `Refused`, `Ignored` | a turn of the loop of `Recv`: the branches of `Parse` and the catch clauses |

`Say` is `SMTPClient::Send` with what follows it: the command is answered, or
the Send fails and the connection is gone. `Turns` are the ways in which one
receive and one `UnpackCRLFString` can go: several lines may be received before
the first is parsed, and if only a part of a line has come it is parsed as a
line without a code. `Refused` deletes the first message and goes on with the
next on the same connection, without RSET.

Abstractions: a mail server answers a command with one line, and reads whole
commands; multi-line greetings and the text of commands are left out. The ICQ
server answers a request once, and the answer "DUPLEX RESPONSE", which the code
ignores, is left out. The branch of `socket_cb` for an inconsistent state is
left out: `DialogueSelected` says that it is never taken. Once a dangling
pointer (a deleted message, or null) is used, nothing is known, and the model
stops in `undefined` (section 6 says how it comes to that). Bounds: null
pointers are queued while the queue is shorter than `MaxQueue`, and no more than `MaxLines` lines are received and not parsed.

### DirectPeers

Two DirectClients, the caller and the called side, both the code. An action is
one packet of the loop of `Recv`, one call of the application, or what a Poll
finds due.

| Model | Code |
|---|---|
| `m_state`, `remote_version`, `m_seqnum`, `m_msgqueue`, `m_msgcache` | the fields of `DirectClient`, for each side; `remote_version` is `m_remote_tcp_version`; CONNECTING is WAITING_FOR_INIT_ACK while the socket is still connecting |
| `wire` | packets on their way to each side |
| `number`, `sent`, `asked`, `handled` | history: the number an event was sent under, its fate at the sender (`withdrawn`: taken back while queued), that of a request at the receiver, what each application was told |
| `early` | history: the caller sent an ACK or a CANCEL in the middle of its handshake |
| `Connect`, `FinishNonBlockingConnect`, `ParseInitPacket`, `ParseInitAck`, `ParseInit2`, `Refuse` | the handshake in `DirectClient::Parse`, with ConfirmUIN |
| `SendPacketEvents`, `Numbered` | SendPacketEvent, flush_queue |
| `ParseStart`, `ParseAck`, `ParseCancel` | the commands of ParsePacketInt |
| `SendFTACK`, `SendFTCancel`, `Tells`, `Usable` | the answer and the cancellation of a request, which `Client` sends in any state of the connection it has or has just opened |
| `Expire`, `Destroy` | clearoutMessagesPoll; `~DirectClient` |

Both sides count down from 65535, and `m_msgcache` is keyed by a side's own
numbers and by those of the peer's file requests. When two of them meet
(`Crossed`) the entry found may be another event's. The properties say what
holds for events that no number crosses; that numbers do cross is a fact of the
code (section 6). `SendFTACK` and `SendFTCancel` look at no state: while the
socket is still connecting the Send fails and ends the connection, and in the
middle of the handshake the packet goes out and the peer reads it as one of the
handshake (`early`). A request that is cancelled while it is queued stays in
`m_msgqueue`, is sent by flush_queue and gets a second fate: it is `withdrawn`
first. Its CANCEL carries the number that the event has from its constructor,
any of `Foreign`. `Earlier` are requests that an earlier connection of the two
told, and that are answered over this one.

Abstractions: of a peer that is not this library only the version it published;
another UIN is one of the reasons for `Refuse`; two entries of a cache are
inserted in different seconds; an event is sent once here (`FileTransfer` sends
one again); of other connections between the two there are the `Earlier`
requests only, so that a request whose numbers crossed is not cancelled after
the connection's end.

### DueSet and TimedCache

`DueSet` is what a cache is for: values under keys, each with a deadline, and a
sweep that takes out what was due when it began and does not end while any of
that is left. `TimedCache` is the template `Cache`: the list, the place that
`insert` finds for an entry, the assignment, `setTimeout`, `refresh`, and
`clearoutPoll`, one entry at a time because the callback of an expired entry
may insert into the cache that is being swept. `l` is the entry whose callback
runs. The clock may be set back. An entry expires at `timestamp + timeout`;
`setTimeout` and `refresh` keep the timestamp. `TimedCache` implements `DueSet`
under the mapping that forgets the order; what makes this so is `Sorted`.

### FileTransfer

One transfer, from the request to the end of both clients.

| Model | Code |
|---|---|
| `ev` | the FileTransferEvent of each side; `told` is the state the application was told last |
| `calls`, `twice`, `seq`, `queued` | how often the sender has asked, and whether it did while the event was still at work; the number of its last request; how often the event is in `m_msgqueue` |
| `asked`, `aside`, `answered` | the request the receiving application deals with, those it leaves aside, whether it has answered |
| `ftc` | the FileTransferClient of each side: `m_state`, `m_socket`, `m_more`, `m_continue`, `m_senddir`, whether the transfer waits in `m_msgqueue`, `m_remote_tcp_version` |
| `m_files`, `stored`, `disk` | what the sender has still to announce; what the receiver has given to mkdir and write, and counted; what is there of it, and which entries the file system failed |
| `cached`, `control` | the caches a request waits in; requests, answers and cancellations under way |
| `data` | packets under way on the transfer's own connection |
| `SendRequest`, `flush_queue`, `QueueExpires`, `handleIncomingFT`, `SendFileTransferACK`, `RefuseAside`, `AnswerNotSent`, `handleIncomingFTACK`, `handleIncomingFTCancel`, `CancelFileTransfer`, `Expire` | SendFileTransfer, MessageHandler, SendFileTransferACK, CancelFileTransfer, the expiry of the caches |
| `Connect`, `FinishNonBlockingConnect`, `Accept`, `ClientTimeout` | the connection and clearoutMessagesPoll |
| `SenderReceives`, `SenderWrites`, `SendFile`, `SendPacket0x02`, `SendPacket0x06` | the sender's side of FileTransferClient |
| `ReceiverReceives`, `ParsePacket0x02`, `ParsePacket0x06` | the receiver's |
| `MakesEntry`, `Writes` | mkdir and `m_fout.write`, whose results are not looked at |
| `DisconnectDirectConn`, `DisconnectDirectConns`, `EndOfFile`, `CloseSocket` | the ends; a close with unread data is a reset and may overtake what was sent |

The constructor of an incoming client leaves `m_socket` uninitialised: what it
holds is zero or not (`Unset`), and a `delete` of it is `undefined`, where the
model stops. A request through the server is modelled as far as it goes: its
answer carries a fresh cookie that the sender does not find.

Two things that the code does are exceptions in the properties. A mkdir or a
write that fails is not noticed, and the data is counted: `disk.failed` has the
entries this happened to, and COMPLETE promises nothing of them. And a cancelled
event may be asked for again (`SendRequest` once more) while its first request is
still queued, cached or in a client: `twice` says so, and COMPLETE of the sender
is then not final, since the expiry or the answer of the other request writes
to the same event.

Abstractions: the peers are this library; resuming, and a transfer the other
way round, are left out; sizes are counted in packets of data, and a directory
is announced with size 0, as `SendPacket0x02` does. The numbers of requests are
counted up and never meet (their crossing is in `DirectPeers`). The receiving
application deals with one request at most, and leaves aside or refuses the
others. The sender asks again only as long as no entry was announced. A request
marked direct whose connect failed, and which went through the server, is one
through the server here: the ERROR branch of its cancellation is left out.

### Requests

| Model | Code |
|---|---|
| `m_requestid`, `m_reqidcache` | the counter and the cache; oldest entry first, since they all have one timeout |
| `crossed` | history: ids that were given out while an entry or a packet of another request had them |
| `searches` | SearchResultEvents: the requests they took results of, how often their end was told, whether they are deleted |
| `tree`, `info` | objects in the contact tree; whose details an object shows |
| `up`, `down` | packets to the server and from it (external: `ServerAnswers`, `ServerIgnores`) |
| `searchForContacts`, `fetchDetailContactInfo`, `fetchSimpleContactInfo`, `setRandomChatGroup` | the same in `Client` |
| `SignalSrvResponse` with `SearchAnswer`, `UnknownSimple`, `Ignored` | its branches |
| `Expire`, `Connect`, `Disconnect` | Poll with reqidcache_expired_cb; ConnectAuthorizer's random id; a disconnect, which leaves the cache alone, and in `m_recv` any part of what was received (`KeepsReceived`) |

A slot of `search_result` may start the next search inside of `SearchAnswer`
and `Expire`, as applications do. Each login starts at any of `Starts`, as
`rand()` has it, below or at ids that are still in the cache, and ids come round
after `IdMask`. An id that is `Taken` while another request has it is crossed
until it is given out with nobody using it; the fixed id 0 of simple information
is one of them. Bounds: `MaxSearches`, `MaxIds`, `MaxQueue`, and `IdMask`, the
largest id.

### Statuses and Contacts

`Statuses` is the mapping of statuses to the flags on the wire, and back.
`Contacts` has the tree, the statuses of its users and the own status, with the
packets between the client and the server, which is external: it has the lists
and the status it was sent, and reports the users it was asked about.

| Model | Code |
|---|---|
| `m_groups`, `member` | the groups, and the group of each user |
| `wired` | the group that an object's signals are connected to: the one it was added to, wherever it is moved later |
| `status`, `told` | `Contact::m_status`; what the application was told |
| `wanted`, `m_self` | `m_status_wanted` and `m_invisible_wanted`; the own Contact, set by what the server says |
| `stale` | history: what packets of before have set: users' statuses, `m_self`, and a choice of lists by such an `m_self` |
| `add_group` ... `relocate_contact` | ContactTree with contactlist_cb |
| `Request`, `RequestOffline`, `Login`, `Lost` | setStatus and setInvisible, SendLogin, any Disconnect |
| `ParseCh2` | SignalUserOnline, SignalUserOffline, HandleUserInfoSNAC, in any `m_state` |

A disconnect leaves in `down` any part of what was on its way, as `m_recv` does,
and `ParseCh2` goes on with it: contacts come online and `m_self` becomes
invisible without a connection, and both stay so into the next session. A user
that was removed may be added again at once, with the same object and its old
status or with a new one, while packets about it are on their way (`UnderWay`).
What such packets of before have set is `stale` until the server has spoken
again (`Fresh`), and excepted from the properties.

Abstractions: the members of the visible and invisible lists (a list is sent or
not); a user is in one group at a time; a session that a left-over packet
announces (`Session` has it), and half a FLAP left over; renaming, web
awareness and idle time. Bounds: `MaxEdits`, `MaxRequests`, `MaxMoves`,
`MaxSessions`.

### Wire and Messages

`Wire` has the bytes: Buffer, the ICQ subtypes, TLVs, the message SNACs, FLAPs
and the cut of the stream into them, and the packets of a direct connection
with their check and cipher. What writes and what reads are translated apart,
each from its own function. `Messages` puts `MessageHandler` on top: one event
goes from A's application to B's by one of four ways (a direct packet, an
advanced or a normal message through the server, mail and pages in the name of
a UIN), is answered, and the answer comes back; B may be offline and be told
after the next login, and may change its status in between. The properties
compare what one application said with what the other was told: any mistake of
an encoder that its decoder does not share shows there.

Abstractions: the key stream of `Encrypt` and the sequence of checks stand for
theirs (`KeyByte`, `CheckData`); strings are carried as they are (NullTranslator
is the default); SMS and the away list of subtypes are left out. Assumptions on
the constants (`EventsAssumption` to `ChecksAssumption`), which say what can be
sent at all (section 6 has what happens otherwise): no string of a message with
fields has the byte 0xfe, a text is not longer than `Limit` (60000 bytes, for a
length has 16 bits), a list has less than a hundred contacts, and an application
that refuses a message gives a reason. `Wire` has numbers and recursive functions
for the bits of `Bitwise` and for recursive operators, so that it can be proved
about.

### MC modules and seeded mistakes

The `MC` modules give constants values. `MCDelivery` and `MCContacts` define
symmetry sets (descriptors, groups), used where the run checks no liveness. A
definition whose name ends in `_bug` is a seeded mistake: a plausible error in
the code's place of the definition it is named for. Replacing that definition by
it must break the property listed with it in `PROJECT.json` ("mutants");
nothing else uses it.

## 4. Runs

| Run | Instance | Shows |
|---|---|---|
| session | 2 contacts, 3 FLAPs under way, fair | events match m_state; the server socket and the listening socket are owned; client and server agree on the login; a login attempt resolves; a dead session ends |
| delivery_safety | 3 messages of 3 kinds to 2 contacts, 2 descriptors | HeldOnce, HeldIsPending, RightPeer, QueueFlushed, FallbackOnce; Delivery implements MessageLife |
| delivery_live | 3 messages of 3 kinds to one contact, 1 descriptor, fair | every event held is settled |
| delivery_twice | 2 messages | **violated**: a DirectClient is deleted within its own destructor |
| smtp | 1 e-mail, 1 SMS, split lines, fair | the dialogue has a message and a selected socket; a message is queued once; the delivered e-mail was accepted, but for a shifted connection; Smtp implements MessageLife; every event held is settled if no lines stay behind |
| filetransfer | 8 lists of up to 4 entries, asked for once or twice, direct and by the server, a file system that may fail, fair | what is stored is in order and whole, but for what the file system failed; an end is told and the client gone; COMPLETE is final, but for an event asked for twice; a transfer that both began ends |
| direct_peers | a message of the caller, a file request of each side, a request of an earlier connection, 4 versions, fair | the handshake agrees, or nobody is connected; messages are told in order; acknowledged means told; a pending event is kept, and settled once, and settled in the end |
| cache | 2 keys, 2 timeouts, 3 values, a clock that goes both ways | the list is sorted; TimedCache implements DueSet |
| requests | 2 searches, 3 ids that wrap and start again at the same number, an object and two users, fair | a search is held once and told its end once; results and details are its own, but for crossed ids; every search ends |
| contacts | 1 user, 2 groups, 5 edits, 3 calls of setStatus, 2 logins | what is shown settles on what is so, and no invisible status without the visible list, but for what is stale |
| contacts_hidden | the same with 4 edits | **violated**: visible without the invisible list |
| messages | 16 events by 31 ways in all, 6 answers and 3 for files, 3 cuts | told as sent; the answer is the one given; the status is told |

Why the bounds are enough. Three FLAPs in flight are the least that put a FLAP
whose answer fails *before* a status report *before* a hang-up in one buffer.
Two contacts keep apart "this contact" and "another" (Self is a third). Two
descriptors are needed for an incoming and an outgoing connection to the same
contact and for the reuse of a dead one's number; three messages put one in a
cache, one in a queue and one in the cookie cache at once. The kinds chosen
take every branch of `SendViaServer`. In `Smtp` an SMS is a second owner and can
wait behind a refused e-mail or before it, a queue of three has room for a null
pointer behind two messages, and four unparsed lines are more than half a
dialogue. In `DirectPeers` a message and a request of the caller can be queued
together, a request of each side is what it takes for numbers to cross in either
direction, and that of an earlier connection can be answered in the middle of
the handshake; of the numbers of `Foreign` one is the first of a connection and
one no connection of the run comes to. A message of the called side besides
makes ten times as many states, too many for the liveness; the theorems have any
number of events.
Three values under two keys make a key double and leave one between; a clock
over three seconds and timeouts of one and two put entries before, at and after
each other's time, whichever way the clock went. The lists of files have a
directory and an empty file in first, middle and last place, files of several
packets, and an entry that is neither. Two searches are one that is answered and
one started from its slot; every login starts at the same id, and the third of
three ids wraps to 0, the id of simple information, so that ids meet old ones in
the cache and on the wire. `MaxCalls` = 2 calls of SendFileTransfer are a request
cancelled while queued or at work and its second. One user
suffices for `Contacts`, where no step relates two of them (its theorem is for
any number); three calls of setStatus take it out of a state and back while the
answers are under way.

`PROJECT.json` quotes, for each violated run, the comment of the code that the
code disagrees with.

### Fairness

The fairness assumed of the application is what `Client.h` asks of it: it calls
`socket_cb` for every descriptor that is ready and `Poll` again and again, as
`src/examples/Select.cpp` and `shell.cpp` do.

* `Session`: weak fairness of the branches of `socket_cb`, of the loops inside
  the library, of the ping, and of time itself (`Elapse`). A server that is
  asked answers or hangs up (`ServerAnswers`): the code has no timeout on an
  answer that never comes, and none is claimed.
* `Delivery`: a timeout is an action of Poll that is enabled again and again but
  not continuously, since it cannot run while a destructor does: hence strong
  fairness of `DirectConnEnds` and `CookieExpires` (every connection and every
  cookie has a timeout that is never put off for ever: `setTimeout` counts from
  the first timestamp, and `ClientProofs` shows that a sweep misses none).
  Nothing is assumed of the peers, of acknowledges, or of failures.
* `Smtp`: weak fairness of the parts of Poll and of the timeout of a request. A
  mail server that is there lets a connect, an invitation and each command
  succeed in the end if they are tried again and again (strong fairness of the
  successful outcomes): a message is retried for as long as the connection
  fails. `LifeLive` has one more condition, that no lines stay in `m_recv` for
  ever: with two e-mails and lines that come late, lines of a closed connection
  put every later dialogue out of step, and the promise fails.
* `FileTransfer`: weak fairness of both sockets, and none of timeouts: a
  transfer in CONNECTED has none (`TransferEnds` starts there).
* `DirectPeers`: weak fairness of the packets, of the timeout of a cached
  event, and of the end of a handshake, which has a timeout of its own.
* `Requests`: weak fairness of `Expire` alone: a search ends though the server
  never answers.

## 5. Proofs

Eight modules hold the theorems that tlapm checks, for any sets of contacts,
messages, descriptors, keys, users, ... and any bound.

* `ClientProofs`, of `Session`: `SessionTypeOK`, `EventsAlwaysMatch`, `SocketAlwaysOwned`,
  `ListenerAlwaysOwned`. The three invariants together with `TypeOK` are
  inductive: a Send may fail in any action, so each of the shared effects
  (`TearDown`, `SendOrDisconnect`, the outcomes of `ParseRateInfo`) gets a
  lemma that says what it does to them, and the step of each action cites the
  lemma of the effects it uses.
  `LoginAlwaysAgreed` is the last of it. The agreement of client and server is
  about the FLAPs between them: it fails if the greeting of one connection is
  answered on another, or if a server is answered twice. The inductive
  invariant `LoginInv` counts turns: over what is received and what is under
  way there is at most one FLAP that makes the client speak next, none at all
  while the server is the one to speak (`Turns`), and without a connection
  there is no server (`Connected`). The lemmas on sequences say what a receive,
  which moves a prefix of the wire, and the reading of a FLAP leave of that.
* `DeliveryProofs`: `DeliveryTypeOK`, `AlwaysHeldOnce`, `AlwaysHeldIsPending`,
  `AlwaysRightPeer`, `AlwaysQueueFlushed`, `AlwaysFallbackOnce` and
  `ImplementsMessageLife`. None of these is inductive alone: that an event
  sent anew is nowhere yet needs HeldIsPending (an unsent event is not
  pending), that a resubmitted one enters the cookie cache alone needs
  HeldOnce, and RightPeer needs that a connection without a peer holds nothing.
  The inductive invariant is `Inv == TypeOK /\ Owned /\ Carried`: `Owned` says
  where an event may be and what it was told, `Carried` what a connection in
  each state may hold. The refinement is a step theorem: under `Inv`, every
  step of Delivery is a step of MessageLife on the mapped life or leaves it.
* `SmtpProofs`: `SmtpTypeOK`, `DialogueAlwaysHasMessage`,
  `DialogueAlwaysSelected`, `AlwaysQueuedOnce` and `ImplementsMessageLife`. The
  inductive invariant `Inv` has two halves: `ConnOK` (the socket, the selection
  and the state of the dialogue, including that WRITE is selected only in
  WAITING_FOR_CONNECT) and `QueueOK` (the queue, with `Asked`: a request under
  way is about a message that waits, is not queued and not deleted). Even type
  correctness needs them: what the mail server accepts is the head of the
  queue, which must exist and be a message.
  `DeliveredAlwaysAccepted` rests on `WholeInv`: as long as the connection is not
  `shifted`, no line outlives its turn in `m_recv`, at most one is on the wire,
  and the one that answers the text says whether the first message was accepted.
  It assumes nothing of how lines come; that a shifted connection is an
  exception is what the code is like (section 6).
* `ClientProofs`, of `TimedCache`: `CacheTypeOK`, `AlwaysSorted`, `ImplementsDueSet`. The
  lemmas say what `Place` and `Erase` do to a sorted list (where the new entry
  stands, and that the rest keeps its order); the refinement needs `Sorted`
  (the first entry of a key is the first due, and if the front is not due
  nothing is) and `Expiring` (the entry whose callback runs is still there).
* `UsersProofs`, of `Contacts`: `AlwaysKnowsList`, `PresenceAlwaysSettles`. That
  the server never shows the client invisible before it has the visible list is
  about packets that have not arrived: the inductive invariant `Inv` says that in
  the list of packets under way a status that hides the client comes behind a
  visible list (`Ordered`), that an answer of this session which shows it
  invisible was given by a server that has the list (`Shows`), and that `m_self`
  is invisible only then, or is stale. A session that starts on what was left
  over may choose its lists by it: that is `stale.lists`, the exception.
  That presence settles is a claim about states with nothing under way, so its
  invariant says what the packets under way will bring about: `Settles(q, K, p)`
  is a list in which p comes and no other packet of the kind K comes after it
  starts to, `Lacks(q, K)` one without such packets. Of a user that is not stale
  the server was told, or will be, and the packets to come settle on its true
  status, or there are none and the status is the true one (`Present`);
  `SelfInv` does the same for the own status, through both lists; without a
  connection (`IdleInv`) a user who is not stale is offline. What is stale gets
  right when the server speaks of the user with nothing of before behind it
  (`Fresh`), and the proof shows that this is enough. A status has to survive
  the way to flags and back for that, and `SetToSeq` has to list every user
  (`ListOfSet`).
* `RequestsProofs`: `RequestsTypeOK`, `SearchAlwaysHeldOnce`,
  `ResultsAlwaysOwn`, `InfoAlwaysOwn`. `Agree` relates
  the cache to the events in both directions: an entry of a search is about an
  event that is alive, no two are about the same one, and an event that is
  alive has one. An answer or the sweep removes an entry and ends its event in
  one step (`AgreeRemoved`), after which a slot may add the next pair to what
  is left (`AgreeStarted`). Nothing is assumed of request ids for these two: they
  may come round, and `lookup` then takes the older entry.
  Whose results a search gets is about packets and ids: `IdsInv` says that what
  is under way, to the server or from it, under the id of an entry is about what
  the entry is about, unless the id is crossed; `OwnRest` adds that an answer
  with details shows the user it was asked about. Nothing is assumed of the
  starting numbers, which may repeat, or of the mask, which may be reached: an
  id that is given out while another request has it is crossed, and that is the
  only exception (section 6 has what happens then).
* `DirectPeersProofs`: `TypeCorrect`, `HandshakeIsAgreed`, `ToldInOrderAlways`,
  `AckedWasToldAlways`, `PendingIsKeptAlways`, `SettledOnceAlways`, for any
  number of events, past the wrap of the 16-bit number too. The invariant is
  `IInv == TypeOK /\ HandInv /\ EventsInv /\ Quiet /\ NumInv /\ ToldInOrder`.
  `HandInv` counts packets: a state of the handshake says how
  many a side has got and how many it has given, what is under way is the
  difference, and each of them is of the type its place calls for; a called side
  whose caller was `early` is doomed (`Part`): it gets one packet too many of the
  dialogue, and neither is ever connected. `NumInv` has
  a function over what is under way that numbers the STARTs: the i-th carries
  -i in 16 bits, and the next to be sent follows on, so what is read is always
  the next to be told. `EventsInv` follows an event through the queue, the
  wire, the cache and what the application was told: a START or an ACK under
  way carries the number its event was sent under, an ACK is about an event
  that was told, over this connection or an earlier one (`Known`), an entry is
  about an event that waits or is withdrawn, and the other way round. `Crossed` is an exception in the properties because the code has it
  (section 6); the proof shows that it is the only one.
* `UsersProofs`, of `FileTransfer`: `TypeCorrect`, `EndedIsToldAndGoneAlways`,
  `CompleteIsFinalAlways`, `FilesArriveWholeAlways`. `RequestInv` is about the
  request: a client exists only after an answer, an answer is given once, and
  an event that is still cached for a direct connection has no client.
  `TransferInv` is about the files: the dialogue of the two clients is in one
  of its phases (`Greeting`, `Opening`, `Announced`, `Replied`, `Sending`, and
  `Passed` after an entry that is no file), and in each of them what is counted
  as stored, the pieces under way and what the sender has still to announce make
  up the list. `DiskInv` then relates what is counted to what is there: they are
  the same for an entry of which no mkdir and no write has failed. `OnceInv`
  says what `twice` excludes: as long as the sender has not asked again with the
  event at work, there is one request of it at most, and none beside a client. What makes a COMPLETE of the sender safe is that nothing is under way
  to it then, so that its close cannot be a reset; what makes one of the
  receiver right is that the sizes announced add up (`SumsGrow`). The
  handshake, the requests and the ends leave the files alone, which the frame
  lemmas say once for all of them.

* `WireProofs` has the lemmas on bytes: what a parser reads of a string is what
  was written in it, through numbers in both byte orders, strings with and
  without a final zero, fields, subtypes, TLVs, SNACs and frames; a packet that
  was enciphered deciphers to itself, for any check; and a stream of frames is
  read the same however it is cut (`ParseFLAP` over any prefix).
* `MessagesProofs`: `Invariant`, `ToldAsSentTheorem`, `AnswerIsTheirsTheorem`,
  `StatusIsToldTheorem`. An event goes one of four ways, and on each of them is
  in one of a few stages: not sent, sent, told, answered, over. The inductive
  invariant `IInv` says for each stage what bytes are where, as the result of
  the encoders, and what both applications know. A step of the model takes bytes
  from one place, decodes them, and puts others in another: the lemmas of
  `WireProofs` say what the decoder makes of them, and the next stage has it.

Assumptions: only the named ASSUMEs of the modules (the constants' types, that
`Nobody` is no contact, that e-mails, SMS messages and `Null` differ, that
`None` is no time, that there are finitely many users and, for the requests, at
least one, that a list of files is not empty and its directories have size 0,
that the statuses of users and those asked for are statuses of the enumeration
other than offline, and of `Messages` what section 3 says of its constants). No
theorem has a hypothesis beside the specification; where the code breaks a
promise in one case, the property names the case (`shifted`, `early`, `Crossed`,
`crossed`, `disk.failed`, `twice`, `stale`), and the theorem shows that it is
the only one.

Only model-checked: everything under fairness, since liveness and ENABLED are
beyond the backends (`LoginResolves`, `DeadSessionEnds`, `LifeLive`,
`TransferEnds`, `Settles`, `SearchEnds`).

The library's induction theorems take an operator, which the backends cannot
instantiate. `LeastOf` and `SetInduction` (in `DirectPeersProofs`, `UsersProofs`
and `WireProofs`) state the same for sets of numbers: a set with 0 and the
successors of its elements has every natural number. They follow from the
library's theorem on finite subsets, and with them the recursive functions of
the models (`Content`, `Arriving`, `Without`, those of `Wire`) can be reasoned
about; they stand in each of these modules, which so depend on nothing but the
library.

## 6. Where the code and its promises part

Two runs are violated (section 4). The models show more, which are plain once
seen, or would need a run of their own:

* A ConnectedEvent is signalled after a last Send that failed and disconnected
  (`Client.cpp:1219`). FLAPs left in `m_recv` are parsed after a disconnect and
  put contacts online again (`Client.cpp:1297`). `ParseCh1` assigns the next
  state after a failed Send (1383). `Session` has all three: EventsMatchState
  is stated for what remains true, and DeadSessionEnds shows that they end.
* `Client.cpp:2046` overwrites the entry of a dead connection when the
  descriptor number is given out again; its messages are never settled. A Send
  that fails on a connected DirectClient leaves `SendEvent` as an exception
  (`ack` is `thrown`); a normal message is told to be delivered whether or not
  its Send failed (2183, `Verdict`). A resubmitted message whose Send fails
  deletes the DirectClient twice (`DCCache.h:52`, run delivery_twice).
* `Client.cpp:1924` queues a null message when an SMTP connect is immediate; an
  SMS handed to e-mail is deleted by the timeout of its request while queued
  (557); an SMS whose request times out is deleted without an acknowledge; a
  message that was mailed is never deleted; an SMS response for an unknown id
  throws a ParseException that nobody catches (581, `SMSLate`); the message
  after a refused one is sent without RSET.
* `SMTPClient::Disconnect` does not clear `m_recv`, and a line that comes in
  parts is a bad answer and then a good one (`SMTPClient.cpp:310`, 112). After
  some ten refusals of that kind and a few lost connections the lines left over
  are the answers of a whole dialogue: a message is told to be delivered on a
  250 of an earlier connection, and its text was refused. Twelve e-mails are
  enough, with six lines on the wire and in `m_recv`, in 76 steps that TLC has
  followed; with five lines it cannot happen, by a search of all states of one
  connection and the message at the head of the queue. `DeliveredWasAccepted`
  names that case as its exception (`shifted`), and promises the rest for any
  number of messages; the run smtp has both kinds of connection.
* The file request of a peer under a number of our own takes the place of our
  message in `m_msgcache` (`DirectClient.cpp:694`). SendFTACK and SendFTCancel
  look at no state (`Client.cpp:2909`, 2990; `DirectClient.cpp:774`): a packet of
  theirs in the middle of the handshake is read as one of the handshake, and the
  connection ends. A request cancelled while queued is taken out of `m_msgcache`
  only, where it is not: flush_queue sends it (`DirectClient.cpp:799`, 815-820),
  the peer's application is asked, and the event gets a second fate.
* Neither the result of mkdir nor that of `m_fout.write` is looked at
  (`FileTransferClient.cpp:610-616`, 702-712), and the data is counted all the
  same: a full disk, or a directory that cannot be made, ends in COMPLETE with
  files missing or short, and no signal says so. When an event is cancelled and
  asked for again before its first request is settled, the expiry or the answer
  of that one may replace the COMPLETE of the second.
* A request id may be given out while an earlier request still has it: each
  login starts at random (`Client.cpp:239-241`), and ids wrap at 31 bits
  (200-204). An answer under such an id goes to the entry that lookup finds
  first: a search is told what another one, or nobody any more, has found, or a
  contact shows another user's details (`crossed`).
* FLAPs left in `m_recv` by a disconnect inside the loop of Parse
  (`Client.cpp:1297-1367`) put contacts online while nobody is connected, and
  set `m_self`; if that makes it invisible, the setStatus of the next session
  sends no visible list (2353-2378) and shows the user invisible to all
  (`stale`). A contact that is removed and added again may show a status of
  before, or keep its own, until the server speaks of it.
* A file transfer: entries that are not files or directories are passed over in
  silence and both sides wait (`FileTransferClient.cpp:806`); trailing empty
  entries are not stored before COMPLETE; `m_socket` of an incoming client is
  uninitialised (52); a first Send that fails leaves a dangling client
  (`Client.cpp:1900`); an answer through the server has a fresh cookie (2948);
  the end of the session deletes a client and tells nobody.
* Simple user information that finds nobody leaves the UIN of the SNAC
  uninitialised, and any contact may take it (`UnknownSimple`).
* setStatus decides by `m_self`, which may be stale (2358, run contacts_hidden).
  A contact moved to another group reports through the first one, and through
  none when that is removed (`ContactTree.cpp:312`); remove_group sends no
  RemoveBuddy. The callbacks that tell the server of changes of the visible and
  invisible lists are commented out (178-180).
* Contacts sent as a normal message through the server are never encoded, and
  are signalled as delivered (2052, 2164); the acknowledge of advanced contacts
  is dropped as of an unknown type (414-435); a message that is urgent and to
  the contact list loses the first (`ICQ.cpp:199-220`); the sender of a page is
  its e-mail address; the text of a granted authorisation is dropped; a string
  with the byte 0xfe is cut in messages with fields; a refusal without a reason
  is sent with an uninitialised one.

## 7. Not modelled

* The server-based contact list: stubs. What came is printed, uploads and
  removals send the begin and the end of an edit, acknowledges are logged
  (`Client.cpp:857`, 1531-1600, 2255-2315).
* SNACs of login, searches and contact lists byte by byte, XML, the translator,
  capabilities, cookies, time: straight-line encodings and look-ups without
  state. Their contents are the packets of the models.
* The members of the visible and invisible lists, groups' and contacts' names,
  details, idle time, web awareness: data that no decision of the code reads.
* Calls of the application from inside a signal, other than the slots of
  `search_result` and the callbacks of a cache: each handler would become two
  steps. Malformed input (ParseException).
* `m_recv` over two connections (`Client.cpp:1324` does not clear it); the reuse
  of a descriptor number that the application still selects on (`socket.cpp:347`).
* `sigslot.h`: third-party; a signal is a call. The example client: an
  application of the library, used above to justify fairness.

## 8. Running

    tlc -config Session.cfg MCSession.tla
    tlc -config Delivery.cfg MCDelivery.tla         also DeliveryLive, DeliveryTwice
    tlc -config Smtp.cfg MCSmtp.tla
    tlc -config FileTransfer.cfg MCFileTransfer.tla
    tlc -config DirectPeers.cfg MCDirectPeers.tla
    tlc -config TimedCache.cfg MCTimedCache.tla
    tlc -config Requests.cfg MCRequests.tla
    tlc -config Contacts.cfg MCContacts.tla         also ContactsHidden
    tlc -config Messages.cfg MCMessages.tla
    tlapm ClientProofs.tla                          about one minute
    tlapm DeliveryProofs.tla
    tlapm SmtpProofs.tla
    tlapm RequestsProofs.tla
    tlapm DirectPeersProofs.tla                     about five minutes
    tlapm UsersProofs.tla                           about eleven minutes
    tlapm WireProofs.tla                            about twelve minutes
    tlapm MessagesProofs.tla                        about thirteen minutes
