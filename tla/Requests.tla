------------------------------ MODULE Requests ------------------------------
(***************************************************************************)
(* Searches and requests for user information: Client.cpp and the          *)
(* RequestIDCache. What the application asks for goes to the server under  *)
(* a request id and into the cache; the answers of the server name the id. *)
(*                                                                         *)
(* All entries of this cache have one timeout: the oldest expires first    *)
(* (module TimedCache has the cache itself). An entry may expire at any    *)
(* Poll, and the connection may go down under any Send or between. The     *)
(* slots of search_result may start the next search. SMS entries share the *)
(* ids and nothing else; modules Delivery and Smtp have those.             *)
(*                                                                         *)
(* Each login starts the ids at a random number: an id may be given out    *)
(* while an entry, a request or an answer with the same id is left. Such   *)
(* an id is crossed; the client has no way to tell.                        *)
(***************************************************************************)
EXTENDS Integers, Sequences, FiniteSets, SequencesExt

CONSTANTS
    Uins,           \* users
    Objects,        \* Contact objects; several may be of one user
    UinOf,          \* the user of each object
    Starts,         \* numbers that rand() may give m_requestid
    IdMask,         \* bound: 0x7fffffff, the largest request id
    MaxSearches,    \* bound: searches started
    MaxQueue,       \* bound: packets on their way, in each direction
    MaxIds,         \* bound: request ids given out, fewer than there are
    None

ASSUME UinOfType == Uins # {} /\ UinOf \in [Objects -> Uins]
ASSUME StartsIds == Starts \subseteq 0 .. IdMask /\ IdMask \in Nat
ASSUME BoundsNat == MaxSearches \in Nat /\ MaxIds \in Nat /\ MaxIds <= IdMask

VARIABLES
    m_state,        \* "BOS_LOGGED_IN" or "NOT_CONNECTED"
    m_requestid,    \* the request id given out last
    given,          \* how many ids were given out
    crossed,        \* ids given out while others were using them
    m_reqidcache,   \* [id, type, of], oldest first
    searches,       \* the SearchResultEvents, in the order they were made
    tree,           \* the objects in m_contact_tree
    info,           \* whose details each object shows
    up, down        \* packets to the server and from it

wires == <<up, down>>
ids == <<m_requestid, given, crossed>>
vars == <<m_state, ids, m_reqidcache, searches, tree, info, wires>>

Kinds == {"Whitepage", "UIN", "RandomChat"}

-----------------------------------------------------------------------------

Init ==
    /\ m_state = "NOT_CONNECTED"
    /\ m_requestid \in Starts    \* uninitialized before the first login
    /\ given = 0 /\ crossed = {}
    /\ m_reqidcache = <<>>
    /\ searches = <<>>
    /\ tree = {}
    /\ info = [o \in Objects |-> None]
    /\ up = <<>> /\ down = <<>>

NextRequestID == (m_requestid + 1) % (IdMask + 1)

GivenOut ==
    /\ given < MaxIds
    /\ given' = given + 1
    /\ m_requestid' = NextRequestID

\* lookup of the cache: the first entry with the id.
Entries(id) == {i \in DOMAIN m_reqidcache : m_reqidcache[i].id = id}
exists(id) == Entries(id) # {}
Lookup(id) == CHOOSE i \in Entries(id) : \A j \in Entries(id) : i <= j

\* A request takes the next id: it is crossed if anything else has it still.
Taken ==
    LET id == NextRequestID
        used == exists(id) \/ \E p \in ToSet(up) \cup ToSet(down) : p.id = id
    IN  GivenOut /\ crossed' = IF used THEN crossed \cup {id} ELSE crossed \ {id}

Disconnected == m_state' = "NOT_CONNECTED" /\ up' = <<>>

(* After a disconnect inside the loop of Parse the answers that have been    *)
(* received are still handled.                                              *)
KeepsReceived ==
    IF m_state' = "NOT_CONNECTED" THEN \E n \in 0 .. Len(down) : down' = SubSeq(down, 1, n)
    ELSE UNCHANGED down

\* Client::Send of a packet; a Send that fails disconnects.
Send(p) ==
    \/ /\ m_state = "BOS_LOGGED_IN" /\ Len(up) < MaxQueue
       /\ up' = Append(up, p)
       /\ UNCHANGED m_state
    \/ Disconnected

-----------------------------------------------------------------------------
(* Requests.                                                                *)

\* Of the results: which requests they were answers to.
NewEvent == [results |-> {}, told |-> 0, alive |-> TRUE]

\* The entry is made under the id of the request before.
Started_bug(kind, c, s) ==
    /\ Len(s) < MaxSearches
    /\ Taken
    /\ searches' = Append(s, NewEvent)
    /\ m_reqidcache' = Append(c, [id |-> m_requestid, type |-> "Search", of |-> Len(s) + 1])
    /\ Send([id |-> NextRequestID, kind |-> kind, of |-> Len(s) + 1])

(* searchForContacts, called while the cache is c and the events are s:     *)
(* the entry is made before the request is sent.                            *)
Started(kind, c, s) ==
    /\ Len(s) < MaxSearches
    /\ Taken
    /\ searches' = Append(s, NewEvent)
    /\ m_reqidcache' = Append(c, [id |-> NextRequestID, type |-> "Search", of |-> Len(s) + 1])
    /\ Send([id |-> NextRequestID, kind |-> kind, of |-> Len(s) + 1])

searchForContacts(kind) ==
    /\ Started(kind, m_reqidcache, searches)
    /\ KeepsReceived
    /\ UNCHANGED <<tree, info>>

\* The details of a contact: each block of the answer names the same id.
fetchDetailContactInfo(o) ==
    /\ Taken
    /\ m_reqidcache' = Append(m_reqidcache, [id |-> NextRequestID, type |-> "UserInfo", of |-> o])
    /\ Send([id |-> NextRequestID, kind |-> "Detail", of |-> o])
    /\ KeepsReceived
    /\ UNCHANGED <<searches, tree, info>>

\* No id is taken: the request has the id 0 of a new SNAC.
fetchSimpleContactInfo(o) ==
    /\ m_state = "BOS_LOGGED_IN"
    /\ Send([id |-> 0, kind |-> "Simple", of |-> o])
    /\ KeepsReceived
    /\ crossed' = IF exists(0) THEN crossed \cup {0} ELSE crossed
    /\ UNCHANGED <<m_requestid, given, m_reqidcache, searches, tree, info>>

\* An id is taken and not used.
setRandomChatGroup ==
    /\ m_state = "BOS_LOGGED_IN"
    /\ GivenOut
    /\ UNCHANGED <<m_state, crossed, m_reqidcache, searches, tree, info, wires>>

\* addContact and removeContact, as far as they matter here.
addContact(o) ==
    /\ \A p \in tree : UinOf[p] # UinOf[o]
    /\ tree' = tree \cup {o}
    /\ UNCHANGED <<m_state, ids, m_reqidcache, searches, info, wires>>

removeContact(o) ==
    /\ tree' = tree \ {o}
    /\ o \in tree
    /\ UNCHANGED <<m_state, ids, m_reqidcache, searches, info, wires>>

-----------------------------------------------------------------------------
(* The server answers in order. A whitepage search has any number of        *)
(* results, the last of them marked; a search may also find nobody.         *)

Answer(p, kind, uin, last) ==
    [id |-> p.id, kind |-> kind, uin |-> uin, last |-> last, of |-> p.of]

\* Who is found matters only to an answer that may change a contact.
Someone == CHOOSE u \in Uins : TRUE

AnswersTo(p) ==
    CASE p.kind = "Whitepage" -> {Answer(p, "SearchUI", u, TRUE) : u \in {Someone, None}}
      [] p.kind = "UIN" -> {Answer(p, "SimpleUI", u, TRUE) : u \in Uins \cup {None}}
      [] p.kind = "RandomChat" -> {Answer(p, "RandomChatFound", Someone, TRUE)}
      [] p.kind = "Simple" -> {Answer(p, "SimpleUI", u, TRUE) : u \in {UinOf[p.of], None}}
      [] p.kind = "Detail" -> {Answer(p, "Detail", UinOf[p.of], TRUE)}

PartsOf(p) ==
    CASE p.kind = "Whitepage" -> {Answer(p, "SearchUI", Someone, FALSE)}
      [] p.kind = "Detail" -> {Answer(p, "Detail", UinOf[p.of], FALSE)}
      [] OTHER -> {}

ServerAnswers ==
    /\ up # <<>> /\ Len(down) < MaxQueue
    /\ \/ \E a \in AnswersTo(Head(up)) : down' = Append(down, a) /\ up' = Tail(up)
       \/ \E a \in PartsOf(Head(up)) : down' = Append(down, a) /\ up' = up
    /\ UNCHANGED <<m_state, ids, m_reqidcache, searches, tree, info>>

\* An error, which the client ignores, or no answer at all.
ServerIgnores ==
    /\ up # <<>>
    /\ up' = Tail(up)
    /\ UNCHANGED <<m_state, ids, m_reqidcache, searches, tree, info, down>>

-----------------------------------------------------------------------------
(* Answers.                                                                 *)

\* The event that an answer adds to, and whether that was the last.
Told(ev, a) ==
    [ev EXCEPT !.results = IF a.uin = None THEN @ ELSE @ \cup {a.of},
               !.told = IF a.last THEN @ + 1 ELSE @,
               !.alive = ~a.last]

\* The event is deleted and its entry stays until it expires.
SearchAnswer_bug(a) ==
    LET i == Lookup(a.id)
        s == m_reqidcache[i].of
    IN /\ searches' = [searches EXCEPT ![s] = Told(@, a)]
       /\ UNCHANGED <<m_state, ids, m_reqidcache, up>> /\ down' = Tail(down)

(* An answer to a search: the event takes it, the slots are told, which may *)
(* search again, and after the last answer the event is deleted and its     *)
(* entry removed. After a Send that failed in a slot the loop of Parse goes *)
(* on over the answers that have been received.                             *)
SearchAnswer(a) ==
    LET i == Lookup(a.id)
        s == [searches EXCEPT ![m_reqidcache[i].of] = Told(@, a)]
        c == IF a.last THEN RemoveAt(m_reqidcache, i) ELSE m_reqidcache
    IN \/ /\ m_reqidcache' = c /\ searches' = s
          /\ down' = Tail(down)
          /\ UNCHANGED <<m_state, ids, up>>
       \/ /\ \E kind \in Kinds : Started(kind, c, s)
          /\ \E n \in 1 .. Len(down) :
               /\ down' = SubSeq(down, 2, n)
               /\ m_state' = "BOS_LOGGED_IN" => n = Len(down)

\* Whichever contact comes first takes the answer.
UnknownSimple_bug(a) ==
    /\ info' = [o \in Objects |-> IF o \in tree THEN a.uin ELSE info[o]]
    /\ UNCHANGED <<m_state, ids, m_reqidcache, searches, up>> /\ down' = Tail(down)

(* Simple information for an id that the cache does not have goes to the    *)
(* contact in the tree. An answer that found nobody leaves m_uin of the     *)
(* SNAC uninitialized: it may have the value of any user.                   *)
UnknownSimple(a) ==
    /\ \E u \in IF a.uin = None THEN Uins \cup {None} ELSE {a.uin} :
         info' = [o \in Objects |-> IF o \in tree /\ UinOf[o] = u THEN a.uin ELSE info[o]]
    /\ UNCHANGED <<m_state, ids, m_reqidcache, searches, up>> /\ down' = Tail(down)

Ignored == down' = Tail(down) /\ UNCHANGED <<m_state, ids, m_reqidcache, searches, info, up>>

SearchKinds == {"SimpleUI", "SearchUI", "RandomChatFound"}

\* SignalSrvResponse; an id of another type is only logged.
SignalSrvResponse ==
    /\ down # <<>>
    /\ UNCHANGED tree
    /\ LET a == Head(down) IN
       IF a.kind \in SearchKinds
       THEN IF exists(a.id)
            THEN IF m_reqidcache[Lookup(a.id)].type = "Search"
                 THEN SearchAnswer(a) /\ UNCHANGED info
                 ELSE Ignored
            ELSE IF a.kind = "SimpleUI" THEN UnknownSimple(a) ELSE Ignored
       ELSE IF exists(a.id) /\ m_reqidcache[Lookup(a.id)].type = "UserInfo"
            THEN /\ info' = [info EXCEPT ![m_reqidcache[Lookup(a.id)].of] = a.uin]
                 /\ down' = Tail(down)
                 /\ UNCHANGED <<m_state, ids, m_reqidcache, searches, up>>
            ELSE Ignored

-----------------------------------------------------------------------------
(* Time and the connection.                                                 *)

\* The owner of an expired search is not told.
Expire_bug ==
    /\ m_reqidcache # <<>>
    /\ m_reqidcache' = Tail(m_reqidcache)
    /\ UNCHANGED <<m_state, ids, searches, tree, info, wires>>

(* clearoutPoll: reqidcache_expired_cb tells the owner of a search and      *)
(* deletes the event; its slots may search again before the entry is gone.  *)
Expire ==
    /\ m_reqidcache # <<>>
    /\ UNCHANGED <<tree, info>>
    /\ LET e == Head(m_reqidcache)
           s == [searches EXCEPT ![e.of].told = @ + 1, ![e.of].alive = FALSE]
       IN \/ /\ m_reqidcache' = Tail(m_reqidcache)
             /\ searches' = IF e.type = "Search" THEN s ELSE searches
             /\ UNCHANGED <<m_state, ids, wires>>
          \/ /\ e.type = "Search"
             /\ \E kind \in Kinds : Started(kind, Tail(m_reqidcache), s)
             /\ KeepsReceived

\* A login, with the random request id of ConnectAuthorizer.
Connect ==
    /\ m_state = "NOT_CONNECTED" /\ down = <<>>
    /\ m_state' = "BOS_LOGGED_IN"
    /\ m_requestid' \in Starts
    /\ UNCHANGED <<given, crossed, m_reqidcache, searches, tree, info, wires>>

\* Nothing is done to the cache: its entries expire.
Disconnect ==
    /\ m_state = "BOS_LOGGED_IN"
    /\ Disconnected /\ KeepsReceived
    /\ UNCHANGED <<ids, m_reqidcache, searches, tree, info>>

Next ==
    \/ \E kind \in Kinds : searchForContacts(kind)
    \/ \E o \in Objects :
        \/ fetchDetailContactInfo(o) \/ fetchSimpleContactInfo(o)
        \/ addContact(o) \/ removeContact(o)
    \/ setRandomChatGroup
    \/ ServerAnswers \/ ServerIgnores
    \/ SignalSrvResponse
    \/ Expire
    \/ Connect \/ Disconnect

Spec == Init /\ [][Next]_vars

\* Poll is called regularly.
FairSpec == Spec /\ WF_vars(Expire)

-----------------------------------------------------------------------------

CacheEntry ==
    [id : 0 .. IdMask, type : {"Search"}, of : 1 .. MaxSearches]
        \cup [id : 0 .. IdMask, type : {"UserInfo"}, of : Objects]

SearchEvent == [results : SUBSET (Nat \cup Objects), told : Nat, alive : BOOLEAN]

RequestPacket ==
    [id : Nat, kind : Kinds, of : Nat] \cup [id : Nat, kind : {"Simple", "Detail"}, of : Objects]

AnswerPacket ==
    [id : Nat, kind : SearchKinds \cup {"Detail"}, uin : Uins \cup {None}, last : BOOLEAN,
     of : Nat \cup Objects]

\* Every variable has its type; the cache and the searches keep to their bounds.
TypeOK ==
    /\ m_state \in {"BOS_LOGGED_IN", "NOT_CONNECTED"}
    /\ m_requestid \in 0 .. IdMask /\ given \in 0 .. MaxIds
    /\ crossed \subseteq 0 .. IdMask
    /\ m_reqidcache \in Seq(CacheEntry)
    /\ searches \in Seq(SearchEvent) /\ Len(searches) <= MaxSearches
    /\ tree \subseteq Objects
    /\ info \in [Objects -> Uins \cup {None}]
    /\ up \in Seq(RequestPacket) /\ down \in Seq(AnswerPacket)

CachedFor(s) == {i \in DOMAIN m_reqidcache : m_reqidcache[i].type = "Search" /\ m_reqidcache[i].of = s}

(* The event of a search is in the cache, once, exactly as long as it has   *)
(* not been deleted (Client.cpp:621-626, 970-971), and its end is told      *)
(* once: nothing is deleted twice, used afterwards or forgotten, whatever   *)
(* answers come late, in parts or not at all.                               *)
SearchHeldOnce ==
    \A s \in DOMAIN searches :
        /\ Cardinality(CachedFor(s)) = IF searches[s].alive THEN 1 ELSE 0
        /\ searches[s].told = IF searches[s].alive THEN 0 ELSE 1

(* A contact is given nobody else's details, whoever was asked about and    *)
(* whichever object it was for (Client.cpp:635-644, 888-911), unless the id *)
(* of the answer is crossed. It may lose its own: see UnknownSimple.        *)
InfoIsOwn ==
    [][\A o \in Objects : info'[o] \in {info[o], None, UinOf[o]} \/ Head(down).id \in crossed]_vars

(* What a search finds answers that search and no other request             *)
(* (Client.cpp:588-590, 652-654, 845-847), also after another login with    *)
(* any numbers, unless the id of the answer is crossed: then the entry that *)
(* lookup finds first takes it, whichever request it answers.               *)
ResultsAreOwn ==
    [][\A s \in DOMAIN searches :
         searches'[s].results \subseteq searches[s].results \cup {s} \/ Head(down).id \in crossed]_vars

(* Every search ends, answered or not, connected or not, when Poll is       *)
(* called (Client.cpp:961-972).                                             *)
SearchEnds ==
    \A s \in 1 .. MaxSearches :
        s \in DOMAIN searches ~> s \in DOMAIN searches /\ ~searches[s].alive
=============================================================================
