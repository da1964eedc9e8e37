------------------------------- MODULE Contacts -------------------------------
(***************************************************************************)
(* The contact tree, presence, and the client's own status and visibility: *)
(* ContactTree.cpp, Contact.cpp, SNAC-BUD.cpp, SNAC-BOS.cpp and the parts  *)
(* of Client.cpp that keep them in step with the server.                   *)
(*                                                                         *)
(* The login of module Session is one step here, SendLogin. The server is  *)
(* external: it tells of the buddies it was given, and of a change of the  *)
(* own status, in the order it learns of them. A user is in the tree once. *)
(*                                                                         *)
(* Disconnect leaves in m_recv what was received: the loop of Parse still  *)
(* handles it, without a connection. Left out: a session that such a       *)
(* packet announces (module Session has it) and half a packet left over.   *)
(***************************************************************************)
EXTENDS Naturals, Sequences, SequencesExt, Statuses

CONSTANTS
    Users,          \* users that may be in the tree
    Groups,         \* ids of groups
    OwnStatuses,    \* statuses the application asks for
    UserStatuses,   \* statuses of the users
    MaxEdits,       \* bound: changes the application makes to the tree
    MaxRequests,    \* bound: calls of setStatus
    MaxMoves,       \* bound: changes of status of the users
    MaxSessions,    \* bound: logins
    None

ASSUME UsersFinite == IsFiniteSet(Users)
ASSUME StatusesShown == OwnStatuses \cup UserStatuses \subseteq Shown

VARIABLES
    m_state,            \* "NOT_CONNECTED", "CONNECTING" or "BOS_LOGGED_IN"
    m_groups,           \* groups of the tree
    member,             \* the group each user is in
    wired,              \* the group the signals of its object are connected to
    status,             \* m_status of the Contact object of each user
    told,               \* the status the application was last told of
    wanted,             \* m_status_wanted, m_invisible_wanted
    m_self,             \* status and invisibility of the own Contact
    up, down,           \* packets to the server and from it
    server,             \* what the server knows of this session
    online,             \* the statuses the users really have
    stale,              \* what was shown or decided by packets of before
    spent               \* how much of the bounds is used

treeVars == <<m_groups, member, wired>>
ownVars == <<wanted, m_self>>
contactsVars == <<m_state, treeVars, status, told, ownVars, up, down, server, online, stale, spent>>

InTree == {u \in Users : member[u] # None}
LoggedIn == m_state = "BOS_LOGGED_IN"

-----------------------------------------------------------------------------

(* Packets of before: those left over from a session that has ended, and    *)
(* those about a user from before it was removed. Users may show a status   *)
(* of theirs, self is m_self set by one, and lists is setStatus having      *)
(* chosen its lists by that.                                                *)
NothingStale == [users |-> {}, self |-> FALSE, lists |-> FALSE]

NoSession == [info |-> {}, buddies |-> {}, visible |-> FALSE, invisible |-> FALSE]

ContactsInit ==
    /\ m_state = "NOT_CONNECTED"
    /\ m_groups = {}
    /\ member = [u \in Users |-> None]
    /\ wired = [u \in Users |-> None]
    /\ status = [u \in Users |-> "OFFLINE"]
    /\ told = [u \in Users |-> "OFFLINE"]
    /\ wanted = [status |-> "OFFLINE", invisible |-> FALSE]
    /\ m_self = [status |-> "OFFLINE", invisible |-> FALSE]
    /\ up = <<>> /\ down = <<>>
    /\ server = NoSession
    /\ online = [u \in Users |-> "OFFLINE"]
    /\ stale = NothingStale
    /\ spent = [edits |-> 0, requests |-> 0, moves |-> 0, sessions |-> 0]

Spend(what, limit) == spent[what] < limit /\ spent' = [spent EXCEPT ![what] = @ + 1]

\* Statuses of Contact objects, and the application told through their groups.
setStatuses(st) ==
    /\ status' = st
    /\ told' = [u \in Users |-> IF st[u] # status[u] /\ wired[u] # None THEN st[u] ELSE told[u]]
setStatus(u, st) == setStatuses([status EXCEPT ![u] = st])

-----------------------------------------------------------------------------
(* The application edits the tree; contactlist_cb tells the server.         *)

add_group(g) ==
    /\ Spend("edits", MaxEdits)
    /\ g \notin m_groups
    /\ m_groups' = m_groups \cup {g}
    /\ UNCHANGED <<m_state, member, wired, status, told, ownVars, up, down, server, online, stale>>

\* Its contacts go with it, and nothing is said to the server.
remove_group(g) ==
    /\ Spend("edits", MaxEdits)
    /\ g \in m_groups
    /\ m_groups' = m_groups \ {g}
    /\ member' = [u \in Users |-> IF member[u] = g THEN None ELSE member[u]]
    /\ wired' = [u \in Users |-> IF wired[u] = g THEN None ELSE wired[u]]
    /\ UNCHANGED <<m_state, status, told, ownVars, up, down, server, online, stale>>

AddBuddies_bug(users) == <<>>    \* only the login names buddies

AddBuddies(users) == IF LoggedIn THEN <<[type |-> "AddBuddy", users |-> users]>> ELSE <<>>

\* A packet is on its way that is about user u as it was before.
UnderWay(u) ==
    \/ \E p \in ToSet(up) : p.type = "RemoveBuddy" /\ p.user = u
    \/ \E p \in ToSet(down) : p.type # "UserInfo" /\ p.user = u

(* An object for user u in group g, a new one or the one that was removed   *)
(* with its status st: the server is told, then it is wired.                *)
add(u, g, st) ==
    /\ Spend("edits", MaxEdits)
    /\ u \notin InTree /\ g \in m_groups
    /\ member' = [member EXCEPT ![u] = g]
    /\ wired' = [wired EXCEPT ![u] = g]
    /\ status' = [status EXCEPT ![u] = st]
    /\ told' = [told EXCEPT ![u] = st]
    /\ up' = up \o AddBuddies({u})
    /\ stale' = [stale EXCEPT !.users = IF st # "OFFLINE" \/ UnderWay(u) THEN @ \cup {u} ELSE @ \ {u}]
    /\ UNCHANGED <<m_state, m_groups, ownVars, down, server, online>>

remove(u) ==
    /\ Spend("edits", MaxEdits)
    /\ u \in InTree
    /\ member' = [member EXCEPT ![u] = None]
    /\ wired' = [wired EXCEPT ![u] = None]
    /\ up' = IF LoggedIn THEN Append(up, [type |-> "RemoveBuddy", user |-> u]) ELSE up
    /\ UNCHANGED <<m_state, m_groups, status, told, ownVars, down, server, online, stale>>

\* The signals of the object stay with the group it was added to.
relocate_contact(u, to) ==
    /\ Spend("edits", MaxEdits)
    /\ u \in InTree /\ to \in m_groups \ {member[u]}
    /\ member' = [member EXCEPT ![u] = to]
    /\ UNCHANGED <<m_state, m_groups, wired, status, told, ownVars, up, down, server, online, stale>>

-----------------------------------------------------------------------------
(* The own status.                                                          *)

OwnStatus(st, inv) == <<[type |-> "SetStatus", icq |-> MapStatusToICQStatus(st, inv)]>>
AddVisible == <<[type |-> "AddVisible"]>>
AddInvisible == <<[type |-> "AddInvisible"]>>
If(condition, packets) == IF condition THEN packets ELSE <<>>

\* setStatus with a status to be in; setInvisible is the same with the last one.
Request(st, inv) ==
    /\ Spend("requests", MaxRequests)
    /\ wanted' = [status |-> st, invisible |-> inv]
    /\ IF LoggedIn
       THEN up' = up \o If(~m_self.invisible /\ inv, AddVisible) \o OwnStatus(st, inv)
                     \o If(m_self.invisible /\ ~inv, AddInvisible)
       ELSE up' = up
    /\ m_state' = IF m_state = "NOT_CONNECTED" THEN "CONNECTING" ELSE m_state
    /\ stale' = [stale EXCEPT !.lists = @ \/ (LoggedIn /\ stale.self)]
    /\ UNCHANGED <<treeVars, status, told, m_self, down, server, online>>

SendLogin_bug(inv) ==    \* the invisible list whatever is wanted
    <<[type |-> "InfoRequest"]>> \o If(m_groups # {}, <<[type |-> "AddBuddy", users |-> InTree]>>)
    \o OwnStatus(wanted.status, inv) \o AddInvisible

SendLogin(inv) ==
    <<[type |-> "InfoRequest"]>> \o If(m_groups # {}, <<[type |-> "AddBuddy", users |-> InTree]>>)
    \o If(inv, AddVisible) \o OwnStatus(wanted.status, inv) \o If(~inv, AddInvisible)

(* The rate information arrives, after what was left over: personal         *)
(* information, buddies, lists, status.                                     *)
Login ==
    /\ Spend("sessions", MaxSessions)
    /\ m_state = "CONNECTING" /\ down = <<>>
    /\ m_state' = "BOS_LOGGED_IN"
    /\ up' = SendLogin(wanted.invisible)
    /\ UNCHANGED <<treeVars, status, told, ownVars, down, server, online, stale>>

\* The own contact and all in the tree are offline.
SignalDisconnect ==
    /\ m_self' = IF m_self.status = "OFFLINE" THEN m_self
                 ELSE [status |-> "OFFLINE", invisible |-> FALSE]
    /\ setStatuses([u \in Users |-> IF u \in InTree THEN "OFFLINE" ELSE status[u]])

\* The packets that have been received stay.
Disconnect ==
    /\ m_state' = "NOT_CONNECTED"
    /\ SignalDisconnect
    /\ up' = <<>> /\ \E n \in 0 .. Len(down) : down' = SubSeq(down, 1, n)
    /\ server' = NoSession /\ stale' = NothingStale
    /\ UNCHANGED <<treeVars, online>>

\* setStatus with STATUS_OFFLINE.
RequestOffline(inv) ==
    /\ Spend("requests", MaxRequests)
    /\ wanted' = [status |-> "OFFLINE", invisible |-> inv]
    /\ \/ m_state # "NOT_CONNECTED" /\ Disconnect
       \/ /\ m_state = "NOT_CONNECTED"
          /\ UNCHANGED <<m_state, treeVars, status, told, m_self, up, down, server, online, stale>>

Lost == m_state # "NOT_CONNECTED" /\ Disconnect /\ UNCHANGED <<wanted, spent>>

-----------------------------------------------------------------------------
(* The packets of the server.                                               *)

\* Users that are not in the tree are not looked at.
SignalUserOnline(p) ==
    IF p.user \in InTree
    THEN /\ setStatus(p.user, MapICQStatusToStatus(p.icq))
         /\ stale' = IF LoggedIn THEN stale ELSE [stale EXCEPT !.users = @ \cup {p.user}]
    ELSE UNCHANGED <<status, told, stale>>

SignalUserOffline(p) ==
    IF p.user \in InTree
    THEN /\ setStatus(p.user, "OFFLINE")
         /\ stale' = IF LoggedIn THEN stale ELSE [stale EXCEPT !.users = @ \ {p.user}]
    ELSE UNCHANGED <<status, told, stale>>

HandleUserInfoSNAC(p) ==
    /\ m_self' = [status |-> MapICQStatusToStatus(p.icq), invisible |-> MapICQStatusToInvisible(p.icq)]
    /\ stale' = [stale EXCEPT !.self = ~LoggedIn]

\* In any state: after a disconnect the loop of Parse goes on.
ParseCh2 ==
    /\ down # <<>>
    /\ down' = Tail(down)
    /\ LET p == Head(down) IN
       \/ p.type = "BuddyOnline" /\ SignalUserOnline(p) /\ UNCHANGED m_self
       \/ p.type = "BuddyOffline" /\ SignalUserOffline(p) /\ UNCHANGED m_self
       \/ p.type = "UserInfo" /\ HandleUserInfoSNAC(p) /\ UNCHANGED <<status, told>>
    /\ UNCHANGED <<m_state, treeVars, wanted, up, server, online, spent>>

-----------------------------------------------------------------------------
(* The server, and the users on the other side of it.                       *)

Presence(u, st) ==
    IF st = "OFFLINE" THEN [type |-> "BuddyOffline", user |-> u]
    ELSE [type |-> "BuddyOnline", user |-> u, icq |-> MapStatusToICQStatus(st, FALSE)]

\* Users that the server speaks of with nothing of before to follow.
Fresh(users) ==
    stale' = [stale EXCEPT !.users =
        {u \in @ : u \notin users \/ \E p \in ToSet(up') : p.type = "RemoveBuddy" /\ p.user = u}]

UserInfo(icq) == [type |-> "UserInfo", icq |-> icq]

ServerTakes ==
    /\ up # <<>>
    /\ up' = Tail(up)
    /\ LET p == Head(up) IN
       \/ /\ p.type = "InfoRequest"
          /\ down' = Append(down, UserInfo(server.info)) /\ UNCHANGED <<server, stale>>
       \/ /\ p.type = "AddBuddy"
          /\ server' = [server EXCEPT !.buddies = @ \cup p.users]
          /\ LET here == {u \in p.users : online[u] # "OFFLINE"}
                 seq == SetToSeq(here)
             IN  down' = down \o [i \in DOMAIN seq |-> Presence(seq[i], online[seq[i]])] /\ Fresh(here)
       \/ /\ p.type = "RemoveBuddy"
          /\ server' = [server EXCEPT !.buddies = @ \ {p.user}] /\ UNCHANGED <<down, stale>>
       \/ /\ p.type = "SetStatus"
          /\ server' = [server EXCEPT !.info = p.icq] /\ down' = Append(down, UserInfo(p.icq))
          /\ UNCHANGED stale
       \/ /\ p.type = "AddVisible"
          /\ server' = [server EXCEPT !.visible = TRUE] /\ UNCHANGED <<down, stale>>
       \/ /\ p.type = "AddInvisible"
          /\ server' = [server EXCEPT !.invisible = TRUE] /\ UNCHANGED <<down, stale>>
    /\ UNCHANGED <<m_state, treeVars, status, told, ownVars, online, spent>>

\* A user comes, goes or changes status.
UserMoves(u, st) ==
    /\ Spend("moves", MaxMoves)
    /\ st # online[u]
    /\ online' = [online EXCEPT ![u] = st]
    /\ UNCHANGED <<m_state, treeVars, status, told, ownVars, up, server>>
    /\ IF u \in server.buddies THEN down' = Append(down, Presence(u, st)) /\ Fresh({u})
       ELSE UNCHANGED <<down, stale>>

-----------------------------------------------------------------------------

ContactsNext ==
    \/ \E g \in Groups : add_group(g) \/ remove_group(g)
    \/ \E u \in Users : remove(u)
    \/ \E u \in Users, g \in Groups :
         add(u, g, "OFFLINE") \/ add(u, g, status[u]) \/ relocate_contact(u, g)
    \/ \E st \in OwnStatuses, inv \in BOOLEAN : Request(st, inv)
    \/ Login
    \/ \E inv \in BOOLEAN : RequestOffline(inv)
    \/ Lost
    \/ ParseCh2
    \/ ServerTakes
    \/ \E u \in Users, st \in {"OFFLINE"} \cup UserStatuses : UserMoves(u, st)

ContactsSpec == ContactsInit /\ [][ContactsNext]_contactsVars

-----------------------------------------------------------------------------

Quiet == LoggedIn /\ up = <<>> /\ down = <<>>

(* When nothing is on its way, the statuses are the true ones: of each user *)
(* in the tree, whenever it was added, moved to another group, or came and  *)
(* went while packets were on their way; of the client itself, what was     *)
(* last asked for. Without a connection all are offline. The application    *)
(* was told of it, as long as the group the user was added to is there.     *)
(* Excepted are the users whose status a packet of before may have set, of  *)
(* whom the server has not spoken since.                                    *)
PresenceSettles ==
    /\ Quiet => /\ \A u \in InTree \ stale.users : status[u] = online[u]
                /\ m_self = wanted
    /\ m_state = "NOT_CONNECTED" =>
          /\ \A u \in InTree \ stale.users : status[u] = "OFFLINE"
          /\ m_self.status = "OFFLINE" \/ stale.self
    /\ \A u \in InTree : wired[u] # None => told[u] = status[u]

(* The server never shows the user as invisible without the visible list of *)
(* this session: setStatus and SendLogin send the list first, and setStatus *)
(* decides by m_self, which the answers of the server change later. Unless  *)
(* setStatus decided by an m_self left over from the session before.        *)
InvisibleKnowsList ==
    MapICQStatusToInvisible(server.info) => server.visible \/ stale.lists

(* "when going from invisible to visible: send set Status, send the Add to  *)
(* Invisible list" (Client.cpp:2353-2355): once the packets of a visible    *)
(* client have reached the server it has the invisible list. setStatus      *)
(* looks at m_self, and while the server's answer to the login is on its    *)
(* way that is not invisible yet.                                           *)
VisibleKnowsList ==
    LoggedIn /\ up = <<>> /\ ~MapICQStatusToInvisible(server.info) => server.invisible
=============================================================================
