----------------------------- MODULE TimedCache -----------------------------
(***************************************************************************)
(* The template Cache of src/src/Cache.h, base of the caches of direct     *)
(* connections, messages, cookies, file transfers and requests: a list of  *)
(* values under keys, kept in the order in which they expire, and a sweep  *)
(* that looks at the front of the list only.                               *)
(*                                                                         *)
(* An entry expires at its timestamp plus its timeout, and setTimeout      *)
(* changes the timeout alone. The clock is the clock of the computer: it   *)
(* may be set back. The callback of an expired entry may insert into the   *)
(* same cache (an application that searches again): a sweep is one step    *)
(* for each entry that it expires.                                         *)
(***************************************************************************)
EXTENDS Integers, Sequences

CONSTANTS
    Keys,       \* keys of the cache
    Timeouts,   \* timeouts: the default and those given to setTimeout
    Default,    \* m_timeout
    MaxNow,     \* bound: the clock
    MaxIds,     \* bound: values stored
    None        \* no sweep in progress

ASSUME TimeoutsNat == Timeouts \subseteq Nat /\ Default \in Timeouts
ASSUME BoundsNat == MaxNow \in Nat /\ MaxIds \in Nat
ASSUME NoneNoTime == None \notin Nat

VARIABLES
    now,        \* time(NULL)
    m_list,     \* the entries, front first
    since,      \* clearoutPoll: n, or None
    l,          \* the value whose expiry is being signalled, or None
    stored      \* how many values were stored so far; numbers them

cacheVars == <<now, m_list, since, l, stored>>

CacheItem == [id : Nat, key : Keys, timestamp : 0 .. MaxNow, timeout : Timeouts]

getExpiryTime(e) == e.timestamp + e.timeout

-----------------------------------------------------------------------------

\* After an entry was sought that expires later: insertion from the front, not the back.
Place_bug(list, e) ==
    LET i == IF list # <<>> /\ getExpiryTime(list[1]) < getExpiryTime(e) THEN 1 ELSE 0
    IN SubSeq(list, 1, i) \o <<e>> \o SubSeq(list, i + 1, Len(list))

(* insert() goes back from the end to the last entry that expires before   *)
(* e, and puts e behind it.                                                *)
Behind(list, e) ==
    CHOOSE i \in 0 .. Len(list) :
        /\ i = 0 \/ getExpiryTime(list[i]) < getExpiryTime(e)
        /\ \A j \in i + 1 .. Len(list) : ~(getExpiryTime(list[j]) < getExpiryTime(e))

Place(list, e) ==
    LET i == Behind(list, e)
    IN SubSeq(list, 1, i) \o <<e>> \o SubSeq(list, i + 1, Len(list))

\* The places of key k, and the first of them.
Places(list, k) == {i \in 1 .. Len(list) : list[i].key = k}
exists(k) == Places(m_list, k) # {}
lookup(list, k) == CHOOSE i \in Places(list, k) : \A j \in Places(list, k) : i <= j

Erase(list, i) == SubSeq(list, 1, i - 1) \o SubSeq(list, i + 1, Len(list))

-----------------------------------------------------------------------------

CacheInit ==
    /\ now = 0
    /\ m_list = <<>>
    /\ since = None
    /\ l = None
    /\ stored = 0

Fresh == stored < MaxIds /\ stored' = stored + 1

NewItem(k) == [id |-> stored, key |-> k, timestamp |-> now, timeout |-> Default]

\* Any other time, an earlier one too.
Clock ==
    /\ now' \in 0 .. MaxNow
    /\ UNCHANGED <<m_list, since, l, stored>>

\* insert, also from a callback: a key that is there already is there twice.
Insert(k) ==
    /\ since = None \/ l # None
    /\ Fresh
    /\ m_list' = Place(m_list, NewItem(k))
    /\ UNCHANGED <<now, since, l>>

\* Assignment through operator[]: the value under k, or a new entry.
Assign(k) ==
    /\ since = None
    /\ Fresh
    /\ m_list' = IF exists(k) THEN [m_list EXCEPT ![lookup(m_list, k)].id = stored]
                 ELSE Place(m_list, NewItem(k))
    /\ UNCHANGED <<now, since, l>>

Remove(k) ==
    /\ since = None
    /\ exists(k)
    /\ m_list' = Erase(m_list, lookup(m_list, k))
    /\ UNCHANGED <<now, since, l, stored>>

setTimeout(k, s) ==
    /\ since = None
    /\ exists(k)
    /\ LET i == lookup(m_list, k)
       IN m_list' = Place(Erase(m_list, i), [m_list[i] EXCEPT !.timeout = s])
    /\ UNCHANGED <<now, since, l, stored>>

\* refresh reinserts a copy of the entry: its timestamp stays as it was.
refresh(k) ==
    /\ since = None
    /\ exists(k)
    /\ LET i == lookup(m_list, k) IN m_list' = Place(Erase(m_list, i), m_list[i])
    /\ UNCHANGED <<now, since, l, stored>>

\* expireAll and removeAll differ in what they tell the owner.
removeAll ==
    /\ since = None
    /\ m_list' = <<>>
    /\ UNCHANGED <<now, since, l, stored>>

\* clearoutPoll reads the clock once.
clearoutPoll ==
    /\ since = None
    /\ since' = now
    /\ UNCHANGED <<now, m_list, l, stored>>

\* The condition of the loop of clearoutPoll.
FrontIsDue == m_list # <<>> /\ getExpiryTime(m_list[1]) < since

\* The front entry is taken for due when its time has not passed yet.
expireItem_bug ==
    /\ since # None /\ l = None
    /\ m_list # <<>> /\ getExpiryTime(m_list[1]) <= since
    /\ l' = m_list[1].id
    /\ UNCHANGED <<now, m_list, since, stored>>

(* A turn of the loop of clearoutPoll begins: the owner is told, whose     *)
(* callback may insert.                                                    *)
expireItem ==
    /\ since # None /\ l = None
    /\ FrontIsDue
    /\ l' = m_list[1].id
    /\ UNCHANGED <<now, m_list, since, stored>>

(* The turn ends: the iterator still means the entry that was the front,   *)
(* when the callback has put another one before it.                        *)
removeItem ==
    /\ l # None
    /\ m_list' = Erase(m_list, CHOOSE i \in 1 .. Len(m_list) : m_list[i].id = l)
    /\ l' = None
    /\ UNCHANGED <<now, since, stored>>

SweepEnds ==
    /\ since # None /\ l = None
    /\ ~FrontIsDue
    /\ since' = None
    /\ UNCHANGED <<now, m_list, l, stored>>

CacheNext ==
    \/ Clock
    \/ \E k \in Keys :
        \/ Assign(k) \/ Remove(k) \/ refresh(k)
        \/ Insert(k)
        \/ \E s \in Timeouts : setTimeout(k, s)
    \/ removeAll \/ clearoutPoll \/ expireItem \/ removeItem \/ SweepEnds

CacheSpec == CacheInit /\ [][CacheNext]_cacheVars

-----------------------------------------------------------------------------

\* Every variable has its type, and no value is stored twice.
ListTypeOK ==
    /\ now \in 0 .. MaxNow /\ stored \in Nat
    /\ m_list \in Seq(CacheItem)
    /\ since \in Nat \cup {None} /\ l \in Nat \cup {None}
    /\ \A i \in 1 .. Len(m_list) : m_list[i].id < stored
    /\ \A i, j \in 1 .. Len(m_list) : m_list[i].id = m_list[j].id => i = j

(* The list is in the order of expiry, whatever the clock did and whatever *)
(* setTimeout, refresh and the callbacks put where (Cache.h:140-151): the  *)
(* sweep looks no further than the first entry that is not due.            *)
SortedList(list) ==
    \A i, j \in 1 .. Len(list) : i < j => getExpiryTime(list[i]) <= getExpiryTime(list[j])

Sorted == SortedList(m_list)

\* The value whose expiry is being signalled is still there, and was due.
Expiring ==
    l # None =>
        /\ since # None
        /\ \E i \in 1 .. Len(m_list) :
             m_list[i].id = l /\ getExpiryTime(m_list[i]) < since

Value(e) == [id |-> e.id, key |-> e.key, due |-> getExpiryTime(e)]

Due == INSTANCE DueSet WITH
    held <- {Value(m_list[i]) : i \in 1 .. Len(m_list)},
    Ids <- 0 .. MaxIds,
    Times <- {t + s : t \in 0 .. MaxNow, s \in Timeouts}

(* The list does what a set of values with deadlines does: a sweep         *)
(* (Cache.h:181-185) takes out nothing but what was due when it began and  *)
(* leaves none of it, and an operation on a key means the value under it   *)
(* that is due first.                                                      *)
DueSpec == Due!Spec
=============================================================================
