------------------------------- MODULE DueSet -------------------------------
(***************************************************************************)
(* What a cache of src/src/Cache.h promises, whatever the order of its     *)
(* list: values stored under keys, each with the time at which it is due.  *)
(* A sweep takes out values that were due when it began, and does not end  *)
(* while one of those is left.                                             *)
(***************************************************************************)
EXTENDS Naturals

CONSTANTS
    Keys,      \* keys of the values
    Ids,       \* names of the values
    Timeouts,  \* how long a value is kept
    Times,     \* deadlines
    None       \* no sweep in progress

VARIABLES
    now,      \* what time(NULL) says
    held,     \* the values held: [id, key, due]
    since     \* when the sweep in progress began, None without one

vars == <<now, held, since>>

\* The values that an operation on key k may mean: the first due of them.
FirstDue(k) == {v \in held : v.key = k /\ \A w \in held : w.key = k => v.due <= w.due}

Init == now \in Nat /\ held = {} /\ since = None

Clock == now' \in Nat /\ UNCHANGED <<held, since>>

Store(i, k, t) ==
    /\ held' = held \cup {[id |-> i, key |-> k, due |-> now + t]}
    /\ UNCHANGED <<now, since>>

Exchange(i, k) ==
    /\ \E v \in FirstDue(k) : held' = (held \ {v}) \cup {[v EXCEPT !.id = i]}
    /\ UNCHANGED <<now, since>>

TakeOut(k) ==
    /\ \E v \in FirstDue(k) : held' = held \ {v}
    /\ UNCHANGED <<now, since>>

\* A value is due at another time; it stays the same value.
Postpone(k) ==
    /\ \E v \in FirstDue(k), d \in Times : held' = (held \ {v}) \cup {[v EXCEPT !.due = d]}
    /\ UNCHANGED <<now, since>>

Clear == held' = {} /\ UNCHANGED <<now, since>>

Begin == since = None /\ since' = now /\ UNCHANGED <<now, held>>

Expire ==
    /\ since # None
    /\ \E v \in held : v.due < since /\ held' = held \ {v}
    /\ UNCHANGED <<now, since>>

Finish ==
    /\ since # None
    /\ \A v \in held : ~(v.due < since)
    /\ since' = None
    /\ UNCHANGED <<now, held>>

Next ==
    \/ Clock
    \/ \E i \in Ids, k \in Keys : Exchange(i, k) \/ \E t \in Timeouts : Store(i, k, t)
    \/ \E k \in Keys : TakeOut(k) \/ Postpone(k)
    \/ Clear \/ Begin \/ Expire \/ Finish

Spec == Init /\ [][Next]_vars
=============================================================================
