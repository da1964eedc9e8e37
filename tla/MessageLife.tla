----------------------------- MODULE MessageLife -----------------------------
(***************************************************************************)
(* What Client::SendEvent promises for a MessageEvent (the comment above   *)
(* it in src/src/Client.cpp): the event persists while it is neither       *)
(* confirmed nor failed, and its end is signalled back, once. Where the    *)
(* event waits meanwhile is of no concern here.                            *)
(*                                                                         *)
(* The fate "dropped" is the breach of the promise that the code has: an   *)
(* event whose end is never signalled.                                     *)
(***************************************************************************)
CONSTANT Messages
VARIABLE life

Fates == {"delivered", "failed", "timeout"}
Lives == {"new", "pending", "dropped"} \cup Fates

Init == life = [m \in Messages |-> "new"]

\* What may follow each stage of an event's life.
Follows(stage) ==
    CASE stage = "new"     -> {"new", "pending", "dropped"} \cup Fates
      [] stage = "pending" -> {"pending", "dropped"} \cup Fates
      [] OTHER             -> {stage}

\* One call into the library can settle several events.
Next == \A m \in Messages : life'[m] \in Follows(life[m])

Spec == Init /\ [][Next]_life

\* No event waits for ever.
Settled == \A m \in Messages : life[m] = "pending" ~> life[m] # "pending"

LiveSpec == Spec /\ Settled
=============================================================================
