---------------------------- MODULE DeliveryProofs ----------------------------
(* Theorems about Delivery, for any messages, contacts and descriptors.     *)
EXTENDS Delivery, TLAPS

USE DEF Idle, Held

-----------------------------------------------------------------------------
(* Type correctness.                                                        *)

\* What the end of a session leaves behind is well typed.
LEMMA BreakType ==
    ASSUME TypeOK, NEW acks \in [Messages -> Acks], LinkBreaks(acks) \/ DisconnectBOS(acks)
    PROVE  /\ ack' \in [Messages -> Acks] /\ direct' \in SUBSET Contacts
           /\ m_dccache' \in [Fds -> Link]
           /\ m_msgqueue' \in [Fds -> SUBSET Messages]
           /\ m_msgcache' \in [Fds -> SUBSET Messages]
BY DEF TypeOK, LinkBreaks, DisconnectBOS, DisconnectAuthorizer, GivenUp, Acks, Final, Pending, Nothing,
       NoLink, Link, connVars

LEMMA VerdictType == \A m : \A p \in Pending : Verdict(m, p) \in Pending \cup Final
BY DEF Verdict, Pending, Final

LEMMA RememberedType ==
    ASSUME TypeOK, NEW m \in Messages
    PROVE  Remembered(m) \in SUBSET Messages
BY DEF TypeOK, Remembered

LEMMA ServerType ==
    ASSUME TypeOK, NEW m \in Messages, SendViaServer(m), UNCHANGED <<doomed, undefined>>
    PROVE  TypeOK'
<1> DEFINE acks == [ack EXCEPT ![m] = Verdict(m, "waiting")]
<1>1. acks \in [Messages -> Acks]
  BY VerdictType DEF TypeOK, Acks, Pending
<1>2. m_cookiecache' \in SUBSET Messages
  BY RememberedType DEF SendViaServer
<1>3. CASE /\ ack' = acks
           /\ UNCHANGED <<m_state, contactVars, connVars>>
  BY <1>1, <1>2, <1>3 DEF TypeOK, contactVars, connVars
<1>4. CASE LinkBreaks(acks)
  <2> HIDE DEF acks
  <2>1. QED
    BY <1>1, <1>2, <1>4, BreakType DEF TypeOK, LinkBreaks
<1>5. QED
  BY <1>3, <1>4 DEF SendViaServer

LEMMA ResubmitType ==
    ASSUME TypeOK, NEW f \in Fds, NEW m \in Messages, Resubmit(f, m), UNCHANGED doomed
    PROVE  TypeOK'
<1>1. Verdict(m, "retrying") \in Acks
  BY VerdictType DEF Acks, Pending
<1>2. Remembered(m) \in SUBSET Messages
  BY RememberedType
<1>3. CASE undefined' = TRUE /\ UNCHANGED <<m_state, contactVars, connVars, m_cookiecache, ack>>
  BY <1>3 DEF TypeOK, contactVars, connVars
<1>4. CASE TakeOut(f, m) /\ ack' = [ack EXCEPT ![m] = "timeout"]
             /\ UNCHANGED <<m_state, contactVars, m_cookiecache, undefined>>
  BY <1>4 DEF TypeOK, TakeOut, contactVars, Acks, Final
<1>5. CASE TakeOut(f, m) /\ ack' = [ack EXCEPT ![m] = Verdict(m, "retrying")]
             /\ m_cookiecache' = Remembered(m) /\ UNCHANGED undefined
  <2>1. /\ m_msgqueue' \in [Fds -> SUBSET Messages] /\ m_msgcache' \in [Fds -> SUBSET Messages]
        /\ m_dccache' \in [Fds -> Link]
    BY <1>5 DEF TypeOK, TakeOut
  <2>2. ack' \in [Messages -> Acks]
    BY <1>1, <1>5 DEF TypeOK
  <2>3. /\ m_state' \in {"NOT_CONNECTED", "AUTH", "BOS"}
        /\ online' \in SUBSET Contacts /\ direct' \in SUBSET Contacts /\ advanced' \in SUBSET Contacts
    BY DEF TypeOK, Resubmit, contactVars
  <2>4. QED
    BY <1>2, <1>5, <2>1, <2>2, <2>3 DEF TypeOK
<1>6. QED
  BY <1>3, <1>4, <1>5 DEF Resubmit

LEMMA TypeInit == Init => TypeOK
BY DEF Init, TypeOK, Link, NoLink, Nothing, Acks

LEMMA TypeStep == TypeOK /\ [Next]_vars => TypeOK'
<1> SUFFICES ASSUME TypeOK, [Next]_vars PROVE TypeOK'
  OBVIOUS
<1> USE DEF contactVars, connVars
<1>1. CASE Disconnect
  <2>1. ack \in [Messages -> Acks] /\ LinkBreaks(ack)
    BY <1>1 DEF Disconnect, TypeOK
  <2>2. QED
    BY <1>1, <2>1, BreakType DEF TypeOK, Disconnect, LinkBreaks
<1>2. CASE Hangup
  <2>1. ack \in [Messages -> Acks] /\ DisconnectBOS(ack)
    BY <1>2 DEF Hangup, TypeOK
  <2>2. QED
    BY <1>2, <2>1, BreakType DEF TypeOK, Hangup
<1>3. CASE Login
  BY <1>3 DEF TypeOK, Login
<1>4. ASSUME NEW m \in Messages, SendToServer(m) PROVE TypeOK'
  BY <1>4, ServerType DEF SendToServer
<1>5. ASSUME NEW m \in Messages, ServerACK(m) PROVE TypeOK'
  BY <1>5 DEF TypeOK, ServerACK, Answers, Acks, Final
<1>6. ASSUME NEW m \in Messages, OfflineACK(m) PROVE TypeOK'
  BY <1>6 DEF TypeOK, OfflineACK, Acks, Pending
<1>7. ASSUME NEW m \in Messages, CookieExpires(m) PROVE TypeOK'
  <2> DEFINE acks == [ack EXCEPT ![m] = "delivered"]
  <2>1. acks \in [Messages -> Acks]
    BY DEF TypeOK, Acks, Final
  <2>2. CASE LinkBreaks(acks)
    <3> HIDE DEF acks
    <3>1. QED
      BY <1>7, <2>1, <2>2, BreakType DEF TypeOK, LinkBreaks, CookieExpires
  <2>3. CASE ~LinkBreaks(acks)
    BY <1>7, <2>3 DEF TypeOK, CookieExpires, Acks, Final
  <2>4. QED
    BY <2>2, <2>3
<1>8. ASSUME NEW m \in Messages, NEW f \in Fds, SendOpensDirect(m, f) PROVE TypeOK'
  <2>1. To[m] \in Contacts
    BY Addressed
  <2>2. QED
    BY <1>8, <2>1 DEF TypeOK, SendOpensDirect, Link, Acks, Pending
<1>9. ASSUME NEW m \in Messages, NEW f \in Fds, SendOnDirect(m, f) PROVE TypeOK'
  BY <1>9 DEF TypeOK, SendOnDirect, Between, Link, Acks, Pending
<1>10. ASSUME NEW m \in Messages, NEW f \in Fds, DirectACK(f, m) PROVE TypeOK'
  BY <1>10 DEF TypeOK, DirectACK, Answers, Acks, Final
<1>11. ASSUME NEW m \in Messages, NEW f \in Fds, DirectMessageExpires(f, m) PROVE TypeOK'
  BY <1>11, ResubmitType DEF DirectMessageExpires
<1>12. ASSUME NEW m \in Messages, NEW f \in Fds, DestroyResubmits(f, m) PROVE TypeOK'
  BY <1>12, ResubmitType DEF DestroyResubmits
<1>13. ASSUME NEW f \in Fds, Accept(f) PROVE TypeOK'
  BY <1>13 DEF TypeOK, Accept, Link
<1>14. ASSUME NEW f \in Fds, DirectConnEnds(f) PROVE TypeOK'
  BY <1>14 DEF TypeOK, DirectConnEnds
<1>15. ASSUME NEW f \in Fds, Destroyed(f) PROVE TypeOK'
  BY <1>15 DEF TypeOK, Destroyed, Link, NoLink
<1>16. ASSUME NEW f \in Fds, NEW c \in Contacts, NEW sent \in SUBSET Messages, Shaken(f, c, sent) PROVE TypeOK'
  BY <1>16 DEF TypeOK, Shaken, Link
<1>17. ASSUME NEW c \in Contacts, RemoveContact(c) PROVE TypeOK'
  <2>1. CASE LinkBreaks(ack)
    <3>1. ack \in [Messages -> Acks]
      BY DEF TypeOK
    <3>2. QED
      BY <1>17, <2>1, <3>1, BreakType DEF TypeOK, LinkBreaks, RemoveContact, Between
  <2>2. CASE ~LinkBreaks(ack)
    BY <1>17, <2>2 DEF TypeOK, RemoveContact, Between
  <2>3. QED
    BY <2>1, <2>2
<1>18. ASSUME NEW c \in Contacts, UserOnline(c) PROVE TypeOK'
  BY <1>18 DEF TypeOK, UserOnline
<1>19. ASSUME NEW c \in Contacts, UserOffline(c) PROVE TypeOK'
  BY <1>19 DEF TypeOK, UserOffline
<1>20. CASE UNCHANGED vars
  BY <1>20 DEF TypeOK, vars
<1>21. QED
  BY <1>1, <1>2, <1>3, <1>4, <1>5, <1>6, <1>7, <1>8, <1>9, <1>10, <1>11, <1>12, <1>13, <1>14,
     <1>15, <1>16, <1>17, <1>18, <1>19, <1>20 DEF Next, Crashed

(* Type correctness, for any number of messages and connections.            *)
THEOREM DeliveryTypeOK == Spec => []TypeOK
BY TypeInit, TypeStep, PTL DEF Spec
-----------------------------------------------------------------------------
(* Ownership. The properties HeldOnce, HeldIsPending, FallbackOnce,         *)
(* RightPeer and QueueFlushed are inductive together.                       *)

Owned == HeldOnce /\ HeldIsPending /\ FallbackOnce
Carried == RightPeer /\ QueueFlushed
Inv == TypeOK /\ Owned /\ Carried

\* A message never sent is nowhere.
LEMMA UnsentNowhere ==
    ASSUME Owned, NEW m \in Messages, ack[m] = "unsent"
    PROVE  m \notin m_cookiecache /\ \A f \in Fds : m \notin m_msgqueue[f] /\ m \notin m_msgcache[f]
BY DEF Owned, HeldIsPending, Pending

\* The end of a session keeps every connection or none, and the cookies.
LEMMA BreakCases ==
    ASSUME NEW acks, LinkBreaks(acks) \/ DisconnectBOS(acks)
    PROVE  \/ ack' = acks /\ UNCHANGED connVars
           \/ /\ m_dccache' = [f \in Fds |-> NoLink]
              /\ m_msgqueue' = Nothing /\ m_msgcache' = Nothing
              /\ \A m \in Messages : (\A f \in Fds : m \notin Held(f)) => ack'[m] = acks[m]
BY DEF LinkBreaks, DisconnectBOS, DisconnectAuthorizer

\* So it preserves the invariants, if the message it interrupts is in its place.
LEMMA BreakInv ==
    ASSUME Inv, NEW acks \in [Messages -> Acks], LinkBreaks(acks) \/ DisconnectBOS(acks),
           \A m \in Messages : (\E f \in Fds : m \in Held(f)) => acks[m] = ack[m],
           \A m \in m_cookiecache' : m \in Messages /\ acks[m] \in Pending,
           \A f \in Fds : Held(f) \cap m_cookiecache' = {},
           UNCHANGED doomed
    PROVE  Owned' /\ Carried'
<1>1. CASE ack' = acks /\ UNCHANGED connVars
  BY <1>1 DEF Inv, TypeOK, Owned, Carried, HeldOnce, HeldIsPending, FallbackOnce, RightPeer, QueueFlushed, connVars
<1>2. CASE /\ m_dccache' = [f \in Fds |-> NoLink]
           /\ m_msgqueue' = Nothing /\ m_msgcache' = Nothing
           /\ \A m \in Messages : (\A f \in Fds : m \notin Held(f)) => ack'[m] = acks[m]
  <2>1. \A f \in Fds : m_msgqueue'[f] = {} /\ m_msgcache'[f] = {}
    BY <1>2 DEF Nothing
  <2>2. \A m \in m_cookiecache' : ack'[m] \in Pending
    BY <1>2
  <2>3. QED
    BY <2>1, <2>2 DEF Owned, Carried, HeldOnce, HeldIsPending, FallbackOnce, RightPeer, QueueFlushed
<1>3. QED
  BY <1>1, <1>2, BreakCases

\* SendViaServer of a message that is nowhere yet.
LEMMA ServerInv ==
    ASSUME Inv, NEW m \in Messages, ack[m] = "unsent", SendViaServer(m), UNCHANGED <<doomed, undefined>>
    PROVE  Owned' /\ Carried'
<1> DEFINE acks == [ack EXCEPT ![m] = Verdict(m, "waiting")]
<1>1. acks \in [Messages -> Acks]
  BY VerdictType DEF Inv, TypeOK, Acks, Pending
<1>2. m \notin m_cookiecache /\ \A f \in Fds : m \notin m_msgqueue[f] /\ m \notin m_msgcache[f]
  BY UnsentNowhere DEF Inv
<1>3. m_cookiecache' \subseteq m_cookiecache \cup {m} /\ (m \in m_cookiecache' => acks[m] = "waiting")
  BY <1>2 DEF SendViaServer, Remembered, Verdict, Writes, Inv, TypeOK
<1>4. \A x \in Messages : x # m => acks[x] = ack[x]
  BY DEF Inv, TypeOK
<1>5. \A x \in m_cookiecache' : x \in Messages /\ acks[x] \in Pending
  BY <1>3, <1>4 DEF Inv, Owned, HeldIsPending, TypeOK, Pending
<1>6. \A f \in Fds : Held(f) \cap m_cookiecache' = {}
  BY <1>2, <1>3 DEF Inv, Owned, HeldOnce
<1>7. \A x \in Messages : (\E f \in Fds : x \in Held(f)) => acks[x] = ack[x]
  BY <1>2, <1>4
<1>8. CASE ack' = acks /\ UNCHANGED connVars
  BY <1>2, <1>4, <1>5, <1>6, <1>8 DEF Inv, TypeOK, Owned, Carried, HeldOnce, HeldIsPending, FallbackOnce,
     RightPeer, QueueFlushed, connVars
<1>9. CASE LinkBreaks(acks)
  <2> HIDE DEF acks
  <2>1. QED
    BY <1>1, <1>5, <1>6, <1>7, <1>9, BreakInv
<1>10. QED
  BY <1>8, <1>9 DEF SendViaServer

\* A message that leaves its DirectClient is nowhere else but at the server.
LEMMA ResubmitInv ==
    ASSUME Inv, NEW f \in Fds, NEW m \in Held(f), Resubmit(f, m), UNCHANGED doomed
    PROVE  Owned' /\ Carried'
<1>1. CASE UNCHANGED <<connVars, m_cookiecache, ack>>
  BY <1>1 DEF Inv, Owned, Carried, HeldOnce, HeldIsPending, FallbackOnce, RightPeer, QueueFlushed, connVars
<1>2. CASE TakeOut(f, m)
  <2>1. m \in Messages /\ m \notin m_cookiecache
    BY DEF Inv, TypeOK, Owned, HeldOnce
  <2>2. \A g \in Fds : /\ m_msgqueue'[g] = m_msgqueue[g] \ {m}
                        /\ m_msgcache'[g] = m_msgcache[g] \ {m}
    BY <1>2 DEF Inv, TypeOK, TakeOut, Owned, HeldOnce
  <2>3. \A x \in Messages : x # m => ack'[x] = ack[x]
    BY DEF Inv, TypeOK, Resubmit
  <2>4. m_cookiecache' \subseteq m_cookiecache \cup {m} /\ (m \in m_cookiecache' => ack'[m] = "retrying")
    BY <2>1 DEF Resubmit, Remembered, Verdict, Writes, Inv, TypeOK
  <2>5. Owned'
    BY <2>1, <2>2, <2>3, <2>4 DEF Inv, TypeOK, Owned, HeldOnce, HeldIsPending, FallbackOnce, Pending
  <2>6. Carried'
    BY <1>2, <2>2 DEF Inv, Carried, RightPeer, QueueFlushed, TakeOut
  <2>7. QED
    BY <2>5, <2>6
<1>3. QED
  BY <1>1, <1>2 DEF Resubmit

LEMMA InvInit == Init => Inv
BY TypeInit DEF Init, Inv, Owned, Carried, HeldOnce, HeldIsPending, FallbackOnce, RightPeer, QueueFlushed, Nothing

LEMMA InvStep == Inv /\ [Next]_vars => Inv'
<1> SUFFICES ASSUME Inv, [Next]_vars PROVE Inv'
  OBVIOUS
<1>0. TypeOK'
  BY TypeStep DEF Inv
<1> SUFFICES Owned' /\ Carried'
  BY <1>0 DEF Inv
<1> USE DEF connVars, contactVars
<1>1. ASSUME LinkBreaks(ack) \/ DisconnectBOS(ack), UNCHANGED <<m_cookiecache, doomed>>
      PROVE  Owned' /\ Carried'
  <2>1. ack \in [Messages -> Acks] /\ \A m \in m_cookiecache' : m \in Messages /\ ack[m] \in Pending
    BY <1>1 DEF Inv, TypeOK, Owned, HeldIsPending
  <2>2. \A f \in Fds : Held(f) \cap m_cookiecache' = {}
    BY <1>1 DEF Inv, Owned, HeldOnce
  <2>3. QED
    BY <1>1, <2>1, <2>2, BreakInv
<1>2. CASE Disconnect \/ Hangup
  BY <1>1, <1>2 DEF Disconnect, Hangup
<1>3. ASSUME UNCHANGED <<connVars, m_cookiecache, ack>>, doomed \subseteq doomed'
      PROVE  Owned' /\ Carried'
  BY <1>3 DEF Inv, Owned, Carried, HeldOnce, HeldIsPending, FallbackOnce, RightPeer, QueueFlushed
<1>4. CASE Login
  BY <1>3, <1>4 DEF Login
<1>5. ASSUME NEW m \in Messages, SendToServer(m) PROVE Owned' /\ Carried'
  BY <1>5, ServerInv DEF SendToServer
<1>6. ASSUME NEW m \in Messages, ServerACK(m) PROVE Owned' /\ Carried'
  <2>1. \A f \in Fds : m \notin Held(f)
    BY <1>6 DEF ServerACK, Inv, Owned, HeldOnce
  <2>2. \A x \in Messages : x # m => ack'[x] = ack[x]
    BY <1>6 DEF ServerACK, Inv, TypeOK
  <2>3. QED
    BY <1>6, <2>1, <2>2 DEF ServerACK, Inv, TypeOK, Owned, Carried, HeldOnce, HeldIsPending, FallbackOnce,
       RightPeer, QueueFlushed
<1>7. ASSUME NEW m \in Messages, OfflineACK(m) PROVE Owned' /\ Carried'
  <2>1. \A f \in Fds : m \notin Held(f)
    BY <1>7 DEF OfflineACK, Inv, Owned, HeldOnce
  <2>2. ack' = [ack EXCEPT ![m] = "retrying"]
    BY <1>7 DEF OfflineACK
  <2>3. QED
    BY <1>7, <2>1, <2>2 DEF OfflineACK, Inv, TypeOK, Owned, Carried, HeldOnce, HeldIsPending, FallbackOnce,
       RightPeer, QueueFlushed, Pending
<1>8. ASSUME NEW m \in Messages, CookieExpires(m) PROVE Owned' /\ Carried'
  <2> DEFINE acks == [ack EXCEPT ![m] = "delivered"]
  <2>1. \A f \in Fds : m \notin Held(f)
    BY <1>8 DEF CookieExpires, Inv, Owned, HeldOnce
  <2>2. m_cookiecache' = m_cookiecache \ {m} /\ UNCHANGED doomed
    BY <1>8 DEF CookieExpires
  <2>3. CASE UNCHANGED connVars /\ \A x \in Messages : x # m => ack'[x] = ack[x]
    BY <2>1, <2>2, <2>3 DEF Inv, TypeOK, Owned, Carried, HeldOnce, HeldIsPending, FallbackOnce,
       RightPeer, QueueFlushed
  <2>4. CASE LinkBreaks(acks)
    <3>1. acks \in [Messages -> Acks] /\ \A x \in Messages : x # m => acks[x] = ack[x]
      BY DEF Inv, TypeOK, Acks, Final
    <3>2. \A x \in m_cookiecache' : x \in Messages /\ acks[x] \in Pending
      BY <2>2, <3>1 DEF Inv, TypeOK, Owned, HeldIsPending
    <3>3. \A f \in Fds : Held(f) \cap m_cookiecache' = {}
      BY <2>2 DEF Inv, Owned, HeldOnce
    <3>4. \A x \in Messages : (\E f \in Fds : x \in Held(f)) => acks[x] = ack[x]
      BY <2>1, <3>1
    <3> HIDE DEF acks
    <3>5. QED
      BY <2>2, <2>4, <3>1, <3>2, <3>3, <3>4, BreakInv
  <2>5. QED
    BY <1>8, <2>3, <2>4 DEF CookieExpires, Inv, TypeOK
<1>9. ASSUME NEW m \in Messages, NEW f \in Fds, SendOpensDirect(m, f) PROVE Owned' /\ Carried'
  <2>1. m \notin m_cookiecache /\ \A g \in Fds : m \notin m_msgqueue[g] /\ m \notin m_msgcache[g]
    BY <1>9, UnsentNowhere DEF SendOpensDirect, Inv
  <2>2. /\ m_msgqueue'[f] = {m} /\ m_msgcache'[f] = {}
        /\ \A g \in Fds \ {f} : m_msgqueue'[g] = m_msgqueue[g] /\ m_msgcache'[g] = m_msgcache[g]
        /\ m_dccache'[f] = [state |-> "waiting", peer |-> To[m]]
        /\ \A g \in Fds \ {f} : m_dccache'[g] = m_dccache[g]
        /\ ack'[m] = "waiting" /\ \A x \in Messages : x # m => ack'[x] = ack[x]
        /\ UNCHANGED <<m_cookiecache, doomed>>
    BY <1>9 DEF SendOpensDirect, Inv, TypeOK
  <2>3. Owned'
    BY <2>1, <2>2 DEF Inv, TypeOK, Owned, HeldOnce, HeldIsPending, FallbackOnce, Pending
  <2>4. Carried'
    BY <2>2 DEF Inv, Carried, RightPeer, QueueFlushed
  <2>5. QED
    BY <2>3, <2>4
<1>10. ASSUME NEW m \in Messages, NEW f \in Fds, SendOnDirect(m, f) PROVE Owned' /\ Carried'
  <2>1. m \notin m_cookiecache /\ \A g \in Fds : m \notin m_msgqueue[g] /\ m \notin m_msgcache[g]
    BY <1>10, UnsentNowhere DEF SendOnDirect, Inv
  <2>2. /\ m_msgqueue'[f] \subseteq m_msgqueue[f] \cup {m} /\ m_msgcache'[f] \subseteq m_msgcache[f] \cup {m}
        /\ m_msgqueue'[f] = m_msgqueue[f] \/ m_msgcache'[f] = m_msgcache[f]
        /\ \A g \in Fds \ {f} : m_msgqueue'[g] = m_msgqueue[g] /\ m_msgcache'[g] = m_msgcache[g]
        /\ \A x \in Messages : x # m => ack'[x] = ack[x]
        /\ m \in m_msgqueue'[f] \cup m_msgcache'[f] => ack'[m] = "waiting"
        /\ UNCHANGED <<m_cookiecache, doomed>>
    BY <1>10, <2>1 DEF SendOnDirect, Inv, TypeOK
  <2>3. /\ \A g \in Fds \ {f} : m_dccache'[g] = m_dccache[g]
        /\ m_dccache'[f].peer = m_dccache[f].peer /\ m_dccache[f].peer = To[m]
        /\ \/ m_dccache'[f].state = "waiting" /\ m_dccache[f].state = "waiting" /\ UNCHANGED m_msgcache
           \/ m_dccache'[f].state \in {"connected", "dead"} /\ m_dccache[f].state # "waiting" /\ UNCHANGED m_msgqueue
    BY <1>10 DEF SendOnDirect, Between, Inv, TypeOK, Link
  <2>4. Owned'
    BY <2>1, <2>2 DEF Inv, TypeOK, Owned, HeldOnce, HeldIsPending, FallbackOnce, Pending
  <2>5. RightPeer'
    BY <2>2, <2>3 DEF Inv, Carried, RightPeer
  <2>6. QueueFlushed'
    BY <2>2, <2>3 DEF Inv, Carried, QueueFlushed
  <2>7. QED
    BY <2>4, <2>5, <2>6 DEF Carried
<1>11. ASSUME NEW m \in Messages, NEW f \in Fds, DirectACK(f, m) PROVE Owned' /\ Carried'
  <2>1. m \notin m_cookiecache /\ m \notin m_msgqueue[f] /\ \A g \in Fds \ {f} : m \notin Held(g)
    BY <1>11 DEF DirectACK, Inv, Owned, HeldOnce
  <2>2. /\ m_msgcache'[f] = m_msgcache[f] \ {m}
        /\ \A g \in Fds \ {f} : m_msgcache'[g] = m_msgcache[g]
        /\ \A x \in Messages : x # m => ack'[x] = ack[x]
        /\ UNCHANGED <<m_dccache, m_msgqueue, m_cookiecache, doomed>>
    BY <1>11 DEF DirectACK, Inv, TypeOK
  <2>3. QED
    BY <2>1, <2>2 DEF Inv, TypeOK, Owned, Carried, HeldOnce, HeldIsPending, FallbackOnce, RightPeer, QueueFlushed
<1>12. ASSUME NEW m \in Messages, NEW f \in Fds, DirectMessageExpires(f, m) \/ DestroyResubmits(f, m)
       PROVE  Owned' /\ Carried'
  <2>1. m \in Held(f)
    BY <1>12 DEF DirectMessageExpires, DestroyResubmits
  <2>2. QED
    BY <1>12, <2>1, ResubmitInv DEF DirectMessageExpires, DestroyResubmits
<1>13. ASSUME NEW f \in Fds, Accept(f) PROVE Owned' /\ Carried'
  BY <1>13 DEF Accept, Inv, TypeOK, Owned, Carried, HeldOnce, HeldIsPending, FallbackOnce, RightPeer, QueueFlushed
<1>14. ASSUME NEW f \in Fds, DirectConnEnds(f) PROVE Owned' /\ Carried'
  BY <1>3, <1>14 DEF DirectConnEnds
<1>15. ASSUME NEW f \in Fds, Destroyed(f) PROVE Owned' /\ Carried'
  BY <1>15 DEF Destroyed, Inv, TypeOK, Owned, Carried, HeldOnce, HeldIsPending, FallbackOnce, RightPeer, QueueFlushed
<1>16. ASSUME NEW f \in Fds, NEW c \in Contacts, NEW sent \in SUBSET Messages, Shaken(f, c, sent)
       PROVE  Owned' /\ Carried'
  <2>1. /\ m_msgqueue'[f] = m_msgqueue[f] \ sent /\ m_msgcache'[f] = m_msgcache[f] \cup sent
        /\ sent \subseteq m_msgqueue[f]
        /\ \A g \in Fds \ {f} : m_msgqueue'[g] = m_msgqueue[g] /\ m_msgcache'[g] = m_msgcache[g]
        /\ \A g \in Fds \ {f} : m_dccache'[g] = m_dccache[g]
        /\ UNCHANGED <<m_cookiecache, ack>>
    BY <1>16 DEF Shaken, Inv, TypeOK
  <2>2. /\ m_dccache'[f].peer = c /\ m_dccache[f].peer \in {c, Nobody}
        /\ \/ sent = m_msgqueue[f] /\ m_dccache'[f].state = "connected" /\ UNCHANGED doomed
           \/ m_dccache'[f].state = "dead" /\ doomed' = {f}
        /\ doomed = {}
    BY <1>16 DEF Shaken, Inv, TypeOK
  <2>3. Owned'
    BY <2>1 DEF Inv, Owned, HeldOnce, HeldIsPending, FallbackOnce
  <2>4. \A m \in Held(f) : To[m] = c
    <3>1. \A m \in Held(f) : m \in Messages /\ To[m] \in Contacts /\ m_dccache[f].peer = To[m]
      BY Addressed DEF Inv, TypeOK, Carried, RightPeer
    <3>2. QED
      BY <2>2, <3>1, Addressed
  <2>5. RightPeer'
    BY <2>1, <2>2, <2>4 DEF Inv, Carried, RightPeer
  <2>6. QueueFlushed'
    BY <2>1, <2>2 DEF Inv, Carried, QueueFlushed
  <2>7. QED
    BY <2>3, <2>5, <2>6 DEF Carried
<1>17. ASSUME NEW c \in Contacts, RemoveContact(c) PROVE Owned' /\ Carried'
  BY <1>1, <1>3, <1>17 DEF RemoveContact
<1>18. ASSUME NEW c \in Contacts, UserOnline(c) \/ UserOffline(c) PROVE Owned' /\ Carried'
  BY <1>3, <1>18 DEF UserOnline, UserOffline
<1>19. CASE UNCHANGED vars
  BY <1>3, <1>19 DEF vars
<1>20. QED
  BY <1>2, <1>4, <1>5, <1>6, <1>7, <1>8, <1>9, <1>10, <1>11, <1>12, <1>13, <1>14,
     <1>15, <1>16, <1>17, <1>18, <1>19 DEF Next, Crashed

LEMMA DeliveryInvariant == Spec => []Inv
BY InvInit, InvStep, PTL DEF Spec

(* A MessageEvent is in one place at a time.                                *)
THEOREM AlwaysHeldOnce == Spec => []HeldOnce
BY DeliveryInvariant, PTL DEF Inv, Owned

(* The application has not been told the end of an event the library holds. *)
THEOREM AlwaysHeldIsPending == Spec => []HeldIsPending
BY DeliveryInvariant, PTL DEF Inv, Owned

(* A message is only on connections to the contact it is for.               *)
THEOREM AlwaysRightPeer == Spec => []RightPeer
BY DeliveryInvariant, PTL DEF Inv, Carried

(* The queue of a working connection is empty, the cache of one that is     *)
(* still shaking hands as well.                                             *)
THEOREM AlwaysQueueFlushed == Spec => []QueueFlushed
BY DeliveryInvariant, PTL DEF Inv, Carried

(* A message that failed on a direct connection never goes direct again.    *)
THEOREM AlwaysFallbackOnce == Spec => []FallbackOnce
BY DeliveryInvariant, PTL DEF Inv, Owned

-----------------------------------------------------------------------------
(* Delivery implements MessageLife.                                         *)

\* A message nobody holds, once it was sent.
Gone(m) == ack[m] # "unsent" /\ m \notin m_cookiecache /\ \A f \in Fds : m \notin Held(f)

\* A step never brings such a message back, nor unsends one.
KeepsGone == \A m \in Messages : /\ Gone(m) => Gone(m)' /\ ack'[m] = ack[m]
                                 /\ ack[m] # "unsent" => ack'[m] # "unsent"

LEMMA BreakKeeps ==
    ASSUME Inv, NEW acks \in [Messages -> Acks], LinkBreaks(acks) \/ DisconnectBOS(acks),
           \A m \in Messages : Gone(m) => acks[m] = ack[m] /\ m \notin m_cookiecache',
           \A m \in Messages : ack[m] # "unsent" => acks[m] # "unsent"
    PROVE  KeepsGone
<1>1. CASE ack' = acks /\ UNCHANGED connVars
  BY <1>1 DEF KeepsGone, Gone, connVars
<1>2. CASE /\ m_dccache' = [f \in Fds |-> NoLink]
           /\ m_msgqueue' = Nothing /\ m_msgcache' = Nothing
           /\ \A m \in Messages : (\A f \in Fds : m \notin Held(f)) => ack'[m] = acks[m]
  <2>1. \A f \in Fds : m_msgqueue'[f] = {} /\ m_msgcache'[f] = {}
    BY <1>2 DEF Nothing
  <2>2. \A m \in Messages : ack'[m] = acks[m] \/ ack'[m] \in Final
    BY <1>1 DEF LinkBreaks, DisconnectBOS, DisconnectAuthorizer, GivenUp, Final
  <2>3. QED
    BY <1>2, <2>1, <2>2 DEF KeepsGone, Gone, Final
<1>3. QED
  BY <1>1, <1>2, BreakCases

LEMMA ServerKeeps ==
    ASSUME Inv, NEW m \in Messages, ack[m] = "unsent", SendViaServer(m)
    PROVE  KeepsGone
<1> DEFINE acks == [ack EXCEPT ![m] = Verdict(m, "waiting")]
<1>1. acks \in [Messages -> Acks] /\ \A x \in Messages : x # m => acks[x] = ack[x]
  BY VerdictType DEF Inv, TypeOK, Acks, Pending
<1>2. \A x \in Messages : Gone(x) => acks[x] = ack[x] /\ x \notin m_cookiecache'
  BY <1>1 DEF SendViaServer, Remembered, Gone
<1>3. \A x \in Messages : ack[x] # "unsent" => acks[x] # "unsent"
  BY <1>1
<1>4. CASE ack' = acks /\ UNCHANGED connVars
  BY <1>2, <1>3, <1>4 DEF KeepsGone, Gone, connVars
<1>5. CASE LinkBreaks(acks)
  <2> HIDE DEF acks
  <2>1. QED
    BY <1>1, <1>2, <1>3, <1>5, BreakKeeps
<1>6. QED
  BY <1>4, <1>5 DEF SendViaServer

LEMMA ResubmitKeeps ==
    ASSUME Inv, NEW f \in Fds, NEW m \in Held(f), Resubmit(f, m)
    PROVE  KeepsGone
<1>1. m \in Messages /\ ack[m] # "unsent" /\ ~Gone(m)
  BY DEF Inv, TypeOK, Owned, HeldIsPending, Pending, Gone
<1>2. \A x \in Messages : x # m => ack'[x] = ack[x]
  BY <1>1 DEF Resubmit, Inv, TypeOK
<1>3. \A g \in Fds : m_msgqueue'[g] \subseteq m_msgqueue[g] /\ m_msgcache'[g] \subseteq m_msgcache[g]
  BY DEF Resubmit, TakeOut, Inv, TypeOK, connVars
<1>4. m_cookiecache' \subseteq m_cookiecache \cup {m}
  BY DEF Resubmit, Remembered
<1>5. ack'[m] # "unsent"
  <2>1. Verdict(m, "retrying") # "unsent"
    BY VerdictType DEF Pending, Final
  <2>2. QED
    BY <1>1, <2>1 DEF Resubmit, Inv, TypeOK
<1>6. QED
  BY <1>1, <1>2, <1>3, <1>4, <1>5 DEF KeepsGone, Gone

LEMMA StepKeeps == Inv /\ [Next]_vars => KeepsGone
<1> SUFFICES ASSUME Inv, [Next]_vars PROVE KeepsGone
  OBVIOUS
<1>1. ASSUME LinkBreaks(ack) \/ DisconnectBOS(ack), UNCHANGED m_cookiecache PROVE KeepsGone
  <2>1. ack \in [Messages -> Acks]
    BY DEF Inv, TypeOK
  <2>2. QED
    BY <1>1, <2>1, BreakKeeps DEF Gone
<1>2. CASE Disconnect \/ Hangup
  BY <1>1, <1>2 DEF Disconnect, Hangup
<1>3. ASSUME UNCHANGED <<connVars, m_cookiecache, ack>> PROVE KeepsGone
  BY <1>3 DEF KeepsGone, Gone, connVars
<1>4. CASE Login
  BY <1>3, <1>4 DEF Login
<1>5. ASSUME NEW m \in Messages, SendToServer(m) PROVE KeepsGone
  BY <1>5, ServerKeeps DEF SendToServer
<1>6. ASSUME NEW m \in Messages, ServerACK(m) \/ OfflineACK(m) PROVE KeepsGone
  <2>1. ~Gone(m) /\ ack'[m] # "unsent"
    BY <1>6 DEF ServerACK, OfflineACK, Answers, Gone, Inv, TypeOK
  <2>2. QED
    BY <1>6, <2>1 DEF ServerACK, OfflineACK, KeepsGone, Gone, Inv, TypeOK, connVars
<1>7. ASSUME NEW m \in Messages, CookieExpires(m) PROVE KeepsGone
  <2> DEFINE acks == [ack EXCEPT ![m] = "delivered"]
  <2>1. ~Gone(m) /\ m_cookiecache' = m_cookiecache \ {m}
    BY <1>7 DEF CookieExpires, Gone
  <2>2. CASE UNCHANGED connVars /\ ack'[m] # "unsent" /\ \A x \in Messages : x # m => ack'[x] = ack[x]
    BY <2>1, <2>2 DEF KeepsGone, Gone, connVars
  <2>3. CASE LinkBreaks(acks)
    <3>1. /\ acks \in [Messages -> Acks] /\ \A x \in Messages : x # m => acks[x] = ack[x]
          /\ acks[m] = "delivered"
      BY DEF Inv, TypeOK, Acks, Final
    <3>2. \A x \in Messages : Gone(x) => acks[x] = ack[x] /\ x \notin m_cookiecache'
      BY <2>1, <3>1 DEF Gone
    <3>3. \A x \in Messages : ack[x] # "unsent" => acks[x] # "unsent"
      BY <3>1
    <3> HIDE DEF acks
    <3>4. QED
      BY <2>3, <3>1, <3>2, <3>3, BreakKeeps
  <2>4. QED
    BY <1>7, <2>2, <2>3 DEF CookieExpires, Inv, TypeOK, connVars
<1>8. ASSUME NEW m \in Messages, NEW f \in Fds, SendOpensDirect(m, f) PROVE KeepsGone
  BY <1>8 DEF SendOpensDirect, KeepsGone, Gone, Inv, TypeOK
<1>9. ASSUME NEW m \in Messages, NEW f \in Fds, SendOnDirect(m, f) PROVE KeepsGone
  BY <1>9 DEF SendOnDirect, KeepsGone, Gone, Inv, TypeOK
<1>10. ASSUME NEW m \in Messages, NEW f \in Fds, DirectACK(f, m) PROVE KeepsGone
  <2>1. ~Gone(m) /\ ack'[m] # "unsent"
    BY <1>10 DEF DirectACK, Answers, Gone, Inv, TypeOK
  <2>2. QED
    BY <1>10, <2>1 DEF DirectACK, KeepsGone, Gone, Inv, TypeOK
<1>11. ASSUME NEW m \in Messages, NEW f \in Fds, DirectMessageExpires(f, m) \/ DestroyResubmits(f, m)
       PROVE  KeepsGone
  <2>1. m \in Held(f)
    BY <1>11 DEF DirectMessageExpires, DestroyResubmits
  <2>2. QED
    BY <1>11, <2>1, ResubmitKeeps DEF DirectMessageExpires, DestroyResubmits
<1>12. ASSUME NEW f \in Fds, Accept(f) PROVE KeepsGone
  BY <1>12 DEF Accept, KeepsGone, Gone, Inv, TypeOK
<1>13. ASSUME NEW f \in Fds, DirectConnEnds(f) PROVE KeepsGone
  BY <1>3, <1>13 DEF DirectConnEnds
<1>14. ASSUME NEW f \in Fds, Destroyed(f) PROVE KeepsGone
  BY <1>14 DEF Destroyed, KeepsGone, Gone
<1>15. ASSUME NEW f \in Fds, NEW c \in Contacts, NEW sent \in SUBSET Messages, Shaken(f, c, sent)
       PROVE  KeepsGone
  BY <1>15 DEF Shaken, KeepsGone, Gone, Inv, TypeOK
<1>16. ASSUME NEW c \in Contacts, RemoveContact(c) PROVE KeepsGone
  BY <1>1, <1>3, <1>16 DEF RemoveContact
<1>17. ASSUME NEW c \in Contacts, UserOnline(c) \/ UserOffline(c) PROVE KeepsGone
  BY <1>3, <1>17 DEF UserOnline, UserOffline
<1>18. CASE UNCHANGED vars
  BY <1>3, <1>18 DEF vars
<1>19. QED
  BY <1>2, <1>4, <1>5, <1>6, <1>7, <1>8, <1>9, <1>10, <1>11, <1>12, <1>13, <1>14,
     <1>15, <1>16, <1>17, <1>18 DEF Next, Crashed

\* After a double destruction nothing changes any more.
LEMMA UndefinedStays == undefined /\ [Next]_vars => UNCHANGED vars
BY DEF Next, Crashed, vars, Disconnect, Hangup, Login, SendToServer, ServerACK, OfflineACK, CookieExpires,
       SendOpensDirect, SendOnDirect, DirectACK, DirectMessageExpires, DestroyResubmits, Accept,
       DirectConnEnds, Destroyed, Shaken, RemoveContact, UserOnline, UserOffline

\* The stages of a step follow one another.
LEMMA StageStep ==
    ASSUME Inv, Inv', [Next]_vars, NEW m \in Messages
    PROVE  Stage(m)' \in Life!Follows(Stage(m))
<1> USE DEF Life!Follows, Life!Fates, Stage, Final, Pending
<1>1. ack[m] \in Acks /\ ack'[m] \in Acks
  BY DEF Inv, TypeOK
<1>2. (m \in Everywhere <=> m \in m_cookiecache \/ \E f \in Fds : m \in Held(f))
      /\ (m \in Everywhere <=> m \in m_cookiecache \/ \E f \in Fds : m \in Held(f))'
  BY DEF Everywhere
<1>3. CASE ack[m] = "unsent"
  BY <1>1, <1>3 DEF Acks
<1>4. CASE ack[m] # "unsent" /\ undefined
  <2>1. UNCHANGED vars
    BY <1>4, UndefinedStays
  <2>2. (undefined /\ ack[m] = ack[m])' /\ ack'[m] = ack[m]
    BY <1>4, <2>1 DEF vars
  <2>3. QED
    BY <1>1, <1>4, <2>2 DEF Acks
<1>5. CASE ack[m] # "unsent" /\ ~undefined /\ m \notin Everywhere
  <2>1. Gone(m)
    BY <1>2, <1>5 DEF Gone
  <2>2. ack'[m] = ack[m] /\ (m \notin Everywhere)'
    BY <1>2, <2>1, StepKeeps DEF KeepsGone, Gone
  <2>3. QED
    BY <1>1, <1>5, <2>2 DEF Acks
<1>6. CASE ack[m] # "unsent" /\ ~undefined /\ m \in Everywhere
  <2>1. ack[m] \in Pending
    BY <1>2, <1>6 DEF Inv, Owned, HeldIsPending
  <2>2. ack'[m] # "unsent"
    BY <1>6, StepKeeps DEF KeepsGone
  <2>3. Stage(m) = "pending"
    BY <1>6, <2>1
  <2>4. Stage(m)' \in {"pending", "dropped"} \cup Final
    BY <1>1, <2>2 DEF Acks
  <2>5. QED
    BY <2>3, <2>4
<1>7. QED
  BY <1>3, <1>4, <1>5, <1>6

(* Delivery implements MessageLife: for any messages, contacts and          *)
(* descriptors, each event has one end at most, and nothing is told of it   *)
(* afterwards (SendEvent's comment in Client.cpp).                          *)
THEOREM ImplementsMessageLife == Spec => LifeSpec
<1>1. Init => Life!Init
  <2> SUFFICES ASSUME Init PROVE Life!Init
    OBVIOUS
  <2>1. \A m \in Messages : ack[m] = "unsent"
    BY DEF Init
  <2>2. \A m \in Messages : Stage(m) = "new"
    BY <2>1 DEF Stage, Final, Pending
  <2>3. QED
    BY <2>2 DEF Life!Init
<1>2. Inv /\ Inv' /\ [Next]_vars => [Life!Next]_([m \in Messages |-> Stage(m)])
  <2> SUFFICES ASSUME Inv, Inv', [Next]_vars PROVE Life!Next
    OBVIOUS
  <2>1. \A m \in Messages : Stage(m)' \in Life!Follows(Stage(m))
    BY StageStep
  <2>2. QED
    BY <2>1 DEF Life!Next
<1>3. QED
  BY <1>1, <1>2, DeliveryInvariant, PTL DEF Spec, LifeSpec, Life!Spec
=============================================================================
