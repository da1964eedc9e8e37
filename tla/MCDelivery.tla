----------------------------- MODULE MCDelivery -----------------------------
(* Instances of Delivery for TLC: descriptors are interchangeable.          *)
EXTENDS Delivery, TLC

CONSTANTS m1, m2, m3, c1, c2

\* Messages to one contact or two, plain or one of each kind.
ToOne == (m1 :> c1) @@ (m2 :> c1)
Plain2 == (m1 :> "Normal") @@ (m2 :> "Normal")
ToOne3 == (m1 :> c1) @@ (m2 :> c1) @@ (m3 :> c1)
ToTwo3 == (m1 :> c1) @@ (m2 :> c1) @@ (m3 :> c2)
Mixed3 == (m1 :> "Normal") @@ (m2 :> "AwayMessage") @@ (m3 :> "FileTransfer")
FdSymmetry == Permutations(Fds)
=============================================================================
