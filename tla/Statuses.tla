------------------------------- MODULE Statuses -------------------------------
(***************************************************************************)
(* Statuses and their numbers: Contact.cpp. A number is the set of the     *)
(* flags it has; the flag 256 is invisibility.                             *)
(***************************************************************************)
EXTENDS Naturals

\* The statuses but STATUS_OFFLINE.
Shown == {"ONLINE", "AWAY", "NA", "OCCUPIED", "DND", "FREEFORCHAT"}

MapStatusToICQStatus(st, inv) ==
    (CASE st = "AWAY" -> {1}
       [] st = "NA" -> {1, 4}
       [] st = "OCCUPIED" -> {1, 16}
       [] st = "DND" -> {1, 2, 16}
       [] st = "FREEFORCHAT" -> {32}
       [] OTHER -> {})
    \cup IF inv THEN {256} ELSE {}

MapICQStatusToStatus_bug(icq) ==    \* the flag of AWAY first
    IF 1 \in icq THEN "AWAY" ELSE IF 2 \in icq THEN "DND" ELSE IF 4 \in icq THEN "NA"
    ELSE IF 16 \in icq THEN "OCCUPIED" ELSE IF 32 \in icq THEN "FREEFORCHAT" ELSE "ONLINE"

MapICQStatusToStatus(icq) ==
    IF 2 \in icq THEN "DND" ELSE IF 4 \in icq THEN "NA" ELSE IF 16 \in icq THEN "OCCUPIED"
    ELSE IF 32 \in icq THEN "FREEFORCHAT" ELSE IF 1 \in icq THEN "AWAY" ELSE "ONLINE"

MapICQStatusToInvisible(icq) == 256 \in icq

\* As a short, and back.
Flags == {1, 2, 4, 16, 32, 256}
Number(icq) ==
    LET n(f) == IF f \in icq THEN f ELSE 0
    IN  n(1) + n(2) + n(4) + n(16) + n(32) + n(256)
FlagsOf(n) == {f \in Flags : (n \div f) % 2 = 1}
===============================================================================
