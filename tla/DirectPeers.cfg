\* A message of the caller, a file request of each side, and a request of an
\* earlier connection, which the caller has not answered yet.
SPECIFICATION Spec
CONSTANTS
    Messages = {m1}
    Requests = {r1, r2, r3}
    Callers = {m1, r1}
    Earlier = {r3}
    Foreign = {65535, 7}
    Published = {5, 6, 7, 8}
INVARIANTS
    HandshakeAgrees
    ToldInOrder
    AckedWasTold
    PendingIsKept
PROPERTIES
    SettledOnce
    Settles
CHECK_DEADLOCK FALSE
