\* A plain message and an away request to one contact, a file transfer to another.
SPECIFICATION Spec
CONSTANTS
    m1 = m1
    m2 = m2
    m3 = m3
    c1 = c1
    c2 = c2
    Messages = {m1, m2, m3}
    Contacts = {c1, c2}
    Fds = {f1, f2}
    Nobody = Nobody
    To <- ToTwo3
    Kind <- Mixed3
SYMMETRY FdSymmetry
INVARIANTS
    HeldOnce
    HeldIsPending
    RightPeer
    QueueFlushed
    FallbackOnce
PROPERTY LifeSpec
