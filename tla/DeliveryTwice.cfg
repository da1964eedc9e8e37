\* A resubmission that fails destroys a connection twice.
SPECIFICATION Spec
CONSTANTS
    m1 = m1
    m2 = m2
    m3 = m3
    c1 = c1
    c2 = c2
    Messages = {m1, m2}
    Contacts = {c1}
    Fds = {f1}
    Nobody = Nobody
    To <- ToOne
    Kind <- Plain2
INVARIANT DestroyedOnce
