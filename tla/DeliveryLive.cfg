\* Every message comes to an end.
SPECIFICATION FairSpec
CONSTANTS
    m1 = m1
    m2 = m2
    m3 = m3
    c1 = c1
    c2 = c2
    Messages = {m1, m2, m3}
    Contacts = {c1}
    Fds = {f1}
    Nobody = Nobody
    To <- ToOne3
    Kind <- Mixed3
PROPERTY LifeLive
