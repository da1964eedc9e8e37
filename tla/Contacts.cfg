\* One user and two groups; three calls of setStatus, two logins.
SPECIFICATION ContactsSpec
CONSTANTS
    Users = {u}
    Groups = {g, h}
    OwnStatuses = {"ONLINE"}
    UserStatuses = {"ONLINE", "DND"}
    MaxEdits = 5
    MaxRequests = 3
    MaxMoves = 2
    MaxSessions = 2
    None = None
SYMMETRY Alike
INVARIANTS
    PresenceSettles
    InvisibleKnowsList
CHECK_DEADLOCK FALSE
