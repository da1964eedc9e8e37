\* One user and two groups; three calls of setStatus, two logins.
SPECIFICATION ContactsSpec
CONSTANTS
    Users = {u}
    Groups = {g, h}
    OwnStatuses = {"ONLINE"}
    UserStatuses = {"ONLINE", "DND"}
    MaxEdits = 4
    MaxRequests = 3
    MaxMoves = 2
    MaxSessions = 2
    None = None
SYMMETRY Alike
INVARIANT VisibleKnowsList
CHECK_DEADLOCK FALSE
