\* Two contacts, up to three FLAPs under way. No symmetry: the run checks liveness.
SPECIFICATION FairSpec
CONSTANTS
    Contacts = {c1, c2}
    Self = Self
    Nobody = Nobody
    MaxBuffer = 3
INVARIANTS
    EventsMatchState
    SocketOwned
    ListenerOwned
    LoginAgreed
PROPERTIES
    LoginResolves
    DeadSessionEnds
