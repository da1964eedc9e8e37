\* Two searches, details of a user in the tree and of one outside, several logins.
SPECIFICATION FairSpec
CONSTANTS
    obj = obj
    A = A
    B = B
    None = None
    Uins = {A, B}
    Objects = {obj}
    UinOf <- OnlyA
    Starts = {2}
    IdMask = 3
    MaxSearches = 2
    MaxQueue = 2
    MaxIds = 3
INVARIANT
    SearchHeldOnce
PROPERTIES
    ResultsAreOwn
    InfoIsOwn
    SearchEnds
CHECK_DEADLOCK FALSE
