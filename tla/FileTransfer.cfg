\* Eight lists of files, over a direct connection and over the server.
SPECIFICATION Spec
CONSTANTS
    FileLists <- SomeLists
    Published = {6, 7, 8}
    MaxCalls = 2
    Window = 3
INVARIANTS
    FilesArriveWhole
    EndedIsToldAndGone
PROPERTIES
    CompleteIsFinal
    TransferEnds
CHECK_DEADLOCK FALSE
