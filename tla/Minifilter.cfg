\* Three clients: one leaving, one connected, one arriving.
CONSTANTS
    c1 = c1
    c2 = c2
    c3 = c3
    Clients = {c1, c2, c3}
    NoClient = NoClient
    Callbacks = {"nullptr", "OnMessage"}
SPECIFICATION FairSpec
INVARIANTS
    TypeOK
    NothingLeft
PROPERTIES
    OneClientAtATime
    ClosedToNewCallbacks
    DeletionEnds
