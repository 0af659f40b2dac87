\* Three entries: one of them has two neighbours that are no list head.
CONSTANTS
    e1 = e1
    e2 = e2
    e3 = e3
    Entries = {e1, e2, e3}
    List = List
SPECIFICATION FairSpec
INVARIANTS
    TypeOK
    LinksSound
PROPERTIES
    ImplementsObjectList
    FlushEmpties
