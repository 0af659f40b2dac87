\* Two processes, three creations, two ids: side by side, or one id after the other.
CONSTANTS
    p1 = p1
    p2 = p2
    Processes = {p1, p2}
    t1 = t1
    t2 = t2
    t3 = t3
    Threads = {t1, t2, t3}
    id1 = id1
    id2 = id2
    Pids = {id1, id2}
    Nothing = Nothing
SYMMETRY MonitorSymmetry
SPECIFICATION Spec
INVARIANTS
    TypeOK
    NoUseAfterDelete
    CollectorHoldsLiving
    LaterCreationReported
    MemoryAccounted
