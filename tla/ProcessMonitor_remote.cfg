\* One process, two creations into it.
CONSTANTS
    p1 = p1
    p2 = p2
    Processes = {p1}
    t1 = t1
    t2 = t2
    t3 = t3
    Threads = {t1, t2}
    id1 = id1
    id2 = id2
    Pids = {id1}
    Nothing = Nothing
SPECIFICATION Spec
INVARIANT ReportedIsRemote
