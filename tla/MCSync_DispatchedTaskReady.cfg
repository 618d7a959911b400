CONSTANTS
    t1 = t1
    t2 = t2
    t3 = t3
    l1 = l1
    l2 = l2
    c1 = c1
    s1 = s1
    b1 = b1
    TaskSeq <- MCTaskSeq
    Threads <- MCThreads
    Locks = {l1}
    Conds = {c1}
    Sems = {s1}
    Barriers = {b1}
    SemInit <- MCSemInit
    Reach <- MCReach
    MaxSemCounter = 2

SPECIFICATION Spec

INVARIANT
    DispatchedTaskReady

CHECK_DEADLOCK FALSE
