CONSTANTS
    t1 = t1
    t2 = t2
    t3 = t3
    a = a
    b = b
    TaskSeq <- MCTaskSeq
    Threads = {}
    MAX_MBOX = 1
    BUFFER_SIZE = 4
    HDR = 1
    Ids = {a}
    MaxPayload = 2
    MaxUsed = 1

SPECIFICATION Spec

INVARIANTS
    TypeOK
    MboxOneListPerTask
    BufferEncodesInflight
    MboxLockFreeBetweenCalls
    NoLostWakeup

\* The machine stops for good after the last task exits (while(1) in
\* scheduler()) and when every task waits on an empty or full mailbox.
CHECK_DEADLOCK FALSE
