CONSTANTS
    Conns = {c1, c2}
    Fds = {1, 2}
    LogicThreads = {t1}
    MAX_SENDQUEUE_COUNT = 1
    MAX_EACHCONN_SENDCOUNT = 0
    ReplyLength = 2
    MaxReplies = 3
    MaxClients = 2
    MaxBelowZero = 1
SPECIFICATION Spec
INVARIANTS TypeOK QueueCounted NoReplyForgotten WholeInOrder HeldReplyIntact 
INVARIANT NotHeldWhenRecycled
SYMMETRY Symmetry
CHECK_DEADLOCK FALSE
