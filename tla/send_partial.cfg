CONSTANTS
    Conns = {c1}
    Fds = {1}
    LogicThreads = {t1}
    MAX_SENDQUEUE_COUNT = 3
    MAX_EACHCONN_SENDCOUNT = 3
    ReplyLength = 2
    MaxReplies = 2
    MaxClients = 1
    MaxBelowZero = 1
SPECIFICATION FairSpec
PROPERTY HeldReplyCompleted
CHECK_DEADLOCK FALSE
