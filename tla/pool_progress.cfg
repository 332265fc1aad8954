CONSTANTS
    EpollCreateConnectCount = 1
    ListenPortCount = 1
    DelayRecoveryConnectionWaitTime = 1
    EPOLL_MAX_EVENTS = 1
    Epoll = epoll
    LogicThreads = {}
    Fds = {1, 2}
    SlowClients = FALSE
    MaxHandlingTime = 1
    MaxPending = 0
    MaxTime = 2
SPECIFICATION FairSpec
INVARIANT NoClientLost
 
CHECK_DEADLOCK FALSE
