CONSTANTS
    EpollCreateConnectCount = 1
    ListenPortCount = 1
    DelayRecoveryConnectionWaitTime = 2
    EPOLL_MAX_EVENTS = 2
    Epoll = epoll
    LogicThreads = {l1}
    Fds = {1, 2}
    SlowClients = TRUE
    MaxHandlingTime = 1
    MaxPending = 1
    MaxTime = 2
SPECIFICATION Spec
INVARIANT WorkerSurvives
CHECK_DEADLOCK FALSE
