CONSTANTS
    Conns = {c1}
    Epoll = epoll
    LogicThreads = {l1}
    m_WaitTime = 1
    GraceTime = 0
    MaxClients = 2
    MaxTime = 6
SPECIFICATION FairSpec
PROPERTY SilentIsNoticed
CHECK_DEADLOCK FALSE
