CONSTANTS
    Conns = {c1, c2}
    Epoll = epoll
    LogicThreads = {l1}
    m_WaitTime = 1
    GraceTime = 0
    MaxClients = 2
    MaxTime = 5
SPECIFICATION Spec
INVARIANT KickedOut
VIEW LiveValues
SYMMETRY Symmetry
CHECK_DEADLOCK FALSE
