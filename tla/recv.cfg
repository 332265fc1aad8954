CONSTANTS
    Threads = {t1, t2}
    Nobody = nobody
    MaxMessages = 3
    Conns = {c1}
    g_LenPkgHeader = 2
    g_LenMsgHeader = 1
    MSG_HEADER_LEN = 3
    PKG_MAX_LENGTH = 4
    PkgLengths = {1, 2, 4, 5}
    m_FloodTimeInterval = 2
    m_FloodKickCount = 2
    TimeModulus = 64
    FirstTime = 2
    LastTime = 4
    MaxClients = 2
SPECIFICATION ReceptionSpec
INVARIANTS TypeOK  SizeNeverWraps MessageTriggersThread
INVARIANTS InStep WritesInBounds BufferOwned FloodExact
SYMMETRY Symmetry
CHECK_DEADLOCK FALSE
