CONSTANTS
    Threads = {t1}
    Nobody = nobody
    MaxMessages = 3
SPECIFICATION Spec
INVARIANT FrontExists
CHECK_DEADLOCK FALSE
