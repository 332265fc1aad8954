CONSTANTS
    Workers = {w1, w2, w3}
    Kills = {"SIGTERM", "SIGHUP", "SIGALRM", "SIGUSR1", "SIGWINCH"}
    MaxKills = 3
SPECIFICATION Spec
INVARIANTS TypeOK NoZombieForgotten OnlyUnshieldedFreeze
PROPERTY EndedIsReaped
CHECK_DEADLOCK FALSE
