\* Every way to ask for an OOB message; liveness, so no symmetry.
SPECIFICATION PamSpec
CONSTANTS
    Proc = {p1, p2}
    Inode = {i1, i2}
    None = None
    TRIES = 1
    NoState = NoState
    MAX_CODE = 2
    MAX_KEYS = 1
    Config <- EndsConfig
    Retry = {0, 2}
    Oob = {0, 1, 2, 3}
    Spass = {FALSE, TRUE}
    Delay = {0}
    UTILITY = {"remove", "session"}
    WAITS = 1
    MAX_OPS = 2
    MAX_TIME = 0
PROPERTIES
    SessionEnds
