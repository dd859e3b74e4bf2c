\* Two processes; a retry takes the next passcode; the utility at work, or
\* OOB messages on request with the static password.
SPECIFICATION PamSpec
CONSTANTS
    Proc = {p1, p2}
    Inode = {i1, i2}
    None = None
    TRIES = 1
    NoState = NoState
    MAX_CODE = 2
    MAX_KEYS = 2
    Config <- MCConfig
    Retry = {1}
    Oob = {0, 2}
    Spass = {FALSE}
    Delay = {1}
    UTILITY = {"skip", "store_new", "remove", "flags", "session"}
    WAITS = 1
    MAX_OPS = 3
    MAX_TIME = 1
SYMMETRY Symmetry
CONSTRAINT UtilityOrOob
INVARIANTS
    PamTypeOK
    OneTime
    GuessesBounded
    LockReleased
PROPERTIES
    NoLostUpdate
    DisabledFrozen
    OobRecordedFirst
