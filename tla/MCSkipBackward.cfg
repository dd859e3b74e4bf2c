\* docs/otpasswd.1 on --skip.
SPECIFICATION PamSpec
CONSTANTS
    Proc = {p1, p2}
    Inode = {i1, i2}
    None = None
    TRIES = 1
    NoState = NoState
    MAX_CODE = 2
    MAX_KEYS = 2
    Config <- MCConfig
    Retry = {1}
    Oob = {0}
    Spass = {FALSE}
    Delay = {1}
    UTILITY = {"skip"}
    WAITS = 1
    MAX_OPS = 2
    MAX_TIME = 0
SYMMETRY Symmetry
PROPERTIES
    CounterForward
