\* OOB with every try; a retry asks for the same passcode.
SPECIFICATION PamSpec
CONSTANTS
    Proc = {p1, p2}
    Inode = {i1, i2}
    None = None
    TRIES = 1
    NoState = NoState
    MAX_CODE = 2
    MAX_KEYS = 2
    Config <- MCConfig
    Retry = {2}
    Oob = {3}
    Spass = {FALSE}
    Delay = {1}
    UTILITY = {}
    WAITS = 1
    MAX_OPS = 1
    MAX_TIME = 1
SYMMETRY Symmetry
PROPERTIES
    OobThrottled
