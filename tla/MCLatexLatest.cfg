\* A page of six cards in LaTeX, when the sixth is the current one.
SPECIFICATION Spec
CONSTANTS
    Proc = {u}
    Root = {}
    Free = Free
    NULL = NULL
    Config <- BaseConfig
    Codes <- MCCodes
    Garbage <- MCGarbage
    NUMSPACE = 20
    Alphabets = {0, 1}
    MAX_KEYS = 1
    CommandLines <- MCCommandLines
    LATEX = 6
    MAX_COMMANDS = 1
    MAX_LOGINS = 0
    Used = {10}
    Passwords = {}
    Lines = {"latex1"}
CHECK_DEADLOCK FALSE
INVARIANTS
    LatestPrinted
