SPECIFICATION Spec
CONSTANTS
    Proc = {u, r}
    Root = {r}
    Free = Free
    NULL = NULL
    Config <- MCConfig
    Codes <- MCCodes
    Garbage <- MCGarbage
    NUMSPACE = 4
    Alphabets = {0, 1}
    MAX_KEYS = 2
    CommandLines <- MCCommandLines
    LATEX = 2
    MAX_COMMANDS = 2
    MAX_LOGINS = 1
    Used = {2, 4}
    Passwords <- MCPasswords
    Lines = {"key", "saltkey", "salt", "remove", "next", "card1", "card2", "card3", "current", "latexnext", "latex1", "prompt", "skip", "skipfar", "auth", "warn", "info", "infokey", "alphabets", "spass", "weak", "nospass", "config", "contact", "rootuser", "two"}
CHECK_DEADLOCK FALSE
INVARIANTS
    UtilTypeOK
    PipesUnlocked
    LatestPrintedUnlessLatex
    StoredKeyShown
PROPERTIES
    AgentWrites
    LatestForward
    SaltFixed
    RefusedUnchanged
