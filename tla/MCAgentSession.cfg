SPECIFICATION Spec
CONSTANTS
    Passwd <- MCPasswd
    Installations <- MCInstallations
    Callers = {0, 1, 9}
    FIELDS = 3
    MAX_QUERIES = 3
CHECK_DEADLOCK FALSE
INVARIANTS
    SessTypeOK
    LoopUnprivileged
    CheckedConfigStarts
PROPERTIES
    ChannelSpec
    CallReturns
    AgentEnds
