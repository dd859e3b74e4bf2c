\* A state file with two entries of one user.
SPECIFICATION Spec
CONSTANTS
    alice = alice
    bob = bob
    v1 = v1
    v2 = v2
    User = {alice, bob}
    Value = {v1, v2}
    NoValue = NoValue
    Absent = Absent
    Global = Global
    Files <- DuplicateFiles
    MAX_STORES = 1
PROPERTY
    OthersKept
