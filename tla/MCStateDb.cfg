\* A database for all users or one of the user's own; files as the program itself writes them or
\* with a broken line.
SPECIFICATION Spec
CONSTANTS
    alice = alice
    bob = bob
    v1 = v1
    v2 = v2
    User = {alice, bob}
    Value = {v1, v2}
    NoValue = NoValue
    Absent = Absent
    Global = Global
    Files <- UniqueFiles
    MAX_STORES = 3
INVARIANT
    TypeOK
PROPERTIES
    ImplementsTable
    OthersKept
    ReturnHonest
    StoreReturns
