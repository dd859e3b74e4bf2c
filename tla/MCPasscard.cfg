\* Spaces of four cards of the largest size, one of them a whole number of
\* the smaller cards; two salts that can be used and one that cannot.
SPECIFICATION CardSpec
CONSTANTS
    CODE_SPACE = 481
    FULL_SPACE = 512
    MAX_COUNTER = 961
    SALTS = 3
    W = 8
    ALPHABET = 64
INVARIANTS
    CardTypeOK
    AddressRoundTrip
    OnPrintableCard
    WordsAgree
    DigitsFaithful
PROPERTIES
    SaltKept
    ReadingOrder
