SPECIFICATION Spec
CONSTANTS
    NPLACES <- MCNPLACES
    GRANTEXTLENGTH = 2
    Account <- MCAccount
    Named <- MCNamed
    MaxChars = 4
    MaxOrgls = 3
INVARIANTS
    TypeOK
    InOrder
    WellPlaced
    Permanent
PROPERTY
    NeverTwice
CHECK_DEADLOCK FALSE
