SPECIFICATION ForeignSpec
CONSTANTS
    NPLACES <- MCNPLACES
    GRANTEXTLENGTH = 2
    Account <- MCAccount
    Named <- MCNamed
    MaxChars = 4
    MaxOrgls = 3
PROPERTY
    NeverTwice
CHECK_DEADLOCK FALSE
