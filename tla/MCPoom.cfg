SPECIFICATION Spec
CONSTANTS
    NPLACES <- MCNPLACES
    MaxText = 4
    MaxChars = 3
    MaxLinks = 2
INVARIANTS
    TypeOK
    OneAtATime
PROPERTY
    EditsTheDocument
CHECK_DEADLOCK FALSE
