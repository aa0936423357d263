SPECIFICATION AnySwapSpec
CONSTANTS
    NPLACES <- MCNPLACES
    MaxText = 3
    MaxChars = 3
    MaxLinks = 0
PROPERTY
    EditsTheDocument
CHECK_DEADLOCK FALSE
