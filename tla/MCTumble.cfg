SPECIFICATION LawsSpec
CONSTANTS
    NPLACES <- MCNPLACES
    Operand <- MCOperand
    Shift = {0, 1, 2}
    Addend = {1, 2}
INVARIANTS
    OrderIsPositional
    WidthReaches
    WidthsGroup
    WiderEndsLater
    ChildFollows
