SPECIFICATION FairSpec
CONSTANTS
    Scenarios <- MCScenarios
    Answers = {"same", "moved", "changed", "refused", "dies"}
INVARIANTS
    TypeOK
    InStep
    RecordsItsOwn
    NoFalseAlarm
PROPERTY
    Finishes
CHECK_DEADLOCK FALSE
