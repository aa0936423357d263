SPECIFICATION Spec
CHECK_DEADLOCK FALSE
CONSTANTS
    Doc <- MCDoc
    Sizes <- MCSizes
    GranSizes <- MCGranSizes
    ApexSize = 36
    BlockSize = 1024
    Header = 6
    Bucket = 50
    MaxBlock = 12
    MaxEdits = 3
    MaxWritten = 3
    MaxStarts = 3
    MaxCrashes = 1
INVARIANTS
    TypeOK
    Intact
    Restartable
    UpToDate
