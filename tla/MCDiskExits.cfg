SPECIFICATION Spec
CHECK_DEADLOCK FALSE
CONSTANTS
    Doc <- OneDoc
    Sizes <- OneSize
    GranSizes <- OneSize
    ApexSize = 36
    BlockSize = 1024
    Header = 6
    Bucket = 50
    MaxBlock = 2
    MaxEdits = 0
    MaxWritten = 1000
    MaxStarts = 2
    MaxCrashes = 0
INVARIANT UpToDate
