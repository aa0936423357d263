SPECIFICATION Spec
SYMMETRY Symmetry
CONSTANTS
    doc = doc
    ver = ver
    copy = copy
    A = A
    B = B
    c0 = c0
    c1 = c1
    Conn = {c0, c1}
    Account = {A, B}
    Doc <- MCDoc
    InitDocs <- MCInitDocs
    Owns <- MCOwns
    Bucket <- MCBucket
    HashOf <- MCHashOf
    MaxCount <- MCMaxCount
    MaxChain = 2
    PoliteClients = TRUE
INVARIANTS
    TypeOK
    NoLostOpen
    FirstMatchIsOnly
    SingleWriter
PROPERTIES
    WriteOpenNeedsOwnership
    NoOpenUnderForeignWriter
