SPECIFICATION FairSpec
CONSTANTS
    k1 = k1
    k2 = k2
    k3 = k3
    A = A
    B = B
    NoAccount = NoAccount
    Client = {k1, k2, k3}
    FD = {3, 4}
    MAX_PLAYERS = 2
    Account = {A}
    Orderly = TRUE
INVARIANTS
    ServedAsNamed
PROPERTIES
    Answered
    LetOut
    WrittenWhenAlone
CHECK_DEADLOCK FALSE
