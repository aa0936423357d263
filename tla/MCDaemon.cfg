SPECIFICATION Spec
SYMMETRY Symmetry
CONSTANTS
    k1 = k1
    k2 = k2
    k3 = k3
    A = A
    B = B
    NoAccount = NoAccount
    Client = {k1, k2, k3}
    FD = {3, 4, 5}
    MAX_PLAYERS = 2
    Account = {A, B}
    Orderly = FALSE
INVARIANTS
    TypeOK
    SocketsInUse
PROPERTY
    DisorderedByMovesOnly
CHECK_DEADLOCK FALSE
