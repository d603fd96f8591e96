\* Bring-up with one break and two keys; two clients for one world connection.
CONSTANTS
    Masters = {m1}
    Accounts = {a1, a2}
    Keys = {k1, k2}
    NoAccount = NoAccount
    NoKey = NoKey
    MaxAuthConn = 2
    MaxWorldConn = 1
    IdSpace = 3
    MaxDrops = 2
SPECIFICATION SpecRaces
\* Every connection ID may be used up and closed: nothing is left to happen.
CHECK_DEADLOCK FALSE
SYMMETRY Symmetry
INVARIANTS TypeOK OnePiecePerMaster SessionsGranted
ACTION_CONSTRAINT InBounds
PROPERTIES AccountPinned KeepsPromise
