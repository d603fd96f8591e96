\* One world, its master and AuthSvr with one break of a link; and two masters
\* that come up with at most one break, then hear every request, fair.
CONSTANTS
    Worlds = {w1}
    MasterSvr = MasterSvr
    AuthSvr = AuthSvr
    NotListed = NotListed
    MaxPlayers = 1
    MaxInFlight = 1
    MaxBreaks = 1
    Masters = {m1, m2}
    Accounts = {a1}
    Keys = {k1}
    NoAccount = NoAccount
    NoKey = NoKey
SPECIFICATION SpecLinks
\* Every connection ID may be used up and closed: nothing is left to happen.
CHECK_DEADLOCK FALSE
INVARIANTS DirectoryInv
ACTION_CONSTRAINT LinksFirst
PROPERTIES KeepsPromise RequestAnswered
