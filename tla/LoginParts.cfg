\* Two clients at a time out of three; two packets on the way in each direction
\* of an encrypted connection.
CONSTANTS
    Accounts = {a, b}
    NoAccount = none
    Unknown = unknown
    MaxClients = 2
    Delay = 1
    MaxConns = 3
    MaxLag = 2
    MaxFlight = 2
SPECIFICATION SpecParts
\* The loop halts at a failed assert or an incomplete packet, and a torn stream
\* is not followed.
CHECK_DEADLOCK FALSE
INVARIANTS LoginInv KeychainInv
PROPERTIES SweptClean TimedOut
