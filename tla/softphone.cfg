\* Two calls of the peers and calls of our own, with datagrams in both directions.
SPECIFICATION PhoneSpec
CONSTANTS
    Nil = Nil
    Calls = {p, q}
    Branches = {b}
    PeerTag = PeerTag
    Accounts = 0
    WholeApi = FALSE
    MaxUas = 2
    MaxTransactions = 4
INVARIANT PhoneTypeOK
PROPERTIES ImplementsSipStack RingsItsCall CallsRing
\* The process dies.
CHECK_DEADLOCK FALSE
