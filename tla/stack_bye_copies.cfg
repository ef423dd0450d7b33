\* One call of the peer.
SPECIFICATION Spec
CONSTANTS
    Nil = Nil
    Calls = {p}
    Branches = {b}
    PeerTag = PeerTag
    Accounts = 0
    WholeApi = FALSE
    MaxUas = 1
    MaxTransactions = 2
PROPERTY ByeCopiesAnswered
CHECK_DEADLOCK FALSE
