\* Two calls of the peer.
SPECIFICATION Spec
CONSTANTS
    Nil = Nil
    Calls = {p, q}
    Branches = {b}
    PeerTag = PeerTag
    Accounts = 0
    WholeApi = FALSE
    MaxUas = 2
    MaxTransactions = 3
PROPERTY WaitingCallsCanBeAccepted
CHECK_DEADLOCK FALSE
