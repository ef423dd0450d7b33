\* Two registrations, challenged or not, and a call of either side.
SPECIFICATION Spec
CONSTANTS
    Nil = Nil
    Calls = {p}
    Branches = {b}
    PeerTag = PeerTag
    Accounts = 2
    WholeApi = TRUE
    MaxUas = 3
    MaxTransactions = 5
INVARIANT OneRegisterOutstanding
PROPERTY BindingsGranted
\* The process dies.
CHECK_DEADLOCK FALSE
