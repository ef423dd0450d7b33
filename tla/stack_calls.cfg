\* Two calls of the peer on two branches and one of our own, no registration.
SPECIFICATION Spec
CONSTANTS
    Nil = Nil
    Calls = {p, q}
    Branches = {b, c}
    PeerTag = PeerTag
    Accounts = 0
    WholeApi = FALSE
    MaxUas = 3
    MaxTransactions = 5
INVARIANTS TypeOK ListsAgree OneDialogPerId OneDecision UnansweredCallIsOpen ByeFindsItsCall EventsNameACall
PROPERTIES KeepsLife
\* The process dies.
SYMMETRY Symmetry
CHECK_DEADLOCK FALSE
