\* A timer service, a transport that may refuse messages, every operation.
SPECIFICATION FairSpec
CONSTANTS
    Types = {"CLIENT_INVITE", "CLIENT_NON_INVITE", "SERVER_INVITE", "SERVER_NON_INVITE"}
    Tags = {a, b}
    NoTag = NoTag
    TimersFire = TRUE
    SendMayFail = TRUE
    WholeApi = TRUE
    MaxWaits = 3
INVARIANTS TypeOK Supervised OnSchedule TransmissionBudget FinalResponseStands
PROPERTIES AcksEveryReject UnansweredEnds KeepsContract
\* The transaction ends, or the process dies.
CHECK_DEADLOCK FALSE
