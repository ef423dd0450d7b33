\* The program as built: Timer.c forgets every timer, UDP never refuses a
\* message, and only the operations the program calls.
SPECIFICATION Spec
CONSTANTS
    Types = {"CLIENT_INVITE", "CLIENT_NON_INVITE", "SERVER_INVITE", "SERVER_NON_INVITE"}
    Tags = {a, b}
    NoTag = NoTag
    TimersFire = FALSE
    SendMayFail = FALSE
    WholeApi = FALSE
    MaxWaits = 1
INVARIANT EveryEventHandled
CHECK_DEADLOCK FALSE
