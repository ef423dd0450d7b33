\* A timer service, and nothing else that can go wrong.
SPECIFICATION Spec
CONSTANTS
    Types = {"CLIENT_INVITE", "CLIENT_NON_INVITE"}
    Tags = {a}
    NoTag = NoTag
    TimersFire = TRUE
    SendMayFail = FALSE
    WholeApi = FALSE
    MaxWaits = 1
PROPERTY TimersAreExpected
CHECK_DEADLOCK FALSE
