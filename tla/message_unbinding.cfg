SPECIFICATION Spec
CONSTANTS
    Numbers = {0, 20, 21, 70, 102, 180, 200, 401, 486, 3600, 5060}
    Builds = {"UNREGISTER"}
    StatusCodes = {200}
INVARIANT ExpiryArrives
CHECK_DEADLOCK FALSE
