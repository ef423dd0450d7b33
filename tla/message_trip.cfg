SPECIFICATION Spec
CONSTANTS
    Numbers = {0, 20, 21, 70, 102, 180, 200, 401, 486, 3600, 5060}
    Builds = {"INVITE", "REGISTER"}
    StatusCodes = {180, 486}
INVARIANTS Understood EchoesRequest AnswersChallenge
CHECK_DEADLOCK FALSE
