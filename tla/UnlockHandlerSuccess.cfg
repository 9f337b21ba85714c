CONSTANTS
    d1 = d1
    d2 = d2
    NoServer = NoServer
    Server = {d1, d2}
    Outcome = {"SUCCESS", "UNK_ERROR"}
    Answer = {"ours"}
    PassesFlag = FALSE
SPECIFICATION PrintSpec
CHECK_DEADLOCK FALSE
INVARIANT SuccessIsReported
