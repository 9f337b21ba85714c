CONSTANTS
    d1 = d1
    d2 = d2
    NoServer = NoServer
    Server = {d1, d2}
    Outcome <- TwoOutcomes
    Answer = {"ours"}
    PassesFlag = FALSE
SPECIFICATION Spec
SYMMETRY DeviceSymmetry
CHECK_DEADLOCK FALSE
INVARIANT CleanupCanJoin
