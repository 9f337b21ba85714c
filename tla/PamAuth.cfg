SPECIFICATION FairSpec
\* pam_sm_authenticate returns once.
CHECK_DEADLOCK FALSE
CONSTANTS
    Users = {"alice", "bob"}
    MaxDevices = 2
    PipeSize = 1
    MaxLines = 2
INVARIANTS
    TypeOK
    SuccessIsEarned
    EveryLineIsShown
    NobodyWaitsForGood
PROPERTY
    PamReturns
