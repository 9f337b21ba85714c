CONSTANTS
    d1 = d1
    d2 = d2
    NoServer = NoServer
    Server = {d1, d2}
    Outcome <- TwoOutcomes
    Answer = {"ours", "other"}
    PassesFlag = TRUE
SPECIFICATION Spec
SYMMETRY DeviceSymmetry
CHECK_DEADLOCK FALSE
INVARIANTS
    TypeOK
    ReadAfterAllPolled
    ResultIsGenuine
    ResponseIsQuietWhenRead
    VerdictIsPublished
    NobodyWaitsForGood
PROPERTY
    ImplementsRequest
