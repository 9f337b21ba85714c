SPECIFICATION Spec
CHECK_DEADLOCK FALSE
CONSTANTS
    Users = {"alice"}
    MaxDevices = 1
    PipeSize = 1
    MaxLines = 1
INVARIANT RejectionIsReported
