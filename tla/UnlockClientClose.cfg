CONSTANTS
    f1 = f1
    f2 = f2
    NoSocket = NoSocket
    Fd = {f1, f2}
    Transport = {"TCP", "BT"}
    System = {"Linux", "Windows"}
    RequestSizes <- MCRequestSizes
    SdpReplies <- MCSdpReplies
    DataPieces = 2
    Packets <- MCPackets
    PACKET_TIMEOUT <- MCTimeout
SPECIFICATION Spec
CHECK_DEADLOCK FALSE
PROPERTY OthersStayOpen
