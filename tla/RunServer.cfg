CONSTANTS
    Packets <- MCPackets
    PACKET_TIMEOUT <- MCTimeout
    Keyboard = {"usb", "builtin"}
SPECIFICATION FairSpec
\* RunServer returns once, a phone may stay silent, and a key ends the process.
CHECK_DEADLOCK FALSE
INVARIANTS
    RunServerTypeOK
    NoSocketLeaks
    KeyboardsAreClosed
    JoinsAreShort
PROPERTIES
    ImplementsContract
    StoppedThreadsEnd
    RunServerReturns
