CONSTANTS
    WordBits = 4
    MAX_UNSIGNED_VALUE = 15
    StreamIds = {1}
    Packets <- EqualPackets
    ReceiveMaxima = {15}
    MaxRemoteStreams = 1
    RemoteMaxStreamId = 2
    AllowableReceiveExtra <- Extra
    MaxPrepares = 3
SPECIFICATION Spec
CHECK_DEADLOCK FALSE
INVARIANT OverflowIsReal
