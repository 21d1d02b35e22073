CONSTANTS
    WordBits = 4
    MAX_UNSIGNED_VALUE = 15
    StreamIds = {1, 2, 3}
    Packets <- AllPackets
    ReceiveMaxima = {5}
    MaxRemoteStreams = 1
    RemoteMaxStreamId = 2
    AllowableReceiveExtra <- Extra
    MaxPrepares = 3
SPECIFICATION Spec
CHECK_DEADLOCK FALSE
INVARIANTS
    TypeOK
    HoldNeverUnderflows
    TotalNeverOverflows
    MoneyConserved
    ReceiveMaxEnforcedAtOnce
    OpenStreamsBounded
PROPERTY
    NothingReopened
