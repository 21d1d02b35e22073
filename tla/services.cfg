CONSTANTS
    PacketBytes = 3
    FrameOverhead = 1
    HighWaterMark = 2
    BufferSizes <- MCBufferSizes
    MaxBytes = 3
    MaxRejects = 2
    ConnectionIds = {i1, i2}
    MaxPackets = 3
    MaxListens = 2
    MaxRetries = 2
    Amounts = {1, 2}
    MaxTarget = 2
    MaxLinks = 2
    undefined = undefined
    MaxU64 = 50
    TestAmounts <- MCTestAmounts
    MaxProbeAmount = 8
    Paths <- MCPaths
    ConnectionOptions <- MCConnectionOptions
    MaxTokenBytes = 57
    FetchRetries = 2
    MaxAttempts = 2
SPECIFICATION Spec
CHECK_DEADLOCK FALSE
INVARIANTS
    WindowRespected
    PayoutLedger
    PaysOnce
    OneConnectionPerId
    RepliesBeforeDisconnect
    QuoteSound
PROPERTIES
    DataIsFifo
    DataDelivered
    PayoutSettles
    ServerSettles
    QuoteSettles
