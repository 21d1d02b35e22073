\* Two streams that share packets; the peer blocks and closes, also on its own account.
CONSTANTS
    undefined = undefined
    WordBits = 4
    MAX_UNSIGNED_VALUE = 15
    FixedPacketAmount = 6
    IncreaseDivisor = 3
    MaxStreams = 2
    ExchangeRates <- GreaterThanOne
    PathMaxima = {4}
    SendMaxima = {3}
    Deliveries = {9}
    Frames <- ClosingFrames
    F08Metadata <- NoMetadata
    PacketLimit = 3
    MaxFrames = 1
SPECIFICATION FairSpec
INVARIANTS
    HoldLedger
    TotalConserved
PROPERTY
    EndSettles
