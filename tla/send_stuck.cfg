\* Connectors that report no amounts, and a receiver that takes everything.
CONSTANTS
    undefined = undefined
    WordBits = 4
    MAX_UNSIGNED_VALUE = 15
    FixedPacketAmount = 6
    IncreaseDivisor = 3
    MaxStreams = 1
    ExchangeRates <- OneToOne
    PathMaxima = {4}
    SendMaxima = {2}
    Deliveries = {9}
    Frames <- OtherFrame
    F08Metadata <- NoMetadata
    PacketLimit = 4
    MaxFrames = 0
SPECIFICATION Spec
INVARIANT
    KeepsSending
