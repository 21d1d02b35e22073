\* One stream whose limit is raised and lowered; the peer answers and sends frames.
CONSTANTS
    undefined = undefined
    WordBits = 4
    MAX_UNSIGNED_VALUE = 15
    FixedPacketAmount = 6
    IncreaseDivisor = 3
    MaxStreams = 1
    ExchangeRates <- OneToOne
    PathMaxima = {4}
    SendMaxima = {2, 5}
    Deliveries = {9}
    Frames <- AllFrames
    F08Metadata <- AllMetadata
    PacketLimit = 4
    MaxFrames = 1
SPECIFICATION Spec
INVARIANTS
    TypeOK
    NeverPaysTwice
    NoLostWakeup
    CloseFrameNotLost
PROPERTY
    NoMoneyOnceDestroyed
