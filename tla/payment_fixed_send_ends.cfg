CONSTANTS
    undefined = undefined
    MaxU64 = 15
    Targets <- FixedSends
    Replies <- MoneyReplies
    PacketLimit = 4
    MaxInFlightPackets = 2
SPECIFICATION FairSpec
INVARIANT
    LoopAlive
PROPERTY
    PaymentEnds
