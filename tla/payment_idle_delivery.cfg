CONSTANTS
    undefined = undefined
    MaxU64 = 15
    Targets <- FixedDeliveryOf5
    Replies <- MoneyReplies
    PacketLimit = 3
    MaxInFlightPackets = 2
SPECIFICATION FairSpec
CHECK_DEADLOCK FALSE
PROPERTY
    IdlePaymentFails
