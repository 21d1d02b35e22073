CONSTANTS
    undefined = undefined
    MaxU64 = 15
    Targets <- FixedSendOf5
    Replies <- MoneyReplies
    PacketLimit = 4
    MaxInFlightPackets = 3
SPECIFICATION Spec
CHECK_DEADLOCK FALSE
INVARIANT
    ExhaustedMeansDelivered
