CONSTANTS
    undefined = undefined
    MaxU64 = 15
    Targets <- AllTargets
    Replies <- AllReplies
    PacketLimit = 4
    MaxInFlightPackets = 3
SPECIFICATION Spec
CHECK_DEADLOCK FALSE
INVARIANTS
    TypeOK
    NoOverpay
    NoOverpayIfLate
    InFlightLedger
    MinimumRateEnforced
    DoneIsSettled
    RateIntervalNonEmpty
    CapacityWithinMax
PROPERTY
    AccountingIsFinal
