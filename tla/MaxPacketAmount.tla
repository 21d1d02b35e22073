-------------------------- MODULE MaxPacketAmount ---------------------------
(***************************************************************************)
(* MaxPacketAmountController: packages/pay/src/controllers/max-packet.ts.  *)
(*                                                                         *)
(* The state is the record [type, maxPacketAmount, verifiedPathCapacity],  *)
(* with maxPacketAmount undefined in the state "UnknownMax".               *)
(***************************************************************************)
EXTENDS Ratios

MaxPacketState ==
    [type : {"UnknownMax", "PreciseMax", "ImpreciseMax"},
     maxPacketAmount : OptionalAmount,
     verifiedPathCapacity : Nat]

\* The constructor.
NewMaxPacket(preciseMaxPacketAmount) ==
    [type |-> IF preciseMaxPacketAmount = undefined THEN "UnknownMax" ELSE "PreciseMax",
     maxPacketAmount |-> preciseMaxPacketAmount,
     verifiedPathCapacity |-> 0]

\* The precise maximum (none yet if unknown), or the midpoint of the binary search for it.
getNextMaxPacketAmount(mp) ==
    IF mp.type = "ImpreciseMax"
    THEN divideCeil(saturatingSubtract(mp.maxPacketAmount, mp.verifiedPathCapacity), 2)
             + mp.verifiedPathCapacity
    ELSE mp.maxPacketAmount

getMaxPacketAmountLimit(mp) ==
    IF mp.type = "UnknownMax" THEN MaxU64 ELSE mp.maxPacketAmount

\* Raise the greatest acknowledged amount, never above the maximum; an imprecise
\* maximum that has been reached is precise.
adjustPathCapacity(mp, ackAmount) ==
    LET capacity == orLesser(orGreater(mp.verifiedPathCapacity, ackAmount),
                             getMaxPacketAmountLimit(mp))
    IN  [type |-> IF mp.type = "ImpreciseMax" /\ capacity = mp.maxPacketAmount
                  THEN "PreciseMax"
                  ELSE mp.type,
         maxPacketAmount |-> mp.maxPacketAmount,
         verifiedPathCapacity |-> capacity]

\* What an F08 says of the maximum: metadata is undefined or the record
\* [received, maximum] that the rejecting connector put in the packet.
invalidF08(metadata) ==
    metadata # undefined /\ metadata.received <= metadata.maximum

newMaxOf(metadata, sourceAmount) ==
    IF metadata = undefined
    THEN saturatingSubtract(sourceAmount, 1)
    ELSE multiplyFloor(metadata.maximum, RatioOf(sourceAmount, metadata.received))

\* reduceMaxPacketAmount ends the payment when no packet can get through...
noPathCapacity(metadata, sourceAmount) ==
    ~invalidF08(metadata) /\ newMaxOf(metadata, sourceAmount) = 0

\* Mutant: a lower maximum does not lower the verified capacity.
MutantKeepsCapacity(mp, metadata, sourceAmount) ==
    LET newMax == newMaxOf(metadata, sourceAmount)
    IN  IF \/ invalidF08(metadata)
           \/ newMax = 0
           \/ mp.type # "UnknownMax" /\ newMax >= mp.maxPacketAmount
        THEN mp
        ELSE [type |-> IF metadata = undefined THEN "ImpreciseMax" ELSE "PreciseMax",
              maxPacketAmount |-> newMax,
              verifiedPathCapacity |-> mp.verifiedPathCapacity]

\* Mutant: the F08 of an older, larger packet may raise the maximum again.
MutantRaisesMaximum(mp, metadata, sourceAmount) ==
    LET newMax == newMaxOf(metadata, sourceAmount)
    IN  IF invalidF08(metadata) \/ newMax = 0
        THEN mp
        ELSE adjustPathCapacity(
                 [type |-> IF metadata = undefined THEN "ImpreciseMax" ELSE "PreciseMax",
                  maxPacketAmount |-> newMax,
                  verifiedPathCapacity |-> mp.verifiedPathCapacity],
                 mp.verifiedPathCapacity)

\* ...and otherwise lowers the maximum if the F08 does lower it.
reduceMaxPacketAmount(mp, metadata, sourceAmount) ==
    LET newMax == newMaxOf(metadata, sourceAmount)
    IN  IF \/ invalidF08(metadata)
           \/ newMax = 0
           \/ mp.type # "UnknownMax" /\ newMax >= mp.maxPacketAmount
        THEN mp
        ELSE adjustPathCapacity(
                 [type |-> IF metadata = undefined THEN "ImpreciseMax" ELSE "PreciseMax",
                  maxPacketAmount |-> newMax,
                  verifiedPathCapacity |-> mp.verifiedPathCapacity],
                 mp.verifiedPathCapacity)

=============================================================================
