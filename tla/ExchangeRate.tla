---------------------------- MODULE ExchangeRate ----------------------------
(***************************************************************************)
(* ExchangeRateController: packages/pay/src/controllers/exchange-rate.ts.  *)
(*                                                                         *)
(* The state of the controller is the record [lowerBoundRate,              *)
(* upperBoundRate]; the realized rate lies in the half-open interval       *)
(* [lowerBoundRate, upperBoundRate).                                       *)
(***************************************************************************)
EXTENDS Ratios

RateBounds == [lowerBoundRate : Ratio, upperBoundRate : PositiveRatio]

\* Mutant: conflicting observations tighten the bounds instead of resetting them.
MutantNeverResets(rate, sourceAmount, destinationAmount) ==
    IF sourceAmount = 0 \/ destinationAmount = undefined
    THEN rate
    ELSE LET packetUpper == RatioOf(destinationAmount + 1, sourceAmount)
             packetLower == RatioOf(destinationAmount, sourceAmount)
         IN  [lowerBoundRate |->
                  IF isLessThan(rate.lowerBoundRate, packetLower)
                  THEN packetLower ELSE rate.lowerBoundRate,
              upperBoundRate |->
                  IF isLessThan(packetUpper, rate.upperBoundRate)
                  THEN packetUpper ELSE rate.upperBoundRate]

\* applyRequest's reply handler: the bounds after a packet of sourceAmount was
\* authentically reported to deliver destinationAmount.
observeRate(rate, sourceAmount, destinationAmount) ==
    IF sourceAmount = 0 \/ destinationAmount = undefined
    THEN rate
    ELSE LET packetUpper == RatioOf(destinationAmount + 1, sourceAmount)
             packetLower == RatioOf(destinationAmount, sourceAmount)
             shouldReset ==
                 \/ isLessThanOrEqualTo(packetUpper, rate.lowerBoundRate)
                 \/ isLessThanOrEqualTo(rate.upperBoundRate, packetLower)
         IN  [lowerBoundRate |->
                  IF shouldReset \/ isLessThan(rate.lowerBoundRate, packetLower)
                  THEN packetLower
                  ELSE rate.lowerBoundRate,
              upperBoundRate |->
                  IF shouldReset \/ isLessThan(packetUpper, rate.upperBoundRate)
                  THEN packetUpper
                  ELSE rate.upperBoundRate]

lowEndDestination(rate, sourceAmount) ==
    orLesser(multiplyFloor(sourceAmount, rate.lowerBoundRate), MaxU64)

highEndDestination(rate, sourceAmount) ==
    orLesser(saturatingSubtract(multiplyCeil(sourceAmount, rate.upperBoundRate), 1),
             MaxU64)

\* estimateSourceAmount's high end, the only one its callers use.
highEndSource(rate, destinationAmount) ==
    LET inverse == reciprocal(rate.lowerBoundRate)
    IN  IF inverse = undefined
        THEN undefined
        ELSE multiplyCeil(destinationAmount, inverse)

=============================================================================
