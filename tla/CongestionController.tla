------------------------ MODULE CongestionController ------------------------
(***************************************************************************)
(* packages/ilp-protocol-stream/src/util/congestion.ts: the two packet     *)
(* maxima a connection sends by, the one it tests and the path's.          *)
(***************************************************************************)
EXTENDS LongArithmetic

CONSTANTS
    undefined,           \* an F08 without amounts
    FixedPacketAmount,   \* the sender's own maximum packet amount
    IncreaseDivisor      \* the additive increase is the maximum over this, 10 in the code

ASSUME CongestionAssumption ==
    /\ undefined \notin [received : Long, maximum : Long]
    /\ FixedPacketAmount \in Long
    /\ 2 \in Long
    /\ IncreaseDivisor \in Nat \ {0, 1}

Congestion == [testMaximum : Long, maximum : Long]

setMaximumAmounts(amount) == [testMaximum |-> amount, maximum |-> amount]

maximumPacketAmount(c) == minLong(c.maximum, FixedPacketAmount)

\* The amount under test is raised when a packet of that amount was
\* fulfilled and the maximum is larger.
onFulfill(c, amountSent) ==
    LET limit == maximumPacketAmount(c)
        raised == IF limit # MAX_UNSIGNED_VALUE
                  THEN minLong(checkedAdd(c.testMaximum, limit \div IncreaseDivisor).sum, limit)
                  ELSE checkedMultiply(c.testMaximum, 2).product
    IN  IF amountSent = c.testMaximum /\ c.testMaximum < limit
        THEN [c EXCEPT !.testMaximum = raised]
        ELSE c

\* An F08: the path's maximum is computed from the amounts the connector reports,
\* or is at least less than what was sent.
onAmountTooLargeError(c, metadata, amountSent) ==
    IF metadata # undefined /\ metadata.received > metadata.maximum
    THEN setMaximumAmounts(multiplyDivideFloor(amountSent, metadata.maximum, metadata.received))
    ELSE LET lowered == [c EXCEPT !.maximum = wrap(amountSent - 1)]
         IN  [lowered EXCEPT !.testMaximum = maximumPacketAmount(lowered) \div 2]

\* A T04: two thirds of the amount, but at least 2.
onInsufficientLiquidityError(c, amountSent) ==
    LET least == minLong(amountSent, c.testMaximum)
    IN  [c EXCEPT !.testMaximum = maxLong(2, least - least \div 3)]

=============================================================================
