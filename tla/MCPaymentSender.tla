-------------------------- MODULE MCPaymentSender ---------------------------
(***************************************************************************)
(* Instances of PaymentSender for TLC: quotes of a few units, and replies  *)
(* that cover every branch of the handlers.                                *)
(***************************************************************************)
EXTENDS PaymentSender

Rate(low, high) == [lowerBoundRate |-> low, upperBoundRate |-> high]

Asked(type, amount, minRate, rate, maxPacket) ==
    [paymentType |-> type, amount |-> amount, minExchangeRate |-> minRate,
     rate |-> rate, maxPacketAmount |-> maxPacket]

\* Fixed sends at a minimum rate of 1 and of 2/3, in at least two packets.
FixedSends ==
    {Asked("FixedSend", 5, RatioOf(1, 1), Rate(RatioOf(1, 1), RatioOf(2, 1)), 3),
     Asked("FixedSend", 5, RatioOf(2, 3), Rate(RatioOf(2, 2), RatioOf(3, 2)), 2)}

\* A fixed delivery whose target is a multiple of its minimum rate, one whose
\* target is not, and one that startQuote refuses.
FixedDeliveries ==
    {Asked("FixedDelivery", 4, RatioOf(1, 1), Rate(RatioOf(1, 1), RatioOf(2, 1)), 3),
     Asked("FixedDelivery", 5, RatioOf(2, 1), Rate(RatioOf(2, 1), RatioOf(3, 1)), 3),
     Asked("FixedDelivery", 5, RatioOf(2, 1), Rate(RatioOf(1, 1), RatioOf(3, 1)), 2)}

AllTargets == FixedSends \cup FixedDeliveries

FixedSendOf5 == {t \in FixedSends : t.minExchangeRate.b = 1}

FixedDeliveryOf5 == {t \in FixedDeliveries : t.amount = 5}

-----------------------------------------------------------------------------
Answer ==
    [fulfill |-> FALSE, code |-> "none", metadata |-> undefined,
     destinationAmount |-> undefined, closes |-> FALSE, assetConflict |-> FALSE,
     receiveMax |-> undefined, receipt |-> undefined]

Fulfills(amounts) == {[Answer EXCEPT !.fulfill = TRUE, !.destinationAmount = d] : d \in amounts}

Rejects(codes) == {[Answer EXCEPT !.code = c] : c \in codes}

F08s ==
    {[Answer EXCEPT !.code = "F08", !.metadata = m] :
        m \in {undefined, [received |-> 3, maximum |-> 2], [received |-> 1, maximum |-> 1]}}

\* Frames: an authentic reject that closes the stream, one that changes the
\* asset, and fulfills with a receipt or a receive maximum.
Framed ==
    {[Answer EXCEPT !.code = "F99", !.destinationAmount = 1, !.closes = TRUE],
     [Answer EXCEPT !.code = "F99", !.destinationAmount = 0, !.assetConflict = TRUE],
     [Answer EXCEPT !.fulfill = TRUE, !.destinationAmount = 2, !.receiveMax = 3],
     [Answer EXCEPT !.fulfill = TRUE, !.destinationAmount = 2, !.receiveMax = 9,
                    !.receipt = 2],
     [Answer EXCEPT !.fulfill = TRUE, !.destinationAmount = 2, !.receipt = 4]}

AllReplies ==
    Fulfills({undefined, 1, 2, 3, 5}) \cup Rejects({"T00", "R00", "F02"}) \cup F08s \cup Framed

\* Enough for the money: packets are fulfilled at several rates or rejected.
MoneyReplies == Fulfills({1, 2, 3, 4}) \cup Rejects({"T00", "R00"}) \cup F08s

=============================================================================
