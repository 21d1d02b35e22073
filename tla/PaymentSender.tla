--------------------------- MODULE PaymentSender ----------------------------
(***************************************************************************)
(* The send loop of one payment of @interledger/pay: the StreamSender loop *)
(* (senders/index.ts), the PaymentSender that drives it (senders/          *)
(* payment.ts) and the controllers it consults (controllers/), from the    *)
(* quote startQuote computed (index.ts) to the result pay() resolves to.   *)
(*                                                                         *)
(* Everything runs on one event loop, so a handler is one action.  What    *)
(* interleaves is the order in which the loop picks its tasks: replies to  *)
(* the requests in flight arrive in any order, and attempts to send run    *)
(* between them.  The network and the receiver are external: any reply of  *)
(* the set Replies may answer any request, at any time, once.              *)
(*                                                                         *)
(* Time is abstract.  An attempt the pacer delays is an attempt that runs  *)
(* later, which interleaving covers; the idle deadline passes at any time. *)
(***************************************************************************)
EXTENDS ExchangeRate, MaxPacketAmount, Sequences, Totals

CONSTANTS
    Targets,            \* what payments are asked for, and what the probe found
    Replies,            \* the replies the network may return
    PacketLimit,        \* SequenceController.PACKET_LIMIT, 2^31 in the code
    MaxInFlightPackets  \* PacingController.MAX_INFLIGHT_PACKETS, 20 in the code

PaymentTypes == {"FixedSend", "FixedDelivery"}

Target ==
    [paymentType : PaymentTypes, amount : PositiveInt, minExchangeRate : Ratio,
     rate : RateBounds, maxPacketAmount : PositiveInt]

\* code is the class of the ILP error the FailureController tells apart.
RejectCodes == {"T00", "F08", "F99", "R00", "F02"}

\* A reply after decryption (request.ts).  destinationAmount is undefined when it
\* holds no authentic STREAM packet; the fields from closes on are the frames of
\* an authentic one.
Reply ==
    [fulfill : BOOLEAN, code : RejectCodes \cup {"none"},
     metadata : [received : Nat, maximum : Nat] \cup {undefined},
     destinationAmount : OptionalAmount,
     closes : BOOLEAN, assetConflict : BOOLEAN,
     receiveMax : OptionalAmount, receipt : OptionalAmount]

\* The rate is that of a RateProbe, whose bounds leave a rate between them.
ASSUME TargetsAssumption ==
    \A t \in Targets :
        t \in Target /\ isLessThan(t.rate.lowerBoundRate, t.rate.upperBoundRate)
ASSUME RepliesAssumption == Replies \subseteq Reply
ASSUME LimitsAssumption == PacketLimit \in Nat /\ MaxInFlightPackets \in PositiveInt

-----------------------------------------------------------------------------
(* The quote: the end of startQuote *)

\* The quotes startQuote refuses: the probed rate is below the minimum rate, or
\* no delivery can be enforced.
acceptable(t) ==
    /\ isLessThanOrEqualTo(t.minExchangeRate, t.rate.lowerBoundRate)
    /\ t.paymentType = "FixedDelivery" => t.minExchangeRate.a > 0

maxSourceAmountOf(t) ==
    IF t.paymentType = "FixedSend"
    THEN t.amount
    ELSE multiplyFloor(t.amount, reciprocal(t.minExchangeRate)) + 1

minDeliveryAmountOf(t) ==
    IF t.paymentType = "FixedSend"
    THEN multiplyCeil(saturatingSubtract(t.amount, 1), t.minExchangeRate)
    ELSE t.amount

startQuote(t) ==
    [paymentType |-> t.paymentType,
     minExchangeRate |-> t.minExchangeRate,
     maxSourceAmount |-> maxSourceAmountOf(t),
     minDeliveryAmount |-> minDeliveryAmountOf(t),
     maxPacketAmount |-> t.maxPacketAmount]

-----------------------------------------------------------------------------
VARIABLES
    quote,
    amountSent, amountDelivered,
    sourceAmountInFlight, destinationAmountInFlight,
    appliedRoundingCorrection,
    remoteReceiveMax, latestReceipt,
    rateCalculator,      \* ExchangeRateController
    maxPacketController, \* MaxPacketAmountController
    deadline,            \* TimeoutController: "unset", "pending" or "passed"
    inFlightCount,       \* PacingController
    requests,            \* every request sent, with the fate of its packet
    attempts,            \* trySending tasks queued on requestScheduler
    loop,                \* start(): "running", "completing" or "ended"
    result               \* what start() resolves to

controllerVars == <<rateCalculator, maxPacketController, deadline, inFlightCount>>
moneyVars == <<amountSent, amountDelivered, sourceAmountInFlight,
               destinationAmountInFlight, appliedRoundingCorrection>>
reportVars == <<remoteReceiveMax, latestReceipt>>
loopVars == <<attempts, loop, result>>
vars == <<quote, moneyVars, reportVars, controllerVars, requests, loopVars>>

PaymentErrors ==
    {"MaxSafeEncryptionLimit", "IdleTimeout", "InsufficientExchangeRate",
     "ReceiverProtocolViolation", "IncompatibleReceiveMax", "ClosedByReceiver",
     "ConnectorError", "DestinationAssetConflict"}

\* A request keeps the values its reply handler closes over.  A packet that the
\* sender gave up on may still have been fulfilled: it is "expired".
Request ==
    [sourceAmount : PositiveInt, minDestinationAmount : Nat,
     highEndDestinationAmount : Nat, applyCorrection : BOOLEAN,
     status : {"inFlight", "fulfilled", "rejected", "expired"}]

InFlight == {i \in DOMAIN requests : requests[i].status = "inFlight"}

Init ==
    /\ \E t \in Targets :
          /\ acceptable(t)
          /\ quote = startQuote(t)
          /\ rateCalculator = t.rate
          /\ maxPacketController = NewMaxPacket(t.maxPacketAmount)
    /\ amountSent = 0
    /\ amountDelivered = 0
    /\ sourceAmountInFlight = 0
    /\ destinationAmountInFlight = 0
    /\ appliedRoundingCorrection = FALSE
    /\ remoteReceiveMax = undefined
    /\ latestReceipt = undefined
    /\ deadline = "unset"
    /\ inFlightCount = 0
    /\ requests = <<>>
    /\ attempts = 1
    /\ loop = "running"
    /\ result = "none"

-----------------------------------------------------------------------------
(* PaymentSender.nextState: the amounts of the next packet *)

\* Mutant: packets in flight do not count against the maximum.
MutantAvailableToSend == saturatingSubtract(quote.maxSourceAmount, amountSent)

availableToSend ==
    saturatingSubtract(saturatingSubtract(quote.maxSourceAmount, amountSent),
                       sourceAmountInFlight)

remainingToDeliver ==
    saturatingSubtract(saturatingSubtract(quote.minDeliveryAmount, amountDelivered),
                       destinationAmountInFlight)

\* The limit is undefined when the rate dropped to 0, and only a fixed delivery
\* has one.
sourceAmountDeliveryLimit == highEndSource(rateCalculator, remainingToDeliver)

packetSourceAmount ==
    LET sourceAmount ==
            orLesser(orLesser(availableToSend, getNextMaxPacketAmount(maxPacketController)),
                     MaxU64)
    IN  IF quote.paymentType = "FixedDelivery"
        THEN orLesser(sourceAmount, sourceAmountDeliveryLimit)
        ELSE sourceAmount

completesPayment ==
    packetSourceAmount = IF quote.paymentType = "FixedDelivery"
                         THEN sourceAmountDeliveryLimit
                         ELSE availableToSend

appliesCorrection == completesPayment /\ ~appliedRoundingCorrection

\* Mutant: every packet may lose a source unit to rounding.
MutantMinDestinationAmount ==
    multiplyCeil(saturatingSubtract(packetSourceAmount, 1), quote.minExchangeRate)

minDestinationAmount ==
    LET sourceAmount == packetSourceAmount
    IN  IF appliesCorrection
        THEN multiplyCeil(saturatingSubtract(sourceAmount, 1), quote.minExchangeRate)
        ELSE multiplyCeil(sourceAmount, quote.minExchangeRate)

\* Mutant: a spent budget is not noticed.
MutantSendsNothing == quote.paymentType = "FixedDelivery" /\ remainingToDeliver = 0

\* Mutant: a fixed send also waits once its minimum delivery may be in flight.
MutantAnyTypeYields == availableToSend = 0 \/ remainingToDeliver = 0

\* Nothing left to send, or enough in flight to complete the delivery.
nothingToSend ==
    \/ availableToSend = 0
    \/ quote.paymentType = "FixedDelivery" /\ remainingToDeliver = 0

insufficientRate ==
    \/ quote.paymentType = "FixedDelivery" /\ sourceAmountDeliveryLimit = undefined
    \/ lowEndDestination(rateCalculator, packetSourceAmount) < minDestinationAmount

-----------------------------------------------------------------------------
(* StreamSender.trySending: one attempt to build and send a request *)

\* start() leaves its loop with a result, and waits for the requests in flight.
\* The attempts still queued never run.
EndLoop(value) ==
    /\ attempts' = 0
    /\ loop' = "completing"
    /\ result' = value

\* An attempt runs, and the SequenceController, then the TimeoutController, let
\* it through or end the loop.
Attempting == loop = "running" /\ attempts > 0

SequenceLimitReached ==
    /\ Attempting
    /\ Len(requests) >= PacketLimit
    /\ EndLoop("MaxSafeEncryptionLimit")
    /\ UNCHANGED <<quote, moneyVars, reportVars, controllerVars, requests>>

IdleDeadlineExceeded ==
    /\ Attempting
    /\ Len(requests) < PacketLimit
    /\ deadline = "passed"
    /\ EndLoop("IdleTimeout")
    /\ UNCHANGED <<quote, moneyVars, reportVars, controllerVars, requests>>

\* The attempt is dropped and no other is queued: at the pacer's limit, or
\* because nextState has nothing to send.
Yield ==
    /\ attempts' = attempts - 1
    /\ UNCHANGED <<quote, moneyVars, reportVars, controllerVars, requests, loop, result>>

Unobjected == Attempting /\ Len(requests) < PacketLimit /\ deadline # "passed"

PacerYields ==
    /\ Unobjected
    /\ inFlightCount >= MaxInFlightPackets
    /\ Yield

Ready == Unobjected /\ inFlightCount < MaxInFlightPackets

NothingToSend ==
    /\ Ready
    /\ nothingToSend
    /\ Yield

RateDropped ==
    /\ Ready
    /\ ~nothingToSend
    /\ insufficientRate
    /\ EndLoop("InsufficientExchangeRate")
    /\ UNCHANGED <<quote, moneyVars, reportVars, controllerVars, requests>>

\* nextState commits to the packet, every controller applies the request, and
\* the next attempt is queued at once in the place of this one.
SendPacket ==
    /\ Ready
    /\ ~nothingToSend
    /\ ~insufficientRate
    /\ LET high == highEndDestination(rateCalculator, packetSourceAmount)
       IN  /\ sourceAmountInFlight' = sourceAmountInFlight + packetSourceAmount
           /\ destinationAmountInFlight' = destinationAmountInFlight + high
           /\ appliedRoundingCorrection' = appliesCorrection
           /\ requests' = Append(requests,
                  [sourceAmount |-> packetSourceAmount,
                   minDestinationAmount |-> minDestinationAmount,
                   highEndDestinationAmount |-> high,
                   applyCorrection |-> appliesCorrection,
                   status |-> "inFlight"])
    /\ deadline' = IF deadline = "unset" THEN "pending" ELSE deadline
    /\ inFlightCount' = inFlightCount + 1
    /\ UNCHANGED <<quote, amountSent, amountDelivered, reportVars, rateCalculator,
                   maxPacketController, loopVars>>

TrySending ==
    \/ SequenceLimitReached
    \/ IdleDeadlineExceeded
    \/ PacerYields
    \/ NothingToSend
    \/ RateDropped
    \/ SendPacket

-----------------------------------------------------------------------------
(* The reply handlers *)

isAuthentic(reply) == reply.fulfill \/ reply.destinationAmount # undefined

\* Mutant: a local timeout is retried like a temporary error.
MutantRetriesTimeout(code) == code \in {"T00", "F08", "F99", "R00"}

\* Codes that do not end the payment.  R00 is the sender's own verdict on a
\* packet whose reply did not come before its expiry.
isIgnoredReject(code) == code \in {"T00", "F08", "F99"}

\* The first error of the controllers, in their order: FailureController,
\* MaxPacketAmountController, AssetDetailsController.
controllerError(request, reply) ==
    IF reply.closes THEN "ClosedByReceiver"
    ELSE IF \/ ~reply.fulfill /\ ~isIgnoredReject(reply.code)
            \/ reply.code = "F08" /\ noPathCapacity(reply.metadata, request.sourceAmount)
    THEN "ConnectorError"
    ELSE IF reply.assetConflict THEN "DestinationAssetConflict"
    ELSE "none"

\* Mutant: the pacer only counts replies of the receiver.
MutantPacerForgets(request, reply) ==
    /\ rateCalculator' = observeRate(rateCalculator, request.sourceAmount,
                                     reply.destinationAmount)
    /\ UNCHANGED maxPacketController
    /\ deadline' = IF reply.fulfill THEN "pending" ELSE deadline
    /\ inFlightCount' = IF isAuthentic(reply) THEN inFlightCount - 1 ELSE inFlightCount

\* The side effects of the controllers' handlers.
ApplyControllers(request, reply) ==
    /\ rateCalculator' = observeRate(rateCalculator, request.sourceAmount,
                                     reply.destinationAmount)
    /\ maxPacketController' =
          IF reply.code = "F08"
          THEN reduceMaxPacketAmount(maxPacketController, reply.metadata,
                                     request.sourceAmount)
          ELSE IF isAuthentic(reply)
          THEN adjustPathCapacity(maxPacketController, request.sourceAmount)
          ELSE maxPacketController
    /\ deadline' = IF reply.fulfill THEN "pending" ELSE deadline
    /\ inFlightCount' = inFlightCount - 1

\* Mutant: the reply takes back the minimum instead of the high-end estimate.
MutantAccount(request, reply) ==
    /\ amountSent' = amountSent + IF reply.fulfill THEN request.sourceAmount ELSE 0
    /\ amountDelivered' = amountDelivered
           + IF reply.fulfill
             THEN orGreater(request.minDestinationAmount, reply.destinationAmount) ELSE 0
    /\ sourceAmountInFlight' =
          saturatingSubtract(sourceAmountInFlight, request.sourceAmount)
    /\ destinationAmountInFlight' =
          saturatingSubtract(destinationAmountInFlight, request.minDestinationAmount)
    /\ appliedRoundingCorrection' =
          (appliedRoundingCorrection /\ (reply.fulfill \/ ~request.applyCorrection))

\* PaymentSender's accounting of a fulfill or a reject.
Account(request, reply) ==
    /\ IF reply.fulfill
       THEN /\ amountSent' = amountSent + request.sourceAmount
            /\ amountDelivered' = amountDelivered
                   + orGreater(request.minDestinationAmount, reply.destinationAmount)
       ELSE UNCHANGED <<amountSent, amountDelivered>>
    /\ sourceAmountInFlight' =
          saturatingSubtract(sourceAmountInFlight, request.sourceAmount)
    /\ destinationAmountInFlight' =
          saturatingSubtract(destinationAmountInFlight, request.highEndDestinationAmount)
    /\ appliedRoundingCorrection' =
          (appliedRoundingCorrection /\ (reply.fulfill \/ ~request.applyCorrection))

\* The greatest receipt is kept.
updateStreamReceipt(reply) ==
    latestReceipt' =
        IF reply.receipt # undefined
           /\ (latestReceipt = undefined \/ reply.receipt > latestReceipt)
        THEN reply.receipt
        ELSE latestReceipt

protocolViolation(request, reply) ==
    /\ reply.fulfill
    /\ \/ reply.destinationAmount = undefined
       \/ reply.destinationAmount < request.minDestinationAmount

\* Mutant: a fixed delivery is done while packets are in flight.
MutantPaid ==
    \/ quote.paymentType = "FixedSend" /\ amountSent' = quote.maxSourceAmount
    \/ /\ quote.paymentType = "FixedDelivery"
       /\ amountDelivered' >= quote.minDeliveryAmount

\* Evaluated on the amounts after the accounting.
paid ==
    \/ quote.paymentType = "FixedSend" /\ amountSent' = quote.maxSourceAmount
    \/ /\ quote.paymentType = "FixedDelivery"
       /\ amountDelivered' >= quote.minDeliveryAmount
       /\ sourceAmountInFlight' = 0

\* The receiver's advertised maximum, greatest so far; not read on the paths
\* that return before it.
updateReceiveMax(request, reply) ==
    remoteReceiveMax' =
        IF protocolViolation(request, reply) \/ paid \/ reply.receiveMax = undefined
        THEN remoteReceiveMax
        ELSE orGreater(reply.receiveMax, remoteReceiveMax)

\* The state the handler returns; "Schedule" queues another attempt.
replyState(request, reply) ==
    IF controllerError(request, reply) # "none" THEN controllerError(request, reply)
    ELSE IF protocolViolation(request, reply) THEN "ReceiverProtocolViolation"
    ELSE IF paid THEN "Done"
    ELSE IF remoteReceiveMax' # undefined /\ remoteReceiveMax' < quote.minDeliveryAmount
    THEN "IncompatibleReceiveMax"
    ELSE "Schedule"

\* The fate of the packet itself, which the sender may not know: a packet that
\* timed out locally (R00) may still be fulfilled.
fate(reply) ==
    IF reply.fulfill THEN "fulfilled"
    ELSE IF reply.code = "R00" THEN "expired" ELSE "rejected"

\* The reply to request i: all side effects first, then the next state, which
\* only counts while the loop runs.  Once it completes, replies still account.
HandleReply(i, reply) ==
    LET request == requests[i]
    IN  /\ loop # "ended"
        /\ request.status = "inFlight"
        /\ ApplyControllers(request, reply)
        /\ Account(request, reply)
        /\ updateStreamReceipt(reply)
        /\ updateReceiveMax(request, reply)
        /\ requests' = [requests EXCEPT ![i].status = fate(reply)]
        /\ IF loop = "running"
           THEN IF replyState(request, reply) = "Schedule"
                THEN attempts' = attempts + 1 /\ UNCHANGED <<loop, result>>
                ELSE EndLoop(replyState(request, reply))
           ELSE UNCHANGED loopVars
        /\ UNCHANGED quote

ReceiveReply == \E i \in DOMAIN requests, reply \in Replies : HandleReply(i, reply)

\* replyScheduler.complete() resolves, and start() returns.
CompleteReplies ==
    /\ loop = "completing"
    /\ InFlight = {}
    /\ loop' = "ended"
    /\ UNCHANGED <<quote, moneyVars, reportVars, controllerVars, requests, attempts, result>>

\* Ten seconds pass without a fulfill.
DeadlinePasses ==
    /\ loop = "running"
    /\ deadline = "pending"
    /\ deadline' = "passed"
    /\ UNCHANGED <<quote, moneyVars, reportVars, rateCalculator, maxPacketController,
                   inFlightCount, requests, loopVars>>

\* pay() has resolved.
Ended == loop = "ended" /\ UNCHANGED vars

Next ==
    \/ TrySending
    \/ ReceiveReply
    \/ CompleteReplies
    \/ DeadlinePasses
    \/ Ended

Spec == Init /\ [][Next]_vars

\* The event loop runs every queued task, every request is answered or times out
\* (the timeout of request.ts), and time passes.
Fairness ==
    /\ WF_vars(TrySending)
    /\ WF_vars(ReceiveReply)
    /\ WF_vars(CompleteReplies)
    /\ WF_vars(DeadlinePasses)

FairSpec == Spec /\ Fairness

-----------------------------------------------------------------------------
(* Properties *)

Quote ==
    [paymentType : PaymentTypes, minExchangeRate : Ratio, maxSourceAmount : Nat,
     minDeliveryAmount : Nat, maxPacketAmount : PositiveInt]

\* Type invariant of the send loop.
TypeOK ==
    /\ quote \in Quote
    /\ amountSent \in Nat
    /\ amountDelivered \in Nat
    /\ sourceAmountInFlight \in Nat
    /\ destinationAmountInFlight \in Nat
    /\ appliedRoundingCorrection \in BOOLEAN
    /\ remoteReceiveMax \in OptionalAmount
    /\ latestReceipt \in OptionalAmount
    /\ rateCalculator \in RateBounds
    /\ maxPacketController \in MaxPacketState
    /\ deadline \in {"unset", "pending", "passed"}
    /\ inFlightCount \in Nat
    /\ requests \in Seq(Request)
    /\ attempts \in Nat
    /\ loop \in {"running", "completing", "ended"}
    /\ result \in PaymentErrors \cup {"none", "Done"}

\* The amounts of the requests rs whose packets have a fate in S, and their number.
SourceIn(rs, S) ==
    [i \in 1 .. Len(rs) |-> IF rs[i].status \in S THEN rs[i].sourceAmount ELSE 0]

DestinationIn(rs, S) ==
    [i \in 1 .. Len(rs) |-> IF rs[i].status \in S THEN rs[i].highEndDestinationAmount ELSE 0]

CountIn(rs, S) == [i \in 1 .. Len(rs) |-> IF rs[i].status \in S THEN 1 ELSE 0]

\* The fulfilled requests that carried the rounding correction.
Corrections(rs) ==
    [i \in 1 .. Len(rs) |->
        IF rs[i].status = "fulfilled" /\ rs[i].applyCorrection THEN 1 ELSE 0]

\* The statuses of packets that were or may still be fulfilled.
Spending == {"inFlight", "fulfilled", "expired"}

\* "Ensure we never overpay the maximum source amount" (payment.ts:103): what was
\* fulfilled and what is in flight never exceed the quoted maximum together,
\* whatever the order of sends, fulfills and rejects.
NoOverpay == amountSent + sourceAmountInFlight <= quote.maxSourceAmount

\* A packet that timed out at the sender may still have been fulfilled.  Counting
\* every such packet as spent, the payment stays within its quoted maximum: the
\* R00 of request.ts:115 ends the payment before its amount could be sent again.
NoOverpayIfLate ==
    Total(SourceIn(requests, Spending), Len(requests)) <= quote.maxSourceAmount

\* The in-flight totals and the pacer's count are those of the requests in
\* flight: every reply takes back exactly what its request added, and the
\* saturating subtractions (payment.ts:200-202) never hide a difference.
InFlightLedger ==
    /\ sourceAmountInFlight = Total(SourceIn(requests, {"inFlight"}), Len(requests))
    /\ destinationAmountInFlight = Total(DestinationIn(requests, {"inFlight"}), Len(requests))
    /\ inFlightCount = Total(CountIn(requests, {"inFlight"}), Len(requests))

\* The minimum exchange rate is enforced on the totals (payment.ts:143-148): all
\* but one source unit of each packet that carried the rounding correction was
\* delivered at the minimum rate or better.
MinimumRateEnforced ==
    LET corrected == Total(Corrections(requests), Len(requests))
    IN  amountDelivered * quote.minExchangeRate.b
            >= (amountSent - corrected) * quote.minExchangeRate.a

\* A payment only resolves as done when its target is met and nothing is in
\* flight ("Amount in flight is always 0 if this is true", payment.ts:243).
DoneIsSettled ==
    result = "Done" =>
        /\ InFlight = {}
        /\ quote.paymentType = "FixedSend" => amountSent = quote.maxSourceAmount
        /\ quote.paymentType = "FixedDelivery" =>
               amountDelivered >= quote.minDeliveryAmount

\* The bounds on the exchange rate always leave a rate between them
\* (exchange-rate.ts:8-12), in whatever order replies reset or tighten them.
RateIntervalNonEmpty ==
    isLessThan(rateCalculator.lowerBoundRate, rateCalculator.upperBoundRate)

\* "this is always reduced so it's never greater than the max packet amount"
\* (max-packet.ts:46), and the next packet amount is "Always positive" (72).
CapacityWithinMax ==
    /\ maxPacketController.verifiedPathCapacity
          <= getMaxPacketAmountLimit(maxPacketController)
    /\ getNextMaxPacketAmount(maxPacketController) \in
           1 .. getMaxPacketAmountLimit(maxPacketController)

\* A running loop has something to wait for: an attempt is queued or a reply is
\* due, so a Yield (payment.ts:108-109) never strands the payment.
LoopAlive == loop = "running" => attempts > 0 \/ InFlight # {}

\* What was accounted for is final: amounts sent and delivered, the receipt and
\* the receiver's maximum only grow, the packet maximum only falls, a packet's
\* fate and the payment's result are decided once, and once the loop has its
\* result no further packet is sent.
Monotone ==
    /\ amountSent' >= amountSent
    /\ amountDelivered' >= amountDelivered
    /\ latestReceipt # undefined => latestReceipt' >= latestReceipt
    /\ remoteReceiveMax # undefined => remoteReceiveMax' >= remoteReceiveMax
    /\ getMaxPacketAmountLimit(maxPacketController')
          <= getMaxPacketAmountLimit(maxPacketController)
    /\ \A i \in DOMAIN requests :
          requests[i].status # "inFlight" => requests'[i] = requests[i]
    /\ result # "none" => result' = result /\ Len(requests') = Len(requests)

AccountingIsFinal == [][Monotone]_vars

\* "Pay guarantees payments never exhaust their quoted maximum source amount
\* without satisfying their quoted minimum delivery amount" (pay/README.md:186).
ExhaustedMeansDelivered ==
    amountSent = quote.maxSourceAmount => amountDelivered >= quote.minDeliveryAmount

\* start() resolves: every payment ends.
PaymentEnds == <>(loop = "ended")

\* "Number of milliseconds since the last Fulfill was received before the payment
\* should fail" (timeout.ts:6): once the deadline passed, the payment ends or a
\* fulfill sets a new deadline.
IdlePaymentFails ==
    (loop = "running" /\ deadline = "passed")
        ~> (loop # "running" \/ deadline = "pending")

=============================================================================
