------------------------------- MODULE Quote --------------------------------
(***************************************************************************)
(* From payment details to a quote: setupPayment, startQuote and           *)
(* closeConnection of packages/pay/src/index.ts, the queries of            *)
(* open-payments.ts and the senders AssetProbe, RateProbe and              *)
(* ConnectionCloser, each a StreamSender loop, against the stateless       *)
(* receiver of StreamReceiver over a path that converts at a constant rate *)
(* and has a constant maximum packet amount.                               *)
(*                                                                         *)
(* Packets are answered in any order.  The path may lose one to a          *)
(* temporary or a final error at any time; one above the maximum is        *)
(* answered F08, with the amounts of the hop or without.  Time is          *)
(* abstract: deadlines and timeouts pass at any time, and an attempt the   *)
(* pacer delays is one that runs later.  The limits of 2^31 packets and of *)
(* 20 packets in flight are out of a probe's reach and left out.           *)
(***************************************************************************)
EXTENDS ExchangeRate, MaxPacketAmount, StreamReceiver, FiniteSets

CONSTANTS
    TestAmounts,    \* remainingTestAmounts: 0, 10^12, 10^11 ... 10^3 in the code
    MaxProbeAmount, \* RateProbe.MAX_PROBE_AMOUNT, 10^12 in the code
    Paths,          \* the paths: records [rate, maximum, metadata]
    ConnectionOptions, \* the options of generateCredentials
    FetchRetries,   \* fetchJson's remainingRetries, 3 in the code
    MaxAttempts     \* bound: attempts to send that are queued at a time

ASSUME QuoteAssumption ==
    /\ MaxProbeAmount \in PositiveInt /\ FetchRetries \in Nat /\ MaxAttempts \in Nat
    /\ TestAmounts \in Seq(0..MaxProbeAmount)
    /\ \A p \in Paths : p.rate \in PositiveRatio /\ p.maximum \in Nat /\ p.metadata \in BOOLEAN

VARIABLES
    setup,          \* where setupPayment, startQuote and closeConnection are
    path,           \* the path and the details of the receiver
    sender,         \* the StreamSender that runs
    probedRate, probedMax   \* the controllers of the RateProbe

quoteVars == <<setup, path, sender, probedRate, probedMax>>

\* linked says whether the response that is fetched is the one the first linked to.
SetupState ==
    [phase : {"start", "fetching", "assetProbe", "resolved", "rateProbe", "quoted",
              "closing", "closed", "failed"},
     source : {"none", "payment", "connection", "account", "credentials"},
     retries : 0..FetchRetries, linked : BOOLEAN]

NoSender ==
    [loop |-> "idle", attempts |-> 0, inFlight |-> {}, result |-> undefined,
     requestCount |-> 0, replyCount |-> 0, didConnect |-> FALSE, destinationAsset |-> undefined,
     remaining |-> <<>>, deadline |-> "unset"]

\* start() queues a first attempt.
started == [NoSender EXCEPT !.loop = "running", !.attempts = 1]

QuoteInit ==
    /\ setup = [phase |-> "start", source |-> "none", retries |-> 0, linked |-> FALSE]
    /\ \E p \in Paths, options \in ConnectionOptions :
          /\ generateCredentials(options).sealed
          /\ path = [rate |-> p.rate, maximum |-> p.maximum, metadata |-> p.metadata,
                     token |-> generateCredentials(options)]
    /\ sender = NoSender
    /\ probedRate = [lowerBoundRate |-> RatioOf(0, 1), upperBoundRate |-> RatioOf(MaxU64, 1)]
    /\ probedMax = NewMaxPacket(undefined)

Failed == [setup EXCEPT !.phase = "failed"]

-----------------------------------------------------------------------------
(* setupPayment: fetchPaymentDetails and its queries *)

\* The asset probe starts once the STREAM credentials are known, and ends at once if
\* the asset is known too.
resolvesTo(asset) ==
    /\ setup' = [setup EXCEPT !.phase = "assetProbe"]
    /\ sender' = [started EXCEPT !.destinationAsset = asset]

theAsset == decryptToken(path.token).asset

\* Several destinations, or none that is valid, fail the setup; credentials may come
\* with the receiver's asset; the others are fetched, if their URL is valid.
fetchPaymentDetails ==
    /\ setup.phase = "start"
    /\ \/ setup' = Failed /\ UNCHANGED sender
       \/ \E asset \in {undefined, theAsset} : resolvesTo(asset)
       \/ /\ \E source \in {"payment", "connection", "account"} :
                setup' = [phase |-> "fetching", source |-> source, retries |-> FetchRetries,
                          linked |-> FALSE]
          /\ UNCHANGED sender
    /\ UNCHANGED <<path, probedRate, probedMax>>

\* A server error, a rate limit or a network error is retried while retries are left.
fetchRetries ==
    /\ setup.phase = "fetching"
    /\ setup' = IF setup.retries > 0 THEN [setup EXCEPT !.retries = @ - 1] ELSE Failed
    /\ UNCHANGED <<path, sender, probedRate, probedMax>>

\* A timeout, another HTTP error, or a response that does not validate, among them
\* an Open Payments account without credentials, is final.
fetchFails ==
    /\ setup.phase = "fetching"
    /\ setup' = Failed
    /\ UNCHANGED <<path, sender, probedRate, probedMax>>

\* An incoming payment may link to its connection, which is fetched in turn.
fetchesLink ==
    /\ setup.phase = "fetching" /\ setup.source = "payment" /\ ~setup.linked
    /\ setup' = [setup EXCEPT !.linked = TRUE, !.retries = FetchRetries]
    /\ UNCHANGED <<path, sender, probedRate, probedMax>>

\* The credentials of an incoming payment come with the asset of its amounts.
fetchSucceeds ==
    /\ setup.phase = "fetching"
    /\ IF setup.source = "payment" THEN theAsset # undefined /\ resolvesTo(theAsset)
       ELSE resolvesTo(undefined)
    /\ UNCHANGED <<path, probedRate, probedMax>>

-----------------------------------------------------------------------------
(* StreamSender: requests and their replies *)

streamRequest(amount, frames, segments) ==
    [amount |-> amount, frames |-> frames, segments |-> segments]

\* External: what a connector makes of the amount.
converted(r) == multiplyFloor(r.amount, path.rate)

\* The packet as the receiver gets it: authentic, with no minimum and unfulfillable.
prepareOf(r) ==
    [destination |-> [ours |-> TRUE, segments |-> r.segments], readable |-> TRUE,
     isRequest |-> TRUE, frames |-> r.frames, amount |-> converted(r), minimum |-> 0,
     fulfillable |-> FALSE]

f08(r) ==
    [buildReject("F08", undefined, undefined) EXCEPT
        !.metadata = IF path.metadata THEN [received |-> converted(r), maximum |-> path.maximum]
                     ELSE undefined]

\* The replies of the path and of the receiver; T00 and R00 are also the sender's own
\* for a plugin that fails and a packet that expires.
repliesTo(r) ==
    {buildReject(code, undefined, undefined) : code \in {"T00", "R00"}}
    \cup IF converted(r) > path.maximum THEN {f08(r)} ELSE createReply(prepareOf(r))

isAuthenticReply(reply) == reply.fulfill \/ reply.destinationAmount # undefined

framesOf(reply) == IF reply.frames = undefined THEN {} ELSE reply.frames

running(phase) == setup.phase = phase /\ sender.loop = "running"

\* Done or Error: attempts are dropped, requests in flight awaited.
ends(s, value) == [s EXCEPT !.loop = "completing", !.attempts = 0, !.result = value]

yields(s) == [s EXCEPT !.attempts = @ - 1]

sends(s, r) == [s EXCEPT !.inFlight = @ \cup {r}]

replied(s, r) == [s EXCEPT !.inFlight = @ \ {r}]

\* The replies that complete() waits for change no result.
CompleteReply ==
    /\ sender.loop = "completing"
    /\ \E r \in sender.inFlight : sender' = replied(sender, r)
    /\ UNCHANGED <<setup, path, probedRate, probedMax>>

\* start() resolves, and the phase of setup moves on.
StartResolves ==
    /\ sender.loop = "completing" /\ sender.inFlight = {}
    /\ sender' = [sender EXCEPT !.loop = "ended"]
    /\ setup' = [setup EXCEPT !.phase =
                    IF sender.result.error # "none" THEN "failed"
                    ELSE CASE @ = "assetProbe" -> "resolved"
                           [] @ = "rateProbe" -> "quoted"
                           [] @ = "closing" -> "closed"]
    /\ UNCHANGED <<path, probedRate, probedMax>>

errorResult(error) == [error |-> error]

doneResult(value) == [error |-> "none", value |-> value]

-----------------------------------------------------------------------------
(* AssetProbe *)

\* The second request has a segment before the token, which this receiver takes for
\* the token.
assetRequest(n) ==
    streamRequest(0, {"ConnectionNewAddress"},
                  IF n = 0 THEN <<path.token>> ELSE <<NoToken, path.token>>)

AssetProbeAttempt ==
    /\ running("assetProbe") /\ sender.attempts > 0
    /\ sender' =
          IF sender.destinationAsset # undefined
          THEN ends(sender, doneResult(sender.destinationAsset))
          ELSE IF sender.requestCount <= 1
          THEN [sends(sender, assetRequest(sender.requestCount)) EXCEPT !.requestCount = @ + 1]
          ELSE yields(sender)
    /\ UNCHANGED <<setup, path, probedRate, probedMax>>

\* AssetDetailsController: the first details are kept, others are a conflict.
assetsIn(reply) == {f.asset : f \in {g \in framesOf(reply) : g.type = "ConnectionAssetDetails"}}

learntAsset(asset, reply) ==
    IF asset = undefined /\ assetsIn(reply) # {} THEN CHOOSE a \in assetsIn(reply) : TRUE ELSE asset

assetConflict(asset, reply) == \E a \in assetsIn(reply) : a # learntAsset(asset, reply)

\* EstablishmentController and AssetDetailsController, then the probe's own handler.
AssetProbeReply(r, reply) ==
    LET s == [replied(sender, r) EXCEPT
                 !.replyCount = @ + 1,
                 !.didConnect = @ \/ isAuthenticReply(reply),
                 !.destinationAsset = learntAsset(@, reply)]
    IN  sender' =
            IF assetConflict(sender.destinationAsset, reply)
            THEN ends(s, errorResult("DestinationAssetConflict"))
            ELSE IF s.replyCount = 1 THEN s
            ELSE IF ~s.didConnect THEN ends(s, errorResult("EstablishmentFailed"))
            ELSE IF s.destinationAsset = undefined
            THEN ends(s, errorResult("UnknownDestinationAsset"))
            ELSE ends(s, doneResult(s.destinationAsset))

AssetProbeReplied ==
    /\ running("assetProbe")
    /\ \E r \in sender.inFlight : \E reply \in repliesTo(r) : AssetProbeReply(r, reply)
    /\ UNCHANGED <<setup, path, probedRate, probedMax>>

-----------------------------------------------------------------------------
(* startQuote and RateProbe *)

\* What startQuote is asked: the incoming payment, the amounts, the slippage and what
\* the external rate needs.
QuoteOptions ==
    [incoming : {"none", "noAmount", "completed", "expired", "paid", "unpaid"},
     amountToDeliver : {"none", "invalid", "valid"}, amountToSend : {"none", "invalid", "valid"},
     slippage : {"invalid", "partial", "full"},
     sourceAsset : {"invalid", "same", "other"}, prices : BOOLEAN]

\* The amount startQuote takes the target from decides which check can fail.
targetError(o) ==
    IF o.incoming \in {"completed", "paid"} THEN "IncomingPaymentCompleted"
    ELSE IF o.incoming = "expired" THEN "IncomingPaymentExpired"
    ELSE IF o.incoming = "unpaid" \/ o.amountToDeliver = "valid" THEN "none"
    ELSE IF o.amountToDeliver = "invalid" THEN "InvalidDestinationAmount"
    ELSE IF o.amountToSend = "invalid" THEN "InvalidSourceAmount"
    ELSE IF o.amountToSend = "none" THEN "UnknownPaymentTarget"
    ELSE "none"

\* No source asset and no price is needed with a slippage of 100%.
rateError(o) ==
    IF o.slippage = "invalid" THEN "InvalidSlippage"
    ELSE IF o.slippage = "full" THEN "none"
    ELSE IF o.sourceAsset = "invalid" THEN "UnknownSourceAsset"
    ELSE IF o.sourceAsset = "other" /\ ~o.prices THEN "ExternalRateUnavailable"
    ELSE "none"

validQuote(o) == targetError(o) = "none" /\ rateError(o) = "none"

startQuote ==
    /\ setup.phase = "resolved"
    /\ \E o \in QuoteOptions :
          /\ (o.incoming # "none") <=> (setup.source = "payment")
          /\ IF validQuote(o)
             THEN /\ setup' = [setup EXCEPT !.phase = "rateProbe"]
                  /\ sender' = [started EXCEPT !.destinationAsset = sender.destinationAsset,
                                               !.remaining = TestAmounts]
             ELSE setup' = Failed /\ UNCHANGED sender
    /\ UNCHANGED <<path, probedRate, probedMax>>

\* The ten seconds of the probe pass; a later attempt notices.
DeadlinePasses ==
    /\ running("rateProbe") /\ sender.deadline = "pending"
    /\ sender' = [sender EXCEPT !.deadline = "passed"]
    /\ UNCHANGED <<setup, path, probedRate, probedMax>>

inFlightAmounts == {r.amount : r \in sender.inFlight}

RateProbeAttempt ==
    LET s == [sender EXCEPT !.deadline = "pending",
                            !.remaining = IF @ = <<>> THEN @ ELSE Tail(@)]
        probeAmount == Head(sender.remaining)
    IN  /\ running("rateProbe") /\ sender.attempts > 0
        /\ sender' =
              IF sender.deadline = "passed" THEN ends(sender, errorResult("RateProbeFailed"))
              ELSE IF sender.remaining = <<>> \/ probeAmount \in inFlightAmounts THEN yields(s)
              ELSE sends(s, streamRequest(probeAmount, {}, <<path.token>>))
        /\ UNCHANGED <<setup, path, probedRate, probedMax>>

\* Mutant: only an amount that narrows the maximum is tried next.
MutantNextProbeAmounts(mp, amount, remaining) ==
    IF getNextMaxPacketAmount(mp) = undefined THEN remaining
    ELSE Append(remaining, getNextMaxPacketAmount(mp))

\* The queue after a reply to a packet of the amount.
nextProbeAmounts(mp, amount, remaining) ==
    LET next == IF getNextMaxPacketAmount(mp) = undefined THEN amount
                ELSE getNextMaxPacketAmount(mp)
    IN  IF \E i \in DOMAIN remaining : remaining[i] = next THEN remaining
        ELSE Append(remaining, next)

\* Mutant: a maximum that is still searched for is taken for verified.
MutantIsProbeComplete(mp) ==
    \/ mp.type # "UnknownMax" /\ mp.verifiedPathCapacity > 0
    \/ mp.type = "UnknownMax" /\ mp.verifiedPathCapacity >= MaxProbeAmount

isProbeComplete(mp) ==
    \/ mp.type = "PreciseMax" /\ mp.verifiedPathCapacity = mp.maxPacketAmount
    \/ mp.type = "UnknownMax" /\ mp.verifiedPathCapacity >= MaxProbeAmount

\* FailureController, MaxPacketAmountController and AssetDetailsController, in order.
probeError(r, reply) ==
    IF closeFrame \in framesOf(reply) THEN "ClosedByReceiver"
    ELSE IF \/ ~reply.fulfill /\ reply.code \notin {"T00", "F08", "F99"}
            \/ reply.code = "F08" /\ noPathCapacity(reply.metadata, r.amount)
    THEN "ConnectorError"
    ELSE IF assetConflict(sender.destinationAsset, reply) THEN "DestinationAssetConflict"
    ELSE "none"

maxAfter(r, reply) ==
    IF reply.code = "F08" THEN reduceMaxPacketAmount(probedMax, reply.metadata, r.amount)
    ELSE IF isAuthenticReply(reply) THEN adjustPathCapacity(probedMax, r.amount)
    ELSE probedMax

probeResult(rate, mp) ==
    doneResult([lowEstimatedExchangeRate |-> rate.lowerBoundRate,
                highEstimatedExchangeRate |-> rate.upperBoundRate,
                maxPacketAmount |-> getMaxPacketAmountLimit(mp)])

RateProbeReply(r, reply) ==
    LET mp == maxAfter(r, reply)
        rate == observeRate(probedRate, r.amount, reply.destinationAmount)
        s == [replied(sender, r) EXCEPT
                 !.remaining = nextProbeAmounts(mp, r.amount, @),
                 !.destinationAsset = learntAsset(@, reply)]
        error == probeError(r, reply)
    IN  /\ probedMax' = mp
        /\ probedRate' = rate
        /\ sender' = IF error # "none" THEN ends(s, errorResult(error))
                     ELSE IF isProbeComplete(mp) THEN ends(s, probeResult(rate, mp))
                     ELSE [s EXCEPT !.attempts = @ + 1]

RateProbeReplied ==
    /\ running("rateProbe") /\ sender.attempts < MaxAttempts
    /\ \E r \in sender.inFlight : \E reply \in repliesTo(r) : RateProbeReply(r, reply)
    /\ UNCHANGED <<setup, path>>

-----------------------------------------------------------------------------
(* closeConnection and ConnectionCloser *)

closeConnection ==
    /\ setup.phase \in {"resolved", "quoted"}
    /\ setup' = [setup EXCEPT !.phase = "closing"]
    /\ sender' = started
    /\ UNCHANGED <<path, probedRate, probedMax>>

CloserAttempt ==
    /\ running("closing") /\ sender.attempts > 0
    /\ sender' = IF sender.requestCount = 0
                 THEN [sends(sender, streamRequest(0, {"ConnectionClose"}, <<path.token>>))
                          EXCEPT !.requestCount = 1]
                 ELSE yields(sender)
    /\ UNCHANGED <<setup, path, probedRate, probedMax>>

\* Any reply ends the loop.
CloserReplied ==
    /\ running("closing")
    /\ \E r \in sender.inFlight : sender' = ends(replied(sender, r), doneResult(undefined))
    /\ UNCHANGED <<setup, path, probedRate, probedMax>>

QuoteNext ==
    \/ fetchPaymentDetails \/ fetchRetries \/ fetchFails \/ fetchesLink \/ fetchSucceeds
    \/ AssetProbeAttempt \/ AssetProbeReplied
    \/ startQuote \/ DeadlinePasses \/ RateProbeAttempt \/ RateProbeReplied
    \/ closeConnection \/ CloserAttempt \/ CloserReplied
    \/ CompleteReply \/ StartResolves

QuoteSpec == QuoteInit /\ [][QuoteNext]_quoteVars

\* HTTP requests end, requests in flight are answered or expire, and the deadline
\* passes.  Attempts run: in a rate probe it is enough that one runs after the deadline.
QuoteFairness ==
    /\ []<>(setup.phase # "fetching")
    /\ []<>(sender.loop # "completing")
    /\ []<>~(sender.loop = "running" /\ sender.attempts = 0 /\ sender.inFlight # {})
    /\ []<>~(running("rateProbe") /\ sender.attempts > 0 /\ sender.deadline # "pending")
    /\ []<>~(running("rateProbe") /\ sender.deadline = "pending")
    /\ []<>~(sender.loop = "running" /\ setup.phase # "rateProbe" /\ sender.attempts > 0)

-----------------------------------------------------------------------------
(* Properties *)

fits(amount) == multiplyFloor(amount, path.rate) <= path.maximum

(* A probe that ends well has told the truth about the path, in whatever order its     *)
(* packets are answered and whichever get lost: a packet of the maximum it found       *)
(* passes, and no larger one does where the F08s left it to the search to find; or no  *)
(* packet was too large and the largest probe passed.  The real rate lies between the  *)
(* estimates, and the asset is the one the receiver sealed into its credentials.       *)
QuoteSound ==
    setup.phase = "quoted" =>
        LET q == sender.result.value
        IN  /\ \/ q.maxPacketAmount = MaxU64 /\ fits(MaxProbeAmount)
               \/ fits(q.maxPacketAmount) /\ (path.metadata \/ ~fits(q.maxPacketAmount + 1))
            /\ isLessThanOrEqualTo(q.lowEstimatedExchangeRate, path.rate)
            /\ isLessThan(path.rate, q.highEstimatedExchangeRate)
            /\ sender.destinationAsset = theAsset

(* Setting up, probing and closing come to an end: no loop is left without a request   *)
(* in flight and without an attempt that would notice the deadline, and no amount is   *)
(* tried for ever.                                                                     *)
QuoteSettles == []<>(setup.phase \notin {"fetching", "assetProbe", "rateProbe", "closing"})

=============================================================================
