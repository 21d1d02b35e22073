# Verification of interledger.js

TLA+ models of the parts of this repository that move money and data: the quote and
the payment sender of `@interledger/pay`, the connections, streams and server of
`ilp-protocol-stream`, the stateless `stream-receiver` and the payouts of
`ilp-spsp-payout`. TLC
checks the models on small instances, TLAPS proves their central invariants for
every value of the constants. `PROJECT.json` maps each definition to the source
lines it stands for, lists the runs, the mutants that show each property can
fail, the hazards the properties are for, the findings and the theorems.

All paths below are relative to `src/packages/`.

## The system

### Inventory

| Component | State it keeps | Operations | What makes it hard |
| --- | --- | --- | --- |
| **pay: send loop** `pay/src/senders/index.ts`, `request.ts` | attempts on `requestScheduler`, replies on `replyScheduler`, the result | `start`, `trySending`, the reply handler, the request timeout | attempts and replies interleave; replies come in any order or not at all; a timeout races a late fulfill |
| **pay: payment sender** `senders/payment.ts` | `amountSent`, `amountDelivered`, both amounts in flight, the rounding flag, the receive maximum, the latest receipt | `nextState`, `applyReply` handlers | never overpay, enforce the minimum rate with integer amounts, end exactly once |
| **pay: quote** `index.ts` | the quote | `startQuote`, `pay`, `setupPayment` | rounding of the maximum source and minimum delivery amount |
| **pay: controllers** `controllers/*.ts` | rate bounds, packet maximum and verified capacity, idle deadline, packets in flight, sequence number, asset | `buildRequest` / `applyRequest` / `applyReply` each | stale replies move bounds the wrong way |
| **pay: rate probe** `senders/rate-probe.ts` | test amounts, the deadline | `nextState`, replies | a volley of packets whose errors arrive out of order |
| **pay: asset probe, connection closer** | requests sent | `nextState` | retry limits |
| **pay: open payments, pointers** | none | HTTP queries and parsing | I/O only |
| **stream: connection, receiving** `ilp-protocol-stream/src/connection.ts` 565-858 | `streams`, `closedStreams`, `_totalReceived`, `_incomingHold`, stream-id limits | `handlePrepare` and what it calls | async handlers of several packets interleave with the application at every `await` |
| **stream: connection, sending** | `_totalSent`, `_totalDelivered`, exchange rate, each stream's `_outgoingHold` | `startSendLoop`, `loadAndSendPacket`, `sendPacket` | holds taken, executed and cancelled by concurrent packets; rejects undo what a packet queued |
| **stream: lifecycle** | `connected`, `closed`, `sending`, timers | `connect`, `end`, `destroy`, `sendConnectionClose`, idle timer | lost wake-ups, two closes at once |
| **stream: streams** `stream.ts` | totals, limits, holds, data queues | `setSendMax`, `setReceiveMax`, `sendTotal`, `receiveTotal`, `_final`, `_destroy` | promises and events that must settle |
| **stream: data** `util/data-queue.ts`, `util/data-offset-sorter.ts` | queued and sorted buffers, offsets | `push`, `read` | reordered and repeated frames |
| **stream: congestion** `util/congestion.ts` | the two packet maxima | `onFulfill`, `onAmountTooLargeError`, `onInsufficientLiquidityError` | maxima of 0 or above the limit |
| **stream: 64-bit arithmetic** `util/long.ts`, `util/rational.ts` | none | `checkedAdd`, `checkedSubtract`, `multiplyDivide`, ... | wrap-around detected after the fact |
| **stream: server, pool** `server.ts`, `pool.ts` | active and pending connections | `getConnection`, `close` | two packets create one connection |
| **stream: packets, receipts, crypto** | none | codecs | pure encodings |
| **stream-receiver** | none (stateless) | `createReply` | each reply depends on the packet alone |
| **ilp-spsp-payout** | target, sent, state, retries | `send`, `trySending`, `cleanUp`, `close` | reconnects while events of the old connection are pending |
| **oer-utils, ilp-packet** | reader cursor | codecs | lengths and number ranges |
| **ilp-protocol-ccp, ilp-protocol-ildcp, ilp-plugin, ilp-logger, connection-tag-utils** | none | codecs, adapters | none beyond the codec |

How they interact: `pay()` runs a quote (asset probe, rate probe), then a
`PaymentSender`, then a connection closer; each is a `StreamSender` on the same
controllers. Their packets reach a receiver, which is a `stream-receiver` or the
`Server` of `ilp-protocol-stream`: its pool finds the `Connection`, whose
`handlePrepare` decides each packet and credits the `DataAndMoneyStream`s. A
payout drives a client-side `Connection`. Everything on one side shares one
event loop: a handler runs to its next `await` without interruption, and what
interleaves is the order of these segments.

### What makes each component correct

* **Send loop and payment sender**: fulfilled and in-flight amounts never exceed
  the quoted maximum, nor do they if every packet that timed out was delivered
  after all; the in-flight totals are those of the requests; the minimum rate
  holds on the totals; a payment resolves as done only when it is; every payment
  ends.
* **Controllers**: the rate interval never becomes empty, the packet maximum only
  falls, the verified capacity stays within it, the next amount is positive.
* **Receiving connection**: a hold is never released twice or below zero, totals
  never wrap, the total and the streams' totals are those of the fulfilled
  packets, stream limits hold (for one money frame per packet and stream), the
  peer's stream budget is bounded, what was decided stays decided.
* **64-bit arithmetic**: every checked operation is the exact result or saturates.
* **Sending connection**: what a stream holds is in the packet in flight or was paid
  without the receiver saying so; no money is sent twice, whatever the answer; the
  connection's total is its streams'; close frames survive rejects; a stream's
  money is sent as long as the path takes packets (it is not: a finding).
* **Lifecycle**: no wake-up of the loop is lost, `end` settles (with one exception,
  below), no money leaves after `destroy`.
* **Data**: bytes are read once and in order, all of them in the end (with four
  exceptions, below), and a writer that keeps to its limits is not cut off.
* **Server and pool**: one connection per id, packets are answered and connections
  ended before the plugin is disconnected, every packet is answered and `close`
  settles if the `end` of its connections does.
* **Payout**: what was paid is counted once, the target is not paid twice (with two
  exceptions, below), and a payout that fails is tried again until it is paid, out of
  retries or expired.
* **Quote**: the maximum and the rate bounds a probe resolves with are those of the
  path, and setting up, probing and closing end.

The hazards these are aimed at are in `PROJECT.json`, each at its source line.

## The modules

| Module | Models | Extends |
| --- | --- | --- |
| `Ratios` | `Int`/`Ratio` of `pay/src/utils.ts` | |
| `ExchangeRate` | `ExchangeRateController` / rate calculator | `Ratios` |
| `MaxPacketAmount` | `MaxPacketAmountController` | `Ratios` |
| `Totals` | the total of the first entries of a list, for the ledgers | |
| `PaymentSender` | the send loop, payment sender, end of `startQuote` and the rest of the controllers | `ExchangeRate`, `MaxPacketAmount`, `Totals` |
| `MCPaymentSender` | TLC instances | `PaymentSender` |
| `PrefixSums` | lemmas on sums over a list, least elements | `Totals` |
| `PaymentSenderProofs` | theorems | `PaymentSender`, `PrefixSums` |
| `LongArithmetic` | `util/long.ts`, `util/rational.ts` | |
| `LongArithmeticProofs` | lemmas on the operators: types, wrap-around, the loop of `multiplyDivide` | `LongArithmetic`, `PrefixSums` |
| `MCLongArithmetic` | walk over all operands, reference definitions | `LongArithmetic` |
| `MCLongArithmeticProofs` | theorems | `MCLongArithmetic`, `LongArithmeticProofs` |
| `ConnectionReceive` | `handlePrepare` and the streams' incoming money | `LongArithmetic`, `Totals` |
| `MCConnectionReceive` | TLC instances | `ConnectionReceive` |
| `ConnectionReceiveProofs` | theorems | `ConnectionReceive`, `LongArithmeticProofs`, `PrefixSums` |
| `CongestionController` | `util/congestion.ts` | `LongArithmetic` |
| `ConnectionSend` | the send loop, outgoing money, `end`, `destroy` and the idle timer of a client's connection | `CongestionController`, `Totals` |
| `MCConnectionSend` | TLC instances | `ConnectionSend` |
| `ConnectionSendProofs` | theorems | `ConnectionSend`, `LongArithmeticProofs`, `PrefixSums` |
| `ByteFifo` | abstract: a queue of bytes | |
| `StreamData` | a stream's data in one direction, its queues and windows | |
| `StreamDataProofs` | theorems | `StreamData`, `PrefixSums` |
| `ServerPool` | `server.ts` and `pool.ts` | |
| `Payout` | `PayoutConnection` and its expiry | `Totals` |
| `StreamReceiver` | `stream-receiver`, as operators | `Ratios` |
| `Quote` | `setupPayment`, the probes, the start of `startQuote`, `closeConnection` | `ExchangeRate`, `MaxPacketAmount`, `StreamReceiver` |
| `ServicesProofs` | theorems on the components it extends | `ServerPool`, `Payout`, `Quote`, `PrefixSums` |
| `MCServices` | TLC instances of the four components | `StreamData`, `ServerPool`, `Payout`, `Quote` |

### PaymentSender

The variables are the fields of the objects in `controllers/` and
`senders/payment.ts`, plus `requests` (one record per packet sent, holding what
the reply handler closes over and the packet's fate), `attempts` (queued
`trySending` tasks), and `loop`/`result` (where `start()` is and what it resolves
to).

One run of `trySending` is one action, by outcome: `SequenceLimitReached`,
`IdleDeadlineExceeded`, `PacerYields`, `NothingToSend`, `RateDropped`,
`SendPacket`. The order of the controllers in the code is the order of the
guards. `HandleReply(i, reply)` is the whole reply handler of request `i`: every
controller's `applyReply`, the accounting, receipt and receive maximum, then the
state the loop goes to, which only counts while the loop runs. `CompleteReplies`
is the end of `start()`. `DeadlinePasses` is the clock.

The network and the receiver are external: any reply of the constant `Replies`
may answer any request in flight. A reply of code `R00` is the sender's own
timeout (`request.ts`); the packet's fate is then `expired`, which stands for
delivered or not.

Abstractions: time (the pacer's delays only postpone attempts, which any
interleaving does), the contents of packets (a reply has the fields the handlers
read), error codes (one per class `FailureController` tells apart), the
controllers that only fill in packet fields (establishment, expiry).

### ConnectionReceive

The variables are the connection's fields, one record per stream id, and
`prepares`, one record per packet with where its handler is. `handlePrepare`
splits at its awaits: `ReceivePrepare` opens streams and handles the control
frames up to the first refused one, `RejectPrepare`/`OverflowPrepare`/
`HoldPrepare` check amounts and limits and take the hold, `FulfillPrepare` and
`DeclinePrepare` follow the application's `shouldFulfill` callback. When the code
does not await a callback, the last two segments are one action. The application
creates streams of its own (`createStream`, even ids up to the peer's limit), sets limits
and closes streams in between; `removeStreamRecord` is the stream's close event.

Two things the code does shape the properties. Each `StreamMoney` frame of a packet is
compared with the stream's limit alone (`connection.ts:728`), so a packet with two frames
for one stream may take it above its limit without any callback; packets of this kind are
among those of the runs. `ReceiveMaxEnforcedAtOnce` is therefore about each stream that
was never paid by more than one frame of a packet, which is how this library sends
(`connection.ts:1323`); frames of other streams, and other packets, are free.
And `handleStreamClose` raises the limit on the peer's ids for every stream the peer
ends, also one that this side created (`connection.ts:1163`), so the peer may have more
than `maxRemoteStreams` streams open: `OpenStreamsBounded` allows one more for each
stream of this side that it ended, and no other.

Abstractions: data frames and byte offsets, the frames of the response, limits
on the sending side, the client/server asymmetry (the server's side is modelled).
Amounts have `WordBits` bits, and `checkedAdd` and the others are the code's
tests on wrapped results, not the ideal operations.

### ConnectionSend

The code runs one loop with one packet at a time. `at` is the `await` the loop is
in, `sending` the flag it looks at after each packet, `packet` what
`loadAndSendPacket` and `undoRejectedPacket` need of the packet in flight: the
amount held on each stream and its StreamClose frames. `endPhase` and
`destroyPhase` say which promise `end()` and `destroy()` wait for.

`loadAndSendPacket` up to its packet is `TooManyPackets`, `NothingToSend` or
`SendPacket`. The answers are `ReceiveFulfill`, `FulfillWithoutData`, `SendFails`
(the plugin throws or the answer is not valid; the packet may have been paid),
`RejectByReceiver` followed by `HandleReject`, `RejectWithoutData` or
`UnreadableReject`, and the connectors' `AmountTooLarge`, `TemporaryError` with
`Retry`, and `FinalError`. Each ends in `Continue`, the loop's look at `sending`,
or in `Fail`, its `catch`. `StartSendLoop` is called from within the handlers, with
the values they have reached. A frame of the peer comes in an answer or, as
`ReceiveFrame`, in a packet of its own. `createStream`, `setSendMax`, `CloseStream`
(a stream's `end` and `destroy`), `end` and `destroy` are the application's calls,
`removeStreamRecord` the stream's close event, `StartLater` the loop it starts with
`setImmediate`, and `testIdle` the idle timer.

The variables `paid`, `granted` and `ended` are history, for the properties only.

`EndSettles` is about the promise of `end()` itself: it resolves or is rejected. There is
one way for it not to, met as a counterexample: `destroy()` without an error finishes
while `end()` still waits for the loop (`connection.ts:385`), and the loop then fails; the
`catch` calls `destroy(err)`, which returns because the connection is done
(`connection.ts:415`), so neither `_send_loop_finished` nor `error` is emitted. This state
is `abandoned`, and the property says that it is the only one in which `end()` hangs.

Abstractions: data frames; streams the peer opens; the limits on stream ids; the
frames of a packet, except that it has some, which streams it closes and whether it
closes the connection; the amount the receiver says it got, any of `Deliveries`. A
second `end()` joins the first.

### StreamData and ByteFifo

`writer` and `reader` are the two ends of one stream with the connection fields that
matter to its data: the queue of unsent bytes, the pieces to send again, the offset,
both windows and the `sending` flag of the loop; the `OffsetSorter`'s list, its
offsets, Node's buffer and the reader's own loop. `request` is the writer's packet in
flight, `late` the packets that were rejected on their way and still arrive, `update`
the packet in which a paused reader tells its new limit. `SendRequest` is one round of
the loop from `loadAndSendPacket`'s data frames on, `HandleRequest` the reader's
`handlePrepare`, `ReceiveResponse` and `RejectRequest` the writer's look at the answer.
A byte is its position in what was written, so that order and repetition show.

`ByteFifo` is the promise of a stream: a writer appends bytes, a reader takes them
from the front. `DataIsFifo` says that `StreamData` implements it, the bytes handed to
the application being `read`.

What the code does not recover from is recorded in the history variable `faults`, and
`DataDelivered` is about behaviours without a fault. Each was met as a counterexample:

* a piece received twice stays at the head of the `OffsetSorter`, whose `read` only
  takes the piece that starts at `readOffset`, and hides everything behind it
  (`util/data-offset-sorter.ts:55`);
* a rejected packet's control frames are not sent again (`connection.ts:1933`, a TODO),
  so a lost `StreamMaxData` leaves the writer blocked;
* `_final` does not wait for data to be acknowledged: the stream's record is removed and
  data rejected afterwards is dropped (`connection.ts:1942`);
* data sent again needs room in the connection's window, because `outgoingOffset` is not
  taken back, and a `ConnectionMaxData` frame that opens the window does not start the
  loop (`connection.ts:927`, `1353`).

The last one is recorded only when a round of the loop sends no data although the stream
has data its own window lets through (`connectionBlocked`), and is withdrawn by the next
round that is not stopped so: a window that leaves less than a packet, a piece that is
split to fit and a loop that another frame starts again are all part of `DataDelivered`.

`WindowRespected` leaves out a writer whose own buffer is larger than its peer's: it
starts from its own size, and `connection.ts:927-932` takes a lower limit only if it
equals that size; any other goes through `Math.max` and is ignored.

### ServerPool

`server` is the `Server` with its plugin and the `await` that `listen` or `close` is in,
`pools` one `ServerConnectionPool` per call of `listen`, `packets` one call of
`handleData` each, split at its awaits. A connection is named after the packet that
creates it. Of `handlePrepare` only its end is seen.

Met while modelling, and allowed by the properties: packets that wait for a connection
share the rejection of the packet that creates it, even if their own data decrypts
(`pool.ts:113`), and are handled before it, since only the creator awaits the next tick
(`pool.ts:117`); packets before the first `listen` is done are answered `F00`; a packet
during a second `listen` goes to the pool about to be replaced, whose connections
`close` does not end; `close` rejects without disconnecting when one `end()` rejects,
and the plugin then stays connected with the handler that answers `T99`; and `close` waits
for ever if an `end()` is abandoned (above). Nothing is assumed of `end()`, so
`ServerSettles` follows `close` up to the connections it ends.

### Payout

`payout` holds the fields of `PayoutConnection`, `links` the variables one call of
`trySending` closes over with its connection and stream, `account` what was really paid.
The close and error events of connection and stream each schedule a clean-up with
`setImmediate`, up to four for one link. The model shows why `PaysOnce` needs its two exceptions: the second
clean-up of one failure sets the state to `DISCONNECTED` while the retry of the first is
connecting, so that the next `safeTrySending` makes a second connection with the same
remainder as its limit (`PayoutConnection.ts:200`); and a packet fulfilled after the
clean-up is not counted, because the listener is gone (`PayoutConnection.ts:204`).
Expiry destroys the connection but clears only the last retry timer, so an expired
payout may pay on.

### StreamReceiver and Quote

`StreamReceiver` is stateless and a module of operators: `generateCredentials` seals
the options into a token, or refuses them (an invalid nonce, secret or scale, or a token
that does not fit into an address); an empty payment tag is dropped, and the others go
through Node's ascii encoding, which keeps the lower byte of a character when it is
written and seven bits when it is read, so a tag beyond ASCII does not come back.
`createReply` gives the replies that remain possible, its
checks in the order of the code. The application's answers to money (`incomingMoney`,
`withReceipt`) are translated; the packets of a quote are unfulfillable and do not
reach them.

`Quote` runs `setupPayment`, `startQuote` up to the probe's result and
`closeConnection`; `setup.phase` is the promise that is awaited, `sender` the
`StreamSender` that runs, `probedRate` and `probedMax` the rate probe's controllers, the
operators of `ExchangeRate` and `MaxPacketAmount`. An attempt and a reply are one action
each. `path` converts at a constant rate and has a constant maximum, in units of the
destination; a packet above it is answered with an F08, any packet may be lost. The
result feeds `PaymentSender`, whose assumption that a probed rate has a lower bound
below its upper bound follows from `QuoteSound`, which is proved: the real rate is
between them.

Two remarks on comments of the code: `open-payments.ts:263` says that only timeouts are
handled, while line 265 retries everything but timeouts; and `index.ts:372` says that the
source amount of the lower bound is the maximum packet amount, which floors make true
only sometimes.

`MCServices` puts the four side by side in one run: a behaviour picks one and leaves the
others in an initial state, so that the state spaces add up.

## Runs

| Run | What it shows |
| --- | --- |
| `payment_safety` | all safety properties of the payment sender, two payment types, every branch of every handler, four packets, three at once |
| `payment_fixed_send_ends` | under fairness every fixed send ends, and a running loop always has a task or a reply to wait for; deadlock is checked |
| `payment_fixed_send_guarantee` | violation: a fixed send may exhaust its maximum without its minimum delivery (finding) |
| `payment_idle_delivery` | violation: a fixed delivery may hang past its idle deadline (finding) |
| `long_arithmetic` | for every pair and triple of 5-bit operands, the checked operations equal their mathematical definition, saturated |
| `connection_receive` | all properties of the receiving side: two streams of the peer and one of this side, seven kinds of packets (one with two frames for a stream), three packets in any interleaving, with and without a callback |
| `receive_max_concurrent` | violation: packets awaiting the callback together exceed a stream's limit (finding) |
| `receive_hold_leak` | violation: the hold grows beyond what is held, and a legal packet destroys the connection (finding) |
| `connection_send` | the sending side with one stream whose limit is raised and lowered, three packets, every answer and every frame, one frame out of the blue: nothing is paid twice, no wake-up or close frame is lost, no money after `destroy` |
| `connection_ends` | two streams that share two packets at a rate of 3/2: every hold is settled once, totals agree, and the promise of `end` settles or is abandoned; deadlock is checked |
| `services` | one component per behaviour. Data: at most 3 bytes, two rejects, late packets, windows of 2 (stream) and 4, or 5 against 1 (connection), paused and flowing readers. Server: three packets for two ids, two `listen`s. Payout: targets up to 2, two links at a time, two retries. Quote: four test amounts, six paths with and without F08 amounts, five sets of options |
| `send_stuck` | violation: after an F08 without amounts the loop stops with money to send (finding) |

Bounds and why they are enough. A payment of 5 units with a packet maximum of 2
or 3 takes two or more packets, so several are in flight, one is rejected and
retried, and the last one carries the rounding correction; `PacketLimit` 4
leaves room for one retry and is itself reached; `MaxInFlightPackets` 3 (2 in the
liveness runs) is reached as well. The targets have minimum rates equal to, below
and not dividing the amounts, so that floors and ceilings matter. Words of 4 bits
(`MAX_UNSIGNED_VALUE` 15) let three packets of 5 reach the limit and the next
overflow; at 5 bits the shift-and-subtract loop of `multiplyDivide` takes all of
its branches. Stream ids 1, 2 and 3 with `MaxRemoteStreams` 1 give a stream of the
peer that must wait for another to end, and one of this side that the peer may name too
early, pay or end; a packet of 10 units in two frames for a stream with a limit of 5
passes the check that a single frame would not.

On the sending side words of 4 bits, path maxima of 4 and limits of 2, 3 and 5 make
a stream need two packets, let a limit fall below what is in flight, and make two
streams share a packet. Amounts stay below half a word: `checkedSubtract` misses
underflows of larger subtrahends (see `CheckedArithmeticSaturates`), which here would need
amounts above 2^63. `PacketLimit` 4 (3 with two streams) is the 2^31 of
`getNextPacketSequence`: the last number ends the connection, as in the code. Two
reported deliveries of 9 overflow `_totalDelivered`.

In `services` a packet takes 3 bytes of which a data frame's overhead is 1, so that 3
bytes need two packets and a rejected piece is split; a window of 2 closes before the
last byte, and a window of 1 is below the overhead. Three packets are what it takes for
one to create a connection, one to wait and one to find it active or closed; two links
are the overlap of the payout's clean-ups. Test amounts 0, 8, 4 and 2 with maxima 0, 2
and 20 give a path without capacity, one whose maximum has to be searched between test
amounts and one that takes every packet; rates of 1/2 and 3/2 make floors lose a unit.
`MaxU64` is 50 there, above every amount that occurs.

Fairness of the sending side: every await of the loop ends (`setImmediate`, the
plugin's answer or error, decryption, the retry delay), close events are emitted,
`end` and `destroy` go on, and a connection whose loop stays stopped is destroyed by
its idle timer (60 s or what the application sets; 0 does not disable it, as
`connection.ts:274` takes the default then). `EndSettles`
needs the timer: when the peer closes the connection while a blocked stream has money
left, no loop runs any more whose end the stream waits for.

Fairness of a payment (`FairSpec` of `PaymentSender`). Weak fairness on attempts
and replies: the event loop runs
every queued task, and `request.ts` resolves every request with `R00` if no
answer came before its timeout. Weak fairness on `CompleteReplies`, a promise
that resolves, and on `DeadlinePasses`, since time passes.

Fairness in `services` is stated as what must happen again and again: `[]<>` of the
negated guard of each step that the event loop, a timer or a peer's answer takes, which
weak fairness of the steps implies, as each ends its own guard. Data: both loops run, packets are
answered, the application reads; nothing makes it write or end. Server: promises that
do not wait for another packet settle and timers run; nothing is assumed of `end()`, and
a packet that waits for another's connection has no fairness of its
own. Payout: timers and immediates run, connecting succeeds or fails, an open stream
pays or is closed. Quote: requests end, are answered or expire, and the deadline passes;
attempts in a rate probe may be delayed by the pacer until then.

Deadlock. `services` stops when the bounds are used up. `payment_safety` and the violation runs on payments set
`CHECK_DEADLOCK FALSE` because a fixed delivery really may stop (the finding of
`payment_idle_delivery`). The receiving side stops when its bound on packets is
used up and all streams are closed, and the walk over operands ends.

## Proofs

34 theorems, for every value of the constants; each states a property some run checks on
its instance. The assumptions are those of the modules: targets and replies have their
types, a probed rate has a lower bound below its upper bound, limits are naturals,
packets have their type (with any number of frames for a stream), `MAX_UNSIGNED_VALUE` is the greatest word,
`IncreaseDivisor` is at least 2 (10 in `congestion.ts`). A theorem that needs more says
so in its `ASSUME`; these hypotheses are listed below, and the runs satisfy them.

**Sums and loops.** The ledgers are sums over lists. `Totals` defines a total as the last
value of a function of prefix sums, and `PrefixSums` proves that there is one and how it
changes when an entry is appended, changed, settled, shared out up to a maximum or
rounded. Induction is done by least counterexample: a non-empty set of naturals has a
least element (`LeastNatural`), so a statement that is false somewhere is false at a
first place, where its step fails. `LongArithmeticProofs` treats the loop of
`multiplyDivide` in the same way.

**`PaymentSenderProofs`.** `TypeCorrect`, `NeverOverpays`, `DoneMeansSettled`,
`RateBoundsOrdered`, `CapacityBounded`, `InFlightExact`, `LatePacketsCovered`,
`MinimumRateKept`, `FixedSendStaysAlive`, `AccountsAreFinal`. `NoOverpay` is not inductive:
`saturatingSubtract` in the reply handler would lose money if a reply took back more than
its request added. `IInv` says that the amounts in flight are the sums over the requests
in flight; `DoneMeansSettled` follows, since with `amountSent` at its maximum that sum is
0 and each request is positive. `PayInv` adds what the rest needs: while the loop runs no
packet has expired, so what may have been paid is what is accounted for (`SpendInv`,
for `NoOverpayIfLate`); every request met the minimum rate when it was built, up to its
correction (`RateInv`); a fixed send that runs has something left to pay, so an attempt
that yields has a packet to wait for (`AliveInv`). `FixedSendStaysAlive` is `LoopAlive`
for fixed sends only: for fixed deliveries it is false (second finding).

**`MCLongArithmeticProofs`.** `CheckedArithmetic`, `MultiplyDivideCorrect`,
`RoundingCorrect`: what `long_arithmetic` checks for 5 bits, for every word width. The
invariant of the loop of `multiplyDivide` is that the product is what was found so far
plus the remaining multiplicand times the current quotient and remainder (`LoopInv`),
and that the multiplicand halves.

**`ConnectionReceiveProofs`.** `ReceiveTypes`, `HoldSafe`, `TotalSafe`, `NothingReopens`,
`StreamsBounded`, `MoneyIsConserved`, `LimitKeptAtOnce`. `addIncomingHold` stores
`_totalReceived + _incomingHold + value`, so the hold is not the sum of what is held.
`HoldInv` keeps what survives: the sum of the held amounts is at most the hold, and total
plus that sum is at most `MAX_UNSIGNED_VALUE`. `StreamInv` adds the streams' types and
that a packet waits for a callback only with valid shares. `RoomInv` counts: the limit on
ids has grown by one stream for each stream the peer ended, of either side, at most half of
the ids up to it are odd, and a stream that is known has an id its side may use. `MoneyInv` has each stream's total as a sum over the packets; that the
shares of a packet fall short of it by less than a unit per frame is a lemma on rounded
sums. `LimitInv` is the limit itself, stream by stream: what a packet with one frame for the
stream adds is what that frame was checked for.

**`ConnectionSendProofs`.** `SendTypes`, `NeverPaysTwiceHolds`, `HoldsAccounted`,
`TotalsAgree`, `CloseFramesKept`, `DestroyedSendsNothing`, `NoWakeupLost`. `BaseInv` is the
type invariant with a rate that can be inverted and a packet whose sum is a `Long`.
`PhaseInv` says which streams can still be open in each phase of `end` and `destroy`.
`MoneyInv` is the ledger of each stream: what it sent and holds covers what was paid and
what the packet takes from it, is within the greatest limit, and is exactly that while
the connection is not destroyed; `TotalConserved` is then inductive. `CloseInv` adds that
a stream with a record says it told the peer of its end only if the peer ended it.
`WakeInv` is for the wake-ups: whenever the loop sleeps, or is in an `await` after which
it will not look again, nothing waits to be sent and the packet in flight is empty. It
needs four more facts: a loop that loads a packet has `sending` set; `end` is done only
when the peer was told; the congestion controller tests 0 only when the path takes at
most a unit, so that the answer to an empty packet does not raise it; and a stream has
no limit before it is opened. The step uses that a packet takes nothing if and only if
it can carry nothing or no stream wants anything, which is a least-counterexample
argument over the streams in order. The theorem does not contradict the fifth finding:
`NoLostWakeup` asks that a packet would take nothing, `KeepsSending` that streams want
nothing.

**`StreamDataProofs`.** `DataKeepsWindows` and `DataRefinesFifo`, about `DataSpec`. A byte
is its position, so a queue that is as it should be is a run of consecutive numbers
(`Run`). `ByteInv` says where each run starts and ends: what the application was handed
starts at 0, Node's buffer continues it up to `readOffset`, the unsent bytes continue
`outgoingOffset` up to what was written, and every piece that is sorted, queued again, in
flight or late is a run that ends before `outgoingOffset`. Nothing is said about how the
pieces overlap, so late and repeated ones are covered. The step that needs work is the
`OffsetSorter`: wherever a piece is inserted, the entries `read` takes are a run from
`readOffset`, by least counterexample (order in the list is needed for delivery, not for
this). For the refinement every step either is
a write or leaves what was written alone and does not shorten what was read
(`NoByteLost`). That is a read of `ByteFifo`, because two runs that start at the same
place and are as long as each other are the same (`RunUnique`), so that what was read is
always the beginning of what was written. `WindowInv` is for `WindowRespected`: every
limit the writer knows, or that is on its way to it in an answer or an update, is one the
reader accepts from now on, and what was sent is below the limits.

**`ServicesProofs`.** Theorems about the components' own specifications, which
`MCServices` runs side by side. `OneConnection` and `RepliesFirst` (`PoolSpec`): an id is
never pending and active at once, a packet that creates a connection is the pending entry
of its id, and an open connection the active one; `PhaseInv` has what `listen` and
`close` have done by each phase. `PayoutLedgerHolds` and `PaysOnceHolds` (`PayoutSpec`):
the ledger is a sum over links of what each listener still owes, and the target covers
every link in use unless one of the two exceptions of `PaysOnce` has happened.

`QuotesAreSound` (`QuoteSpec`): the invariant `QuoteInv` relates the probe's controllers
to the path. The verified capacity passes, and what is above a maximum found by search
does not (`MaxOK`). The real rate is not below the lower bound, and below the upper one
unless that is still the initial `MaxU64`, which a path may exceed (`RateOK`); the first
packet that is answered with its delivered amount then replaces it: a whole number that
is not above the real rate is not above the rate that packet got, rounded down as it is,
and both bounds are reset. A probe completes only with a verified capacity, so it never
reports the initial bound. `SenderOK` carries a finished probe's result through the phases that follow.

Hypotheses of theorems, and why the code does not need less:

* `LowLimits` (sending): the application's limits are at most half of the greatest word,
  2^63 in the code. `checkedSubtract` misses the underflow of a larger subtrahend, and a
  limit lowered under what is in flight would then leave more than the stream may send.
* `LowFrames` (wake-ups): the amounts the peer reports as received are too, for the same
  reason: above that, a stream that got more than its limit seems to have room.
* `LowShares` (`MoneyIsConserved`): the shares of a packet add up to at most half of the
  words, where `multiplyDivide` is exact.
* `ExtraFits` (`LimitKeptAtOnce`): a limit with the allowed extra fits into a word, or
  saturates as the limit `'Infinity'` does; the factor is at least 1 and its denominator
  in the lower half.

Assumptions on constants that the last theorems use: buffer sizes, packet sizes and
bounds are naturals, the stream's high-water mark is positive (`DataAssumption`); the
rates of paths are positive, the largest probe is positive and the test amounts are a
list of naturals up to it (`QuoteAssumption`; 10^12 and its fractions in the code).

Only model-checked: liveness under fairness, which is out of the prover's reach
(`PaymentEnds`, `EndSettles`, `DataDelivered`, `ServerSettles`, `PayoutSettles` and
`QuoteSettles`). Every invariant and every action property of the passing runs is a
theorem, `LoopAlive` for fixed sends and the arithmetic for every word width.

## Findings

1. `pay/src/senders/payment.ts:164`: the flag `appliedRoundingCorrection` is
   overwritten by every packet, so two packets can each lose a unit to rounding
   and a fixed send can exhaust its maximum below its minimum delivery
   (`pay/README.md:186` rules that out). `MinimumRateEnforced` states what does
   hold: one unit per corrected packet.
2. `pay/src/senders/payment.ts:109`: a fixed delivery that has nothing left to
   send and nothing in flight queues no attempt, so the idle timeout never fires
   and `pay()` never resolves.
3. `ilp-protocol-stream/src/connection.ts:762`: a stream's receive maximum is
   compared before the callback and not after it.
4. `ilp-protocol-stream/src/connection.ts:2096`: `addIncomingHold` stores the
   total in the hold; nothing removes it again.
5. `ilp-protocol-stream/src/util/congestion.ts:102`: an F08 without amounts for a
   packet of 2 units sets the amount to test to 0, and `onFulfill` adds a tenth of a
   maximum of 1, which is 0: no stream sends again
   (`ilp-protocol-stream/README.md:188` says it always attempts to).

## Not modelled

Codecs, crypto, receipts, the validation of JSON and URLs, and logging: pure functions
or I/O, without state that steps interleave on. Of `connection.ts`: the search for the
exchange rate (`determineExchangeRate` and its test packets), what a server sends on its
own, `sendTotal`/`receiveTotal`, and the stream-id limits of both sides together, which
is why the hazard at `connection.ts:1163` has no lower bound.
The properties leave out four cases of their hazards in which the code does fail, each
said in the hazard's note: underflows of large subtrahends (`long.ts:80`), several money
frames for one stream (`connection.ts:728`), a writer with the larger buffer
(`connection.ts:927`) and overlapping payout connections (`PayoutConnection.ts:198`). A T00 after a failed
`sendData` (`pay/src/request.ts:93`) is taken as the packet's fate: nothing in the code
tells a failed send from a lost answer.

## What could come next

1. The exchange-rate search of `connection.ts` (`determineExchangeRate`), and what a
   server sends on its own.
2. `sendTotal` and `receiveTotal`, whose promises settle on events of a stream.
3. The packet codecs, as operators with a round trip, beginning with the stream frames
   that `ConnectionReceive` and `ConnectionSend` take as records.
