--------------------------- MODULE ConnectionSend ---------------------------
(***************************************************************************)
(* The sending side of a STREAM connection and its lifecycle, on the       *)
(* client's side: the send loop of packages/ilp-protocol-stream/src/       *)
(* connection.ts, the outgoing money of DataAndMoneyStream (stream.ts),    *)
(* end() and destroy().                                                    *)
(*                                                                         *)
(* There is at most one loop and one packet in flight.  The loop runs in   *)
(* segments between its awaits; the application's calls, the peer's frames *)
(* and the streams' events run between them.  The variable at says which   *)
(* await the loop is in:                                                   *)
(*    loading    loadAndSendPacket waits for the next tick                 *)
(*    inFlight   sendPacket waits for the plugin                           *)
(*    decoding   a reject was undone and its data is decrypted             *)
(*    backoff    handleConnectorError waits before the next packet         *)
(*    stopped    there is no loop (looping is false)                       *)
(*                                                                         *)
(* The model starts when connect() has resolved: the rate is known and the *)
(* peer knows this side's account.  Left out: data frames, streams the     *)
(* peer opens, and the limits on stream ids, which createStream stays      *)
(* below.  The application opens no stream once it called end() or         *)
(* destroy(); a second end() joins the first.                              *)
(***************************************************************************)
EXTENDS CongestionController, Totals

CONSTANTS
    MaxStreams,     \* bound: streams the application creates
    ExchangeRates,  \* the rates connect() may have found...
    PathMaxima,     \* ...and the packet maxima
    SendMaxima,     \* the limits the application may set
    Deliveries,     \* the amounts the receiver may say it got
    Frames,         \* the control frames the peer may send
    F08Metadata,    \* the amounts an F08 may report, or undefined
    PacketLimit,    \* the packets a connection may send, 2^31 in the code
    MaxFrames       \* bound: frames the peer sends on its own account

\* The streams, numbered in the order they are created: a client's ids are odd.
StreamIds == 1 .. MaxStreams

\* A frame of a type that changes nothing here stands for all of these.
Frame ==
    [type : {"other", "StreamMaxMoney", "StreamClose", "ConnectionClose"},
     streamId : StreamIds, receiveMax : Long, totalReceived : Long, error : BOOLEAN]

ASSUME SendAssumption ==
    /\ MaxStreams \in Nat
    /\ ExchangeRates \subseteq {r \in Rational : r.a > 0}
    /\ PathMaxima \subseteq Long \ {0}
    /\ SendMaxima \subseteq Long
    /\ Deliveries \subseteq Long
    /\ Frames \subseteq Frame
    /\ F08Metadata \subseteq [received : Long, maximum : Long] \cup {undefined}
    /\ PacketLimit \in Nat
    /\ MaxFrames \in Nat

VARIABLES
    streams,                    \* per id, its DataAndMoneyStream
    _totalSent, _totalDelivered,
    exchangeRate, congestion,
    queuedFrames,               \* ids of StreamClose frames; 0 is another frame
    sending, at,                \* the send loop
    packet,                     \* the packet loadAndSendPacket waits for
    nextPacketSequence,
    remoteState, closed,
    startPending,               \* a startSendLoop is queued with setImmediate
    endPhase, destroyPhase,     \* where end() and destroy() are
    framesReceived,
    paid, granted, ended        \* history: see below

loopVars == <<sending, at, endPhase>>
totalVars == <<_totalSent, _totalDelivered>>
packetVars == <<packet, nextPacketSequence>>
\* paid is what packets took from each stream for good, granted the greatest
\* limit the application ever set, ended the streams whose StreamClose arrived.
historyVars == <<paid, granted, ended>>
vars == <<streams, totalVars, exchangeRate, congestion, queuedFrames, loopVars, packetVars,
          remoteState, closed, startPending, destroyPhase, framesReceived, historyVars>>

\* An "ending" stream waits in _final for its money, a "closed" one for its close
\* event, a "removed" one has no record any more.
StreamStatus == {"none", "open", "ending", "closed", "removed"}

Stream ==
    [status : StreamStatus, sendMax : Long, totalSent : Long, heldAmount : Long,
     remoteReceived : Long, remoteReceiveMax : Long,
     sentEnd : BOOLEAN, remoteSentEnd : BOOLEAN]

NewStream ==
    [status |-> "none", sendMax |-> 0, totalSent |-> 0, heldAmount |-> 0,
     remoteReceived |-> 0, remoteReceiveMax |-> MAX_UNSIGNED_VALUE,
     sentEnd |-> FALSE, remoteSentEnd |-> FALSE]

NoPacket == [amounts |-> [id \in StreamIds |-> 0], closes |-> {}]

Init ==
    /\ streams = [id \in StreamIds |-> NewStream]
    /\ _totalSent = 0
    /\ _totalDelivered = 0
    /\ exchangeRate \in ExchangeRates
    /\ \E amount \in PathMaxima : congestion = setMaximumAmounts(amount)
    /\ queuedFrames = {}
    /\ sending = TRUE
    /\ at = "loading"
    /\ packet = NoPacket
    /\ nextPacketSequence = 1
    /\ remoteState = "Init"
    /\ closed = FALSE
    /\ startPending = FALSE
    /\ endPhase = "none"
    /\ destroyPhase = "none"
    /\ framesReceived = 0
    /\ paid = [id \in StreamIds |-> 0]
    /\ granted = [id \in StreamIds |-> 0]
    /\ ended = {}

\* stopTimers() was called.
done == endPhase = "done" \/ destroyPhase = "done"

isOpen(s) == s.status \in {"open", "ending"}

hasRecord(s) == s.status \in {"open", "ending", "closed"}

-----------------------------------------------------------------------------
(* Starting and ending: these run within the handlers below *)

\* The event '_send_loop_finished' of the connection.
loopFinished(phase) == IF phase = "draining" THEN "streams" ELSE phase

\* Mutant: a running loop is not told to look again.
MutantStartSendLoop(starts, sends, remote, phase) ==
    /\ endPhase' = IF starts /\ at = "stopped" /\ remote = "Closed"
                   THEN loopFinished(phase) ELSE phase
    /\ IF starts /\ at = "stopped" /\ remote # "Closed"
       THEN at' = "loading" /\ sending' = TRUE
       ELSE at' = at /\ sending' = sends

\* startSendLoop, called by a handler if starts holds; the other arguments are
\* the values the handler has reached.
StartSendLoop(starts, sends, remote, phase) ==
    /\ endPhase' = IF starts /\ at = "stopped" /\ remote = "Closed"
                   THEN loopFinished(phase) ELSE phase
    /\ IF starts /\ (at # "stopped" \/ remote # "Closed")
       THEN at' = (IF at = "stopped" THEN "loading" ELSE at) /\ sending' = TRUE
       ELSE at' = at /\ sending' = sends

\* '_send_loop_finished' of a stream.
finishStream(s) == IF s.status = "ending" THEN [s EXCEPT !.status = "closed"] ELSE s

\* The loop looks at sending after a packet: it loads the next one, or it stops
\* and tells the connection and the streams that wait in _final.
Continue(current, sends, phase) ==
    /\ sending' = sends
    /\ IF sends
       THEN /\ at' = "loading"
            /\ streams' = current
            /\ endPhase' = phase
       ELSE /\ at' = "stopped"
            /\ streams' = [id \in StreamIds |-> finishStream(current[id])]
            /\ endPhase' = loopFinished(phase)

\* Node calls _final once end() was called; it waits for money still to be sent.
endStream(s) ==
    IF s.status # "open" THEN s
    ELSE [s EXCEPT !.status = IF s.remoteSentEnd \/ s.sendMax <= s.totalSent
                              THEN "closed" ELSE "ending"]

endAll(current) == [id \in StreamIds |-> endStream(current[id])]

\* Mutant: a stream that is ending is left to end.
MutantDestroyStream(s) == IF s.status = "open" THEN [s EXCEPT !.status = "closed"] ELSE s

destroyStream(s) == IF isOpen(s) THEN [s EXCEPT !.status = "closed"] ELSE s

destroyAll(current) ==
    IF done THEN current ELSE [id \in StreamIds |-> destroyStream(current[id])]

Destroying == destroyPhase' = IF done \/ destroyPhase # "none" THEN destroyPhase ELSE "closing"

\* destroy() emits an error, which end() fails with while it waits for the loop.
erred(phase) == IF ~done /\ phase = "draining" THEN "failed" ELSE phase

\* The loop throws.
Fail(current, phase) ==
    /\ streams' = destroyAll(current)
    /\ Destroying
    /\ endPhase' = erred(phase)
    /\ at' = "stopped"
    /\ sending' = sending

-----------------------------------------------------------------------------
(* loadAndSendPacket *)

_getAmountAvailableToSend(s) ==
    IF isOpen(s)
    THEN checkedSubtract(checkedSubtract(s.sendMax, s.totalSent).difference,
                         s.heldAmount).difference
    ELSE 0

amountReceivable(s) ==
    multiplyByLongCeil(reciprocal(exchangeRate),
                       checkedSubtract(s.remoteReceiveMax, s.remoteReceived).difference)

eligible(id) == hasRecord(streams[id]) /\ ~streams[id].sentEnd

wanted(id) ==
    IF eligible(id)
    THEN minLong(_getAmountAvailableToSend(streams[id]), amountReceivable(streams[id]))
    ELSE 0

maxPacketAmount ==
    IF exchangeRate.a > exchangeRate.b
    THEN minLong(congestion.testMaximum,
                 multiplyByLong(reciprocal(exchangeRate), MAX_UNSIGNED_VALUE))
    ELSE congestion.testMaximum

\* The streams are served in the order of their ids, each with what the ones
\* before it leave of the packet.
wantedBefore(id) == Total([j \in StreamIds |-> wanted(j)], id - 1)

amountFrom(id) ==
    IF wantedBefore(id) < maxPacketAmount
    THEN minLong(wanted(id), maxPacketAmount - wantedBefore(id))
    ELSE 0

amountOf(amounts) == Total(amounts, MaxStreams)

\* The peer is told that it blocks a stream, until the packet is full.
blocked(id) ==
    /\ eligible(id)
    /\ \/ wantedBefore(id) < maxPacketAmount
       \/ \A j \in StreamIds : j < id => ~eligible(j)
    /\ LET s == streams[id]
       IN  multiplyByLong(exchangeRate, wrap(s.sendMax - s.totalSent - amountFrom(id)))
               > checkedSubtract(s.remoteReceiveMax, s.remoteReceived).difference

\* StreamMaxMoney frames of the open streams, the queued frames, a ConnectionClose.
hasFrames ==
    \/ queuedFrames # {}
    \/ \E id \in StreamIds : isOpen(streams[id]) \/ blocked(id)
    \/ closed /\ remoteState = "Connected"

TooManyPackets ==
    /\ at = "loading"
    /\ nextPacketSequence >= PacketLimit
    /\ nextPacketSequence' = nextPacketSequence + 1
    /\ Fail(streams, endPhase)
    /\ UNCHANGED <<totalVars, exchangeRate, congestion, queuedFrames, packet, remoteState,
                   closed, startPending, framesReceived, historyVars>>

\* An empty packet is not sent.
NothingToSend ==
    /\ at = "loading"
    /\ nextPacketSequence < PacketLimit
    /\ ~hasFrames
    /\ nextPacketSequence' = nextPacketSequence + 1
    /\ Continue(streams, FALSE, endPhase)
    /\ UNCHANGED <<totalVars, exchangeRate, congestion, queuedFrames, packet, remoteState,
                   closed, startPending, destroyPhase, framesReceived, historyVars>>

\* _holdOutgoing
holdOutgoing(s, amount) == [s EXCEPT !.heldAmount = wrap(@ + amount)]

\* The money is held and the packet goes out, perhaps with frames only.  The loop
\* goes on if it carries money or closes a stream.
SendPacket ==
    LET amounts == [id \in StreamIds |-> amountFrom(id)]
        closes == queuedFrames \ {0}
    IN  /\ at = "loading"
        /\ nextPacketSequence < PacketLimit
        /\ hasFrames
        /\ nextPacketSequence' = nextPacketSequence + 1
        /\ packet' = [amounts |-> amounts, closes |-> closes]
        /\ queuedFrames' = {}
        /\ streams' = [id \in StreamIds |->
                          holdOutgoing(streams[id], amounts[id])]
        /\ remoteState' = IF closed /\ remoteState = "Connected" THEN "Closed" ELSE remoteState
        /\ sending' = (sending /\ (amountOf(amounts) > 0 \/ closes # {}))
        /\ at' = "inFlight"
        /\ UNCHANGED <<totalVars, exchangeRate, congestion, closed, startPending, endPhase,
                       destroyPhase, framesReceived, historyVars>>

-----------------------------------------------------------------------------
(* Control frames *)

\* StreamMaxMoney: the peer's limits only grow, once the first was learnt.
updateMaxMoney(s, frame) ==
    [s EXCEPT !.remoteReceived = maxLong(@, frame.totalReceived),
              !.remoteReceiveMax = IF @ = MAX_UNSIGNED_VALUE THEN frame.receiveMax
                                   ELSE maxLong(@, frame.receiveMax)]

\* handleStreamClose
endsStream(s, frame) == frame.type = "StreamClose" /\ isOpen(s) /\ ~s.remoteSentEnd

remoteEnded(s, frame) ==
    LET told == [s EXCEPT !.sentEnd = TRUE, !.remoteSentEnd = TRUE]
    IN  IF frame.error THEN destroyStream(told) ELSE endStream(told)

frameStream(s, frame) ==
    IF frame.type = "StreamMaxMoney" /\ hasRecord(s) THEN updateMaxMoney(s, frame)
    ELSE IF endsStream(s, frame) THEN remoteEnded(s, frame)
    ELSE s

closesConnection(frame) == frame.type = "ConnectionClose"

afterFrame(frame) ==
    IF closesConnection(frame)
    THEN IF frame.error THEN destroyAll(streams) ELSE endAll(streams)
    ELSE [streams EXCEPT ![frame.streamId] = frameStream(@, frame)]

\* Whether the handler of the frame calls startSendLoop, for a ConnectionClose
\* in end().
startsLoop(frame) ==
    LET s == afterFrame(frame)[frame.streamId]
    IN  \/ /\ frame.type = "StreamMaxMoney" /\ hasRecord(s)
           /\ s.remoteReceiveMax > s.remoteReceived
           /\ _getAmountAvailableToSend(s) > 0
        \/ endsStream(streams[frame.streamId], frame)
        \/ closesConnection(frame) /\ ~frame.error

sendingAfter(frame) == sending /\ ~closesConnection(frame)

endPhaseAfter(frame) ==
    IF ~closesConnection(frame) THEN endPhase
    ELSE IF frame.error THEN erred(endPhase)
    ELSE IF endPhase = "none" THEN "draining" ELSE endPhase

\* What handleControlFrames does besides the streams and the loop.
ControlFrame(frame, remote) ==
    /\ closed' = (closed \/ closesConnection(frame))
    /\ remoteState' = IF closesConnection(frame) THEN "Closed" ELSE remote
    /\ IF closesConnection(frame) /\ frame.error THEN Destroying ELSE UNCHANGED destroyPhase

\* A ConnectionMaxStreamId frame answers a StreamClose.
framesQueuedBy(frame) ==
    IF endsStream(streams[frame.streamId], frame) THEN {0} ELSE {}

-----------------------------------------------------------------------------
(* The answers to a packet *)

\* Any response the peer encrypted shows that it is there.
answeredState == IF remoteState = "Init" THEN "Connected" ELSE remoteState

\* _cancelHold
cancelHold(s, amount) == [s EXCEPT !.heldAmount = wrap(@ - amount)]

\* Mutant: the hold of a stream that was closed meanwhile is skipped.
MutantExecuteHold(s, amount) ==
    IF isOpen(s)
    THEN [s EXCEPT !.heldAmount = wrap(@ - amount), !.totalSent = wrap(@ + amount)]
    ELSE s

\* _executeHold: a stream that waits in _final is told when all its money is sent.
executeHold(s, amount) ==
    LET total == wrap(s.totalSent + amount)
        status == IF s.status = "ending" /\ total >= s.sendMax THEN "closed" ELSE s.status
    IN  IF amount = 0 THEN s
        ELSE [cancelHold(s, amount) EXCEPT !.totalSent = total, !.status = status]

\* Mutant: the total is not checked.
MutantAddTotal(total, value) == [sum |-> total + value, overflow |-> FALSE]

\* addTotalSent, addTotalDelivered
addTotal(total, value) == checkedAdd(total, value)

Paid == paid' = [id \in StreamIds |-> paid[id] + packet.amounts[id]]

\* A fulfill of the receiver: its frames first, then the holds and the totals.  A
\* total that overflows ends the connection.
ReceiveFulfill(delivered, frame) ==
    LET current == [id \in StreamIds |->
                       executeHold(afterFrame(frame)[id], packet.amounts[id])]
        sum == addTotal(_totalDelivered, delivered)
        sent == addTotal(_totalSent, amountOf(packet.amounts))
        sends == startsLoop(frame) \/ sendingAfter(frame)
    IN  /\ at = "inFlight"
        /\ packet' = NoPacket
        /\ Paid
        /\ ended' = ended \cup packet.closes
        /\ queuedFrames' = queuedFrames \cup framesQueuedBy(frame)
        /\ _totalDelivered' = IF sum.overflow THEN _totalDelivered ELSE sum.sum
        /\ _totalSent' = IF sum.overflow \/ sent.overflow THEN _totalSent ELSE sent.sum
        /\ IF sum.overflow \/ sent.overflow
           THEN /\ Fail(current, endPhaseAfter(frame))
                /\ closed' = (closed \/ closesConnection(frame))
                /\ remoteState' = IF closesConnection(frame) THEN "Closed" ELSE answeredState
                /\ UNCHANGED congestion
           ELSE /\ Continue(current, sends, endPhaseAfter(frame))
                /\ ControlFrame(frame, answeredState)
                /\ congestion' = onFulfill(congestion, amountOf(packet.amounts))
        /\ UNCHANGED <<exchangeRate, nextPacketSequence, startPending, framesReceived, granted>>

\* Mutant: a fulfill without data is undone like a reject.
MutantFulfillWithoutData ==
    /\ at = "inFlight"
    /\ packet' = NoPacket
    /\ Paid
    /\ ended' = ended \cup packet.closes
    /\ Continue([id \in StreamIds |->
                    cancelHold(streams[id], packet.amounts[id])],
                sending, endPhase)
    /\ UNCHANGED <<totalVars, exchangeRate, congestion, queuedFrames, nextPacketSequence, remoteState,
                   closed, startPending, destroyPhase, framesReceived, granted>>

\* A fulfill without data: the holds stay.
FulfillWithoutData ==
    /\ at = "inFlight"
    /\ packet' = NoPacket
    /\ Paid
    /\ ended' = ended \cup packet.closes
    /\ Continue(streams, sending, endPhase)
    /\ UNCHANGED <<totalVars, exchangeRate, congestion, queuedFrames, nextPacketSequence, remoteState,
                   closed, startPending, destroyPhase, framesReceived, granted>>

\* The plugin throws, the fulfillment is wrong or the data is not the receiver's:
\* sendPacket throws.  The packet may have been fulfilled.
SendFails ==
    /\ at = "inFlight"
    /\ packet' = NoPacket
    /\ Paid \/ UNCHANGED paid
    /\ Fail(streams, endPhase)
    /\ UNCHANGED <<totalVars, exchangeRate, congestion, queuedFrames, nextPacketSequence, remoteState,
                   closed, startPending, framesReceived, granted, ended>>

\* Mutant: the hold of a stream that was closed meanwhile stays.
MutantUndone ==
    [id \in StreamIds |->
        IF isOpen(streams[id])
        THEN cancelHold(streams[id], packet.amounts[id])
        ELSE streams[id]]

\* Mutant: the StreamClose frames of a rejected packet are forgotten.
MutantRequeued == queuedFrames

\* undoRejectedPacket: _cancelHold on the streams that still have a record, and
\* StreamClose frames are queued again.
undone ==
    [id \in StreamIds |->
        IF hasRecord(streams[id])
        THEN cancelHold(streams[id], packet.amounts[id])
        ELSE streams[id]]

requeued == queuedFrames \cup packet.closes

\* The receiver's reject (F99); its frames are handled once they are decrypted.
RejectByReceiver ==
    /\ at = "inFlight"
    /\ packet' = NoPacket
    /\ streams' = undone
    /\ queuedFrames' = requeued
    /\ at' = "decoding"
    /\ UNCHANGED <<totalVars, exchangeRate, congestion, sending, nextPacketSequence, remoteState,
                   closed, startPending, endPhase, destroyPhase, framesReceived, historyVars>>

\* The data decrypts, is empty, or is not the receiver's.
HandleReject(frame) ==
    /\ at = "decoding"
    /\ Continue(afterFrame(frame), startsLoop(frame) \/ sendingAfter(frame),
                endPhaseAfter(frame))
    /\ ControlFrame(frame, answeredState)
    /\ queuedFrames' = queuedFrames \cup framesQueuedBy(frame)
    /\ UNCHANGED <<totalVars, exchangeRate, congestion, packetVars, startPending,
                   framesReceived, historyVars>>

RejectWithoutData ==
    /\ at = "decoding"
    /\ Continue(streams, sending, endPhase)
    /\ UNCHANGED <<totalVars, exchangeRate, congestion, queuedFrames, packetVars, remoteState,
                   closed, startPending, destroyPhase, framesReceived, historyVars>>

UnreadableReject ==
    /\ at = "decoding"
    /\ Fail(streams, endPhase)
    /\ UNCHANGED <<totalVars, exchangeRate, congestion, queuedFrames, packetVars, remoteState,
                   closed, startPending, framesReceived, historyVars>>

\* handleConnectorError: an F08 adapts the packet size, or nothing can be sent.
\* No connector finds a packet of 0 too large, or lacks the liquidity for it.
AmountTooLarge(metadata) ==
    LET lowered == onAmountTooLargeError(congestion, metadata, amountOf(packet.amounts))
    IN  /\ at = "inFlight"
        /\ packet' = NoPacket
        /\ amountOf(packet.amounts) > 0
        /\ congestion' = lowered
        /\ queuedFrames' = requeued
        /\ IF maximumPacketAmount(lowered) = 0
           THEN Fail(undone, endPhase)
           ELSE Continue(undone, sending, endPhase) /\ UNCHANGED destroyPhase
        /\ UNCHANGED <<totalVars, exchangeRate, nextPacketSequence, remoteState, closed, startPending,
                       framesReceived, historyVars>>

\* A temporary error is retried after a delay.
TemporaryError(insufficientLiquidity) ==
    /\ at = "inFlight"
    /\ packet' = NoPacket
    /\ insufficientLiquidity => amountOf(packet.amounts) > 0
    /\ streams' = undone
    /\ queuedFrames' = requeued
    /\ congestion' = IF insufficientLiquidity
                     THEN onInsufficientLiquidityError(congestion, amountOf(packet.amounts))
                     ELSE congestion
    /\ at' = "backoff"
    /\ UNCHANGED <<totalVars, exchangeRate, sending, nextPacketSequence, remoteState, closed,
                   startPending, endPhase, destroyPhase, framesReceived, historyVars>>

Retry ==
    /\ at = "backoff"
    /\ Continue(streams, sending, endPhase)
    /\ UNCHANGED <<totalVars, exchangeRate, congestion, queuedFrames, packetVars, remoteState,
                   closed, startPending, destroyPhase, framesReceived, historyVars>>

\* Any other error ends the connection.
FinalError ==
    /\ at = "inFlight"
    /\ packet' = NoPacket
    /\ queuedFrames' = requeued
    /\ Fail(undone, endPhase)
    /\ UNCHANGED <<totalVars, exchangeRate, congestion, nextPacketSequence, remoteState, closed,
                   startPending, framesReceived, historyVars>>

-----------------------------------------------------------------------------
(* The peer's packets, the application and the streams' events *)

\* handlePrepare handles the frames of a packet of the peer.
ReceiveFrame(frame) ==
    /\ ~done
    /\ framesReceived < MaxFrames
    /\ framesReceived' = framesReceived + 1
    /\ ControlFrame(frame, remoteState)
    /\ streams' = afterFrame(frame)
    /\ queuedFrames' = queuedFrames \cup framesQueuedBy(frame)
    /\ StartSendLoop(startsLoop(frame), sendingAfter(frame), remoteState',
                     endPhaseAfter(frame))
    /\ UNCHANGED <<totalVars, exchangeRate, congestion, packetVars, startPending, historyVars>>

opened(s) == [s EXCEPT !.status = "open"]

createStream(id) ==
    /\ endPhase = "none" /\ destroyPhase = "none"
    /\ streams[id].status = "none"
    /\ \A j \in StreamIds : j < id => streams[j].status # "none"
    /\ streams' = [streams EXCEPT ![id] = opened(@)]
    /\ UNCHANGED <<totalVars, exchangeRate, congestion, queuedFrames, loopVars, packetVars,
                   remoteState, closed, startPending, destroyPhase, framesReceived,
                   historyVars>>

limitedTo(s, limit) == [s EXCEPT !.sendMax = limit]

setSendMax(id, limit) ==
    /\ isOpen(streams[id])
    /\ streams[id].totalSent <= limit
    /\ streams' = [streams EXCEPT ![id] = limitedTo(@, limit)]
    /\ granted' = [granted EXCEPT ![id] = maxLong(@, limit)]
    /\ StartSendLoop(TRUE, sending, remoteState, endPhase)
    /\ UNCHANGED <<totalVars, exchangeRate, congestion, queuedFrames, packetVars, remoteState,
                   closed, startPending, destroyPhase, framesReceived, paid, ended>>

\* stream.end() and stream.destroy()
CloseStream(id, after) ==
    /\ isOpen(streams[id])
    /\ streams' = [streams EXCEPT ![id] = after]
    /\ UNCHANGED <<totalVars, exchangeRate, congestion, queuedFrames, loopVars, packetVars,
                   remoteState, closed, startPending, destroyPhase, framesReceived,
                   historyVars>>

removed(s) == [s EXCEPT !.status = "removed", !.sentEnd = TRUE]

\* The stream's close event.
removeStreamRecord(id) ==
    /\ streams[id].status = "closed"
    /\ streams' = [streams EXCEPT ![id] = removed(@)]
    /\ IF streams[id].sentEnd
       THEN UNCHANGED <<queuedFrames, startPending>>
       ELSE queuedFrames' = queuedFrames \cup {id} /\ startPending' = TRUE
    /\ UNCHANGED <<totalVars, exchangeRate, congestion, loopVars, packetVars, remoteState,
                   closed, destroyPhase, framesReceived, historyVars>>

StartLater ==
    /\ startPending
    /\ startPending' = FALSE
    /\ StartSendLoop(TRUE, sending, remoteState, endPhase)
    /\ UNCHANGED <<streams, totalVars, exchangeRate, congestion, queuedFrames, packetVars,
                   remoteState, closed, destroyPhase, framesReceived, historyVars>>

\* end(): the streams are ended, then it waits for the loop...
end ==
    /\ endPhase = "none" /\ destroyPhase = "none"
    /\ streams' = endAll(streams)
    /\ StartSendLoop(TRUE, sending, remoteState, "draining")
    /\ UNCHANGED <<totalVars, exchangeRate, congestion, queuedFrames, packetVars, remoteState,
                   closed, startPending, destroyPhase, framesReceived, historyVars>>

\* sendConnectionClose takes a sequence number unless the peer has closed.
CloseRemote ==
    /\ remoteState' = "Closed"
    /\ nextPacketSequence' = nextPacketSequence + IF remoteState = "Closed" THEN 0 ELSE 1

noStreams == \A id \in StreamIds : streams[id].status \in {"none", "removed"}

\* ...for the streams, and for the packet with the ConnectionClose frame.
EndStreams ==
    /\ endPhase = "streams"
    /\ noStreams
    /\ endPhase' = "closing"
    /\ closed' = TRUE
    /\ UNCHANGED <<streams, totalVars, exchangeRate, congestion, queuedFrames, sending, at,
                   packetVars, remoteState, startPending, destroyPhase, framesReceived,
                   historyVars>>

EndCompletes ==
    /\ endPhase = "closing"
    /\ endPhase' = "done"
    /\ CloseRemote
    /\ UNCHANGED <<streams, totalVars, exchangeRate, congestion, queuedFrames, sending, at,
                   packet, closed, startPending, destroyPhase, framesReceived,
                   historyVars>>

\* destroy(), called by the application or by the idle timer.
destroy(err) ==
    /\ ~done /\ destroyPhase = "none"
    /\ streams' = destroyAll(streams)
    /\ Destroying
    /\ endPhase' = IF err THEN erred(endPhase) ELSE endPhase
    /\ UNCHANGED <<totalVars, exchangeRate, congestion, queuedFrames, sending, at, packetVars,
                   remoteState, closed, startPending, framesReceived, historyVars>>

\* Mutant: end() stops the timer when it is called.
MutantTestIdle == endPhase = "none" /\ destroy(TRUE)

testIdle == destroy(TRUE)

\* destroy() has sent its ConnectionClose frame.
DestroyClosed ==
    /\ destroyPhase = "closing"
    /\ destroyPhase' = "streams"
    /\ CloseRemote
    /\ UNCHANGED <<streams, totalVars, exchangeRate, congestion, queuedFrames, loopVars,
                   packet, closed, startPending, framesReceived, historyVars>>

DestroyCompletes ==
    /\ destroyPhase = "streams"
    /\ noStreams
    /\ destroyPhase' = "done"
    /\ UNCHANGED <<streams, totalVars, exchangeRate, congestion, queuedFrames, loopVars,
                   packetVars, remoteState, closed, startPending, framesReceived,
                   historyVars>>

-----------------------------------------------------------------------------
loadAndSendPacket == TooManyPackets \/ NothingToSend \/ SendPacket

ReceiveResponse ==
    \/ \E frame \in Frames :
          \/ \E delivered \in Deliveries : ReceiveFulfill(delivered, frame)
          \/ HandleReject(frame)
    \/ FulfillWithoutData
    \/ SendFails
    \/ RejectByReceiver
    \/ RejectWithoutData
    \/ UnreadableReject
    \/ \E metadata \in F08Metadata : AmountTooLarge(metadata)
    \/ \E insufficientLiquidity \in BOOLEAN : TemporaryError(insufficientLiquidity)
    \/ FinalError

CloseEvents ==
    \/ \E id \in StreamIds : removeStreamRecord(id)
    \/ StartLater

Closing == EndStreams \/ EndCompletes \/ DestroyClosed \/ DestroyCompletes

Application ==
    \/ \E id \in StreamIds :
          \/ createStream(id)
          \/ \E limit \in SendMaxima : setSendMax(id, limit)
          \/ CloseStream(id, endStream(streams[id]))
          \/ CloseStream(id, destroyStream(streams[id]))
    \/ end
    \/ destroy(FALSE)

\* The connection has emitted its close event.
Finished == done /\ UNCHANGED vars

Next ==
    \/ loadAndSendPacket
    \/ ReceiveResponse
    \/ Retry
    \/ CloseEvents
    \/ Closing
    \/ testIdle
    \/ \E frame \in Frames : ReceiveFrame(frame)
    \/ Application
    \/ Finished

Spec == Init /\ [][Next]_vars

\* Every await of the loop ends: the event loop runs queued tasks, the plugin
\* answers or fails, data is decrypted, a delay passes.  This is weak fairness of
\* loadAndSendPacket, ReceiveResponse and Retry, stated by the awaits, as each can
\* be left at any time and by these steps alone.  Close events are emitted, end()
\* and destroy() go on, and a connection whose loop stays stopped becomes idle.
Fairness ==
    /\ \A await \in {"loading", "inFlight", "decoding", "backoff"} : []<>(at # await)
    /\ WF_vars(CloseEvents)
    /\ WF_vars(Closing)
    /\ WF_vars(at = "stopped" /\ testIdle)

FairSpec == Spec /\ Fairness

-----------------------------------------------------------------------------
(* Properties *)

Amounts == [StreamIds -> Long]

\* Type invariant of the sending side.
TypeOK ==
    /\ streams \in [StreamIds -> Stream]
    /\ _totalSent \in Long
    /\ _totalDelivered \in Long
    /\ exchangeRate \in Rational
    /\ congestion \in Congestion
    /\ queuedFrames \subseteq StreamIds \cup {0}
    /\ sending \in BOOLEAN
    /\ at \in {"stopped", "loading", "inFlight", "decoding", "backoff"}
    /\ packet \in [amounts : Amounts, closes : SUBSET StreamIds]
    /\ nextPacketSequence \in Nat
    /\ remoteState \in {"Init", "Connected", "Closed"}
    /\ closed \in BOOLEAN
    /\ startPending \in BOOLEAN
    /\ endPhase \in {"none", "draining", "streams", "closing", "done", "failed"}
    /\ destroyPhase \in {"none", "closing", "streams", "done"}
    /\ framesReceived \in Nat
    /\ paid \in [StreamIds -> Nat]
    /\ granted \in Amounts
    /\ ended \subseteq StreamIds

\* "calling `setSendMax(100)` twice will only send 100 units" (stream.ts:164), also
\* when a fulfill comes without data or the plugin fails after the packet went
\* out: whatever packets may have taken from a stream is within the greatest
\* limit it ever had.
NeverPaysTwice ==
    \A id \in StreamIds :
        /\ paid[id] <= streams[id].totalSent + streams[id].heldAmount
        /\ streams[id].totalSent + streams[id].heldAmount <= granted[id]

\* What a stream holds is in the packet in flight, or was paid by a packet whose
\* answer did not say so (connection.ts:1884): every other answer executes or
\* cancels exactly the hold its packet took, whatever the streams did meanwhile.
HoldLedger ==
    \A id \in StreamIds :
        hasRecord(streams[id]) /\ destroyPhase = "none" =>
            streams[id].totalSent + streams[id].heldAmount =
                paid[id] + IF at = "inFlight" THEN packet.amounts[id] ELSE 0

\* The connection's total is the sum of its streams' (connection.ts:1454-1460),
\* unless it was destroyed because the total overflowed.
TotalConserved ==
    LET sum == Total([id \in StreamIds |-> streams[id].totalSent], MaxStreams)
    IN  _totalSent <= sum /\ (destroyPhase = "none" => _totalSent = sum)

\* "ensuring whatever changes triggered this `startSendLoop` call are sent"
\* (connection.ts:1178): when there is no loop and none is due, nothing waits to be
\* sent, in whatever order limits, frames and answers came.
NoLostWakeup ==
    at = "stopped" /\ ~startPending /\ destroyPhase = "none" /\ remoteState # "Closed" =>
        queuedFrames = {} /\ \A id \in StreamIds : amountFrom(id) = 0

\* The StreamClose of a stream that this side closed is queued, on its way or has
\* arrived: rejects requeue it (connection.ts:1946) however often it takes.
CloseFrameNotLost ==
    \A id \in StreamIds :
        streams[id].status = "removed" /\ ~streams[id].remoteSentEnd
            /\ destroyPhase = "none" /\ ~done =>
                \/ id \in queuedFrames \cup ended
                \/ at = "inFlight" /\ id \in packet.closes

\* "should close the connection immediately and not allow money or data to be
\* transmitted" (test/connection.spec.ts:459): no packet after destroy() has money.
NoMoneyOnceDestroyed ==
    [][destroyPhase # "none" /\ packet' # packet => amountOf(packet'.amounts) = 0]_vars

\* destroy() without an error has finished, and the loop that end() waits for
\* (connection.ts:385) failed later: destroy(err) returns early (connection.ts:415),
\* so neither '_send_loop_finished' nor 'error' is emitted.
abandoned == endPhase = "draining" /\ destroyPhase = "done" /\ at = "stopped"

\* "Close the connection when all streams have finished sending their money and
\* data" (connection.ts:366): the promise of end() settles, whether the peer answers,
\* blocks the streams, rejects or closes first and whether destroy() is called
\* meanwhile, unless a loop that fails after destroy() abandons it.
EndSettles == (endPhase # "none") ~> (endPhase \in {"done", "failed"} \/ abandoned)

\* "The stream will always attempt to send up to its defined max, but ultimately
\* will only send as much as the receiver is willing to receive"
\* (ilp-protocol-stream/README.md:188): the loop does not stop while a path that
\* takes packets could carry more for a receiver that takes more.
KeepsSending ==
    at = "stopped" /\ ~startPending /\ destroyPhase = "none" /\ remoteState # "Closed"
        /\ maximumPacketAmount(congestion) > 0 =>
            \A id \in StreamIds : wanted(id) = 0

=============================================================================
