-------------------------- MODULE ConnectionReceive -------------------------
(***************************************************************************)
(* The receiving side of a STREAM connection: Connection.handlePrepare of  *)
(* packages/ilp-protocol-stream/src/connection.ts and the incoming money   *)
(* of DataAndMoneyStream (stream.ts), on the server's side: the peer's     *)
(* streams have odd ids, and those this side creates even ones.            *)
(*                                                                         *)
(* handlePrepare is async: it runs in segments between its awaits, and the *)
(* handlers of several prepares, the application's calls and the streams'  *)
(* close events interleave there.  A segment is an action:                 *)
(*    ReceivePrepare  after decryption: new streams, control frames        *)
(*    HoldPrepare     after the fulfillment was generated: checks, hold    *)
(*    FulfillPrepare, DeclinePrepare   after the application's callback    *)
(* Without a callback (or for an amount of 0) the last two run as one.     *)
(*                                                                         *)
(* Left out: data frames and byte offsets, and the frames of the response, *)
(* which this side does not read back.                                     *)
(***************************************************************************)
EXTENDS LongArithmetic, Totals, Sequences, FiniteSets

CONSTANTS
    StreamIds,              \* the stream ids the two sides use
    Packets,                \* the packets the peer may send
    ReceiveMaxima,          \* the limits the application may set
    MaxRemoteStreams,       \* maxRemoteStreams, 10 by default
    RemoteMaxStreamId,      \* the most the peer lets remoteMaxStreamId be, 20 at first
    AllowableReceiveExtra,  \* allowableReceiveExtra, 1.01 in the code
    MaxPrepares             \* bound: prepares per connection

MoneyFrame == [streamId : StreamIds, shares : Long]

\* A decrypted prepare: closes are the streams of its StreamClose frames, which
\* carry an error if it aborts, and it is fulfillable when its condition matches
\* the generated fulfillment.
Packet ==
    [amount : Long, prepareAmount : Long, money : Seq(MoneyFrame),
     closes : SUBSET StreamIds, aborts : BOOLEAN, fulfillable : BOOLEAN]

ASSUME ReceiveAssumption ==
    /\ StreamIds \subseteq Nat \ {0}
    /\ Packets \subseteq Packet
    /\ ReceiveMaxima \subseteq Long
    /\ MaxRemoteStreams \in Nat \ {0}
    /\ RemoteMaxStreamId \in Nat
    /\ AllowableReceiveExtra \in Rational
    /\ MaxPrepares \in Nat

VARIABLES
    streams,         \* per id, its DataAndMoneyStream and where its record is
    maxStreamId,
    _totalReceived, _incomingHold,
    shouldFulfill,   \* whether the application gave a shouldFulfill callback
    destroyed,       \* destroy() was called
    prepares         \* every prepare, with where its handler is

vars == <<streams, maxStreamId, _totalReceived, _incomingHold, shouldFulfill,
          destroyed, prepares>>

\* "closed" streams still have their record in Connection.streams; "removed" ones
\* have it in closedStreams.
StreamStatus == {"unknown", "open", "closed", "removed"}

Stream ==
    [status : StreamStatus, totalReceived : Long, receiveMax : Long,
     remoteSentEnd : BOOLEAN]

Answers == {"fulfilled", "rejected", "overflowed"}

Prepare == [packet : Packet, status : {"received", "held"} \cup Answers]

Init ==
    /\ streams = [id \in StreamIds |->
                     [status |-> "unknown", totalReceived |-> 0, receiveMax |-> 0,
                      remoteSentEnd |-> FALSE]]
    /\ maxStreamId = 2 * MaxRemoteStreams
    /\ _totalReceived = 0
    /\ _incomingHold = 0
    /\ shouldFulfill \in BOOLEAN
    /\ destroyed = FALSE
    /\ prepares = <<>>

-----------------------------------------------------------------------------
(* The first segment: new streams and control frames *)

\* handlePrepare refuses frames of closed streams, and handleNewStream ids that
\* are not the client's or too large.
refusesFrame(id) ==
    \/ streams[id].status = "removed"
    \/ streams[id].status = "unknown" /\ (id % 2 = 0 \/ id > maxStreamId)

\* Frames are handled in order up to the first one refused.
handledFrames(packet) ==
    {i \in DOMAIN packet.money :
        \A j \in 1 .. i : ~refusesFrame(packet.money[j].streamId)}

openedBy(packet) == {packet.money[i].streamId : i \in handledFrames(packet)}

\* handleStreamClose: the peer ended a stream it had not ended yet.
endedBy(packet, current) ==
    {id \in packet.closes : current[id].status = "open" /\ ~current[id].remoteSentEnd}

withStatus(stream, status) == [stream EXCEPT !.status = status]

opened(packet) ==
    [id \in StreamIds |->
        IF id \in openedBy(packet) /\ streams[id].status = "unknown"
        THEN withStatus(streams[id], "open")
        ELSE streams[id]]

\* Mutant: the end is not recorded, so that a repeated StreamClose counts again.
MutantRemoteEnded(stream, aborts) ==
    [stream EXCEPT !.status = IF aborts THEN "closed" ELSE @]

\* _remoteEnded destroys the stream at once if the peer reports an error, and
\* otherwise ends it, which Node completes later (CloseStream).
_remoteEnded(stream, aborts) ==
    [stream EXCEPT !.remoteSentEnd = TRUE, !.status = IF aborts THEN "closed" ELSE @]

ReceivePrepare(packet) ==
    LET refused == handledFrames(packet) # DOMAIN packet.money
        ended == IF refused THEN {} ELSE endedBy(packet, opened(packet))
    IN  /\ Len(prepares) < MaxPrepares
        /\ streams' = [id \in StreamIds |->
                          IF id \in ended
                          THEN _remoteEnded(opened(packet)[id], packet.aborts)
                          ELSE opened(packet)[id]]
        /\ maxStreamId' = maxStreamId + 2 * Cardinality(ended)
        /\ prepares' = Append(prepares,
               [packet |-> packet,
                status |-> IF refused \/ packet.prepareAmount > packet.amount
                           THEN "rejected" ELSE "received"])
        /\ UNCHANGED <<_totalReceived, _incomingHold, shouldFulfill, destroyed>>

-----------------------------------------------------------------------------
(* The second segment: the amounts each stream receives *)

sharesOf(packet) == [i \in 1 .. Len(packet.money) |-> packet.money[i].shares]

shareSum(packet) == Total(sharesOf(packet), Len(packet.money))

\* A total of 0 makes multiplyDivideFloor throw; a total that overflows throws.
validShares(packet) == shareSum(packet) \in IF packet.money = <<>> THEN {0} ELSE Long \ {0}

streamAmount(packet, i) ==
    multiplyDivideFloor(packet.amount, packet.money[i].shares, shareSum(packet))

_getAmountStreamCanReceive(stream) ==
    IF stream.receiveMax < stream.totalReceived
    THEN 0
    ELSE checkedSubtract(stream.receiveMax, stream.totalReceived).difference

maxStreamCanReceive(stream) ==
    multiplyByLongCeil(AllowableReceiveExtra, _getAmountStreamCanReceive(stream))

\* Mutant: the limit is compared with the packet's minimum instead of its share.
MutantAccepts(packet) ==
    /\ packet.fulfillable
    /\ validShares(packet)
    /\ \A i \in DOMAIN packet.money :
          LET stream == streams[packet.money[i].streamId]
          IN  /\ stream.status = "open"
              /\ packet.prepareAmount <= maxStreamCanReceive(stream)

\* Mutant: a stream that is closing still takes money.
MutantAcceptsClosed(packet) ==
    /\ packet.fulfillable
    /\ validShares(packet)
    /\ \A i \in DOMAIN packet.money :
          LET stream == streams[packet.money[i].streamId]
          IN  /\ stream.status \in {"open", "closed"}
              /\ streamAmount(packet, i) <= maxStreamCanReceive(stream)

\* The packet is rejected unless every stream it pays is known, open and below
\* its limit.
acceptsPacket(packet) ==
    /\ packet.fulfillable
    /\ validShares(packet)
    /\ \A i \in DOMAIN packet.money :
          LET stream == streams[packet.money[i].streamId]
          IN  /\ stream.status = "open"
              /\ streamAmount(packet, i) <= maxStreamCanReceive(stream)

\* Mutant: the total already received is left out of the overflow test.
MutantAddIncomingHold(value) == checkedAdd(_incomingHold, value)

\* Mutant: the new hold replaces those of the packets that are waiting.
MutantReplacesHold(value) == checkedAdd(_totalReceived, value)

\* Mutant: the overflow is not looked at.
MutantUncheckedHold(value) ==
    [sum |-> _totalReceived + _incomingHold + value, overflow |-> FALSE]

addIncomingHold(value) ==
    checkedAdd(checkedAdd(_totalReceived, _incomingHold).sum, value)

removeIncomingHold(hold, value) == checkedSubtract(hold, value).difference

-----------------------------------------------------------------------------
(* The last segment: crediting the streams *)

Answer(i, status) == prepares' = [prepares EXCEPT ![i].status = status]

\* The amounts of the frames of a stream, of which a packet may have several, and
\* what adding them one by one to a total comes to.
amountsFor(packet, id) ==
    [i \in 1 .. Len(packet.money) |->
        IF packet.money[i].streamId = id THEN streamAmount(packet, i) ELSE 0]

credited(packet, id) ==
    minLong(Total(amountsFor(packet, id), Len(packet.money)), MAX_UNSIGNED_VALUE)

_addToIncoming(stream, amount) ==
    [stream EXCEPT !.totalReceived = checkedAdd(@, amount).sum]

\* Mutant: only streams that are still open are credited.
MutantCredit(packet) ==
    streams' = [id \in StreamIds |->
        IF streams[id].status = "open"
        THEN _addToIncoming(streams[id], credited(packet, id))
        ELSE streams[id]]

\* On the streams the packet was checked for: the handler keeps
\* them, whatever became of their records since.
Credit(packet) ==
    streams' = [id \in StreamIds |-> _addToIncoming(streams[id], credited(packet, id))]

\* The streams are credited, the hold is removed, and the total grows.
Fulfill(i, hold) ==
    LET packet == prepares[i].packet
    IN  /\ Credit(packet)
        /\ _incomingHold' = removeIncomingHold(hold, packet.amount)
        /\ _totalReceived' = checkedAdd(_totalReceived, packet.amount).sum
        /\ Answer(i, "fulfilled")
        /\ UNCHANGED <<maxStreamId, shouldFulfill, destroyed>>

\* destroy() closes every stream it has.
Destroy ==
    /\ destroyed' = TRUE
    /\ streams' = [id \in StreamIds |->
                      IF streams[id].status = "open"
                      THEN withStatus(streams[id], "closed")
                      ELSE streams[id]]

RejectPrepare(i) ==
    /\ prepares[i].status = "received"
    /\ ~acceptsPacket(prepares[i].packet)
    /\ Answer(i, "rejected")
    /\ UNCHANGED <<streams, maxStreamId, _totalReceived, _incomingHold, shouldFulfill,
                   destroyed>>

OverflowPrepare(i) ==
    /\ prepares[i].status = "received"
    /\ acceptsPacket(prepares[i].packet)
    /\ addIncomingHold(prepares[i].packet.amount).overflow
    /\ Destroy
    /\ Answer(i, "overflowed")
    /\ UNCHANGED <<maxStreamId, _totalReceived, _incomingHold, shouldFulfill>>

HoldPrepare(i) ==
    LET amount == prepares[i].packet.amount
    IN  /\ prepares[i].status = "received"
        /\ acceptsPacket(prepares[i].packet)
        /\ ~addIncomingHold(amount).overflow
        /\ IF shouldFulfill /\ amount > 0
           THEN /\ _incomingHold' = addIncomingHold(amount).sum
                /\ Answer(i, "held")
                /\ UNCHANGED <<streams, maxStreamId, _totalReceived, shouldFulfill,
                               destroyed>>
           ELSE Fulfill(i, addIncomingHold(amount).sum)

\* The application's callback resolves, or it rejects.
FulfillPrepare(i) ==
    /\ prepares[i].status = "held"
    /\ Fulfill(i, _incomingHold)

DeclinePrepare(i) ==
    /\ prepares[i].status = "held"
    /\ _incomingHold' = removeIncomingHold(_incomingHold, prepares[i].packet.amount)
    /\ Answer(i, "rejected")
    /\ UNCHANGED <<streams, maxStreamId, _totalReceived, shouldFulfill, destroyed>>

-----------------------------------------------------------------------------
(* The application and the streams *)

\* nextStreamId: the ids of this side, the server's, are even and taken in order.
isNextStreamId(id) ==
    /\ id % 2 = 0
    /\ streams[id].status = "unknown"
    /\ \A other \in StreamIds :
          other % 2 = 0 /\ other < id => streams[other].status # "unknown"

\* It throws once the peer's limit is reached.
createStream(id) ==
    /\ isNextStreamId(id)
    /\ id <= RemoteMaxStreamId
    /\ streams' = [streams EXCEPT ![id] = withStatus(@, "open")]
    /\ UNCHANGED <<maxStreamId, _totalReceived, _incomingHold, shouldFulfill, destroyed,
                   prepares>>

limitedTo(stream, limit) == [stream EXCEPT !.receiveMax = limit]

setReceiveMax(id, limit) ==
    /\ streams[id].status = "open"
    /\ limit >= streams[id].totalReceived
    /\ limit >= streams[id].receiveMax
    /\ streams' = [streams EXCEPT ![id] = limitedTo(@, limit)]
    /\ UNCHANGED <<maxStreamId, _totalReceived, _incomingHold, shouldFulfill, destroyed,
                   prepares>>

\* The application ends or destroys the stream, or Node does after the peer's end.
CloseStream(id) ==
    /\ streams[id].status = "open"
    /\ streams' = [streams EXCEPT ![id] = withStatus(@, "closed")]
    /\ UNCHANGED <<maxStreamId, _totalReceived, _incomingHold, shouldFulfill, destroyed,
                   prepares>>

\* The stream's 'close' event.
removeStreamRecord(id) ==
    /\ streams[id].status = "closed"
    /\ streams' = [streams EXCEPT ![id] = withStatus(@, "removed")]
    /\ UNCHANGED <<maxStreamId, _totalReceived, _incomingHold, shouldFulfill, destroyed,
                   prepares>>

Next ==
    \/ \E packet \in Packets : ReceivePrepare(packet)
    \/ \E i \in DOMAIN prepares :
          \/ RejectPrepare(i)
          \/ OverflowPrepare(i)
          \/ HoldPrepare(i)
          \/ FulfillPrepare(i)
          \/ DeclinePrepare(i)
    \/ \E id \in StreamIds :
          \/ createStream(id)
          \/ \E limit \in ReceiveMaxima : setReceiveMax(id, limit)
          \/ CloseStream(id)
          \/ removeStreamRecord(id)

Spec == Init /\ [][Next]_vars

-----------------------------------------------------------------------------
(* Properties *)

\* Type invariant of the receiving side.
TypeOK ==
    /\ streams \in [StreamIds -> Stream]
    /\ maxStreamId \in Nat
    /\ _totalReceived \in Long
    /\ _incomingHold \in Long
    /\ shouldFulfill \in BOOLEAN
    /\ destroyed \in BOOLEAN
    /\ prepares \in Seq(Prepare)

Held == {i \in DOMAIN prepares : prepares[i].status = "held"}

\* The amounts of the prepares ps that were fulfilled, and a stream's shares in them.
FulfilledAmounts(ps) ==
    [i \in 1 .. Len(ps) |-> IF ps[i].status = "fulfilled" THEN ps[i].packet.amount ELSE 0]

FulfilledCredits(ps, id) ==
    [i \in 1 .. Len(ps) |->
        IF ps[i].status = "fulfilled" THEN credited(ps[i].packet, id) ELSE 0]

\* The amounts of the frames of a packet.
paidOut(packet) == [i \in 1 .. Len(packet.money) |-> streamAmount(packet, i)]

\* "As long as this is called after `addIncomingHold` for the same amount, this
\* should never underflow" (connection.ts:2101): the hold covers every packet
\* whose handler is waiting, whatever was fulfilled or declined meanwhile.
HoldNeverUnderflows == \A i \in Held : prepares[i].packet.amount <= _incomingHold

\* "...this should never overflow" (connection.ts:2107): the total can take every
\* packet that is held.
TotalNeverOverflows ==
    \A i \in Held : _totalReceived + prepares[i].packet.amount <= MAX_UNSIGNED_VALUE

\* Money is neither made nor lost (connection.ts:774-779, 841-842): the connection's
\* total is that of the packets it fulfilled, every stream's total is that of its
\* shares in them, and the shares of a packet fall short of its amount by less
\* than a unit per frame.
MoneyConserved ==
    /\ _totalReceived = Total(FulfilledAmounts(prepares), Len(prepares))
    /\ \A id \in StreamIds :
          streams[id].totalReceived = Total(FulfilledCredits(prepares, id), Len(prepares))
    /\ \A i \in DOMAIN prepares :
          LET packet == prepares[i].packet
              frames == Len(packet.money)
          IN  prepares[i].status = "fulfilled" /\ frames > 0 =>
                  Total(paidOut(packet), frames) \in packet.amount - frames + 1 .. packet.amount

\* A stream's limit, with the extra the code allows for exchange-rate rounding.
receiveLimit(stream) == multiplyByLongCeil(AllowableReceiveExtra, stream.receiveMax)

\* "calling `setReceiveMax(100)` twice will only let the stream receive 100 units"
\* (stream.ts:194), up to the extra of connection.ts:728.
ReceiveMaxEnforced ==
    \A id \in StreamIds : streams[id].totalReceived <= receiveLimit(streams[id])

\* A packet has at most one StreamMoney frame for the stream.
paysOnce(packet, id) ==
    \A j, k \in DOMAIN packet.money :
       packet.money[j].streamId = id /\ packet.money[k].streamId = id => j = k

paidOncePerPacket(id) ==
    \A i \in DOMAIN prepares :
       prepares[i].status = "fulfilled" => paysOnce(prepares[i].packet, id)

\* The limit of a stream is enforced whenever the check and the credit run in one
\* segment, across any sequence of packets, raised limits and closed streams, as
\* long as each packet pays the stream with one frame, which is how this library's
\* sender builds them.  handlePrepare compares every frame alone with what the
\* stream can receive (connection.ts:728), so a packet with several frames for one
\* stream takes it over its limit; whatever such packets do to other streams, the
\* limits of those still hold.
ReceiveMaxEnforcedAtOnce ==
    ~shouldFulfill =>
        \A id \in StreamIds :
           paidOncePerPacket(id) => streams[id].totalReceived <= receiveLimit(streams[id])

\* What is decided stays decided: an answer, a closed stream, a limit; and without
\* a callback "Reject the packet if any of the streams is already closed"
\* (connection.ts:748) means that a closed stream's total is final.
Settled ==
    /\ \A i \in DOMAIN prepares :
          prepares[i].status \in Answers => prepares'[i] = prepares[i]
    /\ \A id \in StreamIds :
          /\ streams'[id].receiveMax >= streams[id].receiveMax
          /\ streams'[id].totalReceived >= streams[id].totalReceived
          /\ streams[id].status \in {"closed", "removed"} =>
                 /\ streams'[id].status \in {streams[id].status, "removed"}
                 /\ ~shouldFulfill =>
                        streams'[id].totalReceived = streams[id].totalReceived

NothingReopened == [][Settled]_vars

\* The streams of the peer that it has open, and those of this side that it ended.
openRemoteStreams ==
    {id \in StreamIds : /\ id % 2 # 0
                        /\ streams[id].status = "open"
                        /\ ~streams[id].remoteSentEnd}

ownStreamsEnded == {id \in StreamIds : id % 2 = 0 /\ streams[id].remoteSentEnd}

\* "Maximum number of streams the other entity can have open at once"
\* (connection.ts:75): a peer that ends a stream may open one more, however often
\* it repeats its StreamClose frames.  handleStreamClose raises maxStreamId for a
\* stream this side created as well (connection.ts:1163), and by no more than that
\* can the peer exceed the maximum.
OpenStreamsBounded ==
    Cardinality(openRemoteStreams) <= MaxRemoteStreams + Cardinality(ownStreamsEnded)

\* "closes the connection if totalReceived exceeds MaxUint64"
\* (test/connection.spec.ts:1343): the connection is destroyed for that reason only
\* if all the packets it ever got add up to more than a Long.
OverflowIsReal ==
    LET amounts == [i \in 1 .. Len(prepares) |-> prepares[i].packet.amount]
    IN  destroyed => Total(amounts, Len(prepares)) > MAX_UNSIGNED_VALUE

=============================================================================
