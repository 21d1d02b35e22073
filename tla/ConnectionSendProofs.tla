------------------------ MODULE ConnectionSendProofs ------------------------
(***************************************************************************)
(* Proofs about the sending side of a connection, for every word width,    *)
(* number of streams, rate, limit and answer, and every interleaving of    *)
(* the loop, the peer's frames, the streams' events and the application.   *)
(***************************************************************************)
EXTENDS ConnectionSend, LongArithmeticProofs, PrefixSums, TLAPS

-----------------------------------------------------------------------------
(* A stream: what the handlers do to its record *)

\* A stream only moves on from "open" over "ending" to "closed", and what either side
\* said about its end stays said; it is created and removed by other steps.
Later(s, t) ==
    /\ t.status = "none" <=> s.status = "none"
    /\ t.status = "removed" <=> s.status = "removed"
    /\ t.status = "open" => s.status = "open"
    /\ isOpen(t) => isOpen(s)
    /\ s.remoteSentEnd => t.remoteSentEnd
    /\ (s.sentEnd => s.remoteSentEnd) => (t.sentEnd => t.remoteSentEnd)

\* ...and nothing is sent, held or allowed.
Keeps(s, t) ==
    /\ t.sendMax = s.sendMax /\ t.totalSent = s.totalSent /\ t.heldAmount = s.heldAmount
    /\ Later(s, t)

\* Both relations are reflexive.
LEMMA KeepsItself ==
  ASSUME NEW s
  PROVE  Later(s, s) /\ Keeps(s, s)
BY DEF Later, Keeps

\* Both relations are transitive.
LEMMA KeepsOn ==
  ASSUME NEW s, NEW t, NEW u
  PROVE  /\ Later(s, t) /\ Later(t, u) => Later(s, u)
         /\ Keeps(s, t) /\ Keeps(t, u) => Keeps(s, u)
BY DEF Later, Keeps

\* A record with another status.
LEMMA StatusChanged ==
  ASSUME NEW s \in Stream, NEW status \in StreamStatus, NEW t, t = [s EXCEPT !.status = status]
  PROVE  /\ t \in Stream
         /\ t.status = status /\ t.sendMax = s.sendMax
         /\ t.totalSent = s.totalSent /\ t.heldAmount = s.heldAmount
         /\ t.sentEnd = s.sentEnd /\ t.remoteSentEnd = s.remoteSentEnd
         /\ t.remoteReceived = s.remoteReceived /\ t.remoteReceiveMax = s.remoteReceiveMax
BY DEF Stream

\* The end of the loop closes a stream that was ending, and touches no money.
LEMMA FinishKeeps ==
  ASSUME NEW s \in Stream
  PROVE  /\ finishStream(s) \in Stream /\ Keeps(s, finishStream(s))
         /\ finishStream(s).status # "ending"
<1>1. CASE s.status = "ending"
  <2>1. finishStream(s) = [s EXCEPT !.status = "closed"]
    BY <1>1 DEF finishStream
  <2>2. "closed" \in StreamStatus
    BY DEF StreamStatus
  <2>. HIDE DEF finishStream
  <2>. QED  BY <1>1, <2>1, <2>2, StatusChanged DEF Keeps, Later, isOpen
<1>2. CASE s.status # "ending"
  BY <1>2, KeepsItself DEF finishStream
<1>. QED  BY <1>1, <1>2

\* end() leaves no stream open and touches no money.
LEMMA EndKeeps ==
  ASSUME NEW s \in Stream
  PROVE  endStream(s) \in Stream /\ Keeps(s, endStream(s)) /\ endStream(s).status # "open"
<1>. DEFINE status == IF s.remoteSentEnd \/ s.sendMax <= s.totalSent THEN "closed" ELSE "ending"
<1>1. CASE s.status = "open"
  <2>1. endStream(s) = [s EXCEPT !.status = status]
    BY <1>1 DEF endStream
  <2>2. status \in StreamStatus /\ status \in {"closed", "ending"}
    BY DEF StreamStatus
  <2>. HIDE DEF status
  <2>. QED  BY <1>1, <2>1, <2>2, StatusChanged DEF Keeps, Later, isOpen
<1>2. CASE s.status # "open"
  BY <1>2, KeepsItself DEF endStream
<1>. QED  BY <1>1, <1>2

\* destroy() leaves no stream open or ending and touches no money.
LEMMA DestroyKeeps ==
  ASSUME NEW s \in Stream
  PROVE  destroyStream(s) \in Stream /\ Keeps(s, destroyStream(s)) /\ ~isOpen(destroyStream(s))
<1>1. CASE isOpen(s)
  <2>1. destroyStream(s) = [s EXCEPT !.status = "closed"]
    BY <1>1 DEF destroyStream
  <2>2. "closed" \in StreamStatus
    BY DEF StreamStatus
  <2>. QED  BY <1>1, <2>1, <2>2, StatusChanged DEF Keeps, Later, isOpen
<1>2. CASE ~isOpen(s)
  BY <1>2, KeepsItself DEF destroyStream
<1>. QED  BY <1>1, <1>2

\* A StreamMaxMoney frame changes what the peer takes and nothing else.
LEMMA MaxMoneyKeeps ==
  ASSUME NEW s \in Stream, NEW frame \in Frame
  PROVE  updateMaxMoney(s, frame) \in Stream /\ Keeps(s, updateMaxMoney(s, frame))
<1>. DEFINE got == maxLong(s.remoteReceived, frame.totalReceived)
            max == IF s.remoteReceiveMax = MAX_UNSIGNED_VALUE THEN frame.receiveMax
                   ELSE maxLong(s.remoteReceiveMax, frame.receiveMax)
            t == updateMaxMoney(s, frame)
<1>1. /\ s.remoteReceived \in Long /\ s.remoteReceiveMax \in Long
      /\ frame.totalReceived \in Long /\ frame.receiveMax \in Long
  BY DEF Stream, Frame
<1>2. got \in Long /\ max \in Long
  BY <1>1 DEF maxLong
<1>3. t = [s EXCEPT !.remoteReceived = got, !.remoteReceiveMax = max]
  BY DEF updateMaxMoney
<1>. HIDE DEF got, max
<1>4. /\ t \in Stream /\ t.status = s.status /\ t.sendMax = s.sendMax
      /\ t.totalSent = s.totalSent /\ t.heldAmount = s.heldAmount
      /\ t.sentEnd = s.sentEnd /\ t.remoteSentEnd = s.remoteSentEnd
  <2>. HIDE DEF t
  <2>. QED  BY <1>2, <1>3 DEF Stream
<1>. QED  BY <1>4, Zenon DEF Keeps, Later, isOpen

\* A StreamClose frame ends the stream on both sides and touches no money.
LEMMA RemoteEndedKeeps ==
  ASSUME NEW s \in Stream, NEW frame \in Frame
  PROVE  remoteEnded(s, frame) \in Stream /\ Keeps(s, remoteEnded(s, frame))
<1>. DEFINE told == [s EXCEPT !.sentEnd = TRUE, !.remoteSentEnd = TRUE]
<1>1. /\ told \in Stream /\ told.status = s.status /\ told.sendMax = s.sendMax
      /\ told.totalSent = s.totalSent /\ told.heldAmount = s.heldAmount
      /\ told.sentEnd = TRUE /\ told.remoteSentEnd = TRUE
  BY DEF Stream
<1>2. Keeps(s, told)
  BY <1>1, Zenon DEF Keeps, Later, isOpen
<1>3. remoteEnded(s, frame) = IF frame.error THEN destroyStream(told) ELSE endStream(told)
  BY DEF remoteEnded
<1>. HIDE DEF told
<1>. QED  BY <1>1, <1>2, <1>3, EndKeeps, DestroyKeeps, KeepsOn

\* No frame of the peer touches the money of a stream.
LEMMA FrameKeeps ==
  ASSUME NEW s \in Stream, NEW frame \in Frame
  PROVE  frameStream(s, frame) \in Stream /\ Keeps(s, frameStream(s, frame))
BY MaxMoneyKeeps, RemoteEndedKeeps, KeepsItself DEF frameStream

\* Holding, cancelling and executing.
LEMMA HoldOutgoing ==
  ASSUME NEW s \in Stream, NEW amount \in Long
  PROVE  /\ holdOutgoing(s, amount) \in Stream /\ Later(s, holdOutgoing(s, amount))
         /\ holdOutgoing(s, amount).status = s.status
         /\ holdOutgoing(s, amount).sendMax = s.sendMax
         /\ holdOutgoing(s, amount).totalSent = s.totalSent
         /\ holdOutgoing(s, amount).heldAmount = wrap(s.heldAmount + amount)
<1>. DEFINE held == wrap(s.heldAmount + amount)
            t == holdOutgoing(s, amount)
<1>1. held \in Long
  BY WrapType, WordAssumption DEF Stream, Long
<1>2. t = [s EXCEPT !.heldAmount = held]
  BY DEF holdOutgoing
<1>. HIDE DEF held
<1>3. /\ t \in Stream /\ t.status = s.status /\ t.sendMax = s.sendMax
      /\ t.totalSent = s.totalSent /\ t.heldAmount = held
      /\ t.sentEnd = s.sentEnd /\ t.remoteSentEnd = s.remoteSentEnd
  BY <1>1, <1>2 DEF Stream
<1>4. Later(s, t)
  BY <1>3, Zenon DEF Later, isOpen
<1>. QED  BY <1>3, <1>4 DEF held

\* A cancelled hold lowers what is held and nothing else.
LEMMA CancelHold ==
  ASSUME NEW s \in Stream, NEW amount \in Long
  PROVE  /\ cancelHold(s, amount) \in Stream /\ Later(s, cancelHold(s, amount))
         /\ cancelHold(s, amount).status = s.status
         /\ cancelHold(s, amount).sendMax = s.sendMax
         /\ cancelHold(s, amount).totalSent = s.totalSent
         /\ cancelHold(s, amount).heldAmount = wrap(s.heldAmount - amount)
<1>. DEFINE held == wrap(s.heldAmount - amount)
            t == cancelHold(s, amount)
<1>1. held \in Long
  BY WrapType, WordAssumption DEF Stream, Long
<1>2. t = [s EXCEPT !.heldAmount = held]
  BY DEF cancelHold
<1>. HIDE DEF held
<1>3. /\ t \in Stream /\ t.status = s.status /\ t.sendMax = s.sendMax
      /\ t.totalSent = s.totalSent /\ t.heldAmount = held
      /\ t.sentEnd = s.sentEnd /\ t.remoteSentEnd = s.remoteSentEnd
  BY <1>1, <1>2 DEF Stream
<1>4. Later(s, t)
  BY <1>3, Zenon DEF Later, isOpen
<1>. QED  BY <1>3, <1>4 DEF held

\* An executed hold moves an amount from what is held to what was sent.
LEMMA ExecuteHold ==
  ASSUME NEW s \in Stream, NEW amount \in Long
  PROVE  /\ executeHold(s, amount) \in Stream /\ Later(s, executeHold(s, amount))
         /\ executeHold(s, amount).sendMax = s.sendMax
         /\ amount = 0 => executeHold(s, amount) = s
         /\ amount # 0 =>
              /\ executeHold(s, amount).totalSent = wrap(s.totalSent + amount)
              /\ executeHold(s, amount).heldAmount = wrap(s.heldAmount - amount)
<1>1. CASE amount = 0
  BY <1>1, KeepsItself DEF executeHold
<1>2. CASE amount # 0
  <2>. DEFINE total == wrap(s.totalSent + amount)
              status == IF s.status = "ending" /\ total >= s.sendMax THEN "closed" ELSE s.status
              c == cancelHold(s, amount)
              t == executeHold(s, amount)
  <2>1. total \in Long
    BY WrapType, WordAssumption DEF Stream, Long
  <2>2. /\ status \in StreamStatus
        /\ status = s.status \/ (s.status = "ending" /\ status = "closed")
    <3>1. s.status \in StreamStatus /\ "closed" \in StreamStatus
      BY DEF Stream, StreamStatus
    <3>. HIDE DEF total
    <3>2. CASE s.status = "ending" /\ total >= s.sendMax
      BY <3>1, <3>2
    <3>3. CASE ~(s.status = "ending" /\ total >= s.sendMax)
      BY <3>1, <3>3
    <3>. QED  BY <3>2, <3>3, Zenon
  <2>3. t = [c EXCEPT !.totalSent = total, !.status = status]
    BY <1>2 DEF executeHold
  <2>4. /\ c \in Stream /\ Later(s, c) /\ c.status = s.status /\ c.sendMax = s.sendMax
        /\ c.heldAmount = wrap(s.heldAmount - amount)
    BY CancelHold
  <2>. HIDE DEF total, status, c, t
  <2>5. /\ t \in Stream /\ t.status = status /\ t.sendMax = c.sendMax
        /\ t.totalSent = total /\ t.heldAmount = c.heldAmount
        /\ t.sentEnd = c.sentEnd /\ t.remoteSentEnd = c.remoteSentEnd
    BY <2>1, <2>2, <2>3, <2>4 DEF Stream
  <2>6. Later(c, t)
    <3>1. c.status = s.status
      BY <2>4
    <3>. QED  BY <2>2, <2>5, <3>1 DEF Later, isOpen
  <2>7. Later(s, t)
    BY <2>4, <2>6, KeepsOn
  <2>. QED  BY <1>2, <2>4, <2>5, <2>7 DEF total, t
<1>. QED  BY <1>1, <1>2

-----------------------------------------------------------------------------
(* All streams *)

StreamsOf == [StreamIds -> Stream]

LaterAll(current, next) == \A id \in StreamIds : Later(current[id], next[id])

KeepsAll(current, next) == \A id \in StreamIds : Keeps(current[id], next[id])

NoneOpen(current) == \A id \in StreamIds : current[id].status # "open"

AllClosed(current) == \A id \in StreamIds : ~isOpen(current[id])

\* The relations on all streams are reflexive and transitive.
LEMMA KeepsAllOn ==
  ASSUME NEW s, NEW t, NEW u
  PROVE  /\ LaterAll(s, t) /\ LaterAll(t, u) => LaterAll(s, u)
         /\ KeepsAll(s, t) /\ KeepsAll(t, u) => KeepsAll(s, u)
         /\ KeepsAll(s, s) /\ LaterAll(s, s)
         /\ KeepsAll(s, t) => LaterAll(s, t)
<1>1. \A id : Keeps(s[id], t[id]) => Later(s[id], t[id])
  BY DEF Keeps
<1>2. \A id : Later(s[id], s[id]) /\ Keeps(s[id], s[id])
  BY KeepsItself
<1>3. \A id : /\ Later(s[id], t[id]) /\ Later(t[id], u[id]) => Later(s[id], u[id])
              /\ Keeps(s[id], t[id]) /\ Keeps(t[id], u[id]) => Keeps(s[id], u[id])
  BY KeepsOn
<1>. QED  BY <1>1, <1>2, <1>3 DEF KeepsAll, LaterAll

\* Nothing opens a stream again.
LEMMA StayClosed ==
  ASSUME NEW s, NEW t, LaterAll(s, t)
  PROVE  (NoneOpen(s) => NoneOpen(t)) /\ (AllClosed(s) => AllClosed(t))
BY DEF LaterAll, Later, NoneOpen, AllClosed

\* Ending the connection leaves no stream open.
LEMMA EndAll ==
  ASSUME NEW current \in StreamsOf
  PROVE  /\ endAll(current) \in StreamsOf /\ KeepsAll(current, endAll(current))
         /\ NoneOpen(endAll(current))
<1>1. \A id \in StreamIds : endAll(current)[id] = endStream(current[id]) /\ current[id] \in Stream
  BY DEF endAll, StreamsOf
<1>2. endAll(current) = [id \in StreamIds |-> endStream(current[id])]
  BY DEF endAll
<1>. QED  BY <1>1, <1>2, EndKeeps DEF StreamsOf, KeepsAll, NoneOpen

\* Destroying a connection that is not done leaves no stream open or ending.
LEMMA DestroyAll ==
  ASSUME NEW current \in StreamsOf
  PROVE  /\ destroyAll(current) \in StreamsOf /\ KeepsAll(current, destroyAll(current))
         /\ ~done => AllClosed(destroyAll(current))
<1>1. CASE done
  BY <1>1, KeepsAllOn DEF destroyAll
<1>2. CASE ~done
  <2>1. destroyAll(current) = [id \in StreamIds |-> destroyStream(current[id])]
    BY <1>2 DEF destroyAll
  <2>2. \A id \in StreamIds :
            destroyAll(current)[id] = destroyStream(current[id]) /\ current[id] \in Stream
    BY <2>1 DEF StreamsOf
  <2>. QED  BY <2>1, <2>2, DestroyKeeps DEF StreamsOf, KeepsAll, AllClosed
<1>. QED  BY <1>1, <1>2

\* A frame touches no stream's money, and one that closes the connection ends its streams.
LEMMA AfterFrame ==
  ASSUME streams \in StreamsOf, NEW frame \in Frame
  PROVE  /\ afterFrame(frame) \in StreamsOf /\ KeepsAll(streams, afterFrame(frame))
         /\ closesConnection(frame) /\ ~frame.error => NoneOpen(afterFrame(frame))
         /\ closesConnection(frame) /\ frame.error /\ ~done => AllClosed(afterFrame(frame))
<1>1. CASE closesConnection(frame)
  BY <1>1, EndAll, DestroyAll DEF afterFrame
<1>2. CASE ~closesConnection(frame)
  <2>. DEFINE id == frame.streamId
              t == frameStream(streams[id], frame)
  <2>1. id \in StreamIds /\ streams[id] \in Stream
    BY DEF Frame, StreamsOf
  <2>2. t \in Stream /\ Keeps(streams[id], t)
    BY <2>1, FrameKeeps
  <2>3. afterFrame(frame) = [streams EXCEPT ![id] = t]
    BY <1>2, <2>1 DEF afterFrame, StreamsOf
  <2>. HIDE DEF t, id
  <2>4. afterFrame(frame) \in StreamsOf
    BY <2>1, <2>2, <2>3 DEF StreamsOf
  <2>5. \A j \in StreamIds : afterFrame(frame)[j] = IF j = id THEN t ELSE streams[j]
    BY <2>1, <2>3 DEF StreamsOf
  <2>6. KeepsAll(streams, afterFrame(frame))
    BY <2>2, <2>5, KeepsItself DEF KeepsAll
  <2>. QED  BY <1>2, <2>4, <2>6
<1>. QED  BY <1>1, <1>2

\* Undoing a rejected packet keeps the types and the order of the states of a stream.
LEMMA Undone ==
  ASSUME streams \in StreamsOf, packet.amounts \in Amounts
  PROVE  undone \in StreamsOf /\ LaterAll(streams, undone)
<1>1. ASSUME NEW id \in StreamIds
      PROVE  undone[id] \in Stream /\ Later(streams[id], undone[id])
  <2>1. undone[id] = IF hasRecord(streams[id]) THEN cancelHold(streams[id], packet.amounts[id])
                     ELSE streams[id]
    BY DEF undone
  <2>2. streams[id] \in Stream /\ packet.amounts[id] \in Long
    BY DEF StreamsOf, Amounts
  <2>. QED  BY <2>1, <2>2, CancelHold, KeepsItself
<1>2. undone = [id \in StreamIds |-> undone[id]]
  BY DEF undone
<1>. QED  BY <1>1, <1>2, Zenon DEF StreamsOf, LaterAll

\* The loop goes on or stops.
LEMMA ContinueStreams ==
  ASSUME NEW current \in StreamsOf, NEW sends, NEW phase, Continue(current, sends, phase)
  PROVE  /\ streams' \in StreamsOf /\ KeepsAll(current, streams')
         /\ ~sends /\ NoneOpen(current) => AllClosed(streams')
<1>1. CASE sends
  BY <1>1, KeepsAllOn DEF Continue
<1>2. CASE ~sends
  <2>1. streams' = [id \in StreamIds |-> finishStream(current[id])]
    BY <1>2 DEF Continue
  <2>2. \A id \in StreamIds : streams'[id] = finishStream(current[id]) /\ current[id] \in Stream
    BY <2>1 DEF StreamsOf
  <2>3. streams' \in StreamsOf /\ KeepsAll(current, streams')
    BY <2>1, <2>2, FinishKeeps DEF StreamsOf, KeepsAll
  <2>4. \A id \in StreamIds : streams'[id].status # "ending"
    BY <2>2, FinishKeeps
  <2>5. NoneOpen(current) => NoneOpen(streams')
    BY <2>3, KeepsAllOn, StayClosed
  <2>. QED  BY <2>3, <2>4, <2>5 DEF NoneOpen, AllClosed, isOpen
<1>. QED  BY <1>1, <1>2

\* The loop throws.
LEMMA FailStreams ==
  ASSUME NEW current \in StreamsOf, NEW phase, Fail(current, phase)
  PROVE  /\ streams' \in StreamsOf /\ KeepsAll(current, streams')
         /\ ~done => AllClosed(streams')
BY DestroyAll DEF Fail

-----------------------------------------------------------------------------
(* The amounts of a packet *)

\* The rate found by connect() can be inverted.
RateInv == exchangeRate \in Rational /\ exchangeRate.a # 0

\* What a stream has to send is a Long, and 0 when it is not open.
LEMMA Available ==
  ASSUME NEW s \in Stream
  PROVE  /\ _getAmountAvailableToSend(s) \in Long
         /\ ~isOpen(s) => _getAmountAvailableToSend(s) = 0
<1>1. 0 \in Long
  BY WordAssumption DEF Long
<1>2. s.sendMax \in Long /\ s.totalSent \in Long /\ s.heldAmount \in Long
  BY DEF Stream
<1>3. checkedSubtract(checkedSubtract(s.sendMax, s.totalSent).difference,
                      s.heldAmount).difference \in Long
  BY <1>2, CheckedSubtractType
<1>. QED  BY <1>1, <1>3 DEF _getAmountAvailableToSend

\* What the peer can take, at the exchange rate, is a Long.
LEMMA Receivable ==
  ASSUME RateInv, NEW s \in Stream
  PROVE  amountReceivable(s) \in Long
<1>. DEFINE left == checkedSubtract(s.remoteReceiveMax, s.remoteReceived).difference
<1>1. left \in Long
  BY CheckedSubtractType DEF Stream
<1>2. exchangeRate.a \in Long \ {0} /\ exchangeRate.b \in Long
  BY DEF RateInv, Rational
<1>3. amountReceivable(s) = multiplyDivideCeil(left, exchangeRate.b, exchangeRate.a)
  BY DEF amountReceivable, multiplyByLongCeil, reciprocal
<1>. HIDE DEF left
<1>. QED  BY <1>1, <1>2, <1>3, MultiplyDivideType

\* A packet takes no more from a stream than it has to send.
LEMMA Wanted ==
  ASSUME RateInv, streams \in StreamsOf, NEW id \in StreamIds
  PROVE  /\ wanted(id) \in Long
         /\ wanted(id) <= _getAmountAvailableToSend(streams[id])
         /\ ~isOpen(streams[id]) => wanted(id) = 0
<1>. DEFINE available == _getAmountAvailableToSend(streams[id])
            receivable == amountReceivable(streams[id])
<1>1. available \in Long /\ receivable \in Long /\ (~isOpen(streams[id]) => available = 0)
  BY Available, Receivable DEF StreamsOf
<1>2. wanted(id) = IF eligible(id) THEN IF available < receivable THEN available ELSE receivable ELSE 0
  BY DEF wanted, minLong
<1>. HIDE DEF available, receivable
<1>3. wanted(id) \in Long /\ wanted(id) <= available
  BY <1>1, <1>2, WordAssumption DEF Long
<1>. QED  BY <1>1, <1>3, WordAssumption DEF available, Long

\* The amount of a packet is bounded by a Long.
LEMMA MaxPacketAmount ==
  ASSUME RateInv, congestion \in Congestion
  PROVE  maxPacketAmount \in Long
<1>1. congestion.testMaximum \in Long
  BY DEF Congestion
<1>. DEFINE most == multiplyByLong(reciprocal(exchangeRate), MAX_UNSIGNED_VALUE)
<1>2. most \in Long
  <2>1. exchangeRate.a \in Long \ {0} /\ exchangeRate.b \in Long /\ MAX_UNSIGNED_VALUE \in Long
    BY WordAssumption DEF RateInv, Rational, Long
  <2>2. most = multiplyDivideFloor(MAX_UNSIGNED_VALUE, exchangeRate.b, exchangeRate.a)
    BY DEF multiplyByLong, reciprocal
  <2>. QED  BY <2>1, <2>2, MultiplyDivideType
<1>. HIDE DEF most
<1>. QED  BY <1>1, <1>2 DEF maxPacketAmount, most, minLong

\* The amounts of the streams of a packet, each within what its stream has available,
\* together within the packet's maximum.
LEMMA PacketAmounts ==
  ASSUME RateInv, streams \in StreamsOf, congestion \in Congestion
  PROVE  /\ [id \in StreamIds |-> amountFrom(id)] \in Amounts
         /\ amountOf([id \in StreamIds |-> amountFrom(id)]) \in Long
         /\ \A id \in StreamIds :
               /\ amountFrom(id) \in Long
               /\ amountFrom(id) <= _getAmountAvailableToSend(streams[id])
               /\ ~isOpen(streams[id]) => amountFrom(id) = 0
<1>. DEFINE v == [id \in StreamIds |-> wanted(id)]
            u == [id \in StreamIds |-> amountFrom(id)]
            max == maxPacketAmount
            n == MaxStreams
<1>1. n \in Nat /\ StreamIds = 1 .. n
  BY SendAssumption DEF StreamIds
<1>2. max \in Long /\ max \in Nat /\ max <= MAX_UNSIGNED_VALUE /\ MAX_UNSIGNED_VALUE \in Nat
  BY MaxPacketAmount, WordAssumption DEF Long
<1>3. \A id \in StreamIds : wanted(id) \in Long /\ wanted(id) \in Nat
  BY Wanted, WordAssumption DEF Long
<1>4. v \in [1 .. n -> Nat] /\ \A id \in StreamIds : v[id] = wanted(id)
  BY <1>1, <1>3
<1>5. \A id \in StreamIds : wantedBefore(id) = Total(v, id - 1)
  BY DEF wantedBefore
<1>. HIDE DEF v, n
<1>6. \A k \in 0 .. n : Total(v, k) \in Nat
  BY <1>1, <1>4, TotalPrefixes
<1>7. \A id \in StreamIds : wantedBefore(id) \in Nat
  BY <1>1, <1>5, <1>6
<1>8. ASSUME NEW id \in StreamIds
      PROVE  /\ amountFrom(id) = IF wantedBefore(id) < max
                                 THEN IF v[id] < max - wantedBefore(id) THEN v[id]
                                      ELSE max - wantedBefore(id)
                                 ELSE 0
             /\ amountFrom(id) \in Nat /\ amountFrom(id) <= wanted(id)
             /\ amountFrom(id) \in Long
  <2>1. amountFrom(id) = IF wantedBefore(id) < max
                         THEN IF v[id] < max - wantedBefore(id) THEN v[id]
                              ELSE max - wantedBefore(id)
                         ELSE 0
    BY <1>4 DEF amountFrom, minLong
  <2>2. wantedBefore(id) \in Nat /\ v[id] \in Nat /\ v[id] = wanted(id)
    BY <1>3, <1>4, <1>7
  <2>. HIDE DEF max
  <2>3. amountFrom(id) \in Nat /\ amountFrom(id) <= wanted(id)
    BY <1>2, <2>1, <2>2
  <2>4. wanted(id) \in Long
    BY <1>3
  <2>. QED  BY <2>1, <2>3, <2>4, WordAssumption DEF Long
<1>9. u \in Amounts /\ u \in [1 .. n -> Nat] /\ \A id \in StreamIds : u[id] = amountFrom(id)
  BY <1>1, <1>8 DEF Amounts
<1>. HIDE DEF u, max
<1>10. Total(u, n) <= max
  <2>1. \A k \in 1 .. n :
            u[k] = IF Total(v, k - 1) < max
                   THEN IF v[k] < max - Total(v, k - 1) THEN v[k] ELSE max - Total(v, k - 1)
                   ELSE 0
    BY <1>1, <1>5, <1>8, <1>9
  <2>. QED  BY <1>1, <1>2, <1>4, <1>9, <2>1, TotalFilled
<1>11. Total(u, n) \in Long
  BY <1>1, <1>2, <1>9, <1>10, TotalIsSum, WordAssumption DEF Long
<1>12. ASSUME NEW id \in StreamIds
       PROVE  /\ amountFrom(id) <= _getAmountAvailableToSend(streams[id])
              /\ ~isOpen(streams[id]) => amountFrom(id) = 0
  <2>1. amountFrom(id) \in Nat /\ amountFrom(id) <= wanted(id)
    BY <1>8
  <2>2. wanted(id) \in Nat /\ wanted(id) <= _getAmountAvailableToSend(streams[id])
        /\ (~isOpen(streams[id]) => wanted(id) = 0)
    BY <1>3, Wanted
  <2>3. _getAmountAvailableToSend(streams[id]) \in Nat
    BY Available, WordAssumption DEF StreamsOf, Long
  <2>. QED  BY <2>1, <2>2, <2>3
<1>. QED  BY <1>8, <1>9, <1>11, <1>12 DEF amountOf, u, n

-----------------------------------------------------------------------------
(* Types *)

EndPhases == {"none", "draining", "streams", "closing", "done", "failed"}

DestroyPhases == {"none", "closing", "streams", "done"}

\* The packet's amounts fit into a packet, and there is one only while it is in flight.
PacketInv ==
    /\ amountOf(packet.amounts) \in Long
    /\ at # "inFlight" => packet = NoPacket

BaseInv == TypeOK /\ RateInv /\ PacketInv

\* No packet in flight means no amount and no close frame.
LEMMA EmptyPacket ==
  /\ NoPacket \in [amounts : Amounts, closes : SUBSET StreamIds]
  /\ amountOf(NoPacket.amounts) = 0 /\ amountOf(NoPacket.amounts) \in Long
  /\ NoPacket.closes = {} /\ \A id \in StreamIds : NoPacket.amounts[id] = 0
<1>. DEFINE zeros == [id \in StreamIds |-> 0]
<1>1. 0 \in Long
  BY WordAssumption DEF Long
<1>2. zeros \in Amounts
  BY <1>1 DEF Amounts
<1>3. NoPacket = [amounts |-> zeros, closes |-> {}]
  BY DEF NoPacket
<1>4. MaxStreams \in Nat /\ zeros \in [1 .. MaxStreams -> Nat] /\ \A k \in 1 .. MaxStreams : zeros[k] = 0
  BY SendAssumption DEF StreamIds
<1>5. \A id \in StreamIds : zeros[id] = 0
  OBVIOUS
<1>. HIDE DEF zeros
<1>6. Total(zeros, MaxStreams) = 0
  BY <1>4, TotalZeros
<1>. QED  BY <1>1, <1>2, <1>3, <1>5, <1>6 DEF amountOf

\* The look at `sending` after a packet: where the loop and end() go.
LEMMA ContinueTypes ==
  ASSUME NEW current, NEW sends \in BOOLEAN, NEW phase \in EndPhases,
         Continue(current, sends, phase)
  PROVE  /\ sending' \in BOOLEAN /\ at' \in {"loading", "stopped"} /\ endPhase' \in EndPhases
         /\ endPhase' = phase \/ (~sends /\ phase = "draining" /\ endPhase' = "streams")
         /\ ~sends => endPhase' = loopFinished(phase)
BY DEF Continue, loopFinished, EndPhases

\* The loop's catch stops it, fails an end() that waits for it and destroys the connection.
LEMMA FailTypes ==
  ASSUME NEW current, NEW phase \in EndPhases, sending \in BOOLEAN,
         destroyPhase \in DestroyPhases, Fail(current, phase)
  PROVE  /\ sending' \in BOOLEAN /\ at' = "stopped" /\ endPhase' \in EndPhases
         /\ destroyPhase' \in DestroyPhases
         /\ endPhase' = phase \/ (phase = "draining" /\ endPhase' = "failed" /\ ~done)
         /\ destroyPhase' = destroyPhase \/ (destroyPhase = "none" /\ ~done)
         /\ destroyPhase' = "none" => done /\ destroyPhase = "none"
BY DEF Fail, Destroying, erred, EndPhases, DestroyPhases

\* startSendLoop starts a stopped loop, or completes the end() that waits for it.
LEMMA StartTypes ==
  ASSUME NEW starts \in BOOLEAN, NEW sends \in BOOLEAN, NEW remote, NEW phase \in EndPhases,
         StartSendLoop(starts, sends, remote, phase)
  PROVE  /\ sending' \in BOOLEAN /\ endPhase' \in EndPhases
         /\ at' = at \/ (at = "stopped" /\ at' = "loading" /\ remote # "Closed")
         /\ \/ endPhase' = phase
            \/ phase = "draining" /\ endPhase' = "streams" /\ at = "stopped" /\ at' = "stopped"
                 /\ remote = "Closed"
BY DEF StartSendLoop, loopFinished, EndPhases

\* What a frame does to an end() in progress.
LEMMA PhaseAfter ==
  ASSUME NEW frame, endPhase \in EndPhases
  PROVE  /\ endPhaseAfter(frame) \in EndPhases
         /\ \/ endPhaseAfter(frame) = endPhase
            \/ endPhase = "draining" /\ endPhaseAfter(frame) = "failed"
            \/ /\ endPhase = "none" /\ endPhaseAfter(frame) = "draining"
               /\ closesConnection(frame) /\ ~frame.error
BY DEF endPhaseAfter, erred, EndPhases

\* A control frame closes and destroys, and never reopens.
LEMMA ControlTypes ==
  ASSUME NEW frame, NEW remote \in {"Init", "Connected", "Closed"}, closed \in BOOLEAN,
         destroyPhase \in DestroyPhases, ControlFrame(frame, remote)
  PROVE  /\ closed' \in BOOLEAN /\ remoteState' \in {"Init", "Connected", "Closed"}
         /\ remote = "Closed" => remoteState' = "Closed"
         /\ destroyPhase' \in DestroyPhases
         /\ \/ destroyPhase' = destroyPhase
            \/ destroyPhase = "none" /\ ~done /\ closesConnection(frame) /\ frame.error
BY DEF ControlFrame, Destroying, DestroyPhases, closesConnection

\* A checked product is a Long.
LEMMA CheckedMultiplyType ==
  ASSUME NEW a \in Long, NEW b \in Long
  PROVE  checkedMultiply(a, b).product \in Long
<1>1. a * b \in Int
  BY DEF Long
<1>2. wrap(a * b) \in Long /\ MAX_UNSIGNED_VALUE \in Long
  BY <1>1, WrapType, WordAssumption DEF Long
<1>3. checkedMultiply(a, b).product \in {MAX_UNSIGNED_VALUE, wrap(a * b)}
  BY DEF checkedMultiply
<1>. QED  BY <1>2, <1>3

\* A checked sum is a Long.
LEMMA CheckedAddType ==
  ASSUME NEW a \in Long, NEW b \in Long
  PROVE  checkedAdd(a, b).sum \in Long
BY CheckedAdd, WordAssumption DEF Long

\* The congestion controller keeps Longs.
LEMMA MaximumType ==
  ASSUME NEW c \in Congestion
  PROVE  maximumPacketAmount(c) \in Long
BY CongestionAssumption DEF maximumPacketAmount, minLong, Congestion

\* A fulfill keeps the congestion maxima Longs.
LEMMA OnFulfillType ==
  ASSUME NEW c \in Congestion, NEW amount \in Long
  PROVE  onFulfill(c, amount) \in Congestion
<1>. DEFINE limit == maximumPacketAmount(c)
            part == limit \div IncreaseDivisor
            sum == checkedAdd(c.testMaximum, part).sum
            double == checkedMultiply(c.testMaximum, 2).product
            raised == IF limit # MAX_UNSIGNED_VALUE THEN minLong(sum, limit) ELSE double
<1>1. limit \in Long /\ c.testMaximum \in Long /\ c.maximum \in Long
  BY MaximumType DEF Congestion
<1>2. part \in Long
  <2>1. limit \in Nat /\ IncreaseDivisor \in Nat \ {0} /\ limit <= MAX_UNSIGNED_VALUE
    BY <1>1, CongestionAssumption, WordAssumption DEF Long
  <2>. HIDE DEF limit
  <2>2. part \in Nat /\ part * IncreaseDivisor <= limit
    BY <2>1, Division
  <2>. HIDE DEF part
  <2>3. part <= part * IncreaseDivisor /\ part * IncreaseDivisor \in Nat
    BY <2>1, <2>2
  <2>4. part <= MAX_UNSIGNED_VALUE
    BY <2>1, <2>2, <2>3, WordAssumption
  <2>. QED  BY <2>2, <2>4, WordAssumption DEF Long
<1>. HIDE DEF part
<1>3. sum \in Long
  BY <1>1, <1>2, CheckedAddType
<1>4. double \in Long
  BY <1>1, CongestionAssumption, CheckedMultiplyType
<1>. HIDE DEF sum, double
<1>5. raised \in Long
  BY <1>1, <1>3, <1>4 DEF minLong
<1>6. onFulfill(c, amount) \in {[c EXCEPT !.testMaximum = raised], c}
  BY DEF onFulfill, raised, sum, double, part, limit
<1>. HIDE DEF raised, limit
<1>7. [c EXCEPT !.testMaximum = raised] \in Congestion
  BY <1>5 DEF Congestion
<1>. QED  BY <1>6, <1>7

\* An F08 keeps the congestion maxima Longs, with and without amounts.
LEMMA AmountTooLargeType ==
  ASSUME NEW c \in Congestion, NEW amount \in Long, NEW metadata \in F08Metadata
  PROVE  onAmountTooLargeError(c, metadata, amount) \in Congestion
<1>1. CASE metadata # undefined /\ metadata.received > metadata.maximum
  <2>1. metadata.received \in Long /\ metadata.maximum \in Long
    BY <1>1, SendAssumption
  <2>2. metadata.received # 0
    BY <1>1, <2>1, WordAssumption DEF Long
  <2>3. multiplyDivideFloor(amount, metadata.maximum, metadata.received) \in Long
    BY <2>1, <2>2, MultiplyDivideType
  <2>. QED  BY <1>1, <2>3 DEF onAmountTooLargeError, setMaximumAmounts, Congestion
<1>2. CASE ~(metadata # undefined /\ metadata.received > metadata.maximum)
  <2>. DEFINE max == wrap(amount - 1)
              lowered == [c EXCEPT !.maximum = max]
              half == maximumPacketAmount(lowered) \div 2
  <2>1. max \in Long
    BY WrapType DEF Long
  <2>. HIDE DEF max
  <2>2. lowered \in Congestion
    BY <2>1 DEF Congestion
  <2>. HIDE DEF lowered
  <2>3. maximumPacketAmount(lowered) \in Long
    BY <2>2, MaximumType
  <2>4. half \in Long
    BY <2>3, WordAssumption DEF Long
  <2>5. onAmountTooLargeError(c, metadata, amount) = [lowered EXCEPT !.testMaximum = half]
    BY <1>2, Zenon DEF onAmountTooLargeError, lowered, max, half
  <2>. HIDE DEF half
  <2>. QED  BY <2>2, <2>4, <2>5 DEF Congestion
<1>. QED  BY <1>1, <1>2

\* A T04 keeps the congestion maxima Longs.
LEMMA LiquidityType ==
  ASSUME NEW c \in Congestion, NEW amount \in Long
  PROVE  onInsufficientLiquidityError(c, amount) \in Congestion
<1>. DEFINE least == minLong(amount, c.testMaximum)
            test == maxLong(2, least - least \div 3)
<1>1. least \in Long
  BY DEF minLong, Congestion
<1>. HIDE DEF least
<1>2. least - least \div 3 \in Long
  BY <1>1, WordAssumption DEF Long
<1>3. test \in Long
  BY <1>2, CongestionAssumption DEF maxLong
<1>. HIDE DEF test
<1>4. onInsufficientLiquidityError(c, amount) = [c EXCEPT !.testMaximum = test]
  BY DEF onInsufficientLiquidityError, test, least
<1>. QED  BY <1>3, <1>4 DEF Congestion

\* The frames a handler queues and the totals stay what they are.
LEMMA QueueTypes ==
  ASSUME queuedFrames \subseteq StreamIds \cup {0}, packet.closes \subseteq StreamIds
  PROVE  /\ requeued \subseteq StreamIds \cup {0}
         /\ \A frame : queuedFrames \cup framesQueuedBy(frame) \subseteq StreamIds \cup {0}
         /\ queuedFrames \ {0} \subseteq StreamIds
BY Zenon DEF requeued, framesQueuedBy

\* The flags a frame sets are Booleans.
LEMMA FlagTypes ==
  ASSUME NEW frame, sending \in BOOLEAN
  PROVE  /\ startsLoop(frame) \in BOOLEAN /\ sendingAfter(frame) \in BOOLEAN
         /\ (startsLoop(frame) \/ sendingAfter(frame)) \in BOOLEAN
BY DEF startsLoop, sendingAfter

\* The streams after a fulfill.
executed(frame) ==
    [id \in StreamIds |-> executeHold(afterFrame(frame)[id], packet.amounts[id])]

\* A fulfill with its frame keeps the types and the order of the states of a stream.
LEMMA Executed ==
  ASSUME streams \in StreamsOf, packet.amounts \in Amounts, NEW frame \in Frame
  PROVE  /\ executed(frame) \in StreamsOf /\ LaterAll(streams, executed(frame))
         /\ LaterAll(afterFrame(frame), executed(frame))
<1>1. afterFrame(frame) \in StreamsOf /\ LaterAll(streams, afterFrame(frame))
  BY AfterFrame, KeepsAllOn
<1>2. ASSUME NEW id \in StreamIds
      PROVE  executed(frame)[id] \in Stream /\ Later(afterFrame(frame)[id], executed(frame)[id])
  <2>1. executed(frame)[id] = executeHold(afterFrame(frame)[id], packet.amounts[id])
    BY DEF executed
  <2>2. afterFrame(frame)[id] \in Stream /\ packet.amounts[id] \in Long
    BY <1>1 DEF StreamsOf, Amounts
  <2>. HIDE DEF afterFrame
  <2>. QED  BY <2>1, <2>2, ExecuteHold
<1>3. executed(frame) = [id \in StreamIds |-> executed(frame)[id]]
  BY DEF executed
<1>4. executed(frame) \in StreamsOf /\ LaterAll(afterFrame(frame), executed(frame))
  BY <1>2, <1>3, Zenon DEF StreamsOf, LaterAll
<1>. QED  BY <1>1, <1>4, KeepsAllOn

\* What holds of a fulfill, with the definitions it is written in taken apart.
LEMMA FulfillStep ==
  ASSUME NEW delivered, NEW frame, ReceiveFulfill(delivered, frame)
  PROVE  /\ at = "inFlight" /\ packet' = NoPacket /\ Paid /\ ended' = ended \cup packet.closes
         /\ queuedFrames' = queuedFrames \cup framesQueuedBy(frame)
         /\ _totalDelivered' \in {_totalDelivered, checkedAdd(_totalDelivered, delivered).sum}
         /\ UNCHANGED <<exchangeRate, nextPacketSequence, startPending, framesReceived, granted>>
         /\ \/ /\ Fail(executed(frame), endPhaseAfter(frame))
               /\ closed' = (closed \/ closesConnection(frame))
               /\ remoteState' = IF closesConnection(frame) THEN "Closed" ELSE answeredState
               /\ UNCHANGED <<congestion, _totalSent>>
            \/ /\ Continue(executed(frame), startsLoop(frame) \/ sendingAfter(frame),
                           endPhaseAfter(frame))
               /\ ControlFrame(frame, answeredState)
               /\ congestion' = onFulfill(congestion, amountOf(packet.amounts))
               /\ ~checkedAdd(_totalSent, amountOf(packet.amounts)).overflow
               /\ _totalSent' = checkedAdd(_totalSent, amountOf(packet.amounts)).sum
<1>. DEFINE sum == checkedAdd(_totalDelivered, delivered)
            sent == checkedAdd(_totalSent, amountOf(packet.amounts))
<1>1. /\ at = "inFlight" /\ packet' = NoPacket /\ Paid /\ ended' = ended \cup packet.closes
      /\ queuedFrames' = queuedFrames \cup framesQueuedBy(frame)
      /\ _totalDelivered' = (IF sum.overflow THEN _totalDelivered ELSE sum.sum)
      /\ _totalSent' = (IF sum.overflow \/ sent.overflow THEN _totalSent ELSE sent.sum)
      /\ IF sum.overflow \/ sent.overflow
         THEN /\ Fail(executed(frame), endPhaseAfter(frame))
              /\ closed' = (closed \/ closesConnection(frame))
              /\ remoteState' = IF closesConnection(frame) THEN "Closed" ELSE answeredState
              /\ UNCHANGED congestion
         ELSE /\ Continue(executed(frame), startsLoop(frame) \/ sendingAfter(frame),
                          endPhaseAfter(frame))
              /\ ControlFrame(frame, answeredState)
              /\ congestion' = onFulfill(congestion, amountOf(packet.amounts))
      /\ UNCHANGED <<exchangeRate, nextPacketSequence, startPending, framesReceived, granted>>
  BY Zenon DEF ReceiveFulfill, addTotal, executed
<1>. HIDE DEF sum, sent
<1>. QED  BY <1>1, Zenon DEF sum, sent

\* The history of what was paid stays natural.
LEMMA PaidTypes ==
  ASSUME paid \in [StreamIds -> Nat], packet.amounts \in Amounts, Paid
  PROVE  paid' \in [StreamIds -> Nat]
<1>1. \A id \in StreamIds : paid[id] + packet.amounts[id] \in Nat
  BY WordAssumption DEF Amounts, Long
<1>. QED  BY <1>1 DEF Paid

\* The parts of BaseInv, in the names the lemmas use.
BaseFacts ==
    /\ streams \in StreamsOf /\ _totalSent \in Long /\ _totalDelivered \in Long
    /\ exchangeRate \in Rational /\ exchangeRate.a # 0 /\ congestion \in Congestion
    /\ queuedFrames \subseteq StreamIds \cup {0}
    /\ sending \in BOOLEAN /\ at \in {"stopped", "loading", "inFlight", "decoding", "backoff"}
    /\ packet \in [amounts : Amounts, closes : SUBSET StreamIds]
    /\ packet.amounts \in Amounts /\ packet.closes \subseteq StreamIds
    /\ amountOf(packet.amounts) \in Long /\ (at # "inFlight" => packet = NoPacket)
    /\ nextPacketSequence \in Nat /\ remoteState \in {"Init", "Connected", "Closed"}
    /\ closed \in BOOLEAN /\ startPending \in BOOLEAN
    /\ endPhase \in EndPhases /\ destroyPhase \in DestroyPhases
    /\ framesReceived \in Nat /\ paid \in [StreamIds -> Nat] /\ granted \in Amounts
    /\ ended \subseteq StreamIds

\* BaseInv, conjunct by conjunct.
LEMMA BaseParts == (BaseInv <=> BaseFacts) /\ (BaseInv' <=> BaseFacts')
BY DEF BaseInv, BaseFacts, TypeOK, RateInv, PacketInv, StreamsOf, EndPhases, DestroyPhases

\* The type invariant holds initially.
LEMMA BaseInit == Init => BaseInv
<1>. SUFFICES ASSUME Init PROVE BaseFacts
  BY BaseParts
<1>1. 0 \in Long /\ MAX_UNSIGNED_VALUE \in Long
  BY WordAssumption DEF Long
<1>2. NewStream \in Stream
  BY <1>1 DEF NewStream, Stream, StreamStatus
<1>3. streams \in StreamsOf
  BY <1>2 DEF Init, StreamsOf
<1>4. exchangeRate \in Rational /\ exchangeRate.a # 0
  BY SendAssumption, WordAssumption DEF Init, Rational, Long
<1>5. congestion \in Congestion
  BY SendAssumption DEF Init, setMaximumAmounts, Congestion
<1>6. /\ packet = NoPacket /\ packet \in [amounts : Amounts, closes : SUBSET StreamIds]
      /\ packet.amounts \in Amounts /\ packet.closes \subseteq StreamIds
      /\ amountOf(packet.amounts) \in Long
  BY EmptyPacket DEF Init
<1>7. paid \in [StreamIds -> Nat] /\ granted \in Amounts
  BY <1>1 DEF Init, Amounts
<1>. QED  BY <1>1, <1>3, <1>4, <1>5, <1>6, <1>7 DEF Init, BaseFacts, EndPhases, DestroyPhases

\* Every step keeps the types.
LEMMA BaseStep == BaseInv /\ [Next]_vars => BaseInv'
<1>. SUFFICES ASSUME BaseFacts, [Next]_vars PROVE BaseFacts'
  BY BaseParts
<1>. USE DEF BaseFacts
<1>0. RateInv
  BY DEF RateInv
<1>1. CASE TooManyPackets
  <2>1. /\ Fail(streams, endPhase) /\ nextPacketSequence' = nextPacketSequence + 1
        /\ UNCHANGED <<totalVars, exchangeRate, congestion, queuedFrames, packet, remoteState,
                       closed, startPending, framesReceived, historyVars>> /\ at = "loading"
    BY <1>1, Zenon DEF TooManyPackets
  <2>2. streams' \in StreamsOf
    BY <2>1, FailStreams
  <2>. QED  BY <2>1, <2>2, FailTypes DEF totalVars, historyVars
<1>2. CASE NothingToSend
  <2>1. /\ Continue(streams, FALSE, endPhase) /\ nextPacketSequence' = nextPacketSequence + 1
        /\ UNCHANGED <<totalVars, exchangeRate, congestion, queuedFrames, packet, remoteState,
                       closed, startPending, destroyPhase, framesReceived, historyVars>>
        /\ at = "loading"
    BY <1>2, Zenon DEF NothingToSend
  <2>2. streams' \in StreamsOf
    BY <2>1, ContinueStreams
  <2>3. FALSE \in BOOLEAN
    OBVIOUS
  <2>4. sending' \in BOOLEAN /\ at' \in {"loading", "stopped"} /\ endPhase' \in EndPhases
    BY <2>1, <2>3, ContinueTypes
  <2>. QED  BY <2>1, <2>2, <2>4 DEF totalVars, historyVars
<1>3. CASE SendPacket
  <2>. DEFINE amounts == [id \in StreamIds |-> amountFrom(id)]
  <2>1. amounts \in Amounts /\ amountOf(amounts) \in Long
    BY <1>0, PacketAmounts
  <2>. HIDE DEF amounts
  <2>2. /\ packet' = [amounts |-> amounts, closes |-> queuedFrames \ {0}]
        /\ nextPacketSequence' = nextPacketSequence + 1 /\ queuedFrames' = {}
        /\ remoteState' = (IF closed /\ remoteState = "Connected" THEN "Closed" ELSE remoteState)
        /\ sending' = (sending /\ (amountOf(amounts) > 0 \/ queuedFrames \ {0} # {}))
        /\ at' = "inFlight"
        /\ UNCHANGED <<totalVars, exchangeRate, congestion, closed, startPending, endPhase,
                       destroyPhase, framesReceived, historyVars>>
    BY <1>3, Zenon DEF SendPacket, amounts
  <2>3. streams' = [id \in StreamIds |-> holdOutgoing(streams[id], amounts[id])]
    BY <1>3 DEF SendPacket, amounts
  <2>4. streams' \in StreamsOf
    BY <2>1, <2>3, HoldOutgoing DEF StreamsOf, Amounts
  <2>5. sending' \in BOOLEAN
    BY <2>2, Zenon
  <2>6. queuedFrames \ {0} \subseteq StreamIds
    BY QueueTypes
  <2>. QED  BY <2>1, <2>2, <2>4, <2>5, <2>6 DEF totalVars, historyVars
<1>4. ASSUME NEW delivered \in Deliveries, NEW frame \in Frames, ReceiveFulfill(delivered, frame)
      PROVE  BaseFacts'
  <2>1. delivered \in Long /\ frame \in Frame
    BY SendAssumption
  <2>2. executed(frame) \in StreamsOf
    BY <2>1, Executed
  <2>3. _totalDelivered' \in Long
    BY <1>4, <2>1, FulfillStep, CheckedAddType
  <2>4. paid' \in [StreamIds -> Nat] /\ ended' \subseteq StreamIds
    BY <1>4, FulfillStep, PaidTypes
  <2>5. queuedFrames' \subseteq StreamIds \cup {0}
    BY <1>4, FulfillStep, QueueTypes
  <2>6. /\ packet' = NoPacket
        /\ UNCHANGED <<exchangeRate, nextPacketSequence, startPending, framesReceived, granted>>
    BY <1>4, FulfillStep
  <2>7. answeredState \in {"Init", "Connected", "Closed"} /\ endPhaseAfter(frame) \in EndPhases
    BY PhaseAfter DEF answeredState
  <2>8. CASE /\ Fail(executed(frame), endPhaseAfter(frame))
             /\ closed' = (closed \/ closesConnection(frame))
             /\ remoteState' = IF closesConnection(frame) THEN "Closed" ELSE answeredState
             /\ UNCHANGED <<congestion, _totalSent>>
    <3>1. streams' \in StreamsOf
      BY <2>2, <2>8, FailStreams
    <3>2. closed' \in BOOLEAN
      BY <2>8, Zenon
    <3>3. remoteState' \in {"Init", "Connected", "Closed"}
      BY <2>7, <2>8
    <3>4. /\ sending' \in BOOLEAN /\ at' = "stopped" /\ endPhase' \in EndPhases
          /\ destroyPhase' \in DestroyPhases
      BY <2>7, <2>8, FailTypes
    <3>. QED  BY <2>3, <2>4, <2>5, <2>6, <2>8, <3>1, <3>2, <3>3, <3>4, EmptyPacket
  <2>9. CASE /\ Continue(executed(frame), startsLoop(frame) \/ sendingAfter(frame),
                         endPhaseAfter(frame))
             /\ ControlFrame(frame, answeredState)
             /\ congestion' = onFulfill(congestion, amountOf(packet.amounts))
             /\ ~checkedAdd(_totalSent, amountOf(packet.amounts)).overflow
             /\ _totalSent' = checkedAdd(_totalSent, amountOf(packet.amounts)).sum
    <3>1. streams' \in StreamsOf
      BY <2>2, <2>9, ContinueStreams
    <3>2. congestion' \in Congestion /\ _totalSent' \in Long
      BY <2>9, OnFulfillType, CheckedAddType
    <3>3. /\ closed' \in BOOLEAN /\ remoteState' \in {"Init", "Connected", "Closed"}
          /\ destroyPhase' \in DestroyPhases
      BY <2>7, <2>9, ControlTypes
    <3>4. (startsLoop(frame) \/ sendingAfter(frame)) \in BOOLEAN
      BY FlagTypes
    <3>5. sending' \in BOOLEAN /\ at' \in {"loading", "stopped"} /\ endPhase' \in EndPhases
      BY <2>7, <2>9, <3>4, ContinueTypes
    <3>. QED  BY <2>3, <2>4, <2>5, <2>6, <3>1, <3>2, <3>3, <3>5, EmptyPacket
  <2>. QED  BY <1>4, <2>8, <2>9, FulfillStep
<1>5. ASSUME NEW frame \in Frames, HandleReject(frame)
      PROVE  BaseFacts'
  <2>1. frame \in Frame /\ answeredState \in {"Init", "Connected", "Closed"}
        /\ endPhaseAfter(frame) \in EndPhases
    BY SendAssumption, PhaseAfter DEF answeredState
  <2>2. /\ Continue(afterFrame(frame), startsLoop(frame) \/ sendingAfter(frame),
                    endPhaseAfter(frame))
        /\ ControlFrame(frame, answeredState) /\ at = "decoding"
        /\ queuedFrames' = queuedFrames \cup framesQueuedBy(frame)
        /\ UNCHANGED <<totalVars, exchangeRate, congestion, packetVars, startPending,
                       framesReceived, historyVars>>
    BY <1>5, Zenon DEF HandleReject
  <2>3. streams' \in StreamsOf
    BY <2>1, <2>2, AfterFrame, ContinueStreams
  <2>4. /\ closed' \in BOOLEAN /\ remoteState' \in {"Init", "Connected", "Closed"}
        /\ destroyPhase' \in DestroyPhases
    BY <2>1, <2>2, ControlTypes
  <2>5. (startsLoop(frame) \/ sendingAfter(frame)) \in BOOLEAN
    BY FlagTypes
  <2>6. sending' \in BOOLEAN /\ at' \in {"loading", "stopped"} /\ endPhase' \in EndPhases
    BY <2>1, <2>2, <2>5, ContinueTypes
  <2>7. queuedFrames' \subseteq StreamIds \cup {0}
    BY <2>2, QueueTypes
  <2>. QED  BY <2>2, <2>3, <2>4, <2>6, <2>7 DEF totalVars, packetVars, historyVars
<1>6. CASE FulfillWithoutData
  <2>1. /\ Continue(streams, sending, endPhase) /\ packet' = NoPacket /\ Paid
        /\ ended' = ended \cup packet.closes
        /\ UNCHANGED <<totalVars, exchangeRate, congestion, queuedFrames, nextPacketSequence,
                       remoteState, closed, startPending, destroyPhase, framesReceived, granted>>
    BY <1>6, Zenon DEF FulfillWithoutData
  <2>2. streams' \in StreamsOf /\ paid' \in [StreamIds -> Nat] /\ ended' \subseteq StreamIds
    BY <2>1, ContinueStreams, PaidTypes
  <2>3. sending' \in BOOLEAN /\ at' \in {"loading", "stopped"} /\ endPhase' \in EndPhases
    BY <2>1, ContinueTypes
  <2>. QED  BY <2>1, <2>2, <2>3, EmptyPacket DEF totalVars
<1>7. CASE SendFails
  <2>1. /\ Fail(streams, endPhase) /\ packet' = NoPacket /\ (Paid \/ UNCHANGED paid)
        /\ UNCHANGED <<totalVars, exchangeRate, congestion, queuedFrames, nextPacketSequence,
                       remoteState, closed, startPending, framesReceived, granted, ended>>
    BY <1>7, Zenon DEF SendFails
  <2>2. streams' \in StreamsOf
    BY <2>1, FailStreams
  <2>3. paid' \in [StreamIds -> Nat]
    BY <2>1, PaidTypes
  <2>. QED  BY <2>1, <2>2, <2>3, FailTypes, EmptyPacket DEF totalVars
<1>8. CASE RejectByReceiver
  <2>1. undone \in StreamsOf /\ requeued \subseteq StreamIds \cup {0}
    BY Undone, QueueTypes
  <2>. QED  BY <1>8, <2>1, EmptyPacket DEF RejectByReceiver, totalVars, historyVars
<1>9. CASE RejectWithoutData \/ Retry
  <2>1. /\ Continue(streams, sending, endPhase) /\ at # "inFlight"
        /\ UNCHANGED <<totalVars, exchangeRate, congestion, queuedFrames, packetVars, remoteState,
                       closed, startPending, destroyPhase, framesReceived, historyVars>>
    BY <1>9 DEF RejectWithoutData, Retry
  <2>2. streams' \in StreamsOf
    BY <2>1, ContinueStreams
  <2>. QED  BY <2>1, <2>2, ContinueTypes DEF totalVars, packetVars, historyVars
<1>10. CASE UnreadableReject
  <2>1. /\ Fail(streams, endPhase) /\ at = "decoding"
        /\ UNCHANGED <<totalVars, exchangeRate, congestion, queuedFrames, packetVars, remoteState,
                       closed, startPending, framesReceived, historyVars>>
    BY <1>10, Zenon DEF UnreadableReject
  <2>2. streams' \in StreamsOf
    BY <2>1, FailStreams
  <2>. QED  BY <2>1, <2>2, FailTypes DEF totalVars, packetVars, historyVars
<1>11. ASSUME NEW metadata \in F08Metadata, AmountTooLarge(metadata)
       PROVE  BaseFacts'
  <2>. DEFINE lowered == onAmountTooLargeError(congestion, metadata, amountOf(packet.amounts))
  <2>1. /\ packet' = NoPacket /\ congestion' = lowered /\ queuedFrames' = requeued
        /\ \/ Fail(undone, endPhase)
           \/ Continue(undone, sending, endPhase) /\ UNCHANGED destroyPhase
        /\ UNCHANGED <<totalVars, exchangeRate, nextPacketSequence, remoteState, closed,
                       startPending, framesReceived, historyVars>>
    BY <1>11, Zenon DEF AmountTooLarge
  <2>2. lowered \in Congestion
    BY AmountTooLargeType
  <2>. HIDE DEF lowered
  <2>3. undone \in StreamsOf /\ requeued \subseteq StreamIds \cup {0}
    BY Undone, QueueTypes
  <2>4. CASE Fail(undone, endPhase)
    <3>1. streams' \in StreamsOf
      BY <2>3, <2>4, FailStreams
    <3>2. /\ sending' \in BOOLEAN /\ at' = "stopped" /\ endPhase' \in EndPhases
          /\ destroyPhase' \in DestroyPhases
      BY <2>4, FailTypes
    <3>. QED  BY <2>1, <2>2, <2>3, <3>1, <3>2, EmptyPacket DEF totalVars, historyVars
  <2>5. CASE Continue(undone, sending, endPhase) /\ UNCHANGED destroyPhase
    <3>1. streams' \in StreamsOf
      BY <2>3, <2>5, ContinueStreams
    <3>2. sending' \in BOOLEAN /\ at' \in {"loading", "stopped"} /\ endPhase' \in EndPhases
      BY <2>5, ContinueTypes
    <3>. QED  BY <2>1, <2>2, <2>3, <2>5, <3>1, <3>2, EmptyPacket DEF totalVars, historyVars
  <2>. QED  BY <2>1, <2>4, <2>5
<1>12. ASSUME NEW insufficientLiquidity \in BOOLEAN, TemporaryError(insufficientLiquidity)
       PROVE  BaseFacts'
  <2>1. undone \in StreamsOf /\ requeued \subseteq StreamIds \cup {0}
    BY Undone, QueueTypes
  <2>2. congestion' \in Congestion
    BY <1>12, LiquidityType DEF TemporaryError
  <2>3. /\ packet' = NoPacket /\ streams' = undone /\ queuedFrames' = requeued /\ at' = "backoff"
        /\ UNCHANGED <<totalVars, exchangeRate, sending, nextPacketSequence, remoteState, closed,
                       startPending, endPhase, destroyPhase, framesReceived, historyVars>>
    BY <1>12, Zenon DEF TemporaryError
  <2>. QED  BY <2>1, <2>2, <2>3, EmptyPacket DEF totalVars, historyVars
<1>13. CASE FinalError
  <2>1. undone \in StreamsOf /\ requeued \subseteq StreamIds \cup {0}
    BY Undone, QueueTypes
  <2>2. /\ packet' = NoPacket /\ queuedFrames' = requeued /\ Fail(undone, endPhase)
        /\ UNCHANGED <<totalVars, exchangeRate, congestion, nextPacketSequence, remoteState, closed,
                       startPending, framesReceived, historyVars>>
    BY <1>13, Zenon DEF FinalError
  <2>3. streams' \in StreamsOf
    BY <2>1, <2>2, FailStreams
  <2>. QED  BY <2>1, <2>2, <2>3, FailTypes, EmptyPacket DEF totalVars, historyVars
<1>14. CASE ReceiveResponse
  BY <1>4, <1>5, <1>6, <1>7, <1>8, <1>9, <1>10, <1>11, <1>12, <1>13, <1>14 DEF ReceiveResponse
<1>15. ASSUME NEW frame \in Frames, ReceiveFrame(frame)
       PROVE  BaseFacts'
  <2>1. frame \in Frame /\ endPhaseAfter(frame) \in EndPhases
    BY SendAssumption, PhaseAfter
  <2>2. /\ framesReceived' = framesReceived + 1 /\ ControlFrame(frame, remoteState)
        /\ streams' = afterFrame(frame) /\ queuedFrames' = queuedFrames \cup framesQueuedBy(frame)
        /\ StartSendLoop(startsLoop(frame), sendingAfter(frame), remoteState', endPhaseAfter(frame))
        /\ UNCHANGED <<totalVars, exchangeRate, congestion, packetVars, startPending, historyVars>>
    BY <1>15, Zenon DEF ReceiveFrame
  <2>3. streams' \in StreamsOf
    BY <2>1, <2>2, AfterFrame
  <2>4. /\ closed' \in BOOLEAN /\ remoteState' \in {"Init", "Connected", "Closed"}
        /\ destroyPhase' \in DestroyPhases
    BY <2>2, ControlTypes
  <2>5. startsLoop(frame) \in BOOLEAN /\ sendingAfter(frame) \in BOOLEAN
    BY FlagTypes
  <2>6. /\ sending' \in BOOLEAN /\ endPhase' \in EndPhases
        /\ at' = at \/ (at = "stopped" /\ at' = "loading")
    BY <2>1, <2>2, <2>5, StartTypes
  <2>7. queuedFrames' \subseteq StreamIds \cup {0}
    BY <2>2, QueueTypes
  <2>. QED  BY <2>2, <2>3, <2>4, <2>6, <2>7 DEF totalVars, packetVars, historyVars
<1>16. ASSUME NEW id \in StreamIds, createStream(id)
       PROVE  BaseFacts'
  <2>1. streams' = [streams EXCEPT ![id] = opened(streams[id])] /\ streams[id] \in Stream
    BY <1>16 DEF createStream, StreamsOf
  <2>2. opened(streams[id]) \in Stream
    BY <2>1 DEF opened, Stream, StreamStatus
  <2>3. streams' \in StreamsOf
    BY <2>1, <2>2 DEF StreamsOf
  <2>. QED  BY <1>16, <2>3 DEF createStream, totalVars, loopVars, packetVars, historyVars
<1>17. ASSUME NEW id \in StreamIds, NEW limit \in SendMaxima, setSendMax(id, limit)
       PROVE  BaseFacts'
  <2>1. /\ streams' = [streams EXCEPT ![id] = limitedTo(streams[id], limit)]
        /\ streams[id] \in Stream /\ limit \in Long
    BY <1>17, SendAssumption DEF setSendMax, StreamsOf
  <2>2. limitedTo(streams[id], limit) \in Stream
    BY <2>1 DEF limitedTo, Stream
  <2>3. streams' \in StreamsOf
    BY <2>1, <2>2 DEF StreamsOf
  <2>4. granted' = [granted EXCEPT ![id] = maxLong(granted[id], limit)]
    BY <1>17 DEF setSendMax, Amounts
  <2>5. granted' \in Amounts
    BY <2>1, <2>4 DEF Amounts, maxLong
  <2>6. /\ StartSendLoop(TRUE, sending, remoteState, endPhase)
        /\ UNCHANGED <<totalVars, exchangeRate, congestion, queuedFrames, packetVars, remoteState,
                       closed, startPending, destroyPhase, framesReceived, paid, ended>>
    BY <1>17, Zenon DEF setSendMax
  <2>7. TRUE \in BOOLEAN
    OBVIOUS
  <2>8. /\ sending' \in BOOLEAN /\ endPhase' \in EndPhases
        /\ at' = at \/ (at = "stopped" /\ at' = "loading")
    BY <2>6, <2>7, StartTypes
  <2>. QED  BY <2>3, <2>5, <2>6, <2>8 DEF totalVars, packetVars
<1>18. ASSUME NEW id \in StreamIds, NEW after \in {endStream(streams[id]), destroyStream(streams[id])},
              CloseStream(id, after)
       PROVE  BaseFacts'
  <2>1. streams[id] \in Stream
    BY DEF StreamsOf
  <2>2. after \in Stream
    BY <2>1, EndKeeps, DestroyKeeps
  <2>3. streams' \in StreamsOf
    BY <1>18, <2>2 DEF CloseStream, StreamsOf
  <2>. QED  BY <1>18, <2>3 DEF CloseStream, totalVars, loopVars, packetVars, historyVars
<1>19. ASSUME NEW id \in StreamIds, removeStreamRecord(id)
       PROVE  BaseFacts'
  <2>1. streams' = [streams EXCEPT ![id] = removed(streams[id])] /\ streams[id] \in Stream
    BY <1>19 DEF removeStreamRecord, StreamsOf
  <2>2. removed(streams[id]) \in Stream
    BY <2>1 DEF removed, Stream, StreamStatus
  <2>3. streams' \in StreamsOf
    BY <2>1, <2>2 DEF StreamsOf
  <2>4. queuedFrames' \subseteq StreamIds \cup {0} /\ startPending' \in BOOLEAN
    BY <1>19 DEF removeStreamRecord
  <2>. QED
    BY <1>19, <2>3, <2>4 DEF removeStreamRecord, totalVars, loopVars, packetVars, historyVars
<1>20. CASE StartLater \/ end
  <2>1. \E phase \in EndPhases : StartSendLoop(TRUE, sending, remoteState, phase)
    BY <1>20 DEF StartLater, end, EndPhases
  <2>2. TRUE \in BOOLEAN
    OBVIOUS
  <2>3. /\ sending' \in BOOLEAN /\ endPhase' \in EndPhases
        /\ at' = at \/ (at = "stopped" /\ at' = "loading")
    BY <2>1, <2>2, StartTypes
  <2>4. streams' \in StreamsOf
    BY <1>20, EndAll DEF StartLater, end
  <2>5. /\ UNCHANGED <<totalVars, exchangeRate, congestion, queuedFrames, packetVars,
                       remoteState, closed, destroyPhase, framesReceived, historyVars>>
        /\ startPending' \in BOOLEAN
    BY <1>20 DEF StartLater, end
  <2>. QED  BY <2>3, <2>4, <2>5 DEF totalVars, packetVars, historyVars
<1>21. CASE Closing
  <2>1. /\ UNCHANGED <<streams, totalVars, exchangeRate, congestion, queuedFrames, sending, at,
                       packet, startPending, framesReceived, historyVars>>
        /\ closed' \in BOOLEAN /\ endPhase' \in EndPhases /\ destroyPhase' \in DestroyPhases
    BY <1>21 DEF Closing, EndStreams, EndCompletes, DestroyClosed, DestroyCompletes, packetVars,
                 loopVars, EndPhases, DestroyPhases
  <2>2. remoteState' \in {"Init", "Connected", "Closed"} /\ nextPacketSequence' \in Nat
    BY <1>21 DEF Closing, EndStreams, EndCompletes, DestroyClosed, DestroyCompletes, packetVars,
                 CloseRemote
  <2>. QED  BY <2>1, <2>2 DEF totalVars, historyVars
<1>22. ASSUME NEW err \in BOOLEAN, destroy(err)
       PROVE  BaseFacts'
  <2>1. streams' \in StreamsOf
    BY <1>22, DestroyAll DEF destroy
  <2>2. endPhase' \in EndPhases /\ destroyPhase' \in DestroyPhases
    BY <1>22 DEF destroy, Destroying, erred, EndPhases, DestroyPhases
  <2>. QED  BY <1>22, <2>1, <2>2 DEF destroy, totalVars, packetVars, historyVars
<1>23. CASE UNCHANGED vars
  BY <1>23 DEF vars, totalVars, loopVars, packetVars, historyVars
<1>24. CASE Next
  BY <1>1, <1>2, <1>3, <1>9, <1>14, <1>15, <1>16, <1>17, <1>18, <1>19, <1>20, <1>21, <1>22, <1>23, <1>24
     DEF Next, loadAndSendPacket, CloseEvents, testIdle, Application, Finished
<1>. QED  BY <1>23, <1>24

\* A connection's state stays within its types: amounts stay Longs through holds,
\* executions, undone packets and congestion control, and end() and destroy() in their
\* phases.
THEOREM SendTypes == Spec => []TypeOK
<1>1. Init => BaseInv
  BY BaseInit
<1>2. BaseInv /\ [Next]_vars => BaseInv'
  BY BaseStep
<1>3. BaseInv => TypeOK
  BY DEF BaseInv
<1>. QED  BY <1>1, <1>2, <1>3, PTL DEF Spec

-----------------------------------------------------------------------------
(* end() and destroy() *)

LatePhases == {"streams", "closing", "done"}

\* Once end() was called or the peer closed the connection no stream is open, once
\* destroy() was called none waits for its money either.  When end() has seen the
\* loop finish, no money is under way, and no stream has any left to send unless the
\* peer closed the connection, which the loop then never starts for again.
PhaseInv ==
    /\ endPhase # "none" => NoneOpen(streams)
    /\ destroyPhase # "none" => AllClosed(streams)
    /\ endPhase \in LatePhases =>
         /\ packet.amounts = NoPacket.amounts
         /\ AllClosed(streams) \/ (at = "stopped" /\ remoteState = "Closed")

\* The end phase a handler has reached before it goes on with the loop.
PhaseMoves(phase, current) ==
    /\ phase \in EndPhases
    /\ \/ phase = endPhase
       \/ endPhase = "draining" /\ phase = "failed"
       \/ endPhase = "none" /\ phase = "draining" /\ NoneOpen(current)

\* A stream that is neither open nor ending is not open.
LEMMA ClosedNoneOpen ==
  ASSUME NEW current, AllClosed(current)
  PROVE  NoneOpen(current)
BY DEF AllClosed, NoneOpen, isOpen

\* The end of a packet keeps PhaseInv.
LEMMA ContinuePhase ==
  ASSUME BaseInv, PhaseInv, NEW current \in StreamsOf, LaterAll(streams, current),
         NEW sends \in BOOLEAN, NEW phase, PhaseMoves(phase, current),
         Continue(current, sends, phase),
         destroyPhase' = destroyPhase \/ AllClosed(current),
         packet' = NoPacket, at # "stopped"
  PROVE  PhaseInv'
<1>1. /\ endPhase' = phase \/ (~sends /\ phase = "draining" /\ endPhase' = "streams")
  BY ContinueTypes DEF PhaseMoves
<1>2. /\ KeepsAll(current, streams') /\ (~sends /\ NoneOpen(current) => AllClosed(streams'))
  BY ContinueStreams
<1>3. LaterAll(current, streams') /\ LaterAll(streams, streams')
  BY <1>2, KeepsAllOn
<1>4. /\ NoneOpen(current) => NoneOpen(streams')
      /\ AllClosed(current) => AllClosed(streams')
      /\ NoneOpen(streams) => NoneOpen(streams') /\ NoneOpen(current)
      /\ AllClosed(streams) => AllClosed(streams') /\ AllClosed(current)
  BY <1>3, StayClosed
<1>5. endPhase' # "none" => NoneOpen(streams')
  BY <1>1, <1>4 DEF PhaseMoves, PhaseInv
<1>6. destroyPhase' # "none" => AllClosed(streams')
  BY <1>4 DEF PhaseInv
<1>7. endPhase' \in LatePhases => AllClosed(streams')
  <2>1. CASE endPhase \in LatePhases
    BY <1>4, <2>1 DEF PhaseInv
  <2>2. CASE endPhase \notin LatePhases
    BY <1>1, <1>2, <1>4, <2>2 DEF PhaseMoves, PhaseInv, LatePhases
  <2>. QED  BY <2>1, <2>2
<1>. QED  BY <1>5, <1>6, <1>7 DEF PhaseInv, NoneOpen, AllClosed

\* The loop's catch keeps PhaseInv.
LEMMA FailPhase ==
  ASSUME BaseInv, PhaseInv, NEW current \in StreamsOf, LaterAll(streams, current),
         NEW phase, PhaseMoves(phase, current), Fail(current, phase),
         packet' = NoPacket, at # "stopped"
  PROVE  PhaseInv'
<1>1. /\ endPhase' = phase \/ (phase = "draining" /\ endPhase' = "failed")
      /\ destroyPhase' = destroyPhase \/ (destroyPhase = "none" /\ ~done)
  BY FailTypes, BaseParts DEF PhaseMoves, BaseFacts
<1>2. KeepsAll(current, streams') /\ (~done => AllClosed(streams'))
  BY FailStreams
<1>3. LaterAll(current, streams') /\ LaterAll(streams, streams')
  BY <1>2, KeepsAllOn
<1>4. /\ NoneOpen(current) => NoneOpen(streams')
      /\ NoneOpen(streams) => NoneOpen(streams')
      /\ AllClosed(streams) => AllClosed(streams')
  BY <1>3, StayClosed
<1>5. endPhase' # "none" => NoneOpen(streams')
  BY <1>1, <1>4 DEF PhaseMoves, PhaseInv
<1>6. destroyPhase' # "none" => AllClosed(streams')
  BY <1>1, <1>2, <1>4 DEF PhaseInv
<1>7. endPhase' \in LatePhases => AllClosed(streams')
  BY <1>1, <1>4 DEF PhaseMoves, PhaseInv, LatePhases
<1>. QED  BY <1>5, <1>6, <1>7 DEF PhaseInv, NoneOpen, AllClosed

\* A start of the loop keeps PhaseInv.
LEMMA StartPhase ==
  ASSUME BaseInv, PhaseInv, LaterAll(streams, streams'), NEW starts \in BOOLEAN,
         NEW sends \in BOOLEAN, NEW phase, PhaseMoves(phase, streams'),
         StartSendLoop(starts, sends, remoteState', phase),
         destroyPhase' = destroyPhase \/ AllClosed(streams'),
         remoteState = "Closed" => remoteState' = "Closed", packet' = packet
  PROVE  PhaseInv'
<1>1. /\ at' = at \/ (at = "stopped" /\ at' = "loading" /\ remoteState' # "Closed")
      /\ \/ endPhase' = phase
         \/ phase = "draining" /\ endPhase' = "streams" /\ at = "stopped" /\ at' = "stopped"
              /\ remoteState' = "Closed"
  BY StartTypes DEF PhaseMoves
<1>2. /\ NoneOpen(streams) => NoneOpen(streams')
      /\ AllClosed(streams) => AllClosed(streams')
  BY StayClosed
<1>3. endPhase' # "none" => NoneOpen(streams')
  BY <1>1, <1>2 DEF PhaseMoves, PhaseInv
<1>4. destroyPhase' # "none" => AllClosed(streams')
  BY <1>2 DEF PhaseInv
<1>5. at = "stopped" => packet.amounts = NoPacket.amounts
  BY BaseParts DEF BaseFacts
<1>6. endPhase' \in LatePhases =>
        /\ packet'.amounts = NoPacket.amounts
        /\ AllClosed(streams') \/ (at' = "stopped" /\ remoteState' = "Closed")
  <2>1. CASE endPhase \in LatePhases
    BY <1>1, <1>2, <2>1 DEF PhaseInv
  <2>2. CASE endPhase \notin LatePhases
    BY <1>1, <1>5, <2>2 DEF PhaseMoves, LatePhases
  <2>. QED  BY <2>1, <2>2
<1>. QED  BY <1>3, <1>4, <1>6 DEF PhaseInv, NoneOpen, AllClosed

\* Steps that leave the loop and end() where they are.
LEMMA StillPhase ==
  ASSUME PhaseInv, LaterAll(streams, streams'), destroyPhase' = destroyPhase \/ AllClosed(streams'),
         \/ endPhase' = endPhase
         \/ endPhase' \notin LatePhases /\ endPhase # "none"
         \/ endPhase \in LatePhases /\ endPhase' # "none",
         packet'.amounts = packet.amounts \/ packet'.amounts = NoPacket.amounts,
         at = "stopped" /\ remoteState = "Closed" => at' = "stopped" /\ remoteState' = "Closed"
  PROVE  PhaseInv'
<1>1. /\ NoneOpen(streams) => NoneOpen(streams')
      /\ AllClosed(streams) => AllClosed(streams')
  BY StayClosed
<1>2. endPhase' # "none" => NoneOpen(streams')
  BY <1>1 DEF PhaseInv, LatePhases
<1>3. destroyPhase' # "none" => AllClosed(streams')
  BY <1>1 DEF PhaseInv
<1>4. endPhase' \in LatePhases =>
        /\ packet'.amounts = NoPacket.amounts
        /\ AllClosed(streams') \/ (at' = "stopped" /\ remoteState' = "Closed")
  BY <1>1 DEF PhaseInv, LatePhases
<1>. QED  BY <1>2, <1>3, <1>4 DEF PhaseInv, NoneOpen, AllClosed

\* A frame moves the phases the way PhaseInv allows.
LEMMA FramePhase ==
  ASSUME BaseInv, NEW frame \in Frame
  PROVE  /\ PhaseMoves(endPhaseAfter(frame), afterFrame(frame))
         /\ \A remote \in {"Init", "Connected", "Closed"} :
              ControlFrame(frame, remote) => destroyPhase' = destroyPhase \/ AllClosed(afterFrame(frame))
<1>1. streams \in StreamsOf /\ endPhase \in EndPhases /\ destroyPhase \in DestroyPhases
      /\ closed \in BOOLEAN
  BY BaseParts DEF BaseFacts
<1>. QED  BY <1>1, PhaseAfter, AfterFrame, ControlTypes DEF PhaseMoves

\* No money leaves a stream that is closed.
LEMMA ClosedSendNothing ==
  ASSUME RateInv, streams \in StreamsOf, congestion \in Congestion, AllClosed(streams)
  PROVE  /\ [id \in StreamIds |-> amountFrom(id)] = NoPacket.amounts
         /\ amountOf([id \in StreamIds |-> amountFrom(id)]) = 0
<1>1. \A id \in StreamIds : amountFrom(id) = 0
  BY PacketAmounts DEF AllClosed
<1>2. [id \in StreamIds |-> amountFrom(id)] = NoPacket.amounts
  BY <1>1 DEF NoPacket
<1>. QED  BY <1>2, EmptyPacket

\* PhaseInv holds initially.
LEMMA PhaseInit == Init => PhaseInv
BY DEF Init, PhaseInv, LatePhases

\* Every step keeps PhaseInv.
LEMMA PhaseStep == BaseInv /\ PhaseInv /\ [Next]_vars => PhaseInv'
<1>. SUFFICES ASSUME BaseInv, PhaseInv, [Next]_vars PROVE PhaseInv'
  OBVIOUS
<1>0. BaseFacts /\ RateInv
  BY BaseParts DEF BaseInv
<1>a. LaterAll(streams, streams)
  BY KeepsAllOn
<1>b. PhaseMoves(endPhase, streams) /\ PhaseMoves(endPhase, undone)
  BY <1>0 DEF BaseFacts, PhaseMoves
<1>c. streams \in StreamsOf /\ undone \in StreamsOf /\ LaterAll(streams, undone)
  BY <1>0, Undone DEF BaseFacts
<1>d. sending \in BOOLEAN /\ TRUE \in BOOLEAN /\ FALSE \in BOOLEAN
  BY <1>0 DEF BaseFacts
<1>1. CASE TooManyPackets
  <2>1. Fail(streams, endPhase) /\ packet' = packet /\ at = "loading"
    BY <1>1 DEF TooManyPackets
  <2>2. packet = NoPacket
    BY <1>0, <2>1 DEF BaseFacts
  <2>. QED  BY <1>a, <1>b, <1>c, <2>1, <2>2, FailPhase
<1>2. CASE NothingToSend
  <2>1. Continue(streams, FALSE, endPhase) /\ packet' = packet /\ at = "loading"
        /\ destroyPhase' = destroyPhase
    BY <1>2 DEF NothingToSend
  <2>2. packet = NoPacket
    BY <1>0, <2>1 DEF BaseFacts
  <2>. QED  BY <1>a, <1>b, <1>c, <1>d, <2>1, <2>2, ContinuePhase
<1>3. CASE SendPacket
  <2>. DEFINE amounts == [id \in StreamIds |-> amountFrom(id)]
  <2>1. /\ packet'.amounts = amounts /\ at = "loading"
        /\ streams' = [id \in StreamIds |-> holdOutgoing(streams[id], amounts[id])]
        /\ UNCHANGED <<endPhase, destroyPhase>>
    BY <1>3 DEF SendPacket
  <2>2. amounts \in Amounts
    BY <1>0, PacketAmounts DEF BaseFacts
  <2>3. endPhase \in LatePhases => amounts = NoPacket.amounts
    BY <1>0, <2>1, ClosedSendNothing DEF PhaseInv, BaseFacts
  <2>. HIDE DEF amounts
  <2>4. LaterAll(streams, streams')
    BY <1>c, <2>1, <2>2, HoldOutgoing DEF StreamsOf, Amounts, LaterAll
  <2>5. (NoneOpen(streams) => NoneOpen(streams')) /\ (AllClosed(streams) => AllClosed(streams'))
    BY <2>4, StayClosed
  <2>. QED  BY <2>1, <2>3, <2>5 DEF PhaseInv, NoneOpen, AllClosed
<1>4. ASSUME NEW delivered \in Deliveries, NEW frame \in Frames, ReceiveFulfill(delivered, frame)
      PROVE  PhaseInv'
  <2>1. /\ at = "inFlight" /\ packet' = NoPacket
        /\ \/ Fail(executed(frame), endPhaseAfter(frame))
           \/ /\ Continue(executed(frame), startsLoop(frame) \/ sendingAfter(frame),
                          endPhaseAfter(frame))
              /\ ControlFrame(frame, answeredState)
    BY <1>4, FulfillStep
  <2>2. frame \in Frame /\ answeredState \in {"Init", "Connected", "Closed"}
    BY <1>0, SendAssumption DEF BaseFacts, answeredState
  <2>3. /\ executed(frame) \in StreamsOf /\ LaterAll(streams, executed(frame))
        /\ LaterAll(afterFrame(frame), executed(frame))
    BY <1>0, <2>2, Executed DEF BaseFacts
  <2>4. PhaseMoves(endPhaseAfter(frame), executed(frame))
    BY <2>2, <2>3, FramePhase, StayClosed DEF PhaseMoves
  <2>5. CASE Fail(executed(frame), endPhaseAfter(frame))
    BY <2>1, <2>3, <2>4, <2>5, FailPhase
  <2>6. CASE /\ Continue(executed(frame), startsLoop(frame) \/ sendingAfter(frame),
                         endPhaseAfter(frame))
             /\ ControlFrame(frame, answeredState)
    <3>1. destroyPhase' = destroyPhase \/ AllClosed(executed(frame))
      BY <2>2, <2>3, <2>6, FramePhase, StayClosed
    <3>2. (startsLoop(frame) \/ sendingAfter(frame)) \in BOOLEAN
      BY <1>d, FlagTypes
    <3>. QED  BY <2>1, <2>3, <2>4, <2>6, <3>1, <3>2, ContinuePhase
  <2>. QED  BY <2>1, <2>5, <2>6
<1>5. ASSUME NEW frame \in Frames, HandleReject(frame)
      PROVE  PhaseInv'
  <2>1. /\ Continue(afterFrame(frame), startsLoop(frame) \/ sendingAfter(frame),
                    endPhaseAfter(frame))
        /\ ControlFrame(frame, answeredState) /\ at = "decoding" /\ packet' = packet
    BY <1>5 DEF HandleReject, packetVars
  <2>2. /\ frame \in Frame /\ answeredState \in {"Init", "Connected", "Closed"}
        /\ packet = NoPacket
    BY <1>0, <2>1, SendAssumption DEF BaseFacts, answeredState
  <2>3. afterFrame(frame) \in StreamsOf /\ LaterAll(streams, afterFrame(frame))
    BY <1>c, <2>2, AfterFrame, KeepsAllOn
  <2>4. /\ PhaseMoves(endPhaseAfter(frame), afterFrame(frame))
        /\ destroyPhase' = destroyPhase \/ AllClosed(afterFrame(frame))
    BY <2>1, <2>2, FramePhase
  <2>5. (startsLoop(frame) \/ sendingAfter(frame)) \in BOOLEAN
    BY <1>d, FlagTypes
  <2>. QED  BY <2>1, <2>2, <2>3, <2>4, <2>5, ContinuePhase
<1>6. CASE FulfillWithoutData
  <2>1. /\ Continue(streams, sending, endPhase) /\ packet' = NoPacket /\ at = "inFlight"
        /\ destroyPhase' = destroyPhase
    BY <1>6 DEF FulfillWithoutData
  <2>. QED  BY <1>a, <1>b, <1>c, <1>d, <2>1, ContinuePhase
<1>7. CASE SendFails
  <2>1. Fail(streams, endPhase) /\ packet' = NoPacket /\ at = "inFlight"
    BY <1>7 DEF SendFails
  <2>. QED  BY <1>a, <1>b, <1>c, <2>1, FailPhase
<1>8. CASE RejectByReceiver \/ \E insufficientLiquidity \in BOOLEAN : TemporaryError(insufficientLiquidity)
  <2>1. /\ streams' = undone /\ packet' = NoPacket /\ at = "inFlight"
        /\ UNCHANGED <<endPhase, destroyPhase>>
    BY <1>8 DEF RejectByReceiver, TemporaryError
  <2>. QED  BY <1>c, <2>1, StillPhase
<1>9. CASE RejectWithoutData \/ Retry
  <2>1. /\ Continue(streams, sending, endPhase) /\ at # "inFlight" /\ at # "stopped"
        /\ packet' = packet /\ destroyPhase' = destroyPhase
    BY <1>9 DEF RejectWithoutData, Retry, packetVars
  <2>2. packet = NoPacket
    BY <1>0, <2>1 DEF BaseFacts
  <2>. QED  BY <1>a, <1>b, <1>c, <1>d, <2>1, <2>2, ContinuePhase
<1>10. CASE UnreadableReject
  <2>1. Fail(streams, endPhase) /\ packet' = packet /\ at = "decoding"
    BY <1>10 DEF UnreadableReject, packetVars
  <2>2. packet = NoPacket
    BY <1>0, <2>1 DEF BaseFacts
  <2>. QED  BY <1>a, <1>b, <1>c, <2>1, <2>2, FailPhase
<1>11. CASE FinalError \/ \E metadata \in F08Metadata : AmountTooLarge(metadata)
  <2>1. /\ packet' = NoPacket /\ at = "inFlight"
        /\ \/ Fail(undone, endPhase)
           \/ Continue(undone, sending, endPhase) /\ destroyPhase' = destroyPhase
    BY <1>11 DEF FinalError, AmountTooLarge
  <2>. QED  BY <1>b, <1>c, <1>d, <2>1, FailPhase, ContinuePhase
<1>12. ASSUME NEW frame \in Frames, ReceiveFrame(frame)
       PROVE  PhaseInv'
  <2>1. /\ ControlFrame(frame, remoteState) /\ streams' = afterFrame(frame) /\ packet' = packet
        /\ StartSendLoop(startsLoop(frame), sendingAfter(frame), remoteState', endPhaseAfter(frame))
    BY <1>12 DEF ReceiveFrame, packetVars
  <2>2. frame \in Frame /\ remoteState \in {"Init", "Connected", "Closed"}
    BY <1>0, SendAssumption DEF BaseFacts
  <2>3. LaterAll(streams, streams')
    BY <1>c, <2>1, <2>2, AfterFrame, KeepsAllOn
  <2>4. /\ PhaseMoves(endPhaseAfter(frame), streams')
        /\ destroyPhase' = destroyPhase \/ AllClosed(streams')
    BY <2>1, <2>2, FramePhase
  <2>5. startsLoop(frame) \in BOOLEAN /\ sendingAfter(frame) \in BOOLEAN
    BY <1>d, FlagTypes
  <2>6. remoteState = "Closed" => remoteState' = "Closed"
    BY <2>1 DEF ControlFrame
  <2>. QED  BY <2>1, <2>3, <2>4, <2>5, <2>6, StartPhase
<1>13. ASSUME NEW id \in StreamIds, createStream(id)
       PROVE  PhaseInv'
  BY <1>13 DEF createStream, loopVars, PhaseInv, LatePhases
<1>14. ASSUME NEW id \in StreamIds, NEW limit \in SendMaxima, setSendMax(id, limit)
       PROVE  PhaseInv'
  <2>1. /\ StartSendLoop(TRUE, sending, remoteState', endPhase)
        /\ UNCHANGED <<packet, remoteState, destroyPhase>>
        /\ streams' = [streams EXCEPT ![id] = limitedTo(streams[id], limit)]
    BY <1>14, <1>c DEF setSendMax, packetVars, StreamsOf
  <2>2. streams[id] \in Stream
    BY <1>c DEF StreamsOf
  <2>3. Later(streams[id], limitedTo(streams[id], limit))
    BY <2>2 DEF limitedTo, Later, isOpen, Stream
  <2>4. LaterAll(streams, streams')
    BY <1>c, <2>1, <2>3, KeepsItself DEF LaterAll, StreamsOf
  <2>5. PhaseMoves(endPhase, streams')
    BY <1>b DEF PhaseMoves
  <2>. QED  BY <1>d, <2>1, <2>4, <2>5, StartPhase
<1>15. ASSUME NEW id \in StreamIds, NEW after \in {endStream(streams[id]), destroyStream(streams[id])},
              CloseStream(id, after)
       PROVE  PhaseInv'
  <2>1. streams[id] \in Stream
    BY <1>c DEF StreamsOf
  <2>2. Later(streams[id], after)
    BY <2>1, EndKeeps, DestroyKeeps DEF Keeps
  <2>3. /\ streams' = [streams EXCEPT ![id] = after]
        /\ UNCHANGED <<packet, at, endPhase, destroyPhase, remoteState>>
    BY <1>15 DEF CloseStream, packetVars, loopVars
  <2>4. LaterAll(streams, streams')
    BY <1>c, <2>2, <2>3, KeepsItself DEF LaterAll, StreamsOf
  <2>. QED  BY <2>3, <2>4, StillPhase
<1>16. ASSUME NEW id \in StreamIds, removeStreamRecord(id)
       PROVE  PhaseInv'
  <2>1. /\ streams' = [streams EXCEPT ![id] = removed(streams[id])] /\ streams[id] \in Stream
        /\ UNCHANGED <<packet, at, endPhase, destroyPhase, remoteState>>
    BY <1>16, <1>c DEF removeStreamRecord, packetVars, loopVars, StreamsOf
  <2>2. removed(streams[id]).status = "removed"
    BY <2>1 DEF removed, Stream
  <2>3. \A j \in StreamIds : streams'[j] = IF j = id THEN removed(streams[id]) ELSE streams[j]
    BY <1>c, <2>1 DEF StreamsOf
  <2>4. (NoneOpen(streams) => NoneOpen(streams')) /\ (AllClosed(streams) => AllClosed(streams'))
    BY <2>2, <2>3 DEF NoneOpen, AllClosed, isOpen
  <2>. QED  BY <2>1, <2>4 DEF PhaseInv, NoneOpen, AllClosed
<1>17. CASE StartLater
  <2>1. /\ StartSendLoop(TRUE, sending, remoteState', endPhase)
        /\ UNCHANGED <<packet, remoteState, destroyPhase, streams>>
    BY <1>17 DEF StartLater, packetVars
  <2>2. PhaseMoves(endPhase, streams') /\ LaterAll(streams, streams')
    BY <1>a, <1>b, <2>1
  <2>. QED  BY <1>d, <2>1, <2>2, StartPhase
<1>18. CASE end
  <2>1. /\ StartSendLoop(TRUE, sending, remoteState', "draining") /\ streams' = endAll(streams)
        /\ UNCHANGED <<packet, remoteState, destroyPhase>> /\ endPhase = "none"
    BY <1>18 DEF end, packetVars
  <2>2. PhaseMoves("draining", streams') /\ LaterAll(streams, streams')
    BY <1>c, <2>1, EndAll, KeepsAllOn DEF PhaseMoves, EndPhases
  <2>. QED  BY <1>d, <2>1, <2>2, StartPhase
<1>19. CASE Closing
  <2>1. /\ UNCHANGED <<streams, at, packet>>
        /\ destroyPhase' # "none" => destroyPhase # "none"
        /\ endPhase' = endPhase \/ (endPhase \in LatePhases /\ endPhase' # "none")
        /\ remoteState' = remoteState \/ remoteState' = "Closed"
    BY <1>19 DEF Closing, EndStreams, EndCompletes, DestroyClosed, DestroyCompletes, packetVars,
                 loopVars, LatePhases, CloseRemote
  <2>. QED  BY <2>1 DEF PhaseInv, NoneOpen, AllClosed, LatePhases
<1>20. ASSUME NEW err \in BOOLEAN, destroy(err)
       PROVE  PhaseInv'
  <2>1. /\ streams' = destroyAll(streams) /\ ~done /\ UNCHANGED <<at, packet, remoteState>>
        /\ endPhase' = endPhase \/ (endPhase = "draining" /\ endPhase' = "failed")
    BY <1>20 DEF destroy, packetVars, erred
  <2>2. LaterAll(streams, streams') /\ AllClosed(streams')
    BY <1>c, <2>1, DestroyAll, KeepsAllOn
  <2>. QED  BY <2>1, <2>2, StillPhase DEF LatePhases
<1>21. CASE UNCHANGED vars
  BY <1>21, StillPhase, <1>a DEF vars, loopVars, packetVars
<1>22. CASE ReceiveResponse
  BY <1>4, <1>5, <1>6, <1>7, <1>8, <1>9, <1>10, <1>11, <1>22 DEF ReceiveResponse
<1>23. CASE Next
  BY <1>1, <1>2, <1>3, <1>9, <1>12, <1>13, <1>14, <1>15, <1>16, <1>17, <1>18, <1>19, <1>20, <1>21,
     <1>22, <1>23
     DEF Next, loadAndSendPacket, CloseEvents, testIdle, Application, Finished
<1>. QED  BY <1>21, <1>23

\* "not allow money or data to be transmitted" (test/connection.spec.ts:459): after
\* destroy(), whoever called it and in whatever the loop was waiting, no packet has
\* money.
THEOREM DestroyedSendsNothing == Spec => NoMoneyOnceDestroyed
<1>1. BaseInv /\ PhaseInv /\ [Next]_vars
        => [destroyPhase # "none" /\ packet' # packet => amountOf(packet'.amounts) = 0]_vars
  <2>. SUFFICES ASSUME BaseInv, PhaseInv, Next, destroyPhase # "none", packet' # packet
                PROVE  amountOf(packet'.amounts) = 0
    OBVIOUS
  <2>1. CASE SendPacket
    <3>1. packet'.amounts = [id \in StreamIds |-> amountFrom(id)]
      BY <2>1 DEF SendPacket
    <3>2. AllClosed(streams) /\ RateInv /\ streams \in StreamsOf /\ congestion \in Congestion
      BY BaseParts DEF PhaseInv, BaseInv, BaseFacts
    <3>. QED  BY <3>1, <3>2, ClosedSendNothing
  <2>2. CASE ~SendPacket
    <3>1. packet' = NoPacket
      BY <2>2 DEF Next, loadAndSendPacket, TooManyPackets, NothingToSend, ReceiveResponse,
                  ReceiveFulfill, HandleReject, FulfillWithoutData, SendFails, RejectByReceiver,
                  RejectWithoutData, UnreadableReject, AmountTooLarge, TemporaryError, FinalError,
                  Retry, CloseEvents, removeStreamRecord, StartLater, Closing, EndStreams,
                  EndCompletes, DestroyClosed, DestroyCompletes, testIdle, destroy, ReceiveFrame,
                  Application, createStream, setSendMax, CloseStream, end, Finished, vars, packetVars
    <3>. QED  BY <3>1, EmptyPacket
  <2>. QED  BY <2>1, <2>2
<1>2. Init => BaseInv /\ PhaseInv
  BY BaseInit, PhaseInit
<1>3. BaseInv /\ PhaseInv /\ [Next]_vars => BaseInv' /\ PhaseInv'
  BY BaseStep, PhaseStep
<1>. QED  BY <1>1, <1>2, <1>3, PTL DEF Spec, NoMoneyOnceDestroyed

-----------------------------------------------------------------------------
(* The kinds of steps, as the money and the StreamClose frames see them *)

\* Neither money nor a packet moves.
Quiet ==
    /\ KeepsAll(streams, streams')
    /\ queuedFrames \subseteq queuedFrames'
    /\ at = "inFlight" => at' = "inFlight"
    /\ UNCHANGED <<packet, paid, granted, _totalSent, ended>>

\* The packet is gone and its holds stay.
Unsettled ==
    /\ at = "inFlight" /\ packet' = NoPacket
    /\ KeepsAll(streams, streams')
    /\ \/ Paid /\ ended' = ended \cup packet.closes
       \/ /\ Paid \/ UNCHANGED paid
          /\ UNCHANGED ended
          /\ done \/ destroyPhase' # "none"
    /\ UNCHANGED <<queuedFrames, granted, _totalSent>>

\* The packet is undone.
Undoes ==
    /\ at = "inFlight" /\ packet' = NoPacket
    /\ KeepsAll(undone, streams')
    /\ queuedFrames' = requeued
    /\ UNCHANGED <<paid, granted, _totalSent, ended>>

StreamChanges ==
    \E id \in StreamIds :
        \/ createStream(id)
        \/ \E limit \in SendMaxima : setSendMax(id, limit)
        \/ removeStreamRecord(id)

Fulfills == \E delivered \in Deliveries, frame \in Frames : ReceiveFulfill(delivered, frame)

\* What a step does to money is one of six kinds.
LEMMA StepKinds ==
  ASSUME BaseInv, [Next]_vars
  PROVE  Quiet \/ SendPacket \/ Fulfills \/ Unsettled \/ Undoes \/ StreamChanges
<1>. DEFINE Kinds == Quiet \/ SendPacket \/ Fulfills \/ Unsettled \/ Undoes \/ StreamChanges
<1>. SUFFICES Kinds
  OBVIOUS
<1>0. BaseFacts
  BY BaseParts
<1>a. KeepsAll(streams, streams)
  BY KeepsAllOn
<1>b. streams \in StreamsOf /\ undone \in StreamsOf /\ sending \in BOOLEAN
  BY <1>0, Undone DEF BaseFacts
<1>c. \A frame \in Frames : frame \in Frame
  BY SendAssumption
<1>1. CASE TooManyPackets \/ UnreadableReject
  <2>1. /\ Fail(streams, endPhase) /\ at # "inFlight"
        /\ UNCHANGED <<packet, queuedFrames, _totalSent, paid, granted, ended>>
    BY <1>1 DEF TooManyPackets, UnreadableReject, packetVars, totalVars, historyVars
  <2>. QED  BY <1>b, <2>1, FailStreams DEF Quiet
<1>2. CASE NothingToSend \/ RejectWithoutData \/ Retry
  <2>1. /\ Continue(streams, FALSE, endPhase) \/ Continue(streams, sending, endPhase)
        /\ at # "inFlight"
        /\ UNCHANGED <<packet, queuedFrames, _totalSent, paid, granted, ended>>
    BY <1>2 DEF NothingToSend, RejectWithoutData, Retry, packetVars, totalVars, historyVars
  <2>. QED  BY <1>b, <2>1, ContinueStreams DEF Quiet
<1>3. ASSUME NEW frame \in Frames, HandleReject(frame)
      PROVE  Kinds
  <2>1. /\ Continue(afterFrame(frame), startsLoop(frame) \/ sendingAfter(frame),
                    endPhaseAfter(frame)) /\ at # "inFlight"
        /\ queuedFrames' = queuedFrames \cup framesQueuedBy(frame)
        /\ UNCHANGED <<packet, _totalSent, paid, granted, ended>>
    BY <1>3 DEF HandleReject, packetVars, totalVars, historyVars
  <2>2. afterFrame(frame) \in StreamsOf /\ KeepsAll(streams, afterFrame(frame))
    BY <1>b, <1>c, AfterFrame
  <2>3. KeepsAll(afterFrame(frame), streams')
    BY <2>1, <2>2, ContinueStreams
  <2>4. KeepsAll(streams, streams')
    BY <2>2, <2>3, KeepsAllOn
  <2>. QED  BY <2>1, <2>4 DEF Quiet
<1>4. CASE FulfillWithoutData
  <2>1. /\ Continue(streams, sending, endPhase) /\ at = "inFlight" /\ packet' = NoPacket /\ Paid
        /\ ended' = ended \cup packet.closes
        /\ UNCHANGED <<queuedFrames, _totalSent, granted>>
    BY <1>4 DEF FulfillWithoutData, totalVars
  <2>. QED  BY <1>b, <2>1, ContinueStreams DEF Unsettled
<1>5. CASE SendFails
  <2>1. /\ Fail(streams, endPhase) /\ at = "inFlight" /\ packet' = NoPacket
        /\ Paid \/ UNCHANGED paid
        /\ UNCHANGED <<queuedFrames, _totalSent, granted, ended>>
    BY <1>5 DEF SendFails, totalVars
  <2>2. done \/ destroyPhase' # "none"
    BY <2>1 DEF Fail, Destroying
  <2>. QED  BY <1>b, <2>1, <2>2, FailStreams DEF Unsettled
<1>6. CASE RejectByReceiver \/ \E insufficientLiquidity \in BOOLEAN : TemporaryError(insufficientLiquidity)
  <2>1. /\ streams' = undone /\ at = "inFlight" /\ packet' = NoPacket /\ queuedFrames' = requeued
        /\ UNCHANGED <<paid, granted, _totalSent, ended>>
    BY <1>6 DEF RejectByReceiver, TemporaryError, totalVars, historyVars
  <2>. QED  BY <2>1, KeepsAllOn DEF Undoes
<1>7. CASE FinalError \/ \E metadata \in F08Metadata : AmountTooLarge(metadata)
  <2>1. /\ Fail(undone, endPhase) \/ Continue(undone, sending, endPhase)
        /\ at = "inFlight" /\ packet' = NoPacket /\ queuedFrames' = requeued
        /\ UNCHANGED <<paid, granted, _totalSent, ended>>
    BY <1>7 DEF FinalError, AmountTooLarge, totalVars, historyVars
  <2>. QED  BY <1>b, <2>1, FailStreams, ContinueStreams DEF Undoes
<1>8. ASSUME NEW frame \in Frames, ReceiveFrame(frame)
      PROVE  Kinds
  <2>1. /\ streams' = afterFrame(frame) /\ queuedFrames' = queuedFrames \cup framesQueuedBy(frame)
        /\ StartSendLoop(startsLoop(frame), sendingAfter(frame), remoteState', endPhaseAfter(frame))
        /\ UNCHANGED <<packet, _totalSent, paid, granted, ended>>
    BY <1>8 DEF ReceiveFrame, packetVars, totalVars, historyVars
  <2>. QED  BY <1>b, <1>c, <2>1, AfterFrame DEF Quiet, StartSendLoop
<1>9. ASSUME NEW id \in StreamIds, NEW after \in {endStream(streams[id]), destroyStream(streams[id])},
             CloseStream(id, after)
      PROVE  Kinds
  <2>1. streams[id] \in Stream
    BY <1>b DEF StreamsOf
  <2>2. Keeps(streams[id], after)
    BY <2>1, EndKeeps, DestroyKeeps
  <2>3. /\ streams' = [streams EXCEPT ![id] = after]
        /\ UNCHANGED <<packet, at, queuedFrames, _totalSent, paid, granted, ended>>
    BY <1>9 DEF CloseStream, packetVars, loopVars, totalVars, historyVars
  <2>4. KeepsAll(streams, streams')
    BY <1>b, <2>2, <2>3, KeepsItself DEF KeepsAll, StreamsOf
  <2>. QED  BY <2>3, <2>4 DEF Quiet
<1>10. CASE StartLater \/ end
  <2>1. /\ \E phase : StartSendLoop(TRUE, sending, remoteState, phase)
        /\ streams' = streams \/ streams' = endAll(streams)
        /\ UNCHANGED <<packet, queuedFrames, _totalSent, paid, granted, ended>>
    BY <1>10 DEF StartLater, end, packetVars, totalVars, historyVars
  <2>2. at = "inFlight" => at' = "inFlight"
    BY <2>1 DEF StartSendLoop
  <2>. QED  BY <1>a, <1>b, <2>1, <2>2, EndAll DEF Quiet
<1>11. CASE Closing \/ UNCHANGED vars
  <2>1. UNCHANGED <<streams, at, packet, queuedFrames, _totalSent, paid, granted, ended>>
    BY <1>11 DEF Closing, EndStreams, EndCompletes, DestroyClosed, DestroyCompletes, packetVars,
                 loopVars, totalVars, historyVars, vars
  <2>. QED  BY <1>a, <2>1 DEF Quiet
<1>12. ASSUME NEW err \in BOOLEAN, destroy(err)
       PROVE  Kinds
  <2>1. /\ streams' = destroyAll(streams)
        /\ UNCHANGED <<at, packet, queuedFrames, _totalSent, paid, granted, ended>>
    BY <1>12 DEF destroy, packetVars, totalVars, historyVars
  <2>. QED  BY <1>b, <2>1, DestroyAll DEF Quiet
<1>13. CASE ReceiveResponse
  BY <1>1, <1>2, <1>3, <1>4, <1>5, <1>6, <1>7, <1>13 DEF ReceiveResponse, Fulfills
<1>14. CASE Next
  <2>. HIDE DEF Kinds
  <2>1. SendPacket \/ StreamChanges => Kinds
    BY DEF Kinds
  <2>. QED
    BY <1>1, <1>2, <1>8, <1>9, <1>10, <1>11, <1>12, <1>13, <1>14, <2>1
       DEF Next, loadAndSendPacket, CloseEvents, testIdle, Application, Finished, StreamChanges
<1>. QED  BY <1>11, <1>14

\* end() and destroy() go forward only.
LEMMA Forward ==
  ASSUME BaseInv, [Next]_vars
  PROVE  (destroyPhase # "none" => destroyPhase' # "none") /\ (done => done')
<1>1. /\ \A current, sends, phase : Continue(current, sends, phase) => endPhase' = loopFinished(phase) \/ endPhase' = phase
      /\ \A starts, sends, remote, phase :
            StartSendLoop(starts, sends, remote, phase) => endPhase' = loopFinished(phase) \/ endPhase' = phase
      /\ \A current, phase : Fail(current, phase) => Destroying /\ endPhase' = erred(phase)
  BY DEF Continue, StartSendLoop, Fail
<1>2. /\ \A phase : phase = "done" => loopFinished(phase) = "done" /\ erred(phase) = "done"
      /\ \A frame : endPhase = "done" => endPhaseAfter(frame) = "done"
      /\ Destroying => (destroyPhase = "done" => destroyPhase' = "done")
                       /\ (destroyPhase # "none" => destroyPhase' # "none")
      /\ \A frame, remote : ControlFrame(frame, remote) => Destroying \/ UNCHANGED destroyPhase
  BY DEF loopFinished, erred, endPhaseAfter, Destroying, ControlFrame
<1>3. ASSUME Destroying \/ UNCHANGED destroyPhase, endPhase = "done" => endPhase' = "done"
      PROVE  (destroyPhase # "none" => destroyPhase' # "none") /\ (done => done')
  BY <1>2, <1>3 DEF done
<1>4. CASE TooManyPackets \/ UnreadableReject \/ SendFails \/ FinalError
           \/ \E metadata \in F08Metadata : AmountTooLarge(metadata)
  <2>1. \/ Destroying /\ endPhase' = erred(endPhase)
        \/ UNCHANGED destroyPhase /\ (endPhase' = loopFinished(endPhase) \/ endPhase' = endPhase)
    BY <1>1, <1>4 DEF TooManyPackets, UnreadableReject, SendFails, FinalError, AmountTooLarge
  <2>. QED  BY <1>2, <1>3, <2>1
<1>5. CASE NothingToSend \/ RejectWithoutData \/ Retry \/ FulfillWithoutData \/ StartLater
           \/ \E id \in StreamIds, limit \in SendMaxima : setSendMax(id, limit)
  <2>1. UNCHANGED destroyPhase /\ (endPhase' = loopFinished(endPhase) \/ endPhase' = endPhase)
    BY <1>1, <1>5 DEF NothingToSend, RejectWithoutData, Retry, FulfillWithoutData, StartLater,
                      setSendMax
  <2>. QED  BY <1>2, <1>3, <2>1
<1>6. ASSUME NEW frame \in Frames,
             HandleReject(frame) \/ ReceiveFrame(frame)
               \/ \E delivered \in Deliveries : ReceiveFulfill(delivered, frame)
      PROVE  (destroyPhase # "none" => destroyPhase' # "none") /\ (done => done')
  <2>1. /\ Destroying \/ UNCHANGED destroyPhase
        /\ \/ endPhase' = erred(endPhaseAfter(frame))
           \/ endPhase' = loopFinished(endPhaseAfter(frame))
           \/ endPhase' = endPhaseAfter(frame)
    BY <1>1, <1>2, <1>6, FulfillStep DEF HandleReject, ReceiveFrame
  <2>. QED  BY <1>2, <1>3, <2>1
<1>7. CASE Closing
  BY <1>7 DEF Closing, EndStreams, EndCompletes, DestroyClosed, DestroyCompletes, done, loopVars
<1>8. CASE end
  BY <1>8 DEF end, done
<1>9. ASSUME NEW err \in BOOLEAN, destroy(err)
      PROVE  (destroyPhase # "none" => destroyPhase' # "none") /\ (done => done')
  BY <1>9 DEF destroy, done
<1>10. CASE \/ SendPacket \/ RejectByReceiver \/ UNCHANGED vars
            \/ \E insufficientLiquidity \in BOOLEAN : TemporaryError(insufficientLiquidity)
            \/ \E id \in StreamIds :
                  \/ createStream(id)
                  \/ removeStreamRecord(id)
                  \/ \E after : CloseStream(id, after)
  <2>1. UNCHANGED <<endPhase, destroyPhase>>
    BY <1>10 DEF SendPacket, RejectByReceiver, vars, loopVars, TemporaryError, createStream,
                 removeStreamRecord, CloseStream
  <2>. QED  BY <2>1 DEF done
<1>11. CASE ReceiveResponse
  BY <1>4, <1>5, <1>6, <1>10, <1>11 DEF ReceiveResponse
<1>12. CASE Next
  BY <1>4, <1>5, <1>6, <1>7, <1>8, <1>9, <1>10, <1>11, <1>12
     DEF Next, loadAndSendPacket, CloseEvents, testIdle, Application, Finished
<1>. QED  BY <1>10, <1>12

-----------------------------------------------------------------------------
(* StreamClose frames *)

Tracked(id) == id \in queuedFrames \cup ended \/ (at = "inFlight" /\ id \in packet.closes)

\* A stream that still has a record says it told the peer of its end only if the peer
\* ended it: removeStreamRecord then queues the frame of every other one.
EndsTold ==
    \A id \in StreamIds :
        streams[id].sentEnd /\ streams[id].status # "removed" => streams[id].remoteSentEnd

CloseInv == EndsTold /\ CloseFrameNotLost

\* The record of a stream that was created, limited or removed.
LEMMA Opened ==
  ASSUME NEW s \in Stream, NEW limit \in Long
  PROVE  /\ opened(s).status = "open" /\ opened(s).sendMax = s.sendMax
         /\ opened(s).totalSent = s.totalSent /\ opened(s).heldAmount = s.heldAmount
         /\ opened(s).sentEnd = s.sentEnd /\ opened(s).remoteSentEnd = s.remoteSentEnd
         /\ limitedTo(s, limit).status = s.status /\ limitedTo(s, limit).sendMax = limit
         /\ limitedTo(s, limit).totalSent = s.totalSent
         /\ limitedTo(s, limit).heldAmount = s.heldAmount
         /\ limitedTo(s, limit).sentEnd = s.sentEnd
         /\ limitedTo(s, limit).remoteSentEnd = s.remoteSentEnd
         /\ removed(s).status = "removed" /\ removed(s).sendMax = s.sendMax
         /\ removed(s).totalSent = s.totalSent /\ removed(s).heldAmount = s.heldAmount
         /\ removed(s).remoteSentEnd = s.remoteSentEnd
         /\ opened(s) \in Stream /\ limitedTo(s, limit) \in Stream /\ removed(s) \in Stream
BY DEF opened, limitedTo, removed, Stream, StreamStatus

\* A step that does not remove a stream and loses no frame.
LEMMA CloseKept ==
  ASSUME BaseInv, CloseInv, [Next]_vars, LaterAll(streams, streams'),
         destroyPhase' # "none" \/ done' \/ \A id \in StreamIds : Tracked(id) => Tracked(id)'
  PROVE  CloseInv'
<1>1. (destroyPhase # "none" => destroyPhase' # "none") /\ (done => done')
  BY Forward
<1>2. EndsTold'
  BY DEF CloseInv, EndsTold, LaterAll, Later
<1>3. \A id \in StreamIds :
        /\ streams'[id].status = "removed" => streams[id].status = "removed"
        /\ ~streams'[id].remoteSentEnd => ~streams[id].remoteSentEnd
  BY DEF LaterAll, Later
<1>4. CloseFrameNotLost'
  BY <1>1, <1>3 DEF CloseInv, CloseFrameNotLost, Tracked
<1>. QED  BY <1>2, <1>4 DEF CloseInv

\* CloseInv holds initially.
LEMMA CloseInit == Init => CloseInv
<1>. SUFFICES ASSUME Init PROVE CloseInv
  OBVIOUS
<1>1. \A id \in StreamIds : streams[id].status = "none" /\ streams[id].sentEnd = FALSE
  BY DEF Init, NewStream
<1>. QED  BY <1>1 DEF CloseInv, EndsTold, CloseFrameNotLost

\* Every step keeps CloseInv.
LEMMA CloseStep == BaseInv /\ CloseInv /\ [Next]_vars => CloseInv'
<1>. SUFFICES ASSUME BaseInv, CloseInv, [Next]_vars PROVE CloseInv'
  OBVIOUS
<1>0. BaseFacts /\ RateInv
  BY BaseParts DEF BaseInv
<1>a. streams \in StreamsOf /\ undone \in StreamsOf /\ LaterAll(streams, undone)
  BY <1>0, Undone DEF BaseFacts
<1>1. CASE Quiet
  <2>1. LaterAll(streams, streams')
    BY <1>1, KeepsAllOn DEF Quiet
  <2>2. \A id \in StreamIds : Tracked(id) => Tracked(id)'
    BY <1>1 DEF Quiet, Tracked
  <2>. QED  BY <2>1, <2>2, CloseKept
<1>2. CASE SendPacket
  <2>. DEFINE amounts == [id \in StreamIds |-> amountFrom(id)]
  <2>1. /\ streams' = [id \in StreamIds |-> holdOutgoing(streams[id], amounts[id])]
        /\ packet' = [amounts |-> amounts, closes |-> queuedFrames \ {0}]
        /\ at = "loading" /\ at' = "inFlight" /\ ended' = ended
    BY <1>2 DEF SendPacket, historyVars
  <2>2. amounts \in Amounts
    BY <1>0, PacketAmounts DEF BaseFacts
  <2>. HIDE DEF amounts
  <2>3. LaterAll(streams, streams')
    BY <1>a, <2>1, <2>2, HoldOutgoing DEF StreamsOf, Amounts, LaterAll
  <2>4. \A id \in StreamIds : id # 0
    BY SendAssumption DEF StreamIds
  <2>5. packet'.closes = queuedFrames \ {0}
    BY <2>1
  <2>6. \A id \in StreamIds : Tracked(id) => Tracked(id)'
    BY <2>1, <2>4, <2>5 DEF Tracked
  <2>. QED  BY <2>3, <2>6, CloseKept
<1>3. CASE Fulfills
  <2>1. PICK delivered \in Deliveries, frame \in Frames : ReceiveFulfill(delivered, frame)
    BY <1>3 DEF Fulfills
  <2>2. /\ ended' = ended \cup packet.closes
        /\ queuedFrames' = queuedFrames \cup framesQueuedBy(frame)
        /\ \E phase, sends : Fail(executed(frame), phase) \/ Continue(executed(frame), sends, phase)
    BY <2>1, FulfillStep
  <2>3. executed(frame) \in StreamsOf /\ LaterAll(streams, executed(frame))
    BY <1>0, SendAssumption, Executed DEF BaseFacts
  <2>4. KeepsAll(executed(frame), streams')
    BY <2>2, <2>3, FailStreams, ContinueStreams
  <2>5. LaterAll(streams, streams')
    BY <2>3, <2>4, KeepsAllOn
  <2>6. \A id \in StreamIds : Tracked(id) => Tracked(id)'
    BY <2>2 DEF Tracked
  <2>. QED  BY <2>5, <2>6, CloseKept
<1>4. CASE Unsettled
  <2>1. LaterAll(streams, streams')
    BY <1>4, KeepsAllOn DEF Unsettled
  <2>2. done => done'
    BY Forward
  <2>3. destroyPhase' # "none" \/ done' \/ \A id \in StreamIds : Tracked(id) => Tracked(id)'
    BY <1>4, <2>2 DEF Unsettled, Tracked
  <2>. QED  BY <2>1, <2>3, CloseKept
<1>5. CASE Undoes
  <2>1. LaterAll(streams, streams')
    BY <1>5, <1>a, KeepsAllOn DEF Undoes
  <2>2. \A id \in StreamIds : Tracked(id) => Tracked(id)'
    BY <1>5 DEF Undoes, Tracked, requeued
  <2>. QED  BY <2>1, <2>2, CloseKept
<1>6. ASSUME NEW id \in StreamIds, createStream(id)
      PROVE  CloseInv'
  <2>1. /\ streams' = [streams EXCEPT ![id] = opened(streams[id])] /\ streams[id] \in Stream
        /\ streams[id].status = "none"
        /\ UNCHANGED <<queuedFrames, at, packet, ended, destroyPhase, endPhase>>
    BY <1>6, <1>a DEF createStream, packetVars, loopVars, historyVars, StreamsOf
  <2>2. \A j \in StreamIds : streams'[j] = IF j = id THEN opened(streams[id]) ELSE streams[j]
    BY <1>a, <2>1 DEF StreamsOf
  <2>3. 0 \in Long
    BY WordAssumption DEF Long
  <2>4. opened(streams[id]).status = "open" /\ opened(streams[id]).sentEnd = streams[id].sentEnd
        /\ opened(streams[id]).remoteSentEnd = streams[id].remoteSentEnd
    BY <2>1, <2>3, Opened
  <2>5. EndsTold'
    BY <2>1, <2>2, <2>4 DEF CloseInv, EndsTold
  <2>6. CloseFrameNotLost'
    BY <2>1, <2>2, <2>4 DEF CloseInv, CloseFrameNotLost, done
  <2>. QED  BY <2>5, <2>6 DEF CloseInv
<1>7. ASSUME NEW id \in StreamIds, NEW limit \in SendMaxima, setSendMax(id, limit)
      PROVE  CloseInv'
  <2>1. /\ streams' = [streams EXCEPT ![id] = limitedTo(streams[id], limit)]
        /\ streams[id] \in Stream /\ limit \in Long
        /\ StartSendLoop(TRUE, sending, remoteState, endPhase)
        /\ UNCHANGED <<queuedFrames, packet, ended>>
    BY <1>7, <1>a, SendAssumption DEF setSendMax, packetVars, StreamsOf
  <2>2. Later(streams[id], limitedTo(streams[id], limit))
    BY <2>1, Opened DEF Later, isOpen
  <2>3. LaterAll(streams, streams')
    BY <1>a, <2>1, <2>2, KeepsItself DEF LaterAll, StreamsOf
  <2>4. \A j \in StreamIds : Tracked(j) => Tracked(j)'
    BY <2>1 DEF Tracked, StartSendLoop
  <2>. QED  BY <2>3, <2>4, CloseKept
<1>8. ASSUME NEW id \in StreamIds, removeStreamRecord(id)
      PROVE  CloseInv'
  <2>1. /\ streams' = [streams EXCEPT ![id] = removed(streams[id])] /\ streams[id] \in Stream
        /\ streams[id].status = "closed"
        /\ streams[id].sentEnd \/ queuedFrames' = queuedFrames \cup {id}
        /\ queuedFrames \subseteq queuedFrames'
        /\ UNCHANGED <<at, packet, ended, destroyPhase, endPhase>>
    BY <1>8, <1>a DEF removeStreamRecord, packetVars, loopVars, historyVars, StreamsOf
  <2>2. \A j \in StreamIds : streams'[j] = IF j = id THEN removed(streams[id]) ELSE streams[j]
    BY <1>a, <2>1 DEF StreamsOf
  <2>3. 0 \in Long
    BY WordAssumption DEF Long
  <2>4. removed(streams[id]).status = "removed"
        /\ removed(streams[id]).remoteSentEnd = streams[id].remoteSentEnd
    BY <2>1, <2>3, Opened
  <2>5. EndsTold'
    BY <2>2, <2>4 DEF CloseInv, EndsTold
  <2>6. streams[id].remoteSentEnd \/ id \in queuedFrames'
    BY <2>1 DEF CloseInv, EndsTold
  <2>7. CloseFrameNotLost'
    BY <2>1, <2>2, <2>4, <2>6 DEF CloseInv, CloseFrameNotLost, done
  <2>. QED  BY <2>5, <2>7 DEF CloseInv
<1>. QED  BY <1>1, <1>2, <1>3, <1>4, <1>5, <1>6, <1>7, <1>8, StepKinds DEF StreamChanges

\* The StreamClose frame of a stream this side closed is queued, under way or has
\* arrived, however often its packet is rejected (connection.ts:1946) and whatever the
\* peer, the other streams and end() do meanwhile.
THEOREM CloseFramesKept == Spec => []CloseFrameNotLost
<1>1. Init => BaseInv /\ CloseInv
  BY BaseInit, CloseInit
<1>2. BaseInv /\ CloseInv /\ [Next]_vars => BaseInv' /\ CloseInv'
  BY BaseStep, CloseStep
<1>3. CloseInv => CloseFrameNotLost
  BY DEF CloseInv
<1>. QED  BY <1>1, <1>2, <1>3, PTL DEF Spec

-----------------------------------------------------------------------------
(* Money *)

\* The application's limits are below half of the Longs, 2^63 in the code.  Above it
\* checkedSubtract misses an underflow: a limit lowered under what a packet has in
\* flight then leaves more than the stream may send.
LowLimits == \A limit \in SendMaxima : 2 * limit <= MAX_UNSIGNED_VALUE

\* The ledger of a stream: what was paid and what is in the packet is sent or held,
\* within the limits it had.
MoneyOK(s, took, limit, amount) ==
    /\ took + amount <= s.totalSent + s.heldAmount
    /\ s.totalSent + s.heldAmount <= limit
    /\ amount <= s.heldAmount
    /\ s.sendMax <= limit
    /\ 2 * limit <= MAX_UNSIGNED_VALUE

Settled(s, took, amount) == s.totalSent + s.heldAmount = took + amount

MoneyInv ==
    \A id \in StreamIds :
        /\ MoneyOK(streams[id], paid[id], granted[id], packet.amounts[id])
        /\ streams[id].status = "none" => packet.amounts[id] = 0
        /\ streams[id].status # "removed" /\ destroyPhase = "none" =>
              Settled(streams[id], paid[id], packet.amounts[id])

\* With limits below half of the Longs, a stream has no more available than its limit
\* leaves.
LEMMA AvailableExact ==
  ASSUME NEW s \in Stream, NEW limit \in Long, s.totalSent + s.heldAmount <= limit,
         s.sendMax <= limit, 2 * limit <= MAX_UNSIGNED_VALUE,
         NEW amount \in Long, amount <= _getAmountAvailableToSend(s)
  PROVE  s.totalSent + s.heldAmount + amount <= limit
<1>. DEFINE left == checkedSubtract(s.sendMax, s.totalSent).difference
            free == checkedSubtract(left, s.heldAmount).difference
<1>1. s.sendMax \in Long /\ s.totalSent \in Long /\ s.heldAmount \in Long
  BY DEF Stream
<1>2. 2 * s.totalSent <= MAX_UNSIGNED_VALUE /\ 2 * s.heldAmount <= MAX_UNSIGNED_VALUE
  BY <1>1, WordAssumption DEF Long
<1>3. left = IF s.sendMax < s.totalSent THEN 0 ELSE s.sendMax - s.totalSent
  BY <1>1, <1>2, CheckedSubtractHalf
<1>4. left \in Long
  BY <1>1, CheckedSubtractType
<1>5. free = IF left < s.heldAmount THEN 0 ELSE left - s.heldAmount
  <2>. HIDE DEF left
  <2>. QED  BY <1>1, <1>2, <1>4, CheckedSubtractHalf
<1>6. _getAmountAvailableToSend(s) \in {0, free}
  BY DEF _getAmountAvailableToSend
<1>. HIDE DEF left, free
<1>7. amount <= 0 \/ amount <= free
  BY <1>6
<1>. QED  BY <1>1, <1>3, <1>5, <1>7, WordAssumption DEF Long

\* A hold, its execution and its cancellation do not wrap around.
LEMMA HoldExact ==
  ASSUME NEW s \in Stream, NEW limit \in Long, NEW took \in Nat, NEW amount \in Long,
         MoneyOK(s, took, limit, 0), amount <= _getAmountAvailableToSend(s)
  PROVE  /\ MoneyOK(holdOutgoing(s, amount), took, limit, amount)
         /\ Settled(s, took, 0) => Settled(holdOutgoing(s, amount), took, amount)
<1>. DEFINE t == holdOutgoing(s, amount)
<1>1. s.sendMax \in Long /\ s.totalSent \in Long /\ s.heldAmount \in Long
  BY DEF Stream
<1>2. s.totalSent + s.heldAmount + amount <= limit
  BY AvailableExact DEF MoneyOK
<1>3. s.heldAmount + amount \in Nat /\ s.heldAmount + amount <= MAX_UNSIGNED_VALUE
  BY <1>1, <1>2, WordAssumption DEF Long
<1>4. t.sendMax = s.sendMax /\ t.totalSent = s.totalSent /\ t.heldAmount = wrap(s.heldAmount + amount)
  BY HoldOutgoing
<1>5. wrap(s.heldAmount + amount) = s.heldAmount + amount
  BY <1>3, WrapFits
<1>6. t.heldAmount = s.heldAmount + amount
  BY <1>4, <1>5
<1>. HIDE DEF t
<1>. QED  BY <1>1, <1>2, <1>4, <1>6, WordAssumption DEF MoneyOK, Settled, Long, t

\* Within the limits a hold is executed without a wrap.
LEMMA ExecuteExact ==
  ASSUME NEW s \in Stream, NEW limit \in Long, NEW took \in Nat, NEW amount \in Long,
         MoneyOK(s, took, limit, amount)
  PROVE  /\ MoneyOK(executeHold(s, amount), took + amount, limit, 0)
         /\ Settled(s, took, amount) => Settled(executeHold(s, amount), took + amount, 0)
         /\ executeHold(s, amount).totalSent = s.totalSent + amount
<1>. DEFINE t == executeHold(s, amount)
<1>1. s.sendMax \in Long /\ s.totalSent \in Long /\ s.heldAmount \in Long
  BY DEF Stream
<1>2. /\ s.totalSent + amount \in Nat /\ s.totalSent + amount <= MAX_UNSIGNED_VALUE
      /\ s.heldAmount - amount \in Nat /\ s.heldAmount - amount <= MAX_UNSIGNED_VALUE
  BY <1>1, WordAssumption DEF Long, MoneyOK
<1>3. wrap(s.totalSent + amount) = s.totalSent + amount
      /\ wrap(s.heldAmount - amount) = s.heldAmount - amount
  BY <1>2, WrapFits
<1>4. /\ t.sendMax = s.sendMax /\ t.totalSent = s.totalSent + amount
      /\ t.heldAmount = s.heldAmount - amount
  <2>1. CASE amount = 0
    <3>1. t = s
      BY <2>1, ExecuteHold
    <3>2. s.totalSent + 0 = s.totalSent /\ s.heldAmount - 0 = s.heldAmount
      BY <1>1, WordAssumption DEF Long
    <3>. QED  BY <2>1, <3>1, <3>2
  <2>2. CASE amount # 0
    BY <1>3, <2>2, ExecuteHold
  <2>. QED  BY <2>1, <2>2
<1>. HIDE DEF t
<1>. QED  BY <1>1, <1>4, WordAssumption DEF MoneyOK, Settled, Long, t

\* Within the limits a hold is cancelled without a wrap.
LEMMA CancelExact ==
  ASSUME NEW s \in Stream, NEW limit \in Long, NEW took \in Nat, NEW amount \in Long,
         MoneyOK(s, took, limit, amount)
  PROVE  /\ MoneyOK(cancelHold(s, amount), took, limit, 0)
         /\ Settled(s, took, amount) => Settled(cancelHold(s, amount), took, 0)
<1>. DEFINE t == cancelHold(s, amount)
<1>1. s.sendMax \in Long /\ s.totalSent \in Long /\ s.heldAmount \in Long
  BY DEF Stream
<1>2. s.heldAmount - amount \in Nat /\ s.heldAmount - amount <= MAX_UNSIGNED_VALUE
  BY <1>1, WordAssumption DEF Long, MoneyOK
<1>3. wrap(s.heldAmount - amount) = s.heldAmount - amount
  BY <1>2, WrapFits
<1>4. t.sendMax = s.sendMax /\ t.totalSent = s.totalSent /\ t.heldAmount = s.heldAmount - amount
  BY <1>3, CancelHold
<1>. HIDE DEF t
<1>. QED  BY <1>1, <1>4, WordAssumption DEF MoneyOK, Settled, Long, t

\* A step that keeps a stream's money keeps its ledger.
LEMMA KeepsMoney ==
  ASSUME NEW s, NEW t, Keeps(s, t), NEW took, NEW limit, NEW amount
  PROVE  /\ MoneyOK(s, took, limit, amount) <=> MoneyOK(t, took, limit, amount)
         /\ Settled(s, took, amount) <=> Settled(t, took, amount)
BY DEF Keeps, MoneyOK, Settled

\* The ledger of every stream holds initially.
LEMMA MoneyInit ==
  ASSUME Init
  PROVE  MoneyInv
<1>1. ASSUME NEW id \in StreamIds
      PROVE  /\ streams[id].status = "none" /\ streams[id].sendMax = 0
             /\ streams[id].totalSent = 0 /\ streams[id].heldAmount = 0
             /\ paid[id] = 0 /\ granted[id] = 0 /\ packet.amounts[id] = 0
  BY EmptyPacket DEF Init, NewStream
<1>. QED  BY <1>1, WordAssumption DEF MoneyInv, MoneyOK, Settled

\* The parts of the state a step's ledgers are made of.
LEMMA MoneyTypes ==
  ASSUME BaseInv
  PROVE  \A id \in StreamIds :
            /\ streams[id] \in Stream /\ packet.amounts[id] \in Long
            /\ granted[id] \in Long /\ paid[id] \in Nat
BY BaseParts DEF BaseFacts, StreamsOf, Amounts

\* Every step keeps the ledger of every stream.
LEMMA MoneyStep ==
  ASSUME LowLimits, BaseInv, PhaseInv, MoneyInv, [Next]_vars
  PROVE  MoneyInv'
<1>0. BaseFacts /\ RateInv
  BY BaseParts DEF BaseInv
<1>a. destroyPhase' = "none" => destroyPhase = "none"
  BY Forward
<1>b. \A id \in StreamIds :
        /\ streams[id] \in Stream /\ packet.amounts[id] \in Long
        /\ granted[id] \in Long /\ paid[id] \in Nat
  BY MoneyTypes
<1>c. packet' = NoPacket => \A id \in StreamIds : packet'.amounts[id] = 0
  BY EmptyPacket
<1>1. CASE Quiet
  <2>1. ASSUME NEW id \in StreamIds
        PROVE  /\ MoneyOK(streams'[id], paid'[id], granted'[id], packet'.amounts[id])
               /\ streams'[id].status = "none" => packet'.amounts[id] = 0
               /\ streams'[id].status # "removed" /\ destroyPhase' = "none" =>
                     Settled(streams'[id], paid'[id], packet'.amounts[id])
    <3>1. /\ paid' = paid /\ granted' = granted /\ packet' = packet
          /\ Keeps(streams[id], streams'[id])
      BY <1>1 DEF Quiet, KeepsAll
    <3>2. /\ streams'[id].status = "none" => streams[id].status = "none"
          /\ streams'[id].status # "removed" => streams[id].status # "removed"
      BY <3>1 DEF Keeps, Later
    <3>. QED  BY <1>a, <3>1, <3>2, KeepsMoney DEF MoneyInv
  <2>. QED  BY <2>1 DEF MoneyInv
<1>2. CASE SendPacket
  <2>. DEFINE amounts == [id \in StreamIds |-> amountFrom(id)]
  <2>1. /\ streams' = [id \in StreamIds |-> holdOutgoing(streams[id], amounts[id])]
        /\ packet' = [amounts |-> amounts, closes |-> queuedFrames \ {0}]
        /\ at = "loading" /\ UNCHANGED <<paid, granted, destroyPhase>>
    BY <1>2 DEF SendPacket, historyVars
  <2>2. /\ amounts \in Amounts
        /\ \A id \in StreamIds :
              /\ amounts[id] \in Long
              /\ amounts[id] <= _getAmountAvailableToSend(streams[id])
              /\ ~isOpen(streams[id]) => amounts[id] = 0
    BY <1>0, PacketAmounts DEF BaseFacts
  <2>. HIDE DEF amounts
  <2>3. ASSUME NEW id \in StreamIds
        PROVE  /\ MoneyOK(streams'[id], paid'[id], granted'[id], packet'.amounts[id])
               /\ streams'[id].status = "none" => packet'.amounts[id] = 0
               /\ streams'[id].status # "removed" /\ destroyPhase' = "none" =>
                     Settled(streams'[id], paid'[id], packet'.amounts[id])
    <3>1. packet.amounts[id] = 0
      BY <1>0, <2>1, EmptyPacket DEF BaseFacts
    <3>2. /\ MoneyOK(streams[id], paid[id], granted[id], 0)
          /\ streams[id].status # "removed" /\ destroyPhase = "none" =>
                Settled(streams[id], paid[id], 0)
      BY <3>1 DEF MoneyInv
    <3>3. streams'[id] = holdOutgoing(streams[id], amounts[id]) /\ packet'.amounts[id] = amounts[id]
          /\ paid'[id] = paid[id] /\ granted'[id] = granted[id]
      BY <2>1
    <3>4. streams'[id].status = streams[id].status
      BY <1>b, <2>2, <3>3, HoldOutgoing
    <3>5. streams[id].status = "none" => amounts[id] = 0
      BY <2>2 DEF isOpen
    <3>6. /\ MoneyOK(holdOutgoing(streams[id], amounts[id]), paid[id], granted[id], amounts[id])
          /\ Settled(streams[id], paid[id], 0)
                => Settled(holdOutgoing(streams[id], amounts[id]), paid[id], amounts[id])
      BY <1>b, <2>2, <3>2, HoldExact
    <3>. QED  BY <1>a, <3>2, <3>3, <3>4, <3>5, <3>6
  <2>. QED  BY <2>3 DEF MoneyInv
<1>3. CASE Fulfills
  <2>1. PICK delivered \in Deliveries, frame \in Frames : ReceiveFulfill(delivered, frame)
    BY <1>3 DEF Fulfills
  <2>2. /\ packet' = NoPacket /\ Paid /\ granted' = granted
        /\ \E phase, sends : Fail(executed(frame), phase) \/ Continue(executed(frame), sends, phase)
    BY <2>1, FulfillStep
  <2>3. /\ frame \in Frame /\ executed(frame) \in StreamsOf /\ afterFrame(frame) \in StreamsOf
        /\ KeepsAll(streams, afterFrame(frame)) /\ LaterAll(streams, executed(frame))
    BY <1>0, SendAssumption, Executed, AfterFrame DEF BaseFacts
  <2>4. KeepsAll(executed(frame), streams')
    BY <2>2, <2>3, FailStreams, ContinueStreams
  <2>5. LaterAll(streams, streams')
    BY <2>3, <2>4, KeepsAllOn
  <2>6. ASSUME NEW id \in StreamIds
        PROVE  /\ MoneyOK(streams'[id], paid'[id], granted'[id], packet'.amounts[id])
               /\ streams'[id].status = "none" => packet'.amounts[id] = 0
               /\ streams'[id].status # "removed" /\ destroyPhase' = "none" =>
                     Settled(streams'[id], paid'[id], packet'.amounts[id])
    <3>. DEFINE s == streams[id]  m == afterFrame(frame)[id]  a == packet.amounts[id]
                e == executed(frame)[id]
    <3>1. m \in Stream /\ Keeps(s, m) /\ e = executeHold(m, a) /\ Keeps(e, streams'[id])
      BY <2>3, <2>4 DEF StreamsOf, KeepsAll, executed
    <3>2. paid'[id] = paid[id] + a /\ granted'[id] = granted[id] /\ packet'.amounts[id] = 0
      BY <1>c, <2>2 DEF Paid
    <3>3. /\ MoneyOK(s, paid[id], granted[id], a)
          /\ s.status # "removed" /\ destroyPhase = "none" => Settled(s, paid[id], a)
      BY DEF MoneyInv
    <3>4. streams'[id].status # "removed" => s.status # "removed"
      BY <2>5 DEF LaterAll, Later
    <3>5. a \in Long /\ granted[id] \in Long /\ paid[id] \in Nat
      BY <1>b
    <3>. HIDE DEF s, m, a, e
    <3>6. /\ MoneyOK(m, paid[id], granted[id], a)
          /\ s.status # "removed" /\ destroyPhase = "none" => Settled(m, paid[id], a)
      BY <3>1, <3>3, KeepsMoney
    <3>7. /\ MoneyOK(e, paid[id] + a, granted[id], 0)
          /\ s.status # "removed" /\ destroyPhase = "none" => Settled(e, paid[id] + a, 0)
      BY <3>1, <3>5, <3>6, ExecuteExact
    <3>8. /\ MoneyOK(streams'[id], paid[id] + a, granted[id], 0)
          /\ s.status # "removed" /\ destroyPhase = "none" => Settled(streams'[id], paid[id] + a, 0)
      BY <3>1, <3>7, KeepsMoney
    <3>. QED  BY <1>a, <3>2, <3>4, <3>8
  <2>. QED  BY <2>6 DEF MoneyInv
<1>4. CASE Unsettled
  <2>1. ASSUME NEW id \in StreamIds
        PROVE  /\ MoneyOK(streams'[id], paid'[id], granted'[id], packet'.amounts[id])
               /\ streams'[id].status = "none" => packet'.amounts[id] = 0
               /\ streams'[id].status # "removed" /\ destroyPhase' = "none" =>
                     Settled(streams'[id], paid'[id], packet'.amounts[id])
    <3>. DEFINE s == streams[id]  a == packet.amounts[id]
    <3>1. /\ granted'[id] = granted[id] /\ packet'.amounts[id] = 0
          /\ Keeps(s, streams'[id])
      BY <1>4, <1>c DEF Unsettled, KeepsAll
    <3>2. \/ paid'[id] = paid[id] + a
          \/ paid'[id] = paid[id] /\ (done \/ destroyPhase' # "none")
      BY <1>4 DEF Unsettled, Paid
    <3>3. streams'[id].status # "removed" => s.status # "removed"
      BY <3>1 DEF Keeps, Later
    <3>4. done => destroyPhase # "none" \/ a = 0
      BY EmptyPacket DEF done, PhaseInv, LatePhases
    <3>5. /\ MoneyOK(s, paid[id], granted[id], a)
          /\ s.status # "removed" /\ destroyPhase = "none" => Settled(s, paid[id], a)
      BY DEF MoneyInv
    <3>6. /\ a \in Nat /\ granted[id] \in Nat /\ paid[id] \in Nat
          /\ s.totalSent \in Nat /\ s.heldAmount \in Nat
      BY <1>b, WordAssumption DEF Stream, Long
    <3>. HIDE DEF s, a
    <3>7. paid'[id] \in {paid[id], paid[id] + a}
      BY <3>2
    <3>8. MoneyOK(s, paid'[id], granted[id], 0)
      BY <3>5, <3>6, <3>7 DEF MoneyOK
    <3>9. s.status # "removed" /\ destroyPhase' = "none" => Settled(s, paid'[id], 0)
      BY <1>a, <3>2, <3>4, <3>5, <3>6 DEF Settled
    <3>. QED  BY <3>1, <3>3, <3>8, <3>9, KeepsMoney
  <2>. QED  BY <2>1 DEF MoneyInv
<1>5. CASE Undoes
  <2>1. undone \in StreamsOf
    BY <1>0, Undone DEF BaseFacts
  <2>2. ASSUME NEW id \in StreamIds
        PROVE  /\ MoneyOK(streams'[id], paid'[id], granted'[id], packet'.amounts[id])
               /\ streams'[id].status = "none" => packet'.amounts[id] = 0
               /\ streams'[id].status # "removed" /\ destroyPhase' = "none" =>
                     Settled(streams'[id], paid'[id], packet'.amounts[id])
    <3>. DEFINE s == streams[id]  a == packet.amounts[id]  u == undone[id]
    <3>1. /\ paid'[id] = paid[id] /\ granted'[id] = granted[id] /\ packet'.amounts[id] = 0
          /\ Keeps(u, streams'[id]) /\ u = IF hasRecord(s) THEN cancelHold(s, a) ELSE s
      BY <1>5, <1>c DEF Undoes, KeepsAll, undone
    <3>2. s \in Stream /\ a \in Long /\ granted[id] \in Long /\ paid[id] \in Nat
      BY <1>b
    <3>3. /\ MoneyOK(s, paid[id], granted[id], a) /\ (s.status = "none" => a = 0)
          /\ s.status # "removed" /\ destroyPhase = "none" => Settled(s, paid[id], a)
      BY DEF MoneyInv
    <3>4. hasRecord(s) \/ s.status = "none" \/ s.status = "removed"
      BY <3>2 DEF Stream, StreamStatus, hasRecord
    <3>. HIDE DEF s, a, u
    <3>5. /\ MoneyOK(u, paid[id], granted[id], 0)
          /\ u.status # "removed" /\ destroyPhase = "none" => Settled(u, paid[id], 0)
      <4>1. CASE hasRecord(s)
        <5>1. u = cancelHold(s, a) /\ s.status # "removed"
          BY <3>1, <4>1 DEF hasRecord
        <5>. QED  BY <3>2, <3>3, <5>1, CancelExact
      <4>2. CASE ~hasRecord(s)
        <5>1. u = s
          BY <3>1, <4>2
        <5>2. s.totalSent \in Nat /\ s.heldAmount \in Nat /\ a \in Nat
          BY <3>2, WordAssumption DEF Stream, Long
        <5>3. MoneyOK(s, paid[id], granted[id], 0)
          BY <3>2, <3>3, <5>2 DEF MoneyOK
        <5>4. s.status = "none" => a = 0
          BY <3>3
        <5>. QED  BY <3>3, <3>4, <4>2, <5>1, <5>3, <5>4
      <4>. QED  BY <4>1, <4>2
    <3>6. streams'[id].status # "removed" => u.status # "removed"
      BY <3>1 DEF Keeps, Later
    <3>. QED  BY <1>a, <3>1, <3>5, <3>6, KeepsMoney
  <2>. QED  BY <2>2 DEF MoneyInv
<1>6. CASE StreamChanges
  <2>1. PICK id \in StreamIds :
          \/ createStream(id)
          \/ \E limit \in SendMaxima : setSendMax(id, limit)
          \/ removeStreamRecord(id)
    BY <1>6 DEF StreamChanges
  <2>. DEFINE s == streams[id]
  <2>2. s \in Stream /\ streams \in StreamsOf /\ granted \in Amounts
    BY <1>0, <1>b DEF BaseFacts
  <2>3. PICK t \in Stream, most \in Long :
          /\ streams' = [streams EXCEPT ![id] = t] /\ granted' = [granted EXCEPT ![id] = most]
          /\ packet' = packet /\ paid' = paid /\ destroyPhase' = destroyPhase
          /\ t.totalSent = s.totalSent /\ t.heldAmount = s.heldAmount
          /\ granted[id] <= most /\ t.sendMax <= most /\ 2 * most <= MAX_UNSIGNED_VALUE
          /\ t.status = "none" => s.status = "none"
          /\ t.status # "removed" => s.status # "removed"
    <3>0. 0 \in Long
      BY WordAssumption DEF Long
    <3>a. /\ s.sendMax <= granted[id] /\ 2 * granted[id] <= MAX_UNSIGNED_VALUE
          /\ granted[id] \in Long /\ granted[id] <= granted[id]
          /\ granted = [granted EXCEPT ![id] = granted[id]]
      BY <1>b, <2>2, WordAssumption DEF MoneyInv, MoneyOK, Amounts, Long
    <3>1. CASE createStream(id)
      <4>1. /\ streams' = [streams EXCEPT ![id] = opened(s)] /\ s.status = "none"
            /\ UNCHANGED <<granted, packet, paid, destroyPhase>>
        BY <2>2, <3>1 DEF createStream, packetVars, historyVars, StreamsOf
      <4>2. /\ opened(s) \in Stream /\ opened(s).status = "open" /\ opened(s).sendMax = s.sendMax
            /\ opened(s).totalSent = s.totalSent /\ opened(s).heldAmount = s.heldAmount
        BY <2>2, <3>0, Opened
      <4>. HIDE DEF s
      <4>. QED  BY <3>a, <4>1, <4>2
    <3>2. CASE \E limit \in SendMaxima : setSendMax(id, limit)
      <4>1. PICK limit \in SendMaxima : setSendMax(id, limit)
        BY <3>2
      <4>2. /\ streams' = [streams EXCEPT ![id] = limitedTo(s, limit)]
            /\ granted' = [granted EXCEPT ![id] = maxLong(granted[id], limit)]
            /\ UNCHANGED <<packet, paid, destroyPhase>>
        BY <2>2, <4>1 DEF setSendMax, packetVars, StreamsOf, Amounts
      <4>3. limit \in Long /\ 2 * limit <= MAX_UNSIGNED_VALUE
        BY SendAssumption DEF LowLimits
      <4>4. /\ limitedTo(s, limit) \in Stream
            /\ limitedTo(s, limit).status = s.status /\ limitedTo(s, limit).sendMax = limit
            /\ limitedTo(s, limit).totalSent = s.totalSent
            /\ limitedTo(s, limit).heldAmount = s.heldAmount
        BY <2>2, <4>3, Opened
      <4>. HIDE DEF s
      <4>. DEFINE most == maxLong(granted[id], limit)
      <4>5. /\ most \in Long /\ granted[id] <= most /\ limit <= most
            /\ 2 * most <= MAX_UNSIGNED_VALUE
        BY <3>a, <4>3, WordAssumption DEF maxLong, Long
      <4>. HIDE DEF most
      <4>6. limitedTo(s, limit).sendMax <= most
        BY <4>4, <4>5
      <4>. QED  BY <4>2, <4>4, <4>5, <4>6 DEF most
    <3>3. CASE removeStreamRecord(id)
      <4>1. /\ streams' = [streams EXCEPT ![id] = removed(s)] /\ s.status = "closed"
            /\ UNCHANGED <<granted, packet, paid, destroyPhase>>
        BY <2>2, <3>3 DEF removeStreamRecord, packetVars, historyVars, StreamsOf
      <4>2. /\ removed(s) \in Stream /\ removed(s).status = "removed" /\ removed(s).sendMax = s.sendMax
            /\ removed(s).totalSent = s.totalSent /\ removed(s).heldAmount = s.heldAmount
        BY <2>2, <3>0, Opened
      <4>. HIDE DEF s
      <4>. QED  BY <3>a, <4>1, <4>2
    <3>. QED  BY <2>1, <3>1, <3>2, <3>3
  <2>4. ASSUME NEW j \in StreamIds
        PROVE  /\ MoneyOK(streams'[j], paid'[j], granted'[j], packet'.amounts[j])
               /\ streams'[j].status = "none" => packet'.amounts[j] = 0
               /\ streams'[j].status # "removed" /\ destroyPhase' = "none" =>
                     Settled(streams'[j], paid'[j], packet'.amounts[j])
    <3>1. CASE j # id
      <4>1. streams'[j] = streams[j] /\ granted'[j] = granted[j]
        BY <2>2, <2>3, <3>1 DEF StreamsOf, Amounts
      <4>. QED  BY <2>3, <4>1 DEF MoneyInv
    <3>2. CASE j = id
      <4>1. streams'[id] = t /\ granted'[id] = most
        BY <2>2, <2>3 DEF StreamsOf, Amounts
      <4>2. MoneyOK(s, paid[id], granted[id], packet.amounts[id])
        BY DEF MoneyInv
      <4>3. MoneyOK(t, paid[id], most, packet.amounts[id])
        <5>1. s.totalSent \in Nat /\ s.heldAmount \in Nat /\ granted[id] \in Nat /\ most \in Nat
          BY <1>b, <2>2, WordAssumption DEF Stream, Long
        <5>. HIDE DEF s
        <5>. QED  BY <2>3, <4>2, <5>1 DEF MoneyOK
      <4>. QED  BY <2>3, <3>2, <4>1, <4>3 DEF MoneyInv, Settled
    <3>. QED  BY <3>1, <3>2
  <2>. QED  BY <2>4 DEF MoneyInv
<1>. QED  BY <1>1, <1>2, <1>3, <1>4, <1>5, <1>6, StepKinds

\* What the streams have sent changes when a fulfill executes holds, and only then.
LEMMA SentUnchanged ==
  ASSUME BaseInv, [Next]_vars, ~Fulfills
  PROVE  /\ \A id \in StreamIds : streams'[id].totalSent = streams[id].totalSent
         /\ _totalSent' = _totalSent
<1>0. BaseFacts /\ RateInv
  BY BaseParts DEF BaseInv
<1>a. \A id \in StreamIds : streams[id] \in Stream /\ packet.amounts[id] \in Long
  BY MoneyTypes
<1>1. CASE Quiet \/ Unsettled
  BY <1>1 DEF Quiet, Unsettled, KeepsAll, Keeps
<1>2. CASE SendPacket
  <2>. DEFINE amounts == [id \in StreamIds |-> amountFrom(id)]
  <2>1. /\ streams' = [id \in StreamIds |-> holdOutgoing(streams[id], amounts[id])]
        /\ _totalSent' = _totalSent
    BY <1>2 DEF SendPacket, totalVars
  <2>2. \A id \in StreamIds : amounts[id] \in Long
    BY <1>0, PacketAmounts DEF BaseFacts
  <2>. HIDE DEF amounts
  <2>. QED  BY <1>a, <2>1, <2>2, HoldOutgoing
<1>3. CASE Undoes
  <2>1. \A id \in StreamIds :
          undone[id] = IF hasRecord(streams[id]) THEN cancelHold(streams[id], packet.amounts[id])
                       ELSE streams[id]
    BY DEF undone
  <2>2. \A id \in StreamIds : undone[id].totalSent = streams[id].totalSent
    BY <1>a, <2>1, CancelHold
  <2>. QED  BY <1>3, <2>2 DEF Undoes, KeepsAll, Keeps
<1>4. CASE StreamChanges
  <2>1. PICK id \in StreamIds :
          \/ createStream(id)
          \/ \E limit \in SendMaxima : setSendMax(id, limit)
          \/ removeStreamRecord(id)
    BY <1>4 DEF StreamChanges
  <2>2. streams \in StreamsOf /\ streams[id] \in Stream /\ 0 \in Long
    BY <1>0, <1>a, WordAssumption DEF BaseFacts, Long
  <2>3. \/ streams' = [streams EXCEPT ![id] = opened(streams[id])]
        \/ streams' = [streams EXCEPT ![id] = removed(streams[id])]
        \/ \E limit \in SendMaxima : streams' = [streams EXCEPT ![id] = limitedTo(streams[id], limit)]
    BY <2>1, <2>2 DEF createStream, setSendMax, removeStreamRecord, StreamsOf
  <2>4. \A limit \in SendMaxima : limit \in Long
    BY SendAssumption
  <2>5. PICK t : streams' = [streams EXCEPT ![id] = t] /\ t.totalSent = streams[id].totalSent
    BY <2>2, <2>3, <2>4, Opened
  <2>6. _totalSent' = _totalSent
    BY <2>1 DEF createStream, setSendMax, removeStreamRecord, totalVars
  <2>. QED  BY <2>2, <2>5, <2>6 DEF StreamsOf
<1>. QED  BY <1>1, <1>2, <1>3, <1>4, StepKinds

\* The connection's total agrees with its streams' initially.
LEMMA TotalInit ==
  ASSUME Init
  PROVE  TotalConserved
<1>. DEFINE sent == [id \in StreamIds |-> streams[id].totalSent]
<1>1. MaxStreams \in Nat /\ StreamIds = 1 .. MaxStreams /\ _totalSent = 0
  BY SendAssumption DEF Init, StreamIds
<1>2. \A id \in StreamIds : sent[id] = 0
  BY DEF Init, NewStream
<1>3. sent \in [1 .. MaxStreams -> Nat] /\ \A k \in 1 .. MaxStreams : sent[k] = 0
  BY <1>1, <1>2
<1>. HIDE DEF sent
<1>4. Total(sent, MaxStreams) = 0
  BY <1>1, <1>3, TotalZeros
<1>. QED  BY <1>1, <1>4 DEF TotalConserved, sent

\* Every step keeps the connection's total that of its streams.
LEMMA TotalStep ==
  ASSUME BaseInv, PhaseInv, MoneyInv, TotalConserved, [Next]_vars
  PROVE  TotalConserved'
<1>. DEFINE sent == [id \in StreamIds |-> streams[id].totalSent]
            next == [id \in StreamIds |-> streams'[id].totalSent]
            sum == Total(sent, MaxStreams)
            nextSum == Total(next, MaxStreams)
<1>0. BaseFacts
  BY BaseParts
<1>a. MaxStreams \in Nat /\ StreamIds = 1 .. MaxStreams
  BY SendAssumption DEF StreamIds
<1>b. \A id \in StreamIds :
        /\ streams[id] \in Stream /\ packet.amounts[id] \in Long
        /\ granted[id] \in Long /\ paid[id] \in Nat
  BY MoneyTypes
<1>c. destroyPhase' = "none" => destroyPhase = "none"
  BY Forward
<1>d. _totalSent <= sum /\ (destroyPhase = "none" => _totalSent = sum)
  BY DEF TotalConserved
<1>e. TotalConserved' = (_totalSent' <= nextSum /\ (destroyPhase' = "none" => _totalSent' = nextSum))
  BY DEF TotalConserved
<1>1. CASE ~Fulfills
  <2>1. \A id \in StreamIds : streams'[id].totalSent = streams[id].totalSent
    BY <1>1, SentUnchanged
  <2>2. next = sent /\ _totalSent' = _totalSent
    BY <1>1, <2>1, SentUnchanged
  <2>. QED  BY <1>c, <1>d, <1>e, <2>2
<1>2. CASE Fulfills
  <2>1. PICK delivered \in Deliveries, frame \in Frames : ReceiveFulfill(delivered, frame)
    BY <1>2 DEF Fulfills
  <2>2. /\ frame \in Frame /\ executed(frame) \in StreamsOf /\ afterFrame(frame) \in StreamsOf
        /\ KeepsAll(streams, afterFrame(frame))
    BY <1>0, SendAssumption, Executed, AfterFrame DEF BaseFacts
  <2>. DEFINE amounts == packet.amounts
  <2>3. \/ /\ Fail(executed(frame), endPhaseAfter(frame)) /\ _totalSent' = _totalSent
        \/ /\ Continue(executed(frame), startsLoop(frame) \/ sendingAfter(frame),
                       endPhaseAfter(frame))
           /\ ~checkedAdd(_totalSent, amountOf(amounts)).overflow
           /\ _totalSent' = checkedAdd(_totalSent, amountOf(amounts)).sum
    BY <2>1, FulfillStep
  <2>4. KeepsAll(executed(frame), streams')
    BY <2>2, <2>3, FailStreams, ContinueStreams
  <2>5. ASSUME NEW id \in StreamIds
        PROVE  streams'[id].totalSent = streams[id].totalSent + amounts[id]
    <3>1. /\ Keeps(streams[id], afterFrame(frame)[id]) /\ Keeps(executed(frame)[id], streams'[id])
          /\ afterFrame(frame)[id] \in Stream
          /\ executed(frame)[id] = executeHold(afterFrame(frame)[id], amounts[id])
      BY <2>2, <2>4 DEF KeepsAll, StreamsOf, executed
    <3>2. MoneyOK(afterFrame(frame)[id], paid[id], granted[id], amounts[id])
      BY <3>1, KeepsMoney DEF MoneyInv
    <3>3. executed(frame)[id].totalSent = afterFrame(frame)[id].totalSent + amounts[id]
      BY <1>b, <3>1, <3>2, ExecuteExact
    <3>. QED  BY <3>1, <3>3 DEF Keeps
  <2>6. /\ \A k \in 1 .. MaxStreams : next[k] = sent[k] + amounts[k]
        /\ amounts \in [1 .. MaxStreams -> Nat] /\ sent \in [1 .. MaxStreams -> Nat]
    <3>1. amounts \in Amounts
      BY <1>0 DEF BaseFacts
    <3>2. amounts \in [1 .. MaxStreams -> Nat]
      BY <1>a, <3>1, WordAssumption DEF Amounts, Long
    <3>3. sent \in [1 .. MaxStreams -> Nat]
      BY <1>a, <1>b, WordAssumption DEF Stream, Long
    <3>. QED  BY <1>a, <2>5, <3>2, <3>3
  <2>7. amountOf(amounts) = Total(amounts, MaxStreams) /\ amountOf(amounts) \in Long
        /\ _totalSent \in Long
    BY <1>0 DEF amountOf, BaseFacts
  <2>8. nextSum = sum + amountOf(amounts)
    <3>1. MaxStreams \in Nat
      BY <1>a
    <3>. HIDE DEF next, sent, amounts
    <3>2. Total(next, MaxStreams) = Total(sent, MaxStreams) + Total(amounts, MaxStreams)
      BY <2>6, <3>1, TotalPlus, Zenon
    <3>. QED  BY <2>7, <3>2
  <2>9. sum \in Nat
    <3>. HIDE DEF next, sent, amounts
    <3>. QED  BY <1>a, <2>6, TotalIsSum
  <2>. HIDE DEF sum, nextSum
  <2>10. CASE /\ Fail(executed(frame), endPhaseAfter(frame)) /\ _totalSent' = _totalSent
    <3>1. destroyPhase' = "none" => done /\ destroyPhase = "none"
      BY <2>10 DEF Fail, Destroying
    <3>2. destroyPhase' = "none" => amounts = NoPacket.amounts
      BY <3>1 DEF done, PhaseInv, LatePhases
    <3>3. destroyPhase' = "none" => amountOf(amounts) = 0
      BY <3>2, EmptyPacket
    <3>. HIDE DEF amounts
    <3>4. amountOf(amounts) \in Nat /\ _totalSent \in Nat
      BY <2>7, WordAssumption DEF Long
    <3>5. _totalSent' <= nextSum
      BY <1>d, <2>8, <2>9, <2>10, <3>4
    <3>6. destroyPhase' = "none" => _totalSent' = nextSum
      BY <1>d, <2>8, <2>9, <2>10, <3>1, <3>3
    <3>. QED  BY <1>e, <3>5, <3>6
  <2>11. CASE /\ ~checkedAdd(_totalSent, amountOf(amounts)).overflow
              /\ _totalSent' = checkedAdd(_totalSent, amountOf(amounts)).sum
    <3>. HIDE DEF amounts
    <3>1. _totalSent' = _totalSent + amountOf(amounts)
      BY <2>7, <2>11, CheckedAdd
    <3>2. amountOf(amounts) \in Nat /\ _totalSent \in Nat
      BY <2>7, WordAssumption DEF Long
    <3>3. _totalSent' <= nextSum
      BY <1>d, <2>8, <2>9, <3>1, <3>2
    <3>4. destroyPhase' = "none" => _totalSent' = nextSum
      BY <1>c, <1>d, <2>8, <2>9, <3>1, <3>2
    <3>. QED  BY <1>e, <3>3, <3>4
  <2>. QED  BY <2>3, <2>10, <2>11
<1>. QED  BY <1>1, <1>2

\* Everything about money at once: the invariant that is inductive.
SendInv == BaseInv /\ PhaseInv /\ MoneyInv /\ TotalConserved

\* SendInv is an invariant of the sending side.
LEMMA SendInductive ==
  ASSUME LowLimits
  PROVE  Spec => []SendInv
<1>1. Init => SendInv
  BY BaseInit, PhaseInit, MoneyInit, TotalInit DEF SendInv
<1>2. SendInv /\ [Next]_vars => SendInv'
  <2>. SUFFICES ASSUME BaseInv, PhaseInv, MoneyInv, TotalConserved, [Next]_vars
                PROVE  BaseInv' /\ PhaseInv' /\ MoneyInv' /\ TotalConserved'
    BY DEF SendInv
  <2>. QED  BY BaseStep, PhaseStep, MoneyStep, TotalStep
<1>. QED  BY <1>1, <1>2, PTL DEF Spec

\* What packets took from a stream for good is within the greatest limit it ever had,
\* with a fulfill that comes without data, a plugin that fails after the packet went
\* out, and limits lowered and raised while it is in flight (stream.ts:164).
THEOREM NeverPaysTwiceHolds ==
  ASSUME LowLimits
  PROVE  Spec => []NeverPaysTwice
<1>1. SendInv => NeverPaysTwice
  <2>. SUFFICES ASSUME SendInv, NEW id \in StreamIds
                PROVE  /\ paid[id] <= streams[id].totalSent + streams[id].heldAmount
                       /\ streams[id].totalSent + streams[id].heldAmount <= granted[id]
    BY DEF NeverPaysTwice
  <2>1. MoneyOK(streams[id], paid[id], granted[id], packet.amounts[id])
    BY DEF SendInv, MoneyInv
  <2>2. paid[id] \in Nat /\ packet.amounts[id] \in Nat /\ streams[id].totalSent \in Nat
        /\ streams[id].heldAmount \in Nat
    BY MoneyTypes, WordAssumption DEF SendInv, Stream, Long
  <2>. QED  BY <2>1, <2>2 DEF MoneyOK
<1>. QED  BY <1>1, SendInductive, PTL

\* While a stream has its record and the connection was not destroyed, what it holds
\* is in the packet in flight or was paid by one whose answer did not say so.
THEOREM HoldsAccounted ==
  ASSUME LowLimits
  PROVE  Spec => []HoldLedger
<1>1. SendInv => HoldLedger
  <2>. SUFFICES ASSUME SendInv, NEW id \in StreamIds, hasRecord(streams[id]), destroyPhase = "none"
                PROVE  streams[id].totalSent + streams[id].heldAmount =
                           paid[id] + IF at = "inFlight" THEN packet.amounts[id] ELSE 0
    BY DEF HoldLedger
  <2>1. streams[id].totalSent + streams[id].heldAmount = paid[id] + packet.amounts[id]
    BY DEF SendInv, MoneyInv, Settled, hasRecord
  <2>2. at # "inFlight" => packet.amounts[id] = 0
    BY BaseParts, EmptyPacket DEF SendInv, BaseFacts
  <2>. QED  BY <2>1, <2>2
<1>. QED  BY <1>1, SendInductive, PTL

\* The connection's total is the sum of its streams', for any number of streams, and
\* behind it only when the connection was destroyed because a total overflowed.
THEOREM TotalsAgree ==
  ASSUME LowLimits
  PROVE  Spec => []TotalConserved
<1>1. SendInv => TotalConserved
  BY DEF SendInv
<1>. QED  BY <1>1, SendInductive, PTL

-----------------------------------------------------------------------------
(* Wake-ups of the loop *)

\* The peer reports amounts below half of the Longs.  Above it checkedSubtract misses
\* that a stream got more than its limit, and takes the peer to have room.
LowFrames == \A frame \in Frames : 2 * frame.totalReceived <= MAX_UNSIGNED_VALUE

\* A packet takes nothing from the stream.
WantsNothing(s) ==
    \/ ~hasRecord(s) \/ s.sentEnd
    \/ _getAmountAvailableToSend(s) = 0
    \/ amountReceivable(s) = 0

Calm(current) == \A id \in StreamIds : WantsNothing(current[id])

\* No loop runs and none is due, or the one that runs will not look again.
Asleep ==
    /\ at # "loading" /\ (at = "stopped" \/ ~sending) /\ ~startPending
    /\ destroyPhase = "none" /\ remoteState # "Closed"

\* Nothing waits to be sent, or no packet can carry money.
Idle ==
    /\ queuedFrames = {} /\ packet = NoPacket
    /\ maxPacketAmount = 0 \/ Calm(streams)

\* A loop that loads a packet will look again.
LoadingSends == at = "loading" => sending \/ destroyPhase # "none" \/ remoteState = "Closed"

DoneToldPeer == done => destroyPhase # "none" \/ remoteState = "Closed"

\* The congestion controller tests nothing only if the path takes next to nothing: a
\* fulfilled packet without money then does not raise what is tested.
TestsNothing(c) == c.testMaximum = 0 => maximumPacketAmount(c) <= 1

\* A stream starts without a limit, and what the peer reports of it is low.
RecordLow(s) ==
    /\ s.status = "none" => s.sendMax = 0
    /\ 2 * s.remoteReceived <= MAX_UNSIGNED_VALUE

RecordsLow(current) == \A id \in StreamIds : RecordLow(current[id])

WakeInv == LoadingSends /\ DoneToldPeer /\ TestsNothing(congestion) /\ RecordsLow(streams)
               /\ (Asleep => Idle)

\* Nothing to convert converts to nothing: the loop of multiplyDivide has no round.
LEMMA MultiplyNothing ==
  ASSUME NEW b \in Long, NEW c \in Long \ {0}
  PROVE  multiplyDivideCeil(0, b, c) = 0
<1>. DEFINE zero == 0
            s == mulStart(zero, b, c)
<1>1. zero \in Long
  BY WordAssumption DEF Long
<1>2. s.a = 0 /\ s.quo = 0 /\ s.rem = 0
  BY DEF mulStart
<1>. HIDE DEF zero
<1>3. PICK f \in [0 .. WordBits -> MulState] :
        /\ f[0] = s
        /\ \A k \in 1 .. WordBits : f[k] = mulStep(f[k - 1], c)
        /\ mulLoop(zero, b, c) = f[WordBits]
  BY <1>1, MulLoop
<1>. HIDE DEF s
<1>4. f[WordBits] = s
  <2>. DEFINE T == {k \in 0 .. WordBits : f[k] # s}
  <2>. SUFFICES ASSUME T # {} PROVE FALSE
    BY WordAssumption
  <2>1. PICK k \in T : \A j \in T : k <= j
    <3>1. T \subseteq Nat
      BY WordAssumption
    <3>. HIDE DEF T
    <3>. QED  BY <3>1, LeastNatural
  <2>2. k # 0
    BY <1>3, <2>1
  <2>3. k \in 1 .. WordBits /\ k - 1 \in 0 .. WordBits /\ k - 1 < k
    BY <2>1, <2>2, WordAssumption
  <2>4. f[k - 1] = s
    BY <2>1, <2>3
  <2>5. f[k] = s
    BY <1>2, <1>3, <2>3, <2>4 DEF mulStep
  <2>. QED  BY <2>1, <2>5
<1>5. mulLoop(zero, b, c).quo = 0 /\ mulLoop(zero, b, c).rem = 0
  BY <1>2, <1>3, <1>4
<1>6. multiplyDivideCeil(zero, b, c) = 0
  BY <1>5 DEF multiplyDivideCeil, multiplyDivide
<1>. QED  BY <1>6 DEF zero

\* A peer that reports as much as it takes has no room.
LEMMA NoRoom ==
  ASSUME RateInv, NEW s \in Stream, 2 * s.remoteReceived <= MAX_UNSIGNED_VALUE,
         ~(s.remoteReceiveMax > s.remoteReceived)
  PROVE  amountReceivable(s) = 0
<1>. DEFINE left == checkedSubtract(s.remoteReceiveMax, s.remoteReceived).difference
<1>1. s.remoteReceiveMax \in Long /\ s.remoteReceived \in Long
  BY DEF Stream
<1>2. left = IF s.remoteReceiveMax < s.remoteReceived THEN 0 ELSE s.remoteReceiveMax - s.remoteReceived
  BY <1>1, CheckedSubtractHalf
<1>3. left = 0
  BY <1>1, <1>2, WordAssumption DEF Long
<1>4. exchangeRate.a \in Long \ {0} /\ exchangeRate.b \in Long
  BY DEF RateInv, Rational
<1>5. amountReceivable(s) = multiplyDivideCeil(left, exchangeRate.b, exchangeRate.a)
  BY DEF amountReceivable, multiplyByLongCeil, reciprocal
<1>. QED  BY <1>3, <1>4, <1>5, MultiplyNothing

\* A stream without a limit has nothing to send.
LEMMA NoLimit ==
  ASSUME NEW s \in Stream, s.sendMax = 0, 2 * s.totalSent <= MAX_UNSIGNED_VALUE,
         2 * s.heldAmount <= MAX_UNSIGNED_VALUE
  PROVE  _getAmountAvailableToSend(s) = 0
<1>. DEFINE left == checkedSubtract(s.sendMax, s.totalSent).difference
            free == checkedSubtract(left, s.heldAmount).difference
<1>1. s.sendMax \in Long /\ s.totalSent \in Long /\ s.heldAmount \in Long
  BY DEF Stream
<1>2. left = IF s.sendMax < s.totalSent THEN 0 ELSE s.sendMax - s.totalSent
  BY <1>1, CheckedSubtractHalf
<1>3. left = 0 /\ left \in Long
  BY <1>1, <1>2, WordAssumption DEF Long
<1>4. free = IF left < s.heldAmount THEN 0 ELSE left - s.heldAmount
  <2>. HIDE DEF left
  <2>. QED  BY <1>1, <1>3, CheckedSubtractHalf
<1>5. free = 0
  <2>. HIDE DEF left
  <2>. QED  BY <1>1, <1>3, <1>4, WordAssumption DEF Long
<1>. QED  BY <1>5 DEF _getAmountAvailableToSend

\* The status of a stream only makes it want less.
LEMMA StatusCalms ==
  ASSUME NEW s \in Stream, NEW status \in StreamStatus, WantsNothing(s),
         status \in {"open", "ending"} => isOpen(s)
  PROVE  WantsNothing([s EXCEPT !.status = status])
<1>. DEFINE t == [s EXCEPT !.status = status]
<1>1. /\ t \in Stream /\ t.status = status /\ t.sendMax = s.sendMax /\ t.totalSent = s.totalSent
      /\ t.heldAmount = s.heldAmount /\ t.sentEnd = s.sentEnd
      /\ t.remoteReceived = s.remoteReceived /\ t.remoteReceiveMax = s.remoteReceiveMax
  BY DEF Stream
<1>. HIDE DEF t
<1>2. amountReceivable(t) = amountReceivable(s)
  BY <1>1 DEF amountReceivable
<1>3. ~isOpen(t) => _getAmountAvailableToSend(t) = 0
  BY <1>1, Available
<1>4. isOpen(t) => isOpen(s)
  BY <1>1 DEF isOpen
<1>5. isOpen(t) => _getAmountAvailableToSend(t) = _getAmountAvailableToSend(s)
  BY <1>1, <1>4 DEF _getAmountAvailableToSend
<1>6. isOpen(s) => hasRecord(s)
  BY DEF isOpen, hasRecord
<1>7. WantsNothing(t)
  BY <1>1, <1>2, <1>3, <1>4, <1>5, <1>6 DEF WantsNothing
<1>. QED  BY <1>7 DEF t

\* Ending, finishing and destroying a stream makes it want nothing more.
LEMMA EndingCalms ==
  ASSUME NEW s \in Stream, WantsNothing(s)
  PROVE  WantsNothing(endStream(s)) /\ WantsNothing(finishStream(s)) /\ WantsNothing(destroyStream(s))
<1>. DEFINE x == "closed"
            y == "ending"
<1>1. x \in StreamStatus /\ y \in StreamStatus /\ x \notin {"open", "ending"}
  BY DEF StreamStatus
<1>2. s.status = "open" => isOpen(s)
  BY DEF isOpen
<1>. HIDE DEF x, y
<1>3. WantsNothing([s EXCEPT !.status = x])
  BY <1>1, StatusCalms
<1>4. s.status = "open" => WantsNothing([s EXCEPT !.status = y])
  BY <1>1, <1>2, StatusCalms
<1>5. /\ endStream(s) \in {s, [s EXCEPT !.status = x]}
         \/ (s.status = "open" /\ endStream(s) = [s EXCEPT !.status = y])
      /\ finishStream(s) \in {s, [s EXCEPT !.status = x]}
      /\ destroyStream(s) \in {s, [s EXCEPT !.status = x]}
  BY DEF endStream, finishStream, destroyStream, x, y
<1>. QED  BY <1>3, <1>4, <1>5

\* Nothing held, executed or cancelled leaves a stream as it is.
LEMMA NoAmount ==
  ASSUME NEW s \in Stream
  PROVE  holdOutgoing(s, 0) = s /\ cancelHold(s, 0) = s /\ executeHold(s, 0) = s
<1>1. s.heldAmount \in Long /\ s.heldAmount + 0 = s.heldAmount /\ s.heldAmount - 0 = s.heldAmount
  BY WordAssumption DEF Stream, Long
<1>2. wrap(s.heldAmount) = s.heldAmount
  BY <1>1, WrapFits, WordAssumption DEF Long
<1>3. [s EXCEPT !.heldAmount = s.heldAmount] = s
  BY DEF Stream
<1>. QED  BY <1>1, <1>2, <1>3 DEF holdOutgoing, cancelHold, executeHold

\* No money goes into a packet if and only if no packet can carry any or no stream
\* wants to send any: the first one that does gets some.
LEMMA NothingTaken ==
  ASSUME RateInv, streams \in StreamsOf, congestion \in Congestion
  PROVE  (\A id \in StreamIds : amountFrom(id) = 0) <=>
             (maxPacketAmount = 0 \/ Calm(streams))
<1>. DEFINE v == [id \in StreamIds |-> wanted(id)]
            max == maxPacketAmount
            n == MaxStreams
<1>1. n \in Nat /\ StreamIds = 1 .. n
  BY SendAssumption DEF StreamIds
<1>2. max \in Nat
  BY MaxPacketAmount, WordAssumption DEF Long
<1>3. \A id \in StreamIds : wanted(id) \in Nat
  BY Wanted, WordAssumption DEF Long
<1>4. ASSUME NEW id \in StreamIds
      PROVE  wanted(id) = 0 <=> WantsNothing(streams[id])
  <2>. DEFINE available == _getAmountAvailableToSend(streams[id])
              receivable == amountReceivable(streams[id])
  <2>1. available \in Long /\ receivable \in Long
    BY Available, Receivable DEF StreamsOf
  <2>2. available \in Nat /\ receivable \in Nat
    BY <2>1, WordAssumption DEF Long
  <2>3. wanted(id) = IF eligible(id) THEN IF available < receivable THEN available ELSE receivable ELSE 0
    BY DEF wanted, minLong
  <2>4. WantsNothing(streams[id]) <=> ~eligible(id) \/ available = 0 \/ receivable = 0
    BY DEF WantsNothing, eligible
  <2>. HIDE DEF available, receivable
  <2>. QED  BY <2>2, <2>3, <2>4
<1>5. v \in [1 .. n -> Nat] /\ \A id \in StreamIds : v[id] = wanted(id)
  BY <1>1, <1>3
<1>6. \A id \in StreamIds : wantedBefore(id) = Total(v, id - 1)
  BY DEF wantedBefore
<1>. HIDE DEF v, n
<1>7. /\ Total(v, 0) = 0 /\ \A k \in 0 .. n : Total(v, k) \in Nat
      /\ \A k \in 1 .. n : Total(v, k) = Total(v, k - 1) + v[k]
  BY <1>1, <1>5, TotalPrefixes
<1>8. \A id \in StreamIds :
        /\ wantedBefore(id) \in Nat
        /\ amountFrom(id) = IF wantedBefore(id) < max
                            THEN IF v[id] < max - wantedBefore(id) THEN v[id]
                                 ELSE max - wantedBefore(id)
                            ELSE 0
  BY <1>1, <1>5, <1>6, <1>7 DEF amountFrom, minLong
<1>9. ASSUME max = 0 \/ \A id \in StreamIds : v[id] = 0, NEW id \in StreamIds
      PROVE  amountFrom(id) = 0
  <2>1. v[id] \in Nat
    BY <1>3, <1>5
  <2>. HIDE DEF max
  <2>. QED  BY <1>2, <1>8, <1>9, <2>1
<1>10. ASSUME max # 0, \A id \in StreamIds : amountFrom(id) = 0
       PROVE  \A id \in StreamIds : v[id] = 0
  <2>. DEFINE T == {k \in 1 .. n : v[k] # 0}
  <2>. SUFFICES ASSUME T # {} PROVE FALSE
    BY <1>1
  <2>1. PICK k \in T : \A j \in T : k <= j
    <3>1. T \subseteq Nat
      BY <1>1
    <3>. HIDE DEF T
    <3>. QED  BY <3>1, LeastNatural
  <2>2. Total(v, k - 1) = 0
    <3>. DEFINE B == {j \in 0 .. k - 1 : Total(v, j) # 0}
    <3>. SUFFICES ASSUME B # {} PROVE FALSE
      BY <1>1, <2>1
    <3>1. PICK j \in B : \A i \in B : j <= i
      <4>1. B \subseteq Nat
        OBVIOUS
      <4>. HIDE DEF B
      <4>. QED  BY <4>1, LeastNatural
    <3>2. j # 0
      BY <1>7, <3>1
    <3>3. j \in 1 .. n /\ j - 1 \in 0 .. k - 1 /\ j - 1 < j /\ j < k
      BY <1>1, <2>1, <3>1, <3>2
    <3>4. Total(v, j - 1) = 0 /\ v[j] = 0
      BY <2>1, <3>1, <3>3
    <3>5. Total(v, j) = 0
      BY <1>7, <3>3, <3>4
    <3>. QED  BY <3>1, <3>5
  <2>3. k \in StreamIds /\ wantedBefore(k) = 0 /\ v[k] \in Nat /\ v[k] # 0
    BY <1>1, <1>3, <1>5, <1>6, <2>1, <2>2
  <2>4. amountFrom(k) = IF v[k] < max THEN v[k] ELSE max
    <3>. HIDE DEF max
    <3>. QED  BY <1>2, <1>8, <1>10, <2>3
  <2>. QED  BY <1>10, <2>3, <2>4
<1>11. (\A id \in StreamIds : v[id] = 0) <=> \A id \in StreamIds : WantsNothing(streams[id])
  BY <1>4, <1>5
<1>. QED  BY <1>9, <1>10, <1>11 DEF Calm

\* A fulfilled packet raises what is tested only if something was tested.
LEMMA FulfillTests ==
  ASSUME NEW c \in Congestion, TestsNothing(c), NEW amount \in Long
  PROVE  /\ TestsNothing(onFulfill(c, amount))
         /\ c.testMaximum = 0 => onFulfill(c, amount).testMaximum = 0
<1>. DEFINE test == c.testMaximum
            limit == maximumPacketAmount(c)
            sum == checkedAdd(test, limit \div IncreaseDivisor).sum
            product == checkedMultiply(test, 2).product
            raised == IF limit # MAX_UNSIGNED_VALUE THEN minLong(sum, limit) ELSE product
            d == onFulfill(c, amount)
<1>1. test \in Nat /\ test <= MAX_UNSIGNED_VALUE /\ limit \in Nat /\ limit <= MAX_UNSIGNED_VALUE
      /\ MAX_UNSIGNED_VALUE \in Nat /\ MAX_UNSIGNED_VALUE >= 2
  BY MaximumType, WordAssumption, CongestionAssumption DEF Congestion, Long
<1>2. \/ d = c
      \/ test < limit /\ d = [c EXCEPT !.testMaximum = raised]
  BY Zenon DEF onFulfill
<1>3. ASSUME test < limit
      PROVE  (test = 0 => raised = 0) /\ (test # 0 => raised # 0)
  <2>1. limit \div IncreaseDivisor \in Nat /\ limit \div IncreaseDivisor <= limit
    <3>. HIDE DEF limit
    <3>. QED  BY <1>1, CongestionAssumption
  <2>2. sum = IF test + limit \div IncreaseDivisor > MAX_UNSIGNED_VALUE THEN MAX_UNSIGNED_VALUE
              ELSE test + limit \div IncreaseDivisor
    <3>. DEFINE part == limit \div IncreaseDivisor
    <3>1. test \in Long /\ part \in Long
      <4>. HIDE DEF limit, test
      <4>. QED  BY <1>1, <2>1 DEF Long
    <3>. HIDE DEF part, test
    <3>2. checkedAdd(test, part).sum = IF test + part > MAX_UNSIGNED_VALUE THEN MAX_UNSIGNED_VALUE
                                       ELSE test + part
      BY <3>1, CheckedAdd
    <3>. QED  BY <3>2 DEF part, sum
  <2>3. product = IF wrap(test * 2) < test \/ wrap(test * 2) < 2 THEN MAX_UNSIGNED_VALUE
                  ELSE wrap(test * 2)
    BY Zenon DEF checkedMultiply
  <2>4. wrap(test * 2) \in Nat
    BY <1>1, WrapType, WordAssumption DEF Long
  <2>5. product # 0
    <3>. HIDE DEF product, test
    <3>. QED  BY <1>1, <2>3, <2>4
  <2>6. minLong(sum, limit) = IF sum < limit THEN sum ELSE limit
    BY DEF minLong
  <2>7. test = 0 => limit = 1
    <3>1. test = 0 => limit <= 1
      BY DEF TestsNothing
    <3>. HIDE DEF test, limit
    <3>. QED  BY <1>1, <1>3, <3>1
  <2>8. CASE test = 0
    <3>1. limit = 1 /\ limit # MAX_UNSIGNED_VALUE
      <4>. HIDE DEF test, limit
      <4>. QED  BY <1>1, <2>7, <2>8
    <3>2. limit \div IncreaseDivisor = 0
      <4>. HIDE DEF limit
      <4>. QED  BY <3>1, CongestionAssumption
    <3>3. sum = 0
      <4>. HIDE DEF test, limit, sum
      <4>. QED  BY <1>1, <2>2, <2>8, <3>2
    <3>. HIDE DEF sum, limit, test
    <3>. QED  BY <2>6, <2>8, <3>1, <3>3
  <2>9. CASE test # 0
    <3>1. sum # 0 /\ sum \in Nat
      <4>. HIDE DEF test, limit, sum
      <4>. QED  BY <1>1, <2>1, <2>2, <2>9
    <3>2. limit # 0
      <4>. HIDE DEF test, limit
      <4>. QED  BY <1>1, <1>3
    <3>. HIDE DEF sum, limit, test, product
    <3>. QED  BY <2>5, <2>6, <2>9, <3>1, <3>2
  <2>. QED  BY <2>8, <2>9
<1>. HIDE DEF raised
<1>4. CASE d = c
  BY <1>4
<1>5. CASE test < limit /\ d = [c EXCEPT !.testMaximum = raised]
  <2>1. d.testMaximum = raised /\ d.maximum = c.maximum
    BY <1>5 DEF Congestion
  <2>2. maximumPacketAmount(d) = maximumPacketAmount(c)
    BY <2>1 DEF maximumPacketAmount
  <2>3. (test = 0 => raised = 0) /\ (test # 0 => raised # 0)
    BY <1>3, <1>5
  <2>4. TestsNothing(d)
    BY <2>1, <2>2, <2>3 DEF TestsNothing
  <2>. QED  BY <2>1, <2>3, <2>4
<1>. QED  BY <1>2, <1>4, <1>5

\* A T04 tests at least 2.
LEMMA LiquidityTests ==
  ASSUME NEW c \in Congestion, NEW amount \in Long
  PROVE  TestsNothing(onInsufficientLiquidityError(c, amount))
<1>. DEFINE e == onInsufficientLiquidityError(c, amount)
            least == minLong(amount, c.testMaximum)
            twoThirds == maxLong(2, least - least \div 3)
<1>1. e = [c EXCEPT !.testMaximum = twoThirds]
  BY DEF onInsufficientLiquidityError
<1>2. e.testMaximum = twoThirds
  BY <1>1 DEF Congestion
<1>3. least \in Nat
  BY WordAssumption DEF minLong, Congestion, Long
<1>4. twoThirds # 0
  <2>. HIDE DEF least
  <2>. QED  BY <1>3 DEF maxLong
<1>. QED  BY <1>2, <1>4 DEF TestsNothing

\* An F08 halves what is tested.
LEMMA TooLargeTests ==
  ASSUME NEW c \in Congestion, NEW amount \in Long, NEW metadata \in F08Metadata
  PROVE  TestsNothing(onAmountTooLargeError(c, metadata, amount))
<1>. DEFINE d == onAmountTooLargeError(c, metadata, amount)
<1>2. CASE metadata # undefined /\ metadata.received > metadata.maximum
  <2>. DEFINE most == multiplyDivideFloor(amount, metadata.maximum, metadata.received)
  <2>1. d = [testMaximum |-> most, maximum |-> most]
    BY <1>2 DEF onAmountTooLargeError, setMaximumAmounts
  <2>. HIDE DEF most
  <2>2. d.testMaximum = most /\ d.maximum = most
    BY <2>1
  <2>3. most = 0 => maximumPacketAmount(d) = 0
    BY <2>2, CongestionAssumption, WordAssumption DEF maximumPacketAmount, minLong, Long
  <2>. HIDE DEF d
  <2>4. TestsNothing(d)
    BY <2>2, <2>3 DEF TestsNothing
  <2>. QED  BY <2>4 DEF d
<1>3. CASE ~(metadata # undefined /\ metadata.received > metadata.maximum)
  <2>. DEFINE low == wrap(amount - 1)
              lowered == [c EXCEPT !.maximum = low]
              half == maximumPacketAmount(lowered) \div 2
  <2>1. d = [lowered EXCEPT !.testMaximum = half]
    BY <1>3 DEF onAmountTooLargeError
  <2>2. low \in Long
    BY WrapType, WordAssumption DEF Long
  <2>. HIDE DEF low
  <2>3. lowered \in Congestion
    BY <2>2 DEF Congestion
  <2>4. maximumPacketAmount(lowered) \in Nat
    BY <2>3, MaximumType, WordAssumption DEF Long
  <2>. HIDE DEF lowered
  <2>5. d.testMaximum = half /\ d.maximum = lowered.maximum
    BY <2>1, <2>3 DEF Congestion
  <2>6. maximumPacketAmount(d) = maximumPacketAmount(lowered)
    BY <2>5 DEF maximumPacketAmount
  <2>7. half = 0 => maximumPacketAmount(lowered) <= 1
    BY <2>4
  <2>. HIDE DEF d, half
  <2>8. TestsNothing(d)
    BY <2>5, <2>6, <2>7 DEF TestsNothing
  <2>. QED  BY <2>8 DEF d
<1>. QED  BY <1>2, <1>3

\* No answer makes the controller test nothing on a path that takes more than a unit.
LEMMA TestsStep ==
  ASSUME BaseInv, TestsNothing(congestion), [Next]_vars
  PROVE  TestsNothing(congestion)' /\ exchangeRate' = exchangeRate
<1>0. congestion \in Congestion /\ amountOf(packet.amounts) \in Long
  BY BaseParts DEF BaseFacts
<1>. DEFINE amount == amountOf(packet.amounts)
<1>1. exchangeRate' = exchangeRate
  BY DEF Next, loadAndSendPacket, TooManyPackets, NothingToSend, SendPacket, ReceiveResponse,
         ReceiveFulfill, HandleReject, FulfillWithoutData, SendFails, RejectByReceiver,
         RejectWithoutData, UnreadableReject, AmountTooLarge, TemporaryError, FinalError, Retry,
         CloseEvents, removeStreamRecord, StartLater, Closing, EndStreams, EndCompletes,
         DestroyClosed, DestroyCompletes, testIdle, destroy, ReceiveFrame, Application,
         createStream, setSendMax, CloseStream, end, Finished, vars
<1>2. \/ congestion' = congestion
      \/ congestion' = onFulfill(congestion, amount)
      \/ \E metadata \in F08Metadata : congestion' = onAmountTooLargeError(congestion, metadata, amount)
      \/ congestion' = onInsufficientLiquidityError(congestion, amount)
  BY DEF Next, loadAndSendPacket, TooManyPackets, NothingToSend, SendPacket, ReceiveResponse,
         ReceiveFulfill, HandleReject, FulfillWithoutData, SendFails, RejectByReceiver,
         RejectWithoutData, UnreadableReject, AmountTooLarge, TemporaryError, FinalError, Retry,
         CloseEvents, removeStreamRecord, StartLater, Closing, EndStreams, EndCompletes,
         DestroyClosed, DestroyCompletes, testIdle, destroy, ReceiveFrame, Application,
         createStream, setSendMax, CloseStream, end, Finished, vars
<1>. HIDE DEF amount
<1>3. TestsNothing(congestion')
  BY <1>0, <1>2, FulfillTests, LiquidityTests, TooLargeTests DEF amount
<1>. QED  BY <1>1, <1>3 DEF TestsNothing, maximumPacketAmount

\* A connection the peer closed stays closed, and end() is done only when the peer
\* was told.
LEMMA DoneStep ==
  ASSUME BaseInv, DoneToldPeer, [Next]_vars
  PROVE  DoneToldPeer' /\ (remoteState = "Closed" => remoteState' = "Closed")
<1>. DEFINE Stays == remoteState = "Closed" => remoteState' = "Closed"
            Began == endPhase' = "done" => endPhase = "done" \/ remoteState' = "Closed"
<1>0. ASSUME Stays, Began PROVE DoneToldPeer' /\ Stays
  BY <1>0, Forward DEF DoneToldPeer, done
<1>. SUFFICES Stays /\ Began
  BY <1>0
<1>1. /\ \A current, sends, phase : Continue(current, sends, phase) => endPhase' = loopFinished(phase) \/ endPhase' = phase
      /\ \A starts, sends, remote, phase :
            StartSendLoop(starts, sends, remote, phase) => endPhase' = loopFinished(phase) \/ endPhase' = phase
      /\ \A current, phase : Fail(current, phase) => endPhase' = erred(phase)
  BY DEF Continue, StartSendLoop, Fail
<1>2. /\ \A phase : loopFinished(phase) = "done" \/ erred(phase) = "done" => phase = "done"
      /\ \A frame : endPhaseAfter(frame) = "done" => endPhase = "done"
      /\ \A frame : ControlFrame(frame, remoteState) \/ ControlFrame(frame, answeredState) => Stays
      /\ remoteState = "Closed" => answeredState = "Closed"
  BY DEF loopFinished, erred, endPhaseAfter, ControlFrame, answeredState
<1>3. CASE TooManyPackets \/ UnreadableReject \/ SendFails \/ FinalError
           \/ \E metadata \in F08Metadata : AmountTooLarge(metadata)
  <2>1. /\ remoteState' = remoteState
        /\ endPhase' = erred(endPhase) \/ endPhase' = loopFinished(endPhase) \/ endPhase' = endPhase
    BY <1>1, <1>3 DEF TooManyPackets, UnreadableReject, SendFails, FinalError, AmountTooLarge
  <2>. QED  BY <1>2, <2>1
<1>4. CASE NothingToSend \/ RejectWithoutData \/ Retry \/ FulfillWithoutData \/ StartLater
           \/ \E id \in StreamIds, limit \in SendMaxima : setSendMax(id, limit)
  <2>1. /\ remoteState' = remoteState
        /\ endPhase' = loopFinished(endPhase) \/ endPhase' = endPhase
    BY <1>1, <1>4 DEF NothingToSend, RejectWithoutData, Retry, FulfillWithoutData, StartLater,
                      setSendMax
  <2>. QED  BY <1>2, <2>1
<1>5. ASSUME NEW frame \in Frames,
             HandleReject(frame) \/ ReceiveFrame(frame)
               \/ \E delivered \in Deliveries : ReceiveFulfill(delivered, frame)
      PROVE  Stays /\ Began
  <2>1. \/ endPhase' = erred(endPhaseAfter(frame))
        \/ endPhase' = loopFinished(endPhaseAfter(frame))
        \/ endPhase' = endPhaseAfter(frame)
    BY <1>1, <1>5, FulfillStep DEF HandleReject, ReceiveFrame
  <2>2. \/ ControlFrame(frame, remoteState) \/ ControlFrame(frame, answeredState)
        \/ remoteState' = IF closesConnection(frame) THEN "Closed" ELSE answeredState
    BY <1>5, FulfillStep DEF HandleReject, ReceiveFrame
  <2>. QED  BY <1>2, <2>1, <2>2
<1>6. CASE Closing
  BY <1>6 DEF Closing, EndStreams, EndCompletes, DestroyClosed, DestroyCompletes, CloseRemote, loopVars
<1>7. CASE end
  <2>1. remoteState' = remoteState /\ endPhase' \in {"draining", loopFinished("draining")}
    BY <1>1, <1>7 DEF end
  <2>. QED  BY <1>2, <2>1
<1>8. ASSUME NEW err \in BOOLEAN, destroy(err)
      PROVE  Stays /\ Began
  BY <1>2, <1>8 DEF destroy
<1>9. CASE \/ SendPacket \/ RejectByReceiver \/ UNCHANGED vars
           \/ \E insufficientLiquidity \in BOOLEAN : TemporaryError(insufficientLiquidity)
           \/ \E id \in StreamIds :
                 \/ createStream(id)
                 \/ removeStreamRecord(id)
                 \/ \E after : CloseStream(id, after)
  <2>1. UNCHANGED endPhase /\ Stays
    BY <1>9 DEF SendPacket, RejectByReceiver, vars, loopVars, TemporaryError, createStream,
                removeStreamRecord, CloseStream
  <2>. QED  BY <2>1
<1>10. CASE ReceiveResponse
  BY <1>3, <1>4, <1>5, <1>9, <1>10 DEF ReceiveResponse
<1>. QED  BY <1>3, <1>4, <1>5, <1>6, <1>7, <1>8, <1>9, <1>10
          DEF Next, loadAndSendPacket, CloseEvents, testIdle, Application, Finished

\* No operation on a stream gives it a limit before it is opened or a report of the
\* peer that is not in a frame.
LEMMA RecordOps ==
  ASSUME NEW s \in Stream, RecordLow(s), NEW amount \in Long
  PROVE  /\ RecordLow(finishStream(s)) /\ RecordLow(endStream(s)) /\ RecordLow(destroyStream(s))
         /\ RecordLow(holdOutgoing(s, amount)) /\ RecordLow(cancelHold(s, amount))
         /\ RecordLow(executeHold(s, amount))
         /\ RecordLow(opened(s)) /\ RecordLow(removed(s))
         /\ isOpen(s) => RecordLow(limitedTo(s, amount))
<1>1. /\ Later(s, finishStream(s)) /\ Later(s, endStream(s)) /\ Later(s, destroyStream(s))
      /\ finishStream(s).sendMax = s.sendMax /\ endStream(s).sendMax = s.sendMax
      /\ destroyStream(s).sendMax = s.sendMax
  BY FinishKeeps, EndKeeps, DestroyKeeps DEF Keeps
<1>2. /\ Later(s, holdOutgoing(s, amount)) /\ holdOutgoing(s, amount).sendMax = s.sendMax
      /\ Later(s, cancelHold(s, amount)) /\ cancelHold(s, amount).sendMax = s.sendMax
      /\ Later(s, executeHold(s, amount)) /\ executeHold(s, amount).sendMax = s.sendMax
  BY HoldOutgoing, CancelHold, ExecuteHold
<1>3. /\ finishStream(s).remoteReceived = s.remoteReceived
      /\ endStream(s).remoteReceived = s.remoteReceived
      /\ destroyStream(s).remoteReceived = s.remoteReceived
      /\ opened(s).remoteReceived = s.remoteReceived
      /\ removed(s).remoteReceived = s.remoteReceived
      /\ limitedTo(s, amount).remoteReceived = s.remoteReceived
  BY DEF finishStream, endStream, destroyStream, opened, removed, limitedTo, Stream
<1>4. holdOutgoing(s, amount).remoteReceived = s.remoteReceived
  <2>. DEFINE x == wrap(s.heldAmount + amount)
  <2>1. holdOutgoing(s, amount) = [s EXCEPT !.heldAmount = x]
    BY DEF holdOutgoing
  <2>. HIDE DEF x
  <2>. QED  BY <2>1 DEF Stream
<1>5. cancelHold(s, amount).remoteReceived = s.remoteReceived
  <2>. DEFINE x == wrap(s.heldAmount - amount)
  <2>1. cancelHold(s, amount) = [s EXCEPT !.heldAmount = x]
    BY DEF cancelHold
  <2>. HIDE DEF x
  <2>. QED  BY <2>1 DEF Stream
<1>6. executeHold(s, amount).remoteReceived = s.remoteReceived
  <2>. DEFINE total == wrap(s.totalSent + amount)
              status == IF s.status = "ending" /\ total >= s.sendMax THEN "closed" ELSE s.status
              t == cancelHold(s, amount)
  <2>1. executeHold(s, amount) = IF amount = 0 THEN s
                                 ELSE [t EXCEPT !.totalSent = total, !.status = status]
    BY DEF executeHold
  <2>2. t \in Stream
    BY CancelHold
  <2>. HIDE DEF total, status, t
  <2>3. [t EXCEPT !.totalSent = total, !.status = status].remoteReceived = t.remoteReceived
    BY <2>2 DEF Stream
  <2>. QED  BY <1>5, <2>1, <2>3 DEF t
<1>7. /\ opened(s).status # "none" /\ removed(s).status # "none"
      /\ isOpen(s) => limitedTo(s, amount).status # "none"
  BY Opened DEF isOpen
<1>. QED  BY <1>1, <1>2, <1>3, <1>4, <1>5, <1>6, <1>7 DEF RecordLow, Later

\* What a frame reports is as low as it says.
LEMMA RecordFrame ==
  ASSUME LowFrames, NEW frame \in Frames, NEW s \in Stream, RecordLow(s)
  PROVE  RecordLow(frameStream(s, frame))
<1>0. frame \in Frame /\ frame.totalReceived \in Long /\ s.remoteReceived \in Long
  BY SendAssumption DEF Frame, Stream
<1>1. Keeps(s, frameStream(s, frame))
  BY <1>0, FrameKeeps
<1>2. frameStream(s, frame).remoteReceived \in {s.remoteReceived, frame.totalReceived}
  <2>. DEFINE got == maxLong(s.remoteReceived, frame.totalReceived)
              most == IF s.remoteReceiveMax = MAX_UNSIGNED_VALUE THEN frame.receiveMax
                      ELSE maxLong(s.remoteReceiveMax, frame.receiveMax)
              told == [s EXCEPT !.sentEnd = TRUE, !.remoteSentEnd = TRUE]
  <2>1. updateMaxMoney(s, frame).remoteReceived = got
    <3>1. updateMaxMoney(s, frame) = [s EXCEPT !.remoteReceived = got, !.remoteReceiveMax = most]
      BY DEF updateMaxMoney
    <3>. HIDE DEF got, most
    <3>. QED  BY <3>1 DEF Stream
  <2>2. got \in {s.remoteReceived, frame.totalReceived}
    BY DEF maxLong
  <2>3. told \in Stream /\ told.remoteReceived = s.remoteReceived
    BY DEF Stream
  <2>. HIDE DEF told, got
  <2>4. /\ destroyStream(told).remoteReceived = told.remoteReceived
        /\ endStream(told).remoteReceived = told.remoteReceived
    BY <2>3 DEF endStream, destroyStream, Stream
  <2>5. remoteEnded(s, frame) = IF frame.error THEN destroyStream(told) ELSE endStream(told)
    BY DEF remoteEnded, told
  <2>. QED  BY <2>1, <2>2, <2>3, <2>4, <2>5 DEF frameStream
<1>. QED  BY <1>1, <1>2 DEF RecordLow, Keeps, Later, LowFrames

\* The operations on all streams keep the records low.
LEMMA RecordsAll ==
  ASSUME NEW current \in StreamsOf, RecordsLow(current)
  PROVE  /\ RecordsLow(endAll(current)) /\ RecordsLow(destroyAll(current))
         /\ \A sends, phase : Continue(current, sends, phase) => RecordsLow(streams')
         /\ \A phase : Fail(current, phase) => RecordsLow(streams')
<1>. DEFINE zero == 0
<1>0. zero \in Long
  BY WordAssumption DEF Long
<1>. HIDE DEF zero
<1>1. \A id \in StreamIds : current[id] \in Stream /\ RecordLow(current[id])
  BY DEF StreamsOf, RecordsLow
<1>2. \A id \in StreamIds : /\ RecordLow(endStream(current[id])) /\ RecordLow(destroyStream(current[id]))
                            /\ RecordLow(finishStream(current[id]))
  BY <1>0, <1>1, RecordOps
<1>3. RecordsLow(endAll(current))
  <2>1. \A id \in StreamIds : endAll(current)[id] = endStream(current[id])
    BY DEF endAll
  <2>. QED  BY <1>2, <2>1 DEF RecordsLow
<1>4. RecordsLow(destroyAll(current))
  <2>1. \A id \in StreamIds : destroyAll(current)[id] \in {current[id], destroyStream(current[id])}
    BY DEF destroyAll
  <2>. QED  BY <1>1, <1>2, <2>1 DEF RecordsLow
<1>5. ASSUME NEW sends, NEW phase, Continue(current, sends, phase)
      PROVE  RecordsLow(streams')
  <2>1. \A id \in StreamIds : streams'[id] \in {current[id], finishStream(current[id])}
    BY <1>5 DEF Continue
  <2>. QED  BY <1>1, <1>2, <2>1 DEF RecordsLow
<1>. QED  BY <1>3, <1>4, <1>5 DEF Fail

\* So do frames, fulfills and rejects.
LEMMA RecordsAnswered ==
  ASSUME LowFrames, BaseFacts, RecordsLow(streams)
  PROVE  /\ RecordsLow(undone)
         /\ \A frame \in Frames : RecordsLow(afterFrame(frame)) /\ RecordsLow(executed(frame))
<1>1. \A id \in StreamIds : streams[id] \in Stream /\ RecordLow(streams[id]) /\ packet.amounts[id] \in Long
  BY DEF BaseFacts, StreamsOf, RecordsLow, Amounts
<1>2. RecordsLow(undone)
  <2>1. \A id \in StreamIds : undone[id] \in {streams[id], cancelHold(streams[id], packet.amounts[id])}
    BY DEF undone
  <2>2. \A id \in StreamIds : RecordLow(cancelHold(streams[id], packet.amounts[id]))
    BY <1>1, RecordOps
  <2>. QED  BY <1>1, <2>1, <2>2 DEF RecordsLow
<1>3. ASSUME NEW frame \in Frames
      PROVE  RecordsLow(afterFrame(frame)) /\ RecordsLow(executed(frame))
  <2>0. frame \in Frame
    BY SendAssumption
  <2>1. RecordsLow(afterFrame(frame))
    <3>1. CASE closesConnection(frame)
      BY <3>1, RecordsAll DEF afterFrame, BaseFacts
    <3>2. CASE ~closesConnection(frame)
      <4>. DEFINE id == frame.streamId
                  t == frameStream(streams[id], frame)
      <4>1. id \in StreamIds /\ streams[id] \in Stream
        BY <1>1, <2>0 DEF Frame
      <4>2. RecordLow(t)
        BY <1>1, <4>1, RecordFrame
      <4>3. afterFrame(frame) = [streams EXCEPT ![id] = t]
        BY <3>2, <4>1 DEF afterFrame, StreamsOf, BaseFacts
      <4>. HIDE DEF t, id
      <4>4. \A j \in StreamIds : afterFrame(frame)[j] \in {t, streams[j]}
        BY <4>1, <4>3 DEF StreamsOf, BaseFacts
      <4>. QED  BY <1>1, <4>2, <4>4 DEF RecordsLow
    <3>. QED  BY <3>1, <3>2
  <2>2. afterFrame(frame) \in StreamsOf
    BY <2>0, AfterFrame DEF BaseFacts
  <2>3. \A id \in StreamIds : executed(frame)[id] = executeHold(afterFrame(frame)[id], packet.amounts[id])
    BY DEF executed
  <2>. DEFINE after == afterFrame(frame)
  <2>. HIDE DEF after
  <2>4. \A id \in StreamIds : after[id] \in Stream /\ RecordLow(after[id])
    BY <2>1, <2>2 DEF RecordsLow, StreamsOf, after
  <2>5. \A id \in StreamIds : RecordLow(executeHold(after[id], packet.amounts[id]))
    BY <1>1, <2>4, RecordOps
  <2>. QED  BY <2>1, <2>3, <2>5 DEF RecordsLow, after
<1>. QED  BY <1>2, <1>3

\* Every step keeps the records low.
LEMMA RecordsStep ==
  ASSUME LowFrames, BaseInv, RecordsLow(streams), [Next]_vars
  PROVE  RecordsLow(streams')
<1>0. BaseFacts /\ RateInv
  BY BaseParts DEF BaseInv
<1>a. streams \in StreamsOf /\ undone \in StreamsOf /\ RecordsLow(undone)
  BY <1>0, Undone, RecordsAnswered DEF BaseFacts
<1>b. \A frame \in Frames :
        /\ afterFrame(frame) \in StreamsOf /\ RecordsLow(afterFrame(frame))
        /\ executed(frame) \in StreamsOf /\ RecordsLow(executed(frame))
  BY <1>0, SendAssumption, AfterFrame, Executed, RecordsAnswered DEF BaseFacts
<1>c. \A id \in StreamIds : streams[id] \in Stream /\ RecordLow(streams[id])
  BY <1>a DEF StreamsOf, RecordsLow
<1>1. CASE TooManyPackets \/ UnreadableReject \/ SendFails
  <2>1. Fail(streams, endPhase)
    BY <1>1 DEF TooManyPackets, UnreadableReject, SendFails
  <2>. QED  BY <1>a, <2>1, RecordsAll
<1>2. CASE NothingToSend \/ RejectWithoutData \/ Retry \/ FulfillWithoutData
  <2>1. Continue(streams, FALSE, endPhase) \/ Continue(streams, sending, endPhase)
    BY <1>2 DEF NothingToSend, RejectWithoutData, Retry, FulfillWithoutData
  <2>. QED  BY <1>a, <2>1, RecordsAll
<1>3. ASSUME NEW frame \in Frames,
             HandleReject(frame) \/ ReceiveFrame(frame)
               \/ \E delivered \in Deliveries : ReceiveFulfill(delivered, frame)
      PROVE  RecordsLow(streams')
  <2>1. \/ streams' = afterFrame(frame)
        \/ \E sends, phase : Continue(afterFrame(frame), sends, phase)
        \/ \E sends, phase : Continue(executed(frame), sends, phase)
        \/ \E phase : Fail(executed(frame), phase)
    BY <1>3, FulfillStep DEF HandleReject, ReceiveFrame
  <2>. QED  BY <1>b, <2>1, RecordsAll
<1>4. CASE \/ RejectByReceiver \/ FinalError
           \/ \E insufficientLiquidity \in BOOLEAN : TemporaryError(insufficientLiquidity)
           \/ \E metadata \in F08Metadata : AmountTooLarge(metadata)
  <2>1. \/ streams' = undone \/ Fail(undone, endPhase) \/ Continue(undone, sending, endPhase)
    BY <1>4 DEF RejectByReceiver, FinalError, TemporaryError, AmountTooLarge
  <2>. QED  BY <1>a, <2>1, RecordsAll
<1>5. CASE SendPacket
  <2>. DEFINE amounts == [id \in StreamIds |-> amountFrom(id)]
  <2>1. streams' = [id \in StreamIds |-> holdOutgoing(streams[id], amounts[id])]
    BY <1>5 DEF SendPacket
  <2>2. amounts \in Amounts
    BY <1>0, PacketAmounts DEF BaseFacts
  <2>. HIDE DEF amounts
  <2>3. \A id \in StreamIds : RecordLow(holdOutgoing(streams[id], amounts[id]))
    BY <1>c, <2>2, RecordOps DEF Amounts
  <2>. QED  BY <2>1, <2>3 DEF RecordsLow
<1>6. ASSUME NEW id \in StreamIds, NEW t, RecordLow(t), streams' = [streams EXCEPT ![id] = t]
      PROVE  RecordsLow(streams')
  BY <1>a, <1>c, <1>6 DEF RecordsLow, StreamsOf
<1>7. ASSUME NEW id \in StreamIds,
             \/ createStream(id) \/ removeStreamRecord(id)
             \/ \E limit \in SendMaxima : setSendMax(id, limit)
             \/ \E after \in {endStream(streams[id]), destroyStream(streams[id])} : CloseStream(id, after)
      PROVE  RecordsLow(streams')
  <2>. DEFINE s == streams[id]
              zero == 0
  <2>0. zero \in Long /\ s \in Stream /\ RecordLow(s)
    BY <1>c, WordAssumption DEF Long
  <2>1. \/ \E t \in {opened(s), removed(s), endStream(s), destroyStream(s)} :
              streams' = [streams EXCEPT ![id] = t]
        \/ \E limit \in SendMaxima :
              isOpen(s) /\ limit \in Long /\ streams' = [streams EXCEPT ![id] = limitedTo(s, limit)]
    BY <1>7, SendAssumption DEF createStream, removeStreamRecord, setSendMax, CloseStream
  <2>. HIDE DEF s, zero
  <2>2. \A t \in {opened(s), removed(s), endStream(s), destroyStream(s)} : RecordLow(t)
    BY <2>0, RecordOps
  <2>3. \A limit \in Long : isOpen(s) => RecordLow(limitedTo(s, limit))
    BY <2>0, RecordOps
  <2>. QED  BY <1>6, <2>1, <2>2, <2>3
<1>8. CASE StartLater \/ end \/ Closing \/ UNCHANGED vars
  <2>1. streams' = streams \/ streams' = endAll(streams)
    BY <1>8 DEF StartLater, end, Closing, EndStreams, EndCompletes, DestroyClosed,
                DestroyCompletes, vars
  <2>. QED  BY <1>a, <2>1, RecordsAll
<1>9. ASSUME NEW err \in BOOLEAN, destroy(err)
      PROVE  RecordsLow(streams')
  BY <1>9, <1>a, RecordsAll DEF destroy
<1>10. CASE ReceiveResponse
  BY <1>1, <1>2, <1>3, <1>4, <1>10 DEF ReceiveResponse
<1>. QED
  BY <1>1, <1>2, <1>3, <1>5, <1>7, <1>8, <1>9, <1>10
     DEF Next, loadAndSendPacket, CloseEvents, testIdle, Application, Finished

\* The loop is where WakeInv wants it.
AwakeInv == LoadingSends /\ (Asleep => Idle)

\* A step changes neither what the streams want nor, without an answer, what a packet
\* can carry but through the streams and the congestion controller.
LEMMA CalmPrimed ==
  ASSUME exchangeRate' = exchangeRate
  PROVE  /\ Calm(streams)' <=> Calm(streams')
         /\ congestion' = congestion => maxPacketAmount' = maxPacketAmount
BY DEF Calm, WantsNothing, amountReceivable, _getAmountAvailableToSend, isOpen, hasRecord,
       maxPacketAmount

\* Nor does the answer to an empty packet.
LEMMA StaysUntestable ==
  ASSUME congestion \in Congestion, TestsNothing(congestion), exchangeRate' = exchangeRate,
         RateInv, congestion' = onFulfill(congestion, 0), maxPacketAmount = 0
  PROVE  maxPacketAmount' = 0
<1>. DEFINE zero == 0
            test == congestion.testMaximum
            most == multiplyByLong(reciprocal(exchangeRate), MAX_UNSIGNED_VALUE)
            later == onFulfill(congestion, zero)
<1>1. zero \in Long
  BY WordAssumption DEF Long
<1>2. test = 0 => later.testMaximum = 0
  <2>. HIDE DEF zero
  <2>. QED  BY <1>1, FulfillTests
<1>3. later \in Congestion
  <2>. HIDE DEF zero
  <2>. QED  BY <1>1, OnFulfillType
<1>4. maxPacketAmount = IF exchangeRate.a > exchangeRate.b THEN minLong(test, most) ELSE test
  BY DEF maxPacketAmount
<1>5. maxPacketAmount' = IF exchangeRate.a > exchangeRate.b THEN minLong(later.testMaximum, most)
                         ELSE later.testMaximum
  BY DEF maxPacketAmount
<1>6. test \in Nat /\ later.testMaximum \in Nat
  BY <1>3, WordAssumption DEF Congestion, Long
<1>7. most \in Nat
  <2>1. exchangeRate.b \in Long /\ exchangeRate.a \in Long \ {0} /\ MAX_UNSIGNED_VALUE \in Long
    BY WordAssumption DEF RateInv, Rational, Long
  <2>2. most = multiplyDivideFloor(MAX_UNSIGNED_VALUE, exchangeRate.b, exchangeRate.a)
    BY DEF multiplyByLong, reciprocal
  <2>3. multiplyDivideFloor(MAX_UNSIGNED_VALUE, exchangeRate.b, exchangeRate.a) \in Long
    BY <2>1, MultiplyDivideType
  <2>. QED  BY <2>2, <2>3, WordAssumption DEF Long
<1>. HIDE DEF test, most, later
<1>. QED  BY <1>2, <1>4, <1>5, <1>6, <1>7 DEF minLong

\* A frame that does not start the loop leaves streams that want nothing.
LEMMA FrameCalms ==
  ASSUME LowFrames, BaseFacts, RateInv, RecordsLow(streams), NEW frame \in Frames,
         ~startsLoop(frame), ~closesConnection(frame)
  PROVE  framesQueuedBy(frame) = {} /\ (Calm(streams) => Calm(afterFrame(frame)))
<1>. DEFINE id == frame.streamId
            s == streams[id]
            t == frameStream(s, frame)
<1>1. id \in StreamIds /\ s \in Stream /\ RecordLow(s) /\ frame \in Frame
  BY SendAssumption DEF Frame, BaseFacts, StreamsOf, RecordsLow
<1>2. ~endsStream(s, frame)
  BY DEF startsLoop
<1>3. framesQueuedBy(frame) = {}
  BY <1>2 DEF framesQueuedBy
<1>4. t \in Stream /\ RecordLow(t)
  BY <1>1, FrameKeeps, RecordFrame
<1>5. afterFrame(frame) = [streams EXCEPT ![id] = t]
  BY <1>1 DEF afterFrame, StreamsOf, BaseFacts
<1>6. afterFrame(frame)[id] = t
  BY <1>1, <1>5 DEF StreamsOf, BaseFacts
<1>7. t = s \/ (frame.type = "StreamMaxMoney" /\ hasRecord(s))
  BY <1>2 DEF frameStream
<1>8. frame.type = "StreamMaxMoney" /\ hasRecord(t) =>
        ~(t.remoteReceiveMax > t.remoteReceived) \/ ~(_getAmountAvailableToSend(t) > 0)
  BY <1>6 DEF startsLoop
<1>. HIDE DEF t, s, id
<1>9. ~(t.remoteReceiveMax > t.remoteReceived) => amountReceivable(t) = 0
  BY <1>4, NoRoom DEF RecordLow
<1>10. ~(_getAmountAvailableToSend(t) > 0) => _getAmountAvailableToSend(t) = 0
  <2>1. _getAmountAvailableToSend(t) \in Nat
    BY <1>4, Available, WordAssumption DEF Long
  <2>. QED  BY <2>1
<1>11. WantsNothing(s) => WantsNothing(t)
  BY <1>7, <1>8, <1>9, <1>10 DEF WantsNothing
<1>12. \A j \in StreamIds : afterFrame(frame)[j] = IF j = id THEN t ELSE streams[j]
  BY <1>1, <1>5 DEF StreamsOf, BaseFacts
<1>13. Calm(streams) => Calm(afterFrame(frame))
  BY <1>1, <1>11, <1>12 DEF Calm, s
<1>. QED  BY <1>3, <1>13

\* The answer to an empty packet does nothing to the streams.
LEMMA EmptyAnswers ==
  ASSUME BaseFacts, packet = NoPacket
  PROVE  /\ undone = streams /\ requeued = queuedFrames /\ amountOf(packet.amounts) = 0
         /\ \A frame \in Frames : executed(frame) = afterFrame(frame)
<1>1. packet.closes = {} /\ amountOf(packet.amounts) = 0 /\ \A id \in StreamIds : packet.amounts[id] = 0
  BY EmptyPacket
<1>2. \A id \in StreamIds : undone[id] = streams[id]
  <2>1. \A id \in StreamIds : undone[id] \in {streams[id], cancelHold(streams[id], 0)}
    BY <1>1 DEF undone
  <2>2. \A id \in StreamIds : cancelHold(streams[id], 0) = streams[id]
    BY NoAmount DEF BaseFacts, StreamsOf
  <2>. QED  BY <2>1, <2>2
<1>3. undone = [id \in StreamIds |-> undone[id]]
  BY DEF undone
<1>4. undone = streams
  BY <1>2, <1>3, Zenon DEF BaseFacts, StreamsOf
<1>5. ASSUME NEW frame \in Frames
      PROVE  executed(frame) = afterFrame(frame)
  <2>. DEFINE after == afterFrame(frame)
  <2>1. after \in StreamsOf
    BY SendAssumption, AfterFrame DEF BaseFacts
  <2>2. executed(frame) = [id \in StreamIds |-> executeHold(after[id], packet.amounts[id])]
    BY DEF executed
  <2>. HIDE DEF after
  <2>3. \A id \in StreamIds : executeHold(after[id], packet.amounts[id]) = after[id]
    BY <1>1, <2>1, NoAmount DEF StreamsOf
  <2>4. executed(frame) = after
    BY <2>1, <2>2, <2>3 DEF StreamsOf
  <2>. QED  BY <2>4 DEF after
<1>6. requeued = queuedFrames
  BY <1>1 DEF requeued
<1>. QED  BY <1>1, <1>4, <1>5, <1>6

\* A packet without money takes nothing from any stream.
LEMMA NothingInPacket ==
  ASSUME BaseFacts, RateInv, ~(amountOf([id \in StreamIds |-> amountFrom(id)]) > 0)
  PROVE  \A id \in StreamIds : amountFrom(id) = 0
<1>. DEFINE v == [id \in StreamIds |-> amountFrom(id)]
            n == MaxStreams
<1>1. n \in Nat /\ StreamIds = 1 .. n /\ v \in [1 .. n -> Nat]
  <2>1. v \in Amounts
    BY PacketAmounts DEF BaseFacts
  <2>2. StreamIds = 1 .. n /\ n \in Nat
    BY SendAssumption DEF StreamIds
  <2>. HIDE DEF v
  <2>. QED  BY <2>1, <2>2, WordAssumption DEF Amounts, Long
<1>2. \A id \in StreamIds : v[id] = amountFrom(id)
  OBVIOUS
<1>3. ~(Total(v, n) > 0)
  BY DEF amountOf
<1>. HIDE DEF v, n
<1>4. \A k \in 1 .. n : v[k] <= Total(v, n)
  BY <1>1, TotalChange
<1>5. Total(v, n) \in Nat
  BY <1>1, TotalPrefixes
<1>6. \A k \in 1 .. n : v[k] = 0
  BY <1>1, <1>3, <1>4, <1>5
<1>. QED  BY <1>1, <1>2, <1>6

\* The streams of an idle connection stay calm when they end.
LEMMA EndedCalm ==
  ASSUME NEW current \in StreamsOf, Calm(current), exchangeRate' = exchangeRate
  PROVE  \A sends, phase : Continue(current, sends, phase) => Calm(streams')
<1>1. \A id \in StreamIds : WantsNothing(current[id]) /\ WantsNothing(finishStream(current[id]))
  BY EndingCalms DEF Calm, StreamsOf
<1>. SUFFICES ASSUME NEW sends, NEW phase, Continue(current, sends, phase)
              PROVE  Calm(streams')
  OBVIOUS
<1>2. \A id \in StreamIds : streams'[id] \in {current[id], finishStream(current[id])}
  BY DEF Continue
<1>. QED  BY <1>1, <1>2 DEF Calm

\* Every step of a connection that is neither closed nor destroyed keeps the loop where
\* WakeInv wants it.
LEMMA AwakeStep ==
  ASSUME LowFrames, BaseInv, BaseInv', MoneyInv, WakeInv, [Next]_vars
  PROVE  AwakeInv'
<1>0. BaseFacts /\ RateInv /\ exchangeRate' = exchangeRate
  BY BaseParts, TestsStep DEF BaseInv, WakeInv
<1>a. SUFFICES ASSUME ~done, destroyPhase = "none", remoteState # "Closed",
                      destroyPhase' = "none", remoteState' # "Closed"
               PROVE  AwakeInv'
  <2>1. (destroyPhase # "none" => destroyPhase' # "none")
        /\ (remoteState = "Closed" => remoteState' = "Closed")
    BY Forward, DoneStep DEF WakeInv
  <2>2. destroyPhase' # "none" \/ remoteState' = "Closed" => AwakeInv'
    BY DEF AwakeInv, LoadingSends, Asleep
  <2>. QED  BY <2>1, <2>2 DEF WakeInv, DoneToldPeer
<1>b. /\ at = "loading" => sending
      /\ at # "loading" /\ (at = "stopped" \/ ~sending) /\ ~startPending =>
            /\ queuedFrames = {} /\ packet = NoPacket
            /\ maxPacketAmount = 0 \/ Calm(streams)
  BY <1>a DEF WakeInv, LoadingSends, Asleep, Idle
<1>c. ASSUME at' = "loading" => sending',
             at' # "loading" /\ (at' = "stopped" \/ ~sending') /\ ~startPending' =>
                 /\ queuedFrames' = {} /\ packet' = NoPacket
                 /\ maxPacketAmount' = 0 \/ Calm(streams')
      PROVE  AwakeInv'
  BY <1>0, <1>c, CalmPrimed DEF AwakeInv, LoadingSends, Asleep, Idle
<1>d. congestion' = congestion => maxPacketAmount' = maxPacketAmount
  BY <1>0, CalmPrimed
<1>e. streams \in StreamsOf /\ \A id \in StreamIds : streams[id] \in Stream
  BY <1>0 DEF BaseFacts, StreamsOf
<1>f. ASSUME NEW current, NEW phase, Fail(current, phase)
      PROVE  FALSE
  BY <1>a, <1>f DEF Fail, Destroying
<1>1. CASE TooManyPackets \/ UnreadableReject \/ SendFails \/ FinalError
  BY <1>1, <1>f DEF TooManyPackets, UnreadableReject, SendFails, FinalError
<1>2. CASE NothingToSend
  <2>1. /\ at = "loading" /\ ~hasFrames /\ Continue(streams, FALSE, endPhase) /\ packet' = packet
        /\ queuedFrames' = queuedFrames /\ congestion' = congestion
    BY <1>2 DEF NothingToSend
  <2>2. queuedFrames = {} /\ \A id \in StreamIds : ~isOpen(streams[id])
    BY <2>1 DEF hasFrames
  <2>3. Calm(streams)
    BY <2>2 DEF Calm, WantsNothing, _getAmountAvailableToSend
  <2>4. Calm(streams')
    BY <1>0, <1>e, <2>1, <2>3, EndedCalm
  <2>5. packet = NoPacket /\ at' = "stopped"
    BY <1>0, <2>1 DEF BaseFacts, Continue
  <2>. QED  BY <1>c, <2>1, <2>2, <2>4, <2>5
<1>3. ASSUME NEW current \in StreamsOf, NEW sends, NEW phase, Continue(current, sends, phase),
             startPending' = startPending,
             ~sends => (queuedFrames = {} /\ (maxPacketAmount = 0 \/ Calm(streams)) =>
                           queuedFrames' = {} /\ (maxPacketAmount' = 0 \/ Calm(current))),
             ~sends => ~sending \/ startPending, packet' = NoPacket, at # "loading"
      PROVE  AwakeInv'
  <2>1. Calm(current) => Calm(streams')
    BY <1>0, <1>3, EndedCalm
  <2>2. sends => at' = "loading" /\ sending'
    BY <1>3 DEF Continue
  <2>3. ~sends => at' = "stopped"
    BY <1>3 DEF Continue
  <2>. QED  BY <1>b, <1>c, <1>3, <2>1, <2>2, <2>3
<1>4. CASE RejectWithoutData \/ Retry \/ FulfillWithoutData
  <2>1. /\ Continue(streams, sending, endPhase) /\ at \in {"inFlight", "decoding", "backoff"}
        /\ startPending' = startPending /\ queuedFrames' = queuedFrames
        /\ congestion' = congestion /\ (packet' = NoPacket \/ (packet' = packet /\ at # "inFlight"))
    BY <1>4 DEF RejectWithoutData, Retry, FulfillWithoutData, packetVars
  <2>2. packet' = NoPacket /\ at # "loading"
    BY <1>0, <2>1 DEF BaseFacts
  <2>. QED  BY <1>3, <1>d, <1>e, <2>1, <2>2
<1>5. ASSUME NEW frame \in Frames, HandleReject(frame)
      PROVE  AwakeInv'
  <2>. DEFINE sends == startsLoop(frame) \/ sendingAfter(frame)
              after == afterFrame(frame)
              phase == endPhaseAfter(frame)
  <2>1. /\ at = "decoding" /\ Continue(after, sends, phase) /\ ControlFrame(frame, answeredState)
        /\ queuedFrames' = queuedFrames \cup framesQueuedBy(frame)
        /\ packet' = packet /\ startPending' = startPending /\ congestion' = congestion
    BY <1>5 DEF HandleReject, packetVars
  <2>2. ~closesConnection(frame)
    BY <1>a, <2>1 DEF ControlFrame
  <2>3. ~sends => ~sending /\ ~startsLoop(frame)
    BY <2>2 DEF sendingAfter
  <2>4. ~startsLoop(frame) => framesQueuedBy(frame) = {} /\ (Calm(streams) => Calm(after))
    BY <1>0, <2>2, FrameCalms DEF WakeInv
  <2>5. after \in StreamsOf
    BY <1>0, <1>e, SendAssumption, AfterFrame
  <2>6. packet' = NoPacket
    BY <1>0, <2>1 DEF BaseFacts
  <2>. HIDE DEF sends, after, phase
  <2>. QED  BY <1>3, <1>d, <2>1, <2>3, <2>4, <2>5, <2>6
<1>6. ASSUME NEW delivered \in Deliveries, NEW frame \in Frames, ReceiveFulfill(delivered, frame)
      PROVE  AwakeInv'
  <2>. DEFINE sends == startsLoop(frame) \/ sendingAfter(frame)
              after == executed(frame)
              phase == endPhaseAfter(frame)
  <2>1. /\ at = "inFlight" /\ Continue(after, sends, phase) /\ ControlFrame(frame, answeredState)
        /\ queuedFrames' = queuedFrames \cup framesQueuedBy(frame)
        /\ packet' = NoPacket /\ startPending' = startPending
        /\ congestion' = onFulfill(congestion, amountOf(packet.amounts))
    BY <1>6, <1>f, FulfillStep
  <2>2. ~closesConnection(frame)
    BY <1>a, <2>1 DEF ControlFrame
  <2>3. ~sends => ~sending /\ ~startsLoop(frame)
    BY <2>2 DEF sendingAfter
  <2>4. ~startsLoop(frame) => framesQueuedBy(frame) = {} /\ (Calm(streams) => Calm(afterFrame(frame)))
    BY <1>0, <2>2, FrameCalms DEF WakeInv
  <2>5. after \in StreamsOf
    BY <1>0, SendAssumption, Executed DEF BaseFacts
  <2>6. packet = NoPacket => /\ after = afterFrame(frame)
                             /\ congestion' = onFulfill(congestion, 0)
    BY <1>0, <2>1, EmptyAnswers
  <2>7. packet = NoPacket /\ maxPacketAmount = 0 => maxPacketAmount' = 0
    BY <1>0, <2>6, StaysUntestable DEF WakeInv, BaseFacts
  <2>8. ~sends /\ ~startPending => packet = NoPacket
    BY <1>b, <2>1, <2>3
  <2>. HIDE DEF sends, after, phase
  <2>9. CASE sends \/ startPending
    <3>1. sends => at' = "loading" /\ sending'
      BY <2>1 DEF Continue
    <3>2. ~sends => at' = "stopped"
      BY <2>1 DEF Continue
    <3>. QED  BY <1>c, <2>1, <2>9, <3>1, <3>2
  <2>10. CASE ~sends /\ ~startPending
    BY <1>3, <2>1, <2>3, <2>4, <2>5, <2>6, <2>7, <2>8, <2>10
  <2>. QED  BY <2>9, <2>10
<1>7. CASE RejectByReceiver \/ \E insufficientLiquidity \in BOOLEAN : TemporaryError(insufficientLiquidity)
  <2>1. /\ at = "inFlight" /\ at' \in {"decoding", "backoff"} /\ streams' = undone
        /\ queuedFrames' = requeued /\ packet' = NoPacket /\ startPending' = startPending
        /\ sending' = sending /\ (congestion' = congestion \/ amountOf(packet.amounts) > 0)
    BY <1>7 DEF RejectByReceiver, TemporaryError
  <2>2. packet = NoPacket => undone = streams /\ requeued = queuedFrames /\ amountOf(packet.amounts) = 0
    BY <1>0, EmptyAnswers
  <2>. QED  BY <1>b, <1>c, <1>d, <2>1, <2>2
<1>8. ASSUME NEW metadata \in F08Metadata, AmountTooLarge(metadata)
      PROVE  AwakeInv'
  <2>1. /\ at = "inFlight" /\ amountOf(packet.amounts) > 0 /\ packet' = NoPacket
        /\ Continue(undone, sending, endPhase) /\ startPending' = startPending
    BY <1>8, <1>f DEF AmountTooLarge
  <2>2. sending \/ startPending
    BY <1>0, <1>b, <2>1, EmptyAnswers
  <2>3. (sending => at' = "loading" /\ sending') /\ (~sending => at' = "stopped")
    BY <2>1 DEF Continue
  <2>. QED  BY <1>c, <2>1, <2>2, <2>3
<1>9. CASE SendPacket
  <2>. DEFINE amounts == [id \in StreamIds |-> amountFrom(id)]
              closes == queuedFrames \ {0}
  <2>1. /\ at = "loading" /\ at' = "inFlight" /\ queuedFrames' = {}
        /\ packet' = [amounts |-> amounts, closes |-> closes]
        /\ streams' = [id \in StreamIds |-> holdOutgoing(streams[id], amounts[id])]
        /\ sending' = (sending /\ (amountOf(amounts) > 0 \/ closes # {}))
        /\ congestion' = congestion
    BY <1>9 DEF SendPacket
  <2>2. sending
    BY <1>b, <2>1
  <2>3. ASSUME ~(amountOf(amounts) > 0), closes = {}
        PROVE  /\ packet' = NoPacket /\ (maxPacketAmount = 0 \/ Calm(streams)) /\ streams' = streams
    <3>1. \A id \in StreamIds : amountFrom(id) = 0
      BY <1>0, <2>3, NothingInPacket
    <3>2. amounts = [id \in StreamIds |-> 0]
      BY <3>1
    <3>3. packet' = NoPacket
      BY <2>1, <2>3, <3>2 DEF NoPacket
    <3>4. maxPacketAmount = 0 \/ Calm(streams)
      BY <1>0, <3>1, NothingTaken DEF BaseFacts
    <3>5. \A id \in StreamIds : holdOutgoing(streams[id], amounts[id]) = streams[id]
      BY <1>e, <3>1, NoAmount
    <3>6. streams' = streams
      <4>. HIDE DEF amounts
      <4>. QED  BY <1>e, <2>1, <3>5 DEF StreamsOf
    <3>. QED  BY <3>3, <3>4, <3>6
  <2>. HIDE DEF amounts, closes
  <2>. QED  BY <1>c, <1>d, <2>1, <2>2, <2>3
<1>10. ASSUME NEW frame \in Frames, ReceiveFrame(frame)
       PROVE  AwakeInv'
  <2>1. /\ ControlFrame(frame, remoteState) /\ streams' = afterFrame(frame)
        /\ queuedFrames' = queuedFrames \cup framesQueuedBy(frame)
        /\ StartSendLoop(startsLoop(frame), sendingAfter(frame), remoteState', endPhaseAfter(frame))
        /\ packet' = packet /\ startPending' = startPending /\ congestion' = congestion
    BY <1>10 DEF ReceiveFrame, packetVars
  <2>2. ~closesConnection(frame)
    BY <1>a, <2>1 DEF ControlFrame
  <2>3. sendingAfter(frame) <=> sending
    BY <2>2 DEF sendingAfter
  <2>4. ~startsLoop(frame) => framesQueuedBy(frame) = {} /\ (Calm(streams) => Calm(afterFrame(frame)))
    BY <1>0, <2>2, FrameCalms DEF WakeInv
  <2>5. CASE startsLoop(frame)
    BY <1>a, <1>c, <2>1, <2>5 DEF StartSendLoop
  <2>6. CASE ~startsLoop(frame)
    <3>1. at' = at /\ (sending' <=> sending)
      BY <2>1, <2>3, <2>6 DEF StartSendLoop
    <3>. QED  BY <1>b, <1>c, <1>d, <2>1, <2>4, <2>6, <3>1
  <2>. QED  BY <2>5, <2>6
<1>11. CASE StartLater \/ end \/ \E id \in StreamIds, limit \in SendMaxima : setSendMax(id, limit)
  <2>1. \E phase : StartSendLoop(TRUE, sending, remoteState, phase)
    BY <1>11 DEF StartLater, end, setSendMax
  <2>2. sending' = TRUE /\ at' # "stopped"
    BY <1>a, <2>1 DEF StartSendLoop
  <2>. QED  BY <1>c, <2>2
<1>12. ASSUME NEW id \in StreamIds, NEW t, streams' = [streams EXCEPT ![id] = t],
              WantsNothing(streams[id]) => WantsNothing(t),
              UNCHANGED <<queuedFrames, packet, at, sending, congestion>>,
              startPending' = startPending
       PROVE  AwakeInv'
  <2>1. \A j \in StreamIds : streams'[j] = IF j = id THEN t ELSE streams[j]
    BY <1>e, <1>12 DEF StreamsOf
  <2>2. Calm(streams) => Calm(streams')
    BY <1>12, <2>1 DEF Calm
  <2>. QED  BY <1>b, <1>c, <1>d, <1>12, <2>2
<1>13. ASSUME NEW id \in StreamIds, createStream(id)
       PROVE  AwakeInv'
  <2>. DEFINE zero == 0
              s == streams[id]
              t == opened(s)
  <2>1. /\ s.status = "none" /\ streams' = [streams EXCEPT ![id] = t]
        /\ UNCHANGED <<queuedFrames, packet, at, sending, congestion>> /\ startPending' = startPending
    BY <1>13 DEF createStream, packetVars, loopVars
  <2>2. s \in Stream /\ s.sendMax = 0
    BY <1>e, <2>1 DEF WakeInv, RecordsLow, RecordLow
  <2>3. 2 * s.totalSent <= MAX_UNSIGNED_VALUE /\ 2 * s.heldAmount <= MAX_UNSIGNED_VALUE
    <3>1. s.totalSent + s.heldAmount <= granted[id] /\ 2 * granted[id] <= MAX_UNSIGNED_VALUE
      BY DEF MoneyInv, MoneyOK
    <3>2. s.totalSent \in Nat /\ s.heldAmount \in Nat /\ granted[id] \in Nat
      BY MoneyTypes, WordAssumption DEF Stream, Long
    <3>. HIDE DEF s
    <3>. QED  BY <3>1, <3>2, WordAssumption
  <2>4. zero \in Long
    BY WordAssumption DEF Long
  <2>. HIDE DEF s, zero
  <2>5. t \in Stream /\ t.sendMax = 0 /\ t.totalSent = s.totalSent /\ t.heldAmount = s.heldAmount
    BY <2>2, <2>4, Opened
  <2>. HIDE DEF t
  <2>6. WantsNothing(t)
    BY <2>3, <2>5, NoLimit DEF WantsNothing
  <2>. QED  BY <1>12, <2>1, <2>6
<1>14. ASSUME NEW id \in StreamIds, removeStreamRecord(id)
       PROVE  AwakeInv'
  <2>1. /\ streams' = [streams EXCEPT ![id] = removed(streams[id])]
        /\ UNCHANGED <<packet, at, sending, congestion>>
        /\ startPending' = TRUE \/ (UNCHANGED queuedFrames /\ startPending' = startPending)
    BY <1>14 DEF removeStreamRecord, packetVars, loopVars
  <2>2. WantsNothing(removed(streams[id]))
    BY <1>e DEF WantsNothing, hasRecord, removed, Stream
  <2>3. CASE startPending' = TRUE
    <3>1. at' = "loading" => sending'
      BY <1>b, <2>1
    <3>. QED  BY <1>c, <2>3, <3>1
  <2>4. CASE UNCHANGED queuedFrames /\ startPending' = startPending
    BY <1>12, <2>1, <2>2, <2>4
  <2>. QED  BY <2>1, <2>3, <2>4
<1>15. ASSUME NEW id \in StreamIds, NEW after \in {endStream(streams[id]), destroyStream(streams[id])},
              CloseStream(id, after)
       PROVE  AwakeInv'
  <2>1. /\ streams' = [streams EXCEPT ![id] = after]
        /\ UNCHANGED <<queuedFrames, packet, at, sending, congestion>> /\ startPending' = startPending
    BY <1>15 DEF CloseStream, packetVars, loopVars
  <2>2. WantsNothing(streams[id]) => WantsNothing(after)
    BY <1>e, EndingCalms
  <2>. QED  BY <1>12, <2>1, <2>2
<1>16. CASE Closing \/ UNCHANGED vars
  <2>1. UNCHANGED <<streams, queuedFrames, packet, at, sending, congestion, startPending>>
    BY <1>16 DEF Closing, EndStreams, EndCompletes, DestroyClosed, DestroyCompletes, vars,
                 packetVars, loopVars
  <2>. QED  BY <1>b, <1>c, <1>d, <2>1
<1>17. ASSUME NEW err \in BOOLEAN, destroy(err)
       PROVE  AwakeInv'
  BY <1>17, <1>a DEF destroy, Destroying
<1>18. CASE ReceiveResponse
  BY <1>1, <1>4, <1>5, <1>6, <1>7, <1>8, <1>18 DEF ReceiveResponse
<1>. QED
  BY <1>1, <1>2, <1>4, <1>9, <1>10, <1>11, <1>13, <1>14, <1>15, <1>16, <1>17, <1>18
     DEF Next, loadAndSendPacket, CloseEvents, testIdle, Application, Finished

\* WakeInv holds initially: connect() leaves a loop that looks for something to send.
LEMMA WakeInit == Init => WakeInv
<1>. SUFFICES ASSUME Init PROVE WakeInv
  OBVIOUS
<1>1. LoadingSends /\ DoneToldPeer /\ ~Asleep
  BY DEF Init, LoadingSends, DoneToldPeer, done, Asleep
<1>2. TestsNothing(congestion)
  <2>1. PICK amount \in PathMaxima : congestion = setMaximumAmounts(amount)
    BY DEF Init
  <2>2. congestion.testMaximum = amount /\ amount # 0
    BY <2>1, SendAssumption DEF setMaximumAmounts
  <2>. QED  BY <2>2 DEF TestsNothing
<1>3. RecordsLow(streams)
  <2>1. \A id \in StreamIds : streams[id].sendMax = 0 /\ streams[id].remoteReceived = 0
    BY DEF Init, NewStream
  <2>. QED  BY <2>1, WordAssumption DEF RecordsLow, RecordLow
<1>. QED  BY <1>1, <1>2, <1>3 DEF WakeInv

\* When no loop runs and none is due, nothing waits to be sent: no limit set, frame
\* received, reject undone or stream closed while the loop was in one of its awaits is
\* forgotten (connection.ts:1178), for any streams, limits, rates and answers.
THEOREM NoWakeupLost ==
  ASSUME LowLimits, LowFrames
  PROVE  Spec => []NoLostWakeup
<1>1. Init => WakeInv
  BY WakeInit
<1>2. SendInv /\ SendInv' /\ WakeInv /\ [Next]_vars => WakeInv'
  <2>. SUFFICES ASSUME SendInv, SendInv', WakeInv, [Next]_vars PROVE WakeInv'
    OBVIOUS
  <2>1. BaseInv /\ BaseInv' /\ MoneyInv
    BY DEF SendInv
  <2>2. AwakeInv'
    BY <2>1, AwakeStep
  <2>3. TestsNothing(congestion)'
    BY <2>1, TestsStep DEF WakeInv
  <2>4. DoneToldPeer'
    BY <2>1, DoneStep DEF WakeInv
  <2>5. RecordsLow(streams)'
    <3>1. RecordsLow(streams')
      BY <2>1, RecordsStep DEF WakeInv
    <3>. QED  BY <3>1 DEF RecordsLow, RecordLow
  <2>. QED  BY <2>2, <2>3, <2>4, <2>5 DEF WakeInv, AwakeInv
<1>3. SendInv /\ WakeInv => NoLostWakeup
  <2>. SUFFICES ASSUME BaseInv, WakeInv, at = "stopped", ~startPending, destroyPhase = "none",
                       remoteState # "Closed"
                PROVE  queuedFrames = {} /\ \A id \in StreamIds : amountFrom(id) = 0
    BY DEF SendInv, NoLostWakeup
  <2>1. queuedFrames = {} /\ (maxPacketAmount = 0 \/ Calm(streams))
    BY DEF WakeInv, Asleep, Idle
  <2>2. RateInv /\ streams \in StreamsOf /\ congestion \in Congestion
    BY BaseParts DEF BaseInv, BaseFacts
  <2>. QED  BY <2>1, <2>2, NothingTaken
<1>. QED  BY <1>1, <1>2, <1>3, SendInductive, PTL DEF Spec

=============================================================================
