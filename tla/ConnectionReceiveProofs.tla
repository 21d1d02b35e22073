---------------------- MODULE ConnectionReceiveProofs -----------------------
(***************************************************************************)
(* Proofs about the receiving side of a connection, for every word width,  *)
(* packet, callback, set of streams and interleaving of handlers.          *)
(*                                                                         *)
(* addIncomingHold stores the total received as well as the new hold, so   *)
(* the hold is not the sum of the amounts that are held, and the two       *)
(* comments about removeIncomingHold and addTotalReceived do not follow    *)
(* from the code's lines.  They follow from HoldInv: the amounts held add  *)
(* up to a sum that the hold covers and that still fits above the total.   *)
(*                                                                         *)
(* The other invariants build on it: StreamInv (types, and what a stream's *)
(* record went through), RoomInv (the stream ids the peer may use grow by  *)
(* one for each stream it ended), MoneyInv (totals are those of the        *)
(* packets that were fulfilled) and LimitInv (totals stay below the        *)
(* limits).                                                                *)
(***************************************************************************)
EXTENDS ConnectionReceive, LongArithmeticProofs, PrefixSums, FiniteSetTheorems, TLAPS

-----------------------------------------------------------------------------
(* The sum of the amounts held *)

HeldAmount(ps) ==
    [k \in 1 .. Len(ps) |-> IF ps[k].status = "held" THEN ps[k].packet.amount ELSE 0]

\* The amounts held add up to total.
HeldSum(ps, total) == SumIs(HeldAmount(ps), Len(ps), total)

\* A member of a sequence of prepares has the fields of one.
LEMMA PrepareAt ==
  ASSUME NEW ps \in Seq(Prepare), NEW i \in 1 .. Len(ps)
  PROVE  ps[i] \in Prepare /\ ps[i].packet.amount \in Long /\ ps[i].packet.amount \in Nat
<1>1. ps[i] \in Prepare
  OBVIOUS
<1>2. ps[i].packet \in Packet
  BY <1>1 DEF Prepare
<1>3. ps[i].packet.amount \in Long
  BY <1>2 DEF Packet
<1>. QED  BY <1>1, <1>3, WordAssumption DEF Long

\* The amounts held are natural.
LEMMA HeldType ==
  ASSUME NEW ps \in Seq(Prepare)
  PROVE  HeldAmount(ps) \in [1 .. Len(ps) -> Nat]
BY PrepareAt DEF HeldAmount

\* A prepare that is not held yet adds nothing.
LEMMA HeldReceive ==
  ASSUME NEW ps \in Seq(Prepare), NEW total \in Nat, HeldSum(ps, total),
         NEW p \in Prepare, p.status # "held"
  PROVE  Append(ps, p) \in Seq(Prepare) /\ HeldSum(Append(ps, p), total)
<1>. DEFINE n == Len(ps)
            new == Append(ps, p)
<1>1. /\ n \in Nat /\ new \in Seq(Prepare) /\ Len(new) = n + 1
      /\ new[n + 1] = p /\ \A k \in 1 .. n : new[k] = ps[k]
  OBVIOUS
<1>. HIDE DEF new
<1>2. HeldAmount(new) \in [1 .. n + 1 -> Nat] /\ HeldAmount(ps) \in [1 .. n -> Nat]
  BY <1>1, HeldType
<1>3. \A k \in 1 .. n : HeldAmount(new)[k] = HeldAmount(ps)[k]
  BY <1>1 DEF HeldAmount
<1>4. HeldAmount(new)[n + 1] = 0
  BY <1>1 DEF HeldAmount
<1>5. SumIs(HeldAmount(new), n + 1, total + 0)
  BY <1>1, <1>2, <1>3, <1>4, SumExtend DEF HeldSum
<1>. QED  BY <1>1, <1>5 DEF HeldSum, new

WithStatus(ps, i, st) == [ps EXCEPT ![i].status = st]

\* Only the status of prepare i changes when it is answered or held.
LEMMA StatusChange ==
  ASSUME NEW ps \in Seq(Prepare), NEW i \in 1 .. Len(ps),
         NEW st \in {"received", "held"} \cup Answers,
         NEW new, new = WithStatus(ps, i, st)
  PROVE  /\ new \in Seq(Prepare) /\ Len(new) = Len(ps)
         /\ \A k \in 1 .. Len(ps) : k # i => new[k] = ps[k]
         /\ new[i].status = st /\ new[i].packet = ps[i].packet
<1>. DEFINE q == [ps[i] EXCEPT !.status = st]
<1>1. ps[i] \in Prepare
  BY PrepareAt
<1>2. q \in Prepare /\ q.status = st /\ q.packet = ps[i].packet
  BY <1>1 DEF Prepare
<1>3. new = [ps EXCEPT ![i] = q]
  BY Zenon DEF WithStatus
<1>. HIDE DEF q
<1>4. /\ new \in Seq(Prepare) /\ Len(new) = Len(ps)
      /\ \A k \in 1 .. Len(ps) : k # i => new[k] = ps[k]
      /\ new[i] = q
  BY <1>2, <1>3
<1>. QED  BY <1>2, <1>4, Zenon

\* Holding a prepare adds its amount, settling it takes it out, and rejecting or
\* fulfilling one that was not held changes nothing.
LEMMA HeldChange ==
  ASSUME NEW ps \in Seq(Prepare), NEW i \in 1 .. Len(ps),
         NEW st \in {"received", "held"} \cup Answers,
         NEW total \in Nat, HeldSum(ps, total),
         NEW new, new = WithStatus(ps, i, st)
  PROVE  /\ new \in Seq(Prepare)
         /\ ps[i].status = "held" /\ st # "held" =>
                /\ ps[i].packet.amount <= total
                /\ HeldSum(new, total - ps[i].packet.amount)
         /\ ps[i].status # "held" /\ st = "held" =>
                HeldSum(new, total + ps[i].packet.amount)
         /\ ps[i].status # "held" /\ st # "held" => HeldSum(new, total)
<1>. DEFINE n == Len(ps)
            amount == ps[i].packet.amount
<1>1. /\ new \in Seq(Prepare) /\ Len(new) = n
      /\ \A k \in 1 .. n : k # i => new[k] = ps[k]
      /\ new[i].status = st /\ new[i].packet = ps[i].packet
  <2>1. new \in Seq(Prepare) /\ Len(new) = n
    BY StatusChange
  <2>2. \A k \in 1 .. n : k # i => new[k] = ps[k]
    BY StatusChange
  <2>3. new[i].status = st /\ new[i].packet = ps[i].packet
    BY StatusChange
  <2>. QED  BY <2>1, <2>2, <2>3
<1>2. n \in Nat /\ amount \in Nat
  BY PrepareAt
<1>3. HeldAmount(new) \in [1 .. n -> Nat] /\ HeldAmount(ps) \in [1 .. n -> Nat]
  BY <1>1, HeldType
<1>4. \A k \in 1 .. n : k # i => HeldAmount(new)[k] = HeldAmount(ps)[k]
  BY <1>1 DEF HeldAmount
<1>5. /\ HeldAmount(ps)[i] = IF ps[i].status = "held" THEN amount ELSE 0
      /\ HeldAmount(new)[i] = IF st = "held" THEN amount ELSE 0
  BY <1>1 DEF HeldAmount
<1>6. SumIs(HeldAmount(ps), n, total)
  BY DEF HeldSum
<1>7. ASSUME ps[i].status = "held", st # "held"
      PROVE  amount <= total /\ HeldSum(new, total - amount)
  <2>1. HeldAmount(ps)[i] = amount /\ HeldAmount(new)[i] = 0
    BY <1>5, <1>7
  <2>2. /\ HeldAmount(ps)[i] <= total
        /\ SumIs(HeldAmount(new), n, total - HeldAmount(ps)[i])
    BY <1>2, <1>3, <1>4, <1>6, <2>1, SumSettle
  <2>. QED  BY <1>1, <2>1, <2>2 DEF HeldSum
<1>8. ASSUME ps[i].status # "held", st = "held"
      PROVE  HeldSum(new, total + amount)
  <2>1. HeldAmount(ps)[i] = 0 /\ HeldAmount(new)[i] = amount
    BY <1>5, <1>8
  <2>2. SumIs(HeldAmount(new), n, total + HeldAmount(new)[i])
    BY <1>2, <1>3, <1>4, <1>6, <2>1, SumRaise
  <2>. QED  BY <1>1, <2>1, <2>2 DEF HeldSum
<1>9. ASSUME ps[i].status # "held", st # "held"
      PROVE  HeldSum(new, total)
  <2>1. \A k \in 1 .. n : HeldAmount(new)[k] = HeldAmount(ps)[k]
    BY <1>4, <1>5, <1>9
  <2>2. SumIs(HeldAmount(new), n, total)
    BY <1>2, <1>6, <2>1, SumSame
  <2>. QED  BY <1>1, <2>2 DEF HeldSum
<1>. QED  BY <1>1, <1>7, <1>8, <1>9, Zenon

-----------------------------------------------------------------------------
(* The inductive invariant *)

\* The hold covers what is held, which fits above what was received.
Covered(ps, received, hold) ==
    \E total \in Nat :
       /\ HeldSum(ps, total)
       /\ total <= hold
       /\ received + total <= MAX_UNSIGNED_VALUE

HoldInv ==
    /\ prepares \in Seq(Prepare)
    /\ _totalReceived \in Long
    /\ _incomingHold \in Long
    /\ Covered(prepares, _totalReceived, _incomingHold)

\* A new connection holds nothing.
LEMMA InitHoldInv == Init => HoldInv
<1>. SUFFICES ASSUME Init PROVE HoldInv
  OBVIOUS
<1>1. prepares \in Seq(Prepare) /\ Len(prepares) = 0
  BY DEF Init
<1>2. _totalReceived \in Long /\ _incomingHold \in Long
  BY WordAssumption DEF Init, Long
<1>3. HeldSum(prepares, 0)
  BY <1>1, SumEmpty DEF HeldSum
<1>4. Covered(prepares, _totalReceived, _incomingHold)
  BY <1>3, WordAssumption DEF Covered, Init
<1>. QED  BY <1>1, <1>2, <1>4 DEF HoldInv

\* A step that changes neither the amounts nor what is held preserves the invariant.
LEMMA SameHold ==
  ASSUME HoldInv, prepares' \in Seq(Prepare),
         \A total \in Nat : HeldSum(prepares, total) => HeldSum(prepares', total),
         UNCHANGED <<_totalReceived, _incomingHold>>
  PROVE  HoldInv'
<1>1. Covered(prepares, _totalReceived, _incomingHold)'
  BY DEF HoldInv, Covered
<1>. QED  BY <1>1 DEF HoldInv

\* A prepare that arrives is received or rejected: it holds nothing.
LEMMA ReceiveStep ==
  ASSUME HoldInv, NEW packet \in Packets, ReceivePrepare(packet)
  PROVE  HoldInv'
<1>1. packet \in Packet
  BY ReceiveAssumption
<1>2. PICK st \in {"received", "rejected"} :
         prepares' = Append(prepares, [packet |-> packet, status |-> st])
  BY DEF ReceivePrepare
<1>. DEFINE p == [packet |-> packet, status |-> st]
<1>3. p \in Prepare /\ p.status # "held"
  BY <1>1, <1>2 DEF Prepare, Answers
<1>. HIDE DEF p
<1>4. prepares \in Seq(Prepare) /\ prepares' = Append(prepares, p)
  BY <1>2 DEF HoldInv, p
<1>5. prepares' \in Seq(Prepare)
  BY <1>3, <1>4
<1>6. \A total \in Nat : HeldSum(prepares, total) => HeldSum(prepares', total)
  BY <1>3, <1>4, HeldReceive
<1>7. UNCHANGED <<_totalReceived, _incomingHold>>
  BY DEF ReceivePrepare
<1>. QED  BY <1>5, <1>6, <1>7, SameHold

\* Rejecting a prepare that is not held holds nothing, whether the packet is refused
\* or the total would overflow.
LEMMA RefuseStep ==
  ASSUME HoldInv, NEW i \in DOMAIN prepares, RejectPrepare(i) \/ OverflowPrepare(i)
  PROVE  HoldInv'
<1>1. prepares \in Seq(Prepare) /\ i \in 1 .. Len(prepares) /\ prepares[i].status # "held"
  BY DEF HoldInv, RejectPrepare, OverflowPrepare
<1>2. PICK st \in {"rejected", "overflowed"} : prepares' = WithStatus(prepares, i, st)
  BY DEF RejectPrepare, OverflowPrepare, Answer, WithStatus
<1>3. st \in {"received", "held"} \cup Answers /\ st # "held"
  BY DEF Answers
<1>4. prepares' \in Seq(Prepare)
  BY <1>1, <1>2, <1>3, StatusChange
<1>5. \A total \in Nat : HeldSum(prepares, total) => HeldSum(prepares', total)
  BY <1>1, <1>2, <1>3, HeldChange
<1>6. UNCHANGED <<_totalReceived, _incomingHold>>
  BY DEF RejectPrepare, OverflowPrepare
<1>. QED  BY <1>4, <1>5, <1>6, SameHold

\* Settling a held prepare: its amount leaves the hold without underflow, and the
\* total takes it without overflow.
LEMMA SettleStep ==
  ASSUME HoldInv, NEW i \in DOMAIN prepares, FulfillPrepare(i) \/ DeclinePrepare(i)
  PROVE  HoldInv'
<1>. DEFINE v == prepares[i].packet.amount
            received == _totalReceived
            hold == _incomingHold
<1>1. prepares \in Seq(Prepare) /\ i \in 1 .. Len(prepares) /\ prepares[i].status = "held"
  BY DEF HoldInv, FulfillPrepare, DeclinePrepare
<1>2. v \in Long /\ v \in Nat
  BY <1>1, PrepareAt
<1>3. PICK total \in Nat : /\ HeldSum(prepares, total)
                           /\ total <= hold
                           /\ received + total <= MAX_UNSIGNED_VALUE
  BY DEF HoldInv, Covered
<1>4. PICK st \in {"fulfilled", "rejected"} : prepares' = WithStatus(prepares, i, st)
  BY DEF FulfillPrepare, Fulfill, DeclinePrepare, Answer, WithStatus
<1>5. st \in {"received", "held"} \cup Answers /\ st # "held"
  BY DEF Answers
<1>6. prepares' \in Seq(Prepare) /\ v <= total /\ HeldSum(prepares', total - v)
  BY <1>1, <1>3, <1>4, <1>5, HeldChange
<1>7. received \in Long /\ hold \in Long /\ received \in Nat /\ hold \in Nat
  BY WordAssumption DEF HoldInv, Long
<1>8. _incomingHold' = removeIncomingHold(hold, v)
  BY DEF FulfillPrepare, Fulfill, DeclinePrepare
<1>9. _totalReceived' = checkedAdd(received, v).sum \/ _totalReceived' = received
  BY DEF FulfillPrepare, Fulfill, DeclinePrepare
<1>. HIDE DEF v, received, hold
<1>10. v <= hold
  BY <1>2, <1>3, <1>6, <1>7
<1>11. _incomingHold' = hold - v
  BY <1>2, <1>7, <1>8, <1>10, CheckedSubtract DEF removeIncomingHold
<1>12. received + v <= MAX_UNSIGNED_VALUE
  BY <1>2, <1>3, <1>6, <1>7, WordAssumption
<1>13. checkedAdd(received, v).sum = received + v
  BY <1>2, <1>7, <1>12, CheckedAdd, WordAssumption
<1>14. _totalReceived' \in {received, received + v}
  BY <1>9, <1>13
<1>15. _totalReceived' \in Long /\ _incomingHold' \in Long
  BY <1>2, <1>7, <1>10, <1>11, <1>12, <1>14, WordAssumption DEF Long
<1>16. /\ total - v \in Nat
       /\ total - v <= _incomingHold'
       /\ _totalReceived' + (total - v) <= MAX_UNSIGNED_VALUE
  <2>1. v <= total /\ total <= hold /\ received + total <= MAX_UNSIGNED_VALUE
    BY <1>3, <1>6
  <2>2. total - v \in Nat /\ total - v <= hold - v
    BY <1>2, <1>7, <2>1
  <2>3. /\ received + (total - v) <= MAX_UNSIGNED_VALUE
        /\ (received + v) + (total - v) <= MAX_UNSIGNED_VALUE
    BY <1>2, <1>7, <2>1, WordAssumption
  <2>. QED  BY <1>11, <1>14, <2>2, <2>3
<1>17. Covered(prepares', _totalReceived', _incomingHold')
  BY <1>6, <1>16 DEF Covered
<1>. QED  BY <1>6, <1>15, <1>17 DEF HoldInv

\* Holding a prepare: the hold grows by at least its amount, and the amounts held
\* still fit above the total because the total and the old hold were added up
\* without overflow.  A packet of 0 is the one case where they may not have been.
LEMMA HoldStep ==
  ASSUME HoldInv, NEW i \in DOMAIN prepares, HoldPrepare(i)
  PROVE  HoldInv'
<1>. DEFINE v == prepares[i].packet.amount
            received == _totalReceived
            hold == _incomingHold
            first == checkedAdd(received, hold).sum
            new == checkedAdd(first, v).sum
<1>1. prepares \in Seq(Prepare) /\ i \in 1 .. Len(prepares) /\ prepares[i].status # "held"
  BY DEF HoldInv, HoldPrepare
<1>2. v \in Long /\ v \in Nat
  BY <1>1, PrepareAt
<1>3. PICK total \in Nat : /\ HeldSum(prepares, total)
                           /\ total <= hold
                           /\ received + total <= MAX_UNSIGNED_VALUE
  BY DEF HoldInv, Covered
<1>4. received \in Long /\ hold \in Long /\ received \in Nat /\ hold \in Nat
  BY WordAssumption DEF HoldInv, Long
<1>5. ~checkedAdd(first, v).overflow
  BY DEF HoldPrepare, addIncomingHold
<1>6. \/ /\ v > 0 /\ _incomingHold' = new /\ UNCHANGED _totalReceived
         /\ prepares' = WithStatus(prepares, i, "held")
      \/ /\ _incomingHold' = removeIncomingHold(new, v)
         /\ _totalReceived' = checkedAdd(received, v).sum
         /\ prepares' = WithStatus(prepares, i, "fulfilled")
  BY DEF HoldPrepare, addIncomingHold, Fulfill, Answer, WithStatus
<1>. HIDE DEF v, received, hold, first
<1>7. first = IF received + hold > MAX_UNSIGNED_VALUE THEN MAX_UNSIGNED_VALUE
              ELSE received + hold
  BY <1>4, CheckedAdd DEF first
<1>8. first \in Long /\ first \in Nat
  BY <1>4, <1>7, WordAssumption DEF Long
<1>9. first + v <= MAX_UNSIGNED_VALUE /\ new = first + v
  BY <1>2, <1>5, <1>8, CheckedAdd, WordAssumption
<1>. HIDE DEF new
<1>10. v > 0 => first = received + hold
  BY <1>2, <1>4, <1>7, <1>8, <1>9, WordAssumption
<1>11. total <= first
  BY <1>3, <1>4, <1>7, <1>8, WordAssumption DEF Long
<1>12. new \in Long /\ new \in Nat
  BY <1>2, <1>8, <1>9, WordAssumption DEF Long
<1>13. CASE /\ v > 0 /\ _incomingHold' = new /\ UNCHANGED _totalReceived
            /\ prepares' = WithStatus(prepares, i, "held")
  <2>1. prepares' \in Seq(Prepare) /\ HeldSum(prepares', total + v)
    BY <1>1, <1>3, <1>13, HeldChange DEF v
  <2>2. _incomingHold' = received + hold + v /\ received + hold + v <= MAX_UNSIGNED_VALUE
    BY <1>9, <1>10, <1>13
  <2>3. _totalReceived' = received
    BY <1>13 DEF received
  <2>4. /\ total + v \in Nat
        /\ total + v <= _incomingHold'
        /\ _totalReceived' + (total + v) <= MAX_UNSIGNED_VALUE
    BY <1>2, <1>3, <1>4, <2>2, <2>3, WordAssumption
  <2>5. Covered(prepares', _totalReceived', _incomingHold')
    BY <2>1, <2>4 DEF Covered
  <2>. QED  BY <1>4, <1>12, <1>13, <2>1, <2>3, <2>5 DEF HoldInv
<1>14. CASE /\ _incomingHold' = removeIncomingHold(new, v)
            /\ _totalReceived' = checkedAdd(received, v).sum
            /\ prepares' = WithStatus(prepares, i, "fulfilled")
  <2>1. prepares' \in Seq(Prepare) /\ HeldSum(prepares', total)
    BY <1>1, <1>3, <1>14, HeldChange DEF Answers
  <2>2. v <= new /\ new - v = first
    BY <1>2, <1>8, <1>9
  <2>3. _incomingHold' = first
    BY <1>2, <1>12, <1>14, <2>2, CheckedSubtract DEF removeIncomingHold
  <2>4. received + v + total <= MAX_UNSIGNED_VALUE
    BY <1>2, <1>3, <1>4, <1>8, <1>9, <1>10, WordAssumption
  <2>5. received + v <= MAX_UNSIGNED_VALUE
    BY <1>2, <1>3, <1>4, <2>4, WordAssumption
  <2>6. _totalReceived' = received + v
    BY <1>2, <1>4, <1>14, <2>5, CheckedAdd, WordAssumption
  <2>7. _totalReceived' \in Long
    BY <1>2, <1>4, <2>5, <2>6, WordAssumption DEF Long
  <2>8. Covered(prepares', _totalReceived', _incomingHold')
    BY <1>3, <1>11, <2>1, <2>3, <2>4, <2>6 DEF Covered
  <2>. QED  BY <1>8, <2>1, <2>3, <2>7, <2>8 DEF HoldInv
<1>. QED  BY <1>6, <1>13, <1>14

\* Every step preserves the invariant: the application's and the streams' own steps
\* touch neither the amounts nor the prepares.
LEMMA NextHoldInv == HoldInv /\ [Next]_vars => HoldInv'
<1>. SUFFICES ASSUME HoldInv, [Next]_vars PROVE HoldInv'
  OBVIOUS
<1>1. ASSUME NEW packet \in Packets, ReceivePrepare(packet) PROVE HoldInv'
  BY <1>1, ReceiveStep
<1>2. ASSUME NEW i \in DOMAIN prepares, RejectPrepare(i) \/ OverflowPrepare(i) PROVE HoldInv'
  BY <1>2, RefuseStep
<1>3. ASSUME NEW i \in DOMAIN prepares, HoldPrepare(i) PROVE HoldInv'
  BY <1>3, HoldStep
<1>4. ASSUME NEW i \in DOMAIN prepares, FulfillPrepare(i) \/ DeclinePrepare(i) PROVE HoldInv'
  BY <1>4, SettleStep
<1>5. ASSUME UNCHANGED <<_totalReceived, _incomingHold, prepares>> PROVE HoldInv'
  BY <1>5, SameHold DEF HoldInv
<1>6. ASSUME NEW id \in StreamIds,
             \/ \E limit \in ReceiveMaxima : setReceiveMax(id, limit)
             \/ createStream(id)
             \/ CloseStream(id)
             \/ removeStreamRecord(id)
      PROVE  HoldInv'
  BY <1>5, <1>6 DEF setReceiveMax, createStream, CloseStream, removeStreamRecord
<1>7. CASE UNCHANGED vars
  BY <1>5, <1>7 DEF vars
<1>. QED  BY <1>1, <1>2, <1>3, <1>4, <1>6, <1>7 DEF Next

\* The invariant holds in every state.
LEMMA HoldInvariance == Spec => []HoldInv
BY InitHoldInv, NextHoldInv, PTL DEF Spec

\* A held prepare's amount is part of the sum of what is held.
LEMMA HeldInSum ==
  ASSUME HoldInv, NEW i \in Held
  PROVE  /\ prepares[i].packet.amount <= _incomingHold
         /\ _totalReceived + prepares[i].packet.amount <= MAX_UNSIGNED_VALUE
<1>. DEFINE v == prepares[i].packet.amount
            new == WithStatus(prepares, i, "rejected")
<1>1. prepares \in Seq(Prepare) /\ i \in 1 .. Len(prepares) /\ prepares[i].status = "held"
  BY DEF HoldInv, Held
<1>2. PICK total \in Nat : /\ HeldSum(prepares, total)
                           /\ total <= _incomingHold
                           /\ _totalReceived + total <= MAX_UNSIGNED_VALUE
  BY DEF HoldInv, Covered
<1>3. "rejected" \in {"received", "held"} \cup Answers
  BY DEF Answers
<1>4. v <= total
  BY <1>1, <1>2, <1>3, HeldChange
<1>5. v \in Nat /\ _incomingHold \in Nat /\ _totalReceived \in Nat
  BY <1>1, PrepareAt, WordAssumption DEF HoldInv, Long
<1>6. total <= _incomingHold /\ _totalReceived + total <= MAX_UNSIGNED_VALUE
  BY <1>2
<1>. HIDE DEF v
<1>7. v <= _incomingHold /\ _totalReceived + v <= MAX_UNSIGNED_VALUE
  BY <1>4, <1>5, <1>6, WordAssumption
<1>. QED  BY <1>7 DEF v

-----------------------------------------------------------------------------
(* Theorems *)

\* removeIncomingHold "should never underflow" (connection.ts:2101-2102): whatever
\* the handlers of other packets did between the awaits, the hold is at least the
\* amount of every packet that waits.
THEOREM HoldSafe == Spec => []HoldNeverUnderflows
<1>1. HoldInv => HoldNeverUnderflows
  BY HeldInSum DEF HoldNeverUnderflows
<1>. QED  BY <1>1, HoldInvariance, PTL

\* addTotalReceived "should never overflow" (connection.ts:2107-2108): the total can
\* take every packet that is held, for every width of a Long.
THEOREM TotalSafe == Spec => []TotalNeverOverflows
<1>1. HoldInv => TotalNeverOverflows
  BY HeldInSum DEF TotalNeverOverflows
<1>. QED  BY <1>1, HoldInvariance, PTL

-----------------------------------------------------------------------------
(* Streams and the credits of a packet *)

\* The packets of the peer have the fields of one.
LEMMA PacketFields ==
  ASSUME NEW packet \in Packets
  PROVE  /\ packet \in Packet
         /\ packet.amount \in Long
         /\ packet.money \in Seq(MoneyFrame) /\ Len(packet.money) \in Nat
         /\ \A i \in 1 .. Len(packet.money) :
               packet.money[i].streamId \in StreamIds /\ packet.money[i].shares \in Long
         /\ packet.closes \subseteq StreamIds
<1>1. packet \in Packet
  BY ReceiveAssumption
<1>2. /\ packet.amount \in Long /\ packet.money \in Seq(MoneyFrame)
      /\ packet.closes \subseteq StreamIds
  BY <1>1 DEF Packet
<1>3. Len(packet.money) \in Nat
  BY <1>2
<1>4. \A i \in 1 .. Len(packet.money) : packet.money[i] \in MoneyFrame
  BY <1>2
<1>5. \A i \in 1 .. Len(packet.money) :
         packet.money[i].streamId \in StreamIds /\ packet.money[i].shares \in Long
  BY <1>4 DEF MoneyFrame
<1>. QED  BY <1>1, <1>2, <1>3, <1>5

\* The share of every frame of a packet with valid shares is a Long.
LEMMA ShareType ==
  ASSUME NEW packet \in Packets, validShares(packet), NEW i \in 1 .. Len(packet.money)
  PROVE  streamAmount(packet, i) \in Long
<1>1. /\ packet.amount \in Long /\ packet.money \in Seq(MoneyFrame)
      /\ packet.money[i].shares \in Long
  BY PacketFields
<1>2. packet.money # <<>>
  BY <1>1
<1>3. shareSum(packet) \in Long \ {0}
  BY <1>2 DEF validShares
<1>. QED  BY <1>1, <1>3, MultiplyDivideType DEF streamAmount

\* A stream is credited with a Long: with the share of its frame if it has just one,
\* and with nothing if the packet has none for it.
LEMMA CreditIsShare ==
  ASSUME NEW packet \in Packets, validShares(packet), NEW id \in StreamIds
  PROVE  /\ credited(packet, id) \in Long
         /\ amountsFor(packet, id) \in [1 .. Len(packet.money) -> Nat]
         /\ credited(packet, id) <= Total(amountsFor(packet, id), Len(packet.money))
         /\ \A i \in 1 .. Len(packet.money) :
               /\ packet.money[i].streamId = id
               /\ \A k \in 1 .. Len(packet.money) : packet.money[k].streamId = id => k = i
               => credited(packet, id) = streamAmount(packet, i)
         /\ (\A i \in 1 .. Len(packet.money) : packet.money[i].streamId # id)
                => credited(packet, id) = 0
<1>. DEFINE n == Len(packet.money)
            v == amountsFor(packet, id)
            t == Total(v, n)
<1>1. n \in Nat /\ 0 \in Long
  BY PacketFields, WordAssumption DEF Long
<1>2. \A i \in 1 .. n : streamAmount(packet, i) \in Long
  BY ShareType
<1>3. v \in [1 .. n -> Long] /\ Long \subseteq Nat
  BY <1>1, <1>2, WordAssumption DEF amountsFor, Long
<1>4. v \in [1 .. n -> Nat]
  BY <1>3
<1>5. t \in Nat
  BY <1>1, <1>4, TotalIsSum
<1>6. credited(packet, id) = IF t < MAX_UNSIGNED_VALUE THEN t ELSE MAX_UNSIGNED_VALUE
  BY DEF credited, minLong
<1>7. /\ credited(packet, id) \in Long /\ credited(packet, id) <= t
      /\ t \in Long => credited(packet, id) = t
  <2>. HIDE DEF t
  <2>. QED  BY <1>5, <1>6, WordAssumption DEF Long
<1>8. ASSUME NEW i \in 1 .. n, packet.money[i].streamId = id,
             \A k \in 1 .. n : packet.money[k].streamId = id => k = i
      PROVE  credited(packet, id) = streamAmount(packet, i)
  <2>1. v[i] = streamAmount(packet, i) /\ \A k \in 1 .. n : k # i => v[k] = 0
    BY <1>8 DEF amountsFor
  <2>2. t = streamAmount(packet, i)
    BY <1>1, <1>4, <2>1, TotalSingle
  <2>. QED  BY <1>2, <1>7, <2>2
<1>9. ASSUME \A i \in 1 .. n : packet.money[i].streamId # id
      PROVE  credited(packet, id) = 0
  <2>1. \A k \in 1 .. n : v[k] = 0
    BY <1>9 DEF amountsFor
  <2>2. t = 0
    BY <1>1, <1>4, <2>1, TotalZeros
  <2>. QED  BY <1>1, <1>7, <2>2
<1>. QED  BY <1>4, <1>7, <1>8, <1>9

\* What the operations on a stream change.
LEMMA StreamUpdates ==
  ASSUME NEW s \in Stream
  PROVE  /\ \A st \in StreamStatus :
               /\ withStatus(s, st) \in Stream /\ withStatus(s, st).status = st
               /\ withStatus(s, st).totalReceived = s.totalReceived
               /\ withStatus(s, st).receiveMax = s.receiveMax
               /\ withStatus(s, st).remoteSentEnd = s.remoteSentEnd
         /\ \A aborts \in BOOLEAN :
               /\ _remoteEnded(s, aborts) \in Stream
               /\ _remoteEnded(s, aborts).status \in {s.status, "closed"}
               /\ _remoteEnded(s, aborts).totalReceived = s.totalReceived
               /\ _remoteEnded(s, aborts).receiveMax = s.receiveMax
               /\ _remoteEnded(s, aborts).remoteSentEnd = TRUE
         /\ \A limit \in Long :
               /\ limitedTo(s, limit) \in Stream /\ limitedTo(s, limit).status = s.status
               /\ limitedTo(s, limit).totalReceived = s.totalReceived
               /\ limitedTo(s, limit).receiveMax = limit
               /\ limitedTo(s, limit).remoteSentEnd = s.remoteSentEnd
<1>1. /\ s = [status |-> s.status, totalReceived |-> s.totalReceived,
              receiveMax |-> s.receiveMax, remoteSentEnd |-> s.remoteSentEnd]
      /\ s.status \in StreamStatus /\ s.totalReceived \in Long /\ s.receiveMax \in Long
      /\ s.remoteSentEnd \in BOOLEAN
  BY DEF Stream
<1>2. ASSUME NEW st \in StreamStatus
      PROVE  /\ withStatus(s, st) \in Stream /\ withStatus(s, st).status = st
             /\ withStatus(s, st).totalReceived = s.totalReceived
             /\ withStatus(s, st).receiveMax = s.receiveMax
             /\ withStatus(s, st).remoteSentEnd = s.remoteSentEnd
  BY DEF withStatus, Stream
<1>3. ASSUME NEW aborts \in BOOLEAN
      PROVE  /\ _remoteEnded(s, aborts) \in Stream
             /\ _remoteEnded(s, aborts).status \in {s.status, "closed"}
             /\ _remoteEnded(s, aborts).totalReceived = s.totalReceived
             /\ _remoteEnded(s, aborts).receiveMax = s.receiveMax
             /\ _remoteEnded(s, aborts).remoteSentEnd = TRUE
  BY DEF _remoteEnded, Stream, StreamStatus
<1>4. ASSUME NEW limit \in Long
      PROVE  /\ limitedTo(s, limit) \in Stream /\ limitedTo(s, limit).status = s.status
             /\ limitedTo(s, limit).totalReceived = s.totalReceived
             /\ limitedTo(s, limit).receiveMax = limit
             /\ limitedTo(s, limit).remoteSentEnd = s.remoteSentEnd
  BY DEF limitedTo, Stream
<1>. QED  BY <1>2, <1>3, <1>4

\* Crediting a stream raises its total, up to the end of the range.
LEMMA CreditUpdate ==
  ASSUME NEW s \in Stream, NEW amount \in Long
  PROVE  /\ _addToIncoming(s, amount) \in Stream
         /\ _addToIncoming(s, amount).status = s.status
         /\ _addToIncoming(s, amount).receiveMax = s.receiveMax
         /\ _addToIncoming(s, amount).remoteSentEnd = s.remoteSentEnd
         /\ _addToIncoming(s, amount).totalReceived >= s.totalReceived
         /\ _addToIncoming(s, amount).totalReceived <= s.totalReceived + amount
         /\ amount = 0 => _addToIncoming(s, amount).totalReceived = s.totalReceived
<1>. DEFINE sum == checkedAdd(s.totalReceived, amount).sum
            t == s.totalReceived
<1>1. t \in Long
  BY DEF Stream
<1>. HIDE DEF t
<1>2. sum = IF t + amount > MAX_UNSIGNED_VALUE THEN MAX_UNSIGNED_VALUE ELSE t + amount
  BY <1>1, CheckedAdd DEF t
<1>. HIDE DEF sum
<1>3. sum \in Long /\ sum >= t /\ sum <= t + amount /\ (amount = 0 => sum = t)
  BY <1>1, <1>2, WordAssumption DEF Long
<1>4. _addToIncoming(s, amount) = [s EXCEPT !.totalReceived = sum]
  BY DEF _addToIncoming, sum
<1>5. /\ _addToIncoming(s, amount) \in Stream
      /\ _addToIncoming(s, amount).status = s.status
      /\ _addToIncoming(s, amount).receiveMax = s.receiveMax
      /\ _addToIncoming(s, amount).remoteSentEnd = s.remoteSentEnd
      /\ _addToIncoming(s, amount).totalReceived = sum
  BY <1>3, <1>4 DEF Stream
<1>. QED  BY <1>3, <1>5 DEF t

-----------------------------------------------------------------------------
(* What a step does to a stream and to a prepare *)

\* A stream s becomes t: its total and its limit never fall, it is not reopened,
\* and without a callback its total is final once it closed.
KeptStream(s, t, callback) ==
    /\ t.receiveMax >= s.receiveMax
    /\ t.receiveMax \in {s.receiveMax} \cup ReceiveMaxima
    /\ t.totalReceived >= s.totalReceived
    /\ s.status \in {"closed", "removed"} =>
           /\ t.status \in {s.status, "removed"}
           /\ ~callback => t.totalReceived = s.totalReceived

\* The stream is neither opened nor ended by the peer.
SameRoom(s, t) ==
    /\ t.remoteSentEnd = s.remoteSentEnd
    /\ (t.status = "unknown") = (s.status = "unknown")

StreamsKept ==
    /\ streams' \in [StreamIds -> Stream]
    /\ \A id \in StreamIds : KeptStream(streams[id], streams'[id], shouldFulfill)

RoomKept ==
    /\ maxStreamId' = maxStreamId
    /\ \A id \in StreamIds : SameRoom(streams[id], streams'[id])

\* A packet is held only for a callback and with shares that can be divided.
PreparesInv ==
    \A i \in DOMAIN prepares :
       /\ prepares[i].packet \in Packets
       /\ prepares[i].status = "held" => validShares(prepares[i].packet) /\ shouldFulfill

StreamInv ==
    /\ HoldInv
    /\ PreparesInv
    /\ streams \in [StreamIds -> Stream]
    /\ shouldFulfill \in BOOLEAN
    /\ destroyed \in BOOLEAN

\* A stream that is left alone is kept.
LEMMA SameStream ==
  ASSUME NEW s \in Stream, NEW callback
  PROVE  KeptStream(s, s, callback) /\ SameRoom(s, s)
<1>1. s.receiveMax \in Nat /\ s.totalReceived \in Nat
  BY WordAssumption DEF Stream, Long
<1>. QED  BY <1>1 DEF KeptStream, SameRoom

\* A step that leaves all of them alone keeps them.
LEMMA SameStreams ==
  ASSUME StreamInv, UNCHANGED <<streams, maxStreamId>>
  PROVE  StreamsKept /\ RoomKept
BY SameStream DEF StreamInv, StreamsKept, RoomKept

\* A change of status is kept unless it reopens the stream.
LEMMA StatusStream ==
  ASSUME NEW s \in Stream, NEW st \in StreamStatus, NEW callback,
         s.status \in {"closed", "removed"} => st = "removed"
  PROVE  /\ withStatus(s, st) \in Stream
         /\ withStatus(s, st).status = st
         /\ withStatus(s, st).totalReceived = s.totalReceived
         /\ withStatus(s, st).receiveMax = s.receiveMax
         /\ withStatus(s, st).remoteSentEnd = s.remoteSentEnd
         /\ KeptStream(s, withStatus(s, st), callback)
         /\ s.status # "unknown" /\ st # "unknown" => SameRoom(s, withStatus(s, st))
<1>. DEFINE t == withStatus(s, st)
<1>1. /\ t \in Stream /\ t.status = st
      /\ t.totalReceived = s.totalReceived /\ t.receiveMax = s.receiveMax
      /\ t.remoteSentEnd = s.remoteSentEnd
  BY StreamUpdates
<1>. HIDE DEF t
<1>2. s.receiveMax \in Nat /\ s.totalReceived \in Nat
  BY WordAssumption DEF Stream, Long
<1>3. KeptStream(s, t, callback)
  BY <1>1, <1>2 DEF KeptStream
<1>4. s.status # "unknown" /\ st # "unknown" => SameRoom(s, t)
  BY <1>1 DEF SameRoom
<1>. QED  BY <1>1, <1>3, <1>4 DEF t

\* Credits: the totals grow, and without a callback only those of open streams.
LEMMA CreditStep ==
  ASSUME StreamInv, NEW packet \in Packets, validShares(packet), Credit(packet),
         UNCHANGED maxStreamId,
         shouldFulfill \/ \A i \in 1 .. Len(packet.money) :
                             streams[packet.money[i].streamId].status = "open"
  PROVE  StreamsKept /\ RoomKept
<1>1. ASSUME NEW id \in StreamIds
      PROVE  /\ streams'[id] \in Stream
             /\ KeptStream(streams[id], streams'[id], shouldFulfill)
             /\ SameRoom(streams[id], streams'[id])
  <2>. DEFINE s == streams[id]
              c == credited(packet, id)
              t == _addToIncoming(s, c)
  <2>1. s \in Stream /\ streams'[id] = t
    BY DEF StreamInv, Credit
  <2>2. c \in Long
    BY CreditIsShare
  <2>3. s.status \in {"closed", "removed"} /\ ~shouldFulfill => c = 0
    <3>. SUFFICES ASSUME s.status \in {"closed", "removed"}, ~shouldFulfill PROVE c = 0
      OBVIOUS
    <3>1. \A i \in 1 .. Len(packet.money) : packet.money[i].streamId # id
      OBVIOUS
    <3>. QED  BY <3>1, CreditIsShare
  <2>. HIDE DEF s, c
  <2>4. /\ t \in Stream /\ t.status = s.status /\ t.receiveMax = s.receiveMax
        /\ t.remoteSentEnd = s.remoteSentEnd
        /\ t.totalReceived >= s.totalReceived
        /\ c = 0 => t.totalReceived = s.totalReceived
    BY <2>1, <2>2, CreditUpdate
  <2>. HIDE DEF t
  <2>5. s.receiveMax \in Nat
    BY <2>1, WordAssumption DEF Stream, Long
  <2>6. KeptStream(s, t, shouldFulfill)
    BY <2>3, <2>4, <2>5 DEF KeptStream
  <2>7. SameRoom(s, t)
    BY <2>4 DEF SameRoom
  <2>. QED  BY <2>1, <2>4, <2>6, <2>7 DEF s, t
<1>2. streams' = [id \in StreamIds |-> streams'[id]]
  BY DEF Credit
<1>3. streams' \in [StreamIds -> Stream]
  BY <1>1, <1>2
<1>. QED  BY <1>1, <1>3 DEF StreamsKept, RoomKept

\* The application's calls and the close events.
LEMMA ApplicationStep ==
  ASSUME StreamInv, NEW id \in StreamIds,
         \/ \E limit \in ReceiveMaxima : setReceiveMax(id, limit)
         \/ CloseStream(id)
         \/ removeStreamRecord(id)
  PROVE  StreamsKept /\ RoomKept
<1>. DEFINE s == streams[id]
<1>1. s \in Stream /\ streams \in [StreamIds -> Stream]
  BY DEF StreamInv
<1>2. ASSUME NEW t \in Stream, streams' = [streams EXCEPT ![id] = t], UNCHANGED maxStreamId,
             KeptStream(s, t, shouldFulfill), SameRoom(s, t)
      PROVE  StreamsKept /\ RoomKept
  <2>1. /\ streams' \in [StreamIds -> Stream] /\ streams'[id] = t
        /\ \A other \in StreamIds : other # id => streams'[other] = streams[other]
    BY <1>1, <1>2
  <2>2. \A other \in StreamIds : /\ KeptStream(streams[other], streams'[other], shouldFulfill)
                                 /\ SameRoom(streams[other], streams'[other])
    BY <1>1, <1>2, <2>1, SameStream
  <2>. QED  BY <1>2, <2>1, <2>2 DEF StreamsKept, RoomKept
<1>3. ASSUME NEW limit \in ReceiveMaxima, setReceiveMax(id, limit)
      PROVE  StreamsKept /\ RoomKept
  <2>. DEFINE t == limitedTo(s, limit)
  <2>1. limit \in Long /\ limit >= s.receiveMax
    BY <1>3, ReceiveAssumption DEF setReceiveMax
  <2>2. /\ t \in Stream /\ t.status = s.status /\ t.receiveMax = limit
        /\ t.totalReceived = s.totalReceived /\ t.remoteSentEnd = s.remoteSentEnd
    BY <1>1, <2>1, StreamUpdates
  <2>3. streams' = [streams EXCEPT ![id] = t] /\ UNCHANGED maxStreamId
    BY <1>3 DEF setReceiveMax
  <2>. HIDE DEF t
  <2>4. s.totalReceived \in Nat
    BY <1>1, WordAssumption DEF Stream, Long
  <2>5. KeptStream(s, t, shouldFulfill) /\ SameRoom(s, t)
    BY <2>1, <2>2, <2>4 DEF KeptStream, SameRoom
  <2>. QED  BY <1>2, <2>2, <2>3, <2>5
<1>4. ASSUME NEW st \in {"closed", "removed"}, s.status \in {"open", "closed"},
             s.status = "closed" => st = "removed",
             streams' = [streams EXCEPT ![id] = withStatus(s, st)], UNCHANGED maxStreamId
      PROVE  StreamsKept /\ RoomKept
  <2>1. st \in StreamStatus /\ st # "unknown"
    BY <1>4 DEF StreamStatus
  <2>2. /\ withStatus(s, st) \in Stream
        /\ KeptStream(s, withStatus(s, st), shouldFulfill)
        /\ SameRoom(s, withStatus(s, st))
    BY <1>1, <1>4, <2>1, StatusStream
  <2>. QED  BY <1>2, <1>4, <2>2
<1>5. CASE CloseStream(id)
  BY <1>4, <1>5 DEF CloseStream
<1>6. CASE removeStreamRecord(id)
  BY <1>4, <1>6 DEF removeStreamRecord
<1>. QED  BY <1>3, <1>5, <1>6

\* destroy() closes the open streams and opens none.
LEMMA DestroyStep ==
  ASSUME StreamInv, Destroy, UNCHANGED maxStreamId
  PROVE  StreamsKept /\ RoomKept
<1>1. ASSUME NEW id \in StreamIds
      PROVE  /\ streams'[id] \in Stream
             /\ KeptStream(streams[id], streams'[id], shouldFulfill)
             /\ SameRoom(streams[id], streams'[id])
  <2>1. streams[id] \in Stream /\ "closed" \in StreamStatus
    BY DEF StreamInv, StreamStatus
  <2>2. streams'[id] = IF streams[id].status = "open"
                       THEN withStatus(streams[id], "closed") ELSE streams[id]
    BY DEF Destroy
  <2>3. CASE streams[id].status = "open"
    BY <2>1, <2>2, <2>3, StatusStream
  <2>4. CASE streams[id].status # "open"
    BY <2>1, <2>2, <2>4, SameStream
  <2>. QED  BY <2>3, <2>4
<1>2. streams' = [id \in StreamIds |-> streams'[id]]
  BY DEF Destroy
<1>3. streams' \in [StreamIds -> Stream]
  BY <1>1, <1>2
<1>. QED  BY <1>1, <1>3 DEF StreamsKept, RoomKept

\* The ids in use are below the limit of the side that opens the stream.
AllowedId(id, limit) ==
    IF id % 2 = 0 THEN id <= RemoteMaxStreamId ELSE ~(id > limit)

\* The streams a step opens were unknown, and their ids are allowed.
Opens(s, t, id) ==
    /\ s.status # "unknown" => t.status # "unknown"
    /\ s.status = "unknown" /\ t.status # "unknown" => AllowedId(id, maxStreamId)

RoomGrows(ended) ==
    /\ ended \subseteq StreamIds
    /\ maxStreamId' = maxStreamId + 2 * Cardinality(ended)
    /\ \A id \in StreamIds :
          /\ Opens(streams[id], streams'[id], id)
          /\ id \in ended => /\ ~streams[id].remoteSentEnd
                             /\ streams'[id].remoteSentEnd
                             /\ streams'[id].status # "unknown"
          /\ id \notin ended => streams'[id].remoteSentEnd = streams[id].remoteSentEnd

\* A stream opened for a frame is kept.
LEMMA OpenedStream ==
  ASSUME StreamInv, NEW packet \in Packets, NEW id \in StreamIds
  PROVE  /\ opened(packet)[id] \in Stream
         /\ KeptStream(streams[id], opened(packet)[id], shouldFulfill)
         /\ opened(packet)[id].remoteSentEnd = streams[id].remoteSentEnd
         /\ Opens(streams[id], opened(packet)[id], id)
         /\ streams[id].status \in {"closed", "removed"} => opened(packet)[id] = streams[id]
         /\ opened(packet)[id].totalReceived = streams[id].totalReceived
         /\ opened(packet)[id].receiveMax = streams[id].receiveMax
<1>. DEFINE s == streams[id]
            t == opened(packet)[id]
<1>1. s \in Stream /\ "open" \in StreamStatus
  BY DEF StreamInv, StreamStatus
<1>2. t = IF id \in openedBy(packet) /\ s.status = "unknown" THEN withStatus(s, "open") ELSE s
  BY DEF opened
<1>3. CASE id \in openedBy(packet) /\ s.status = "unknown"
  <2>1. t = withStatus(s, "open")
    BY <1>2, <1>3
  <2>2. t \in Stream /\ KeptStream(s, t, shouldFulfill)
    BY <1>1, <1>3, <2>1, StatusStream
  <2>3. /\ t.status = "open" /\ t.remoteSentEnd = s.remoteSentEnd
        /\ t.totalReceived = s.totalReceived /\ t.receiveMax = s.receiveMax
    BY <1>1, <1>3, <2>1, StatusStream
  <2>4. PICK i \in handledFrames(packet) : packet.money[i].streamId = id
    BY <1>3 DEF openedBy
  <2>5. i \in DOMAIN packet.money /\ \A j \in 1 .. i : ~refusesFrame(packet.money[j].streamId)
    BY <2>4 DEF handledFrames
  <2>6. i \in 1 .. i
    <3>1. packet.money \in Seq(MoneyFrame)
      BY PacketFields
    <3>2. i \in 1 .. Len(packet.money)
      BY <2>5, <3>1
    <3>. QED  BY <3>2
  <2>7. ~refusesFrame(id)
    BY <2>4, <2>5, <2>6
  <2>8. id % 2 # 0 /\ ~(id > maxStreamId)
    BY <1>3, <2>7 DEF refusesFrame
  <2>9. Opens(s, t, id)
    BY <1>3, <2>3, <2>8 DEF Opens, AllowedId
  <2>. QED  BY <1>3, <2>2, <2>3, <2>9
<1>4. CASE ~(id \in openedBy(packet) /\ s.status = "unknown")
  <2>1. t = s
    BY <1>2, <1>4
  <2>. QED  BY <1>1, <2>1, SameStream DEF Opens
<1>. QED  BY <1>3, <1>4

\* The peer's end of an open stream.
LEMMA EndedStream ==
  ASSUME NEW s \in Stream, NEW t \in Stream, NEW aborts \in BOOLEAN, NEW callback,
         KeptStream(s, t, callback), s.status \notin {"closed", "removed"}
  PROVE  /\ _remoteEnded(t, aborts) \in Stream
         /\ KeptStream(s, _remoteEnded(t, aborts), callback)
         /\ _remoteEnded(t, aborts).remoteSentEnd
         /\ t.status = "open" => _remoteEnded(t, aborts).status # "unknown"
<1>. DEFINE u == _remoteEnded(t, aborts)
<1>1. /\ u \in Stream /\ u.status \in {t.status, "closed"} /\ u.remoteSentEnd
      /\ u.totalReceived = t.totalReceived /\ u.receiveMax = t.receiveMax
  BY StreamUpdates
<1>. HIDE DEF u
<1>2. KeptStream(s, u, callback)
  BY <1>1 DEF KeptStream
<1>. QED  BY <1>1, <1>2 DEF u

\* A prepare that arrives opens and ends streams.
LEMMA ReceiveStreams ==
  ASSUME StreamInv, NEW packet \in Packets, ReceivePrepare(packet)
  PROVE  StreamsKept /\ \E ended \in SUBSET StreamIds : RoomGrows(ended)
<1>. DEFINE refused == handledFrames(packet) # DOMAIN packet.money
            now == opened(packet)
            ended == IF refused THEN {} ELSE endedBy(packet, now)
<1>1. packet.closes \subseteq StreamIds /\ packet.aborts \in BOOLEAN
  BY PacketFields DEF Packet
<1>2. \A id \in ended : id \in StreamIds /\ now[id].status = "open" /\ ~now[id].remoteSentEnd
  BY <1>1 DEF endedBy
<1>3. /\ streams' = [id \in StreamIds |->
                        IF id \in ended THEN _remoteEnded(now[id], packet.aborts) ELSE now[id]]
      /\ maxStreamId' = maxStreamId + 2 * Cardinality(ended)
  BY DEF ReceivePrepare
<1>. HIDE DEF ended, now
<1>4. ASSUME NEW id \in StreamIds
      PROVE  /\ streams'[id] \in Stream
             /\ KeptStream(streams[id], streams'[id], shouldFulfill)
             /\ Opens(streams[id], streams'[id], id)
             /\ id \in ended => /\ ~streams[id].remoteSentEnd
                                /\ streams'[id].remoteSentEnd
                                /\ streams'[id].status # "unknown"
             /\ id \notin ended => streams'[id].remoteSentEnd = streams[id].remoteSentEnd
  <2>1. /\ now[id] \in Stream /\ KeptStream(streams[id], now[id], shouldFulfill)
        /\ now[id].remoteSentEnd = streams[id].remoteSentEnd
        /\ Opens(streams[id], now[id], id)
        /\ streams[id].status \in {"closed", "removed"} => now[id] = streams[id]
    BY OpenedStream DEF now
  <2>2. CASE id \in ended
    <3>1. streams'[id] = _remoteEnded(now[id], packet.aborts)
      BY <1>3, <2>2
    <3>2. now[id].status = "open" /\ ~now[id].remoteSentEnd
      BY <1>2, <2>2
    <3>3. streams[id].status \notin {"closed", "removed"} /\ streams[id] \in Stream
      BY <2>1, <3>2 DEF StreamInv
    <3>4. /\ streams'[id] \in Stream /\ KeptStream(streams[id], streams'[id], shouldFulfill)
          /\ streams'[id].remoteSentEnd /\ streams'[id].status # "unknown"
      BY <1>1, <2>1, <3>1, <3>2, <3>3, EndedStream
    <3>5. Opens(streams[id], streams'[id], id)
      BY <2>1, <3>2, <3>4 DEF Opens
    <3>. QED  BY <2>1, <2>2, <3>2, <3>4, <3>5
  <2>3. CASE id \notin ended
    <3>1. streams'[id] = now[id]
      BY <1>3, <2>3
    <3>. QED  BY <2>1, <2>3, <3>1
  <2>. QED  BY <2>2, <2>3
<1>5. streams' \in [StreamIds -> Stream]
  <2>1. streams' = [id \in StreamIds |-> streams'[id]]
    BY <1>3
  <2>. QED  BY <1>4, <2>1
<1>6. ended \in SUBSET StreamIds
  BY <1>2
<1>7. RoomGrows(ended)
  BY <1>3, <1>4, <1>6 DEF RoomGrows
<1>. QED  BY <1>4, <1>5, <1>6, <1>7 DEF StreamsKept

\* Streams are opened and none is ended.
RoomUsed ==
    /\ maxStreamId' = maxStreamId
    /\ \A id \in StreamIds :
          /\ Opens(streams[id], streams'[id], id)
          /\ streams'[id].remoteSentEnd = streams[id].remoteSentEnd

\* createStream opens one stream.
LEMMA CreateStep ==
  ASSUME StreamInv, NEW id \in StreamIds, createStream(id)
  PROVE  StreamsKept /\ RoomUsed
<1>. DEFINE s == streams[id]
            t == withStatus(s, "open")
<1>1. s \in Stream /\ streams \in [StreamIds -> Stream] /\ "open" \in StreamStatus
  BY DEF StreamInv, StreamStatus
<1>2. /\ s.status = "unknown" /\ AllowedId(id, maxStreamId)
      /\ streams' = [streams EXCEPT ![id] = t] /\ maxStreamId' = maxStreamId
  BY DEF createStream, isNextStreamId, AllowedId
<1>3. /\ t \in Stream /\ KeptStream(s, t, shouldFulfill)
      /\ t.status = "open" /\ t.remoteSentEnd = s.remoteSentEnd
  BY <1>1, <1>2, StatusStream
<1>4. Opens(s, t, id)
  BY <1>2, <1>3 DEF Opens
<1>. HIDE DEF t
<1>5. /\ streams' \in [StreamIds -> Stream] /\ streams'[id] = t
      /\ \A other \in StreamIds : other # id => streams'[other] = streams[other]
  BY <1>1, <1>2, <1>3
<1>6. ASSUME NEW other \in StreamIds
      PROVE  /\ KeptStream(streams[other], streams'[other], shouldFulfill)
             /\ Opens(streams[other], streams'[other], other)
             /\ streams'[other].remoteSentEnd = streams[other].remoteSentEnd
  <2>1. CASE other = id
    BY <1>3, <1>4, <1>5, <2>1
  <2>2. CASE other # id
    <3>1. streams'[other] = streams[other] /\ streams[other] \in Stream
      BY <1>1, <1>5, <2>2
    <3>. QED  BY <3>1, SameStream DEF Opens
  <2>. QED  BY <2>1, <2>2
<1>. QED  BY <1>2, <1>5, <1>6 DEF StreamsKept, RoomUsed

AnswersKept ==
    /\ DOMAIN prepares \subseteq DOMAIN prepares'
    /\ \A i \in DOMAIN prepares :
          prepares[i].status \in Answers => prepares'[i] = prepares[i]

\* What every step keeps.
StepKeeps ==
    /\ StreamsKept
    /\ RoomKept \/ RoomUsed \/ \E ended \in SUBSET StreamIds : RoomGrows(ended)
    /\ PreparesInv'
    /\ AnswersKept
    /\ shouldFulfill' = shouldFulfill
    /\ destroyed' \in BOOLEAN

\* A prepare that moves on was not answered yet, and only its status changes.
LEMMA PrepareMoves ==
  ASSUME StreamInv, NEW i \in DOMAIN prepares, NEW st \in {"held"} \cup Answers,
         prepares' = WithStatus(prepares, i, st), prepares[i].status \notin Answers,
         st = "held" => validShares(prepares[i].packet) /\ shouldFulfill,
         UNCHANGED shouldFulfill
  PROVE  PreparesInv' /\ AnswersKept
<1>1. prepares \in Seq(Prepare) /\ i \in 1 .. Len(prepares)
  BY DEF StreamInv, HoldInv
<1>2. st \in {"received", "held"} \cup Answers
  OBVIOUS
<1>3. /\ prepares' \in Seq(Prepare) /\ Len(prepares') = Len(prepares)
      /\ \A k \in 1 .. Len(prepares) : k # i => prepares'[k] = prepares[k]
      /\ prepares'[i].status = st /\ prepares'[i].packet = prepares[i].packet
  <2>1. prepares' \in Seq(Prepare) /\ Len(prepares') = Len(prepares)
    BY <1>1, <1>2, StatusChange
  <2>2. \A k \in 1 .. Len(prepares) : k # i => prepares'[k] = prepares[k]
    BY <1>1, <1>2, StatusChange
  <2>3. prepares'[i].status = st /\ prepares'[i].packet = prepares[i].packet
    BY <1>1, <1>2, StatusChange
  <2>. QED  BY <2>1, <2>2, <2>3
<1>4. DOMAIN prepares = 1 .. Len(prepares) /\ DOMAIN prepares' = 1 .. Len(prepares)
  BY <1>1, <1>3
<1>5. \A k \in 1 .. Len(prepares) :
         /\ prepares[k].packet \in Packets
         /\ prepares[k].status = "held" => validShares(prepares[k].packet) /\ shouldFulfill
  BY <1>4 DEF StreamInv, PreparesInv
<1>6. ASSUME NEW k \in 1 .. Len(prepares)
      PROVE  /\ prepares'[k].packet \in Packets
             /\ prepares'[k].status = "held" =>
                    validShares(prepares'[k].packet) /\ shouldFulfill'
  BY <1>3, <1>5
<1>7. PreparesInv'
  BY <1>4, <1>6 DEF PreparesInv
<1>8. AnswersKept
  BY <1>3, <1>4 DEF AnswersKept
<1>. QED  BY <1>7, <1>8

\* A packet that is accepted has valid shares, and all its streams are open.
LEMMA AcceptedPacket ==
  ASSUME StreamInv, NEW packet \in Packets, acceptsPacket(packet)
  PROVE  /\ validShares(packet)
         /\ \A i \in 1 .. Len(packet.money) : streams[packet.money[i].streamId].status = "open"
<1>1. DOMAIN packet.money = 1 .. Len(packet.money)
  BY PacketFields
<1>. QED  BY <1>1 DEF acceptsPacket

\* Every step keeps what was decided.
LEMMA StepKept ==
  ASSUME StreamInv, [Next]_vars
  PROVE  StepKeeps
<1>0. prepares \in Seq(Prepare) /\ shouldFulfill \in BOOLEAN /\ destroyed \in BOOLEAN
  BY DEF StreamInv, HoldInv
<1>1. ASSUME NEW packet \in Packets, ReceivePrepare(packet)
      PROVE  StepKeeps
  <2>1. PICK st \in {"received", "rejected"} :
           prepares' = Append(prepares, [packet |-> packet, status |-> st])
    BY <1>1 DEF ReceivePrepare
  <2>. DEFINE p == [packet |-> packet, status |-> st]
              n == Len(prepares)
  <2>2. p \in Prepare /\ p.packet = packet /\ p.status # "held"
    BY <2>1, PacketFields DEF Prepare, Answers
  <2>. HIDE DEF p
  <2>3. prepares' = Append(prepares, p) /\ UNCHANGED <<shouldFulfill, destroyed>>
    BY <1>1, <2>1 DEF p, ReceivePrepare
  <2>4. /\ n \in Nat /\ DOMAIN prepares = 1 .. n /\ DOMAIN prepares' = 1 .. n + 1
        /\ prepares'[n + 1] = p /\ \A k \in 1 .. n : prepares'[k] = prepares[k]
    BY <1>0, <2>2, <2>3
  <2>. HIDE DEF n
  <2>5. ASSUME NEW k \in 1 .. n + 1
        PROVE  /\ prepares'[k].packet \in Packets
               /\ prepares'[k].status = "held" =>
                      validShares(prepares'[k].packet) /\ shouldFulfill'
    <3>1. CASE k \in 1 .. n
      BY <2>3, <2>4, <3>1 DEF StreamInv, PreparesInv
    <3>2. CASE k = n + 1
      BY <2>2, <2>4, <3>2
    <3>. QED  BY <2>4, <3>1, <3>2
  <2>6. PreparesInv'
    BY <2>4, <2>5 DEF PreparesInv
  <2>7. AnswersKept
    BY <2>4 DEF AnswersKept
  <2>. QED  BY <1>0, <1>1, <2>3, <2>6, <2>7, ReceiveStreams DEF StepKeeps
<1>2. ASSUME NEW i \in DOMAIN prepares,
             \/ RejectPrepare(i) \/ OverflowPrepare(i) \/ HoldPrepare(i)
             \/ FulfillPrepare(i) \/ DeclinePrepare(i)
      PROVE  StepKeeps
  <2>. DEFINE packet == prepares[i].packet
  <2>1. /\ packet \in Packets
        /\ prepares[i].status = "held" => validShares(packet) /\ shouldFulfill
    BY <1>2 DEF StreamInv, PreparesInv
  <2>2. UNCHANGED <<shouldFulfill, maxStreamId>> /\ destroyed' \in BOOLEAN
    BY <1>0, <1>2 DEF RejectPrepare, OverflowPrepare, HoldPrepare, FulfillPrepare,
                      DeclinePrepare, Fulfill, Destroy
  <2>3. prepares[i].status \notin Answers
    BY <1>2 DEF RejectPrepare, OverflowPrepare, HoldPrepare, FulfillPrepare,
                DeclinePrepare, Answers
  <2>4. ASSUME NEW st \in {"held"} \cup Answers, prepares' = WithStatus(prepares, i, st),
               st = "held" => validShares(packet) /\ shouldFulfill,
               StreamsKept, RoomKept
        PROVE  StepKeeps
    <3>1. PreparesInv' /\ AnswersKept
      BY <1>2, <2>2, <2>3, <2>4, PrepareMoves
    <3>. QED  BY <2>2, <2>4, <3>1 DEF StepKeeps
  <2>5. CASE RejectPrepare(i) \/ DeclinePrepare(i)
    <3>1. prepares' = WithStatus(prepares, i, "rejected") /\ "rejected" \in Answers
      BY <2>5 DEF RejectPrepare, DeclinePrepare, Answer, WithStatus, Answers
    <3>2. StreamsKept /\ RoomKept
      BY <2>2, <2>5, SameStreams DEF RejectPrepare, DeclinePrepare
    <3>. QED  BY <2>4, <3>1, <3>2
  <2>6. CASE OverflowPrepare(i)
    <3>1. prepares' = WithStatus(prepares, i, "overflowed") /\ "overflowed" \in Answers
      BY <2>6 DEF OverflowPrepare, Answer, WithStatus, Answers
    <3>2. StreamsKept /\ RoomKept
      BY <2>2, <2>6, DestroyStep DEF OverflowPrepare
    <3>. QED  BY <2>4, <3>1, <3>2
  <2>7. ASSUME NEW hold, Fulfill(i, hold), validShares(packet),
               shouldFulfill \/ \A k \in 1 .. Len(packet.money) :
                                   streams[packet.money[k].streamId].status = "open"
        PROVE  StepKeeps
    <3>1. prepares' = WithStatus(prepares, i, "fulfilled") /\ "fulfilled" \in Answers
      BY <2>7 DEF Fulfill, Answer, WithStatus, Answers
    <3>2. Credit(packet) /\ UNCHANGED maxStreamId
      BY <2>2, <2>7 DEF Fulfill
    <3>. HIDE DEF packet
    <3>3. StreamsKept /\ RoomKept
      BY <2>1, <2>7, <3>2, CreditStep
    <3>. QED  BY <2>4, <3>1, <3>3
  <2>8. CASE HoldPrepare(i)
    <3>1. acceptsPacket(packet)
      BY <2>8 DEF HoldPrepare
    <3>2. /\ validShares(packet)
          /\ \A k \in 1 .. Len(packet.money) : streams[packet.money[k].streamId].status = "open"
      BY <2>1, <3>1, AcceptedPacket
    <3>3. CASE shouldFulfill /\ packet.amount > 0
      <4>1. prepares' = WithStatus(prepares, i, "held") /\ UNCHANGED <<streams, maxStreamId>>
        BY <2>8, <3>3 DEF HoldPrepare, Answer, WithStatus
      <4>2. StreamsKept /\ RoomKept
        BY <4>1, SameStreams
      <4>. QED  BY <2>4, <3>2, <3>3, <4>1, <4>2
    <3>4. CASE ~(shouldFulfill /\ packet.amount > 0)
      <4>1. \E hold : Fulfill(i, hold)
        BY <2>8, <3>4 DEF HoldPrepare
      <4>. QED  BY <2>7, <3>2, <4>1
    <3>. QED  BY <3>3, <3>4
  <2>9. CASE FulfillPrepare(i)
    <3>1. Fulfill(i, _incomingHold) /\ prepares[i].status = "held"
      BY <2>9 DEF FulfillPrepare
    <3>. QED  BY <2>1, <2>7, <3>1
  <2>. QED  BY <1>2, <2>5, <2>6, <2>8, <2>9
<1>3. ASSUME UNCHANGED <<prepares, shouldFulfill, destroyed>>, StreamsKept,
             RoomKept \/ RoomUsed
      PROVE  StepKeeps
  <2>1. PreparesInv'
    BY <1>3 DEF StreamInv, PreparesInv
  <2>2. AnswersKept
    BY <1>3 DEF AnswersKept
  <2>. QED  BY <1>0, <1>3, <2>1, <2>2 DEF StepKeeps
<1>4. ASSUME NEW id \in StreamIds,
             \/ \E limit \in ReceiveMaxima : setReceiveMax(id, limit)
             \/ CloseStream(id)
             \/ removeStreamRecord(id)
      PROVE  StepKeeps
  <2>1. UNCHANGED <<prepares, shouldFulfill, destroyed>>
    BY <1>4 DEF setReceiveMax, CloseStream, removeStreamRecord
  <2>2. StreamsKept /\ RoomKept
    BY <1>4, ApplicationStep
  <2>. QED  BY <1>3, <2>1, <2>2
<1>5. ASSUME NEW id \in StreamIds, createStream(id) PROVE StepKeeps
  <2>1. UNCHANGED <<prepares, shouldFulfill, destroyed>>
    BY <1>5 DEF createStream
  <2>2. StreamsKept /\ RoomUsed
    BY <1>5, CreateStep
  <2>. QED  BY <1>3, <2>1, <2>2
<1>6. CASE UNCHANGED vars
  <2>1. UNCHANGED <<prepares, shouldFulfill, destroyed>> /\ UNCHANGED <<streams, maxStreamId>>
    BY <1>6 DEF vars
  <2>2. StreamsKept /\ RoomKept
    BY <2>1, SameStreams
  <2>. QED  BY <1>3, <2>1, <2>2
<1>. QED  BY <1>1, <1>2, <1>4, <1>5, <1>6 DEF Next

\* A new connection knows no stream.
LEMMA InitStreamInv == Init => StreamInv
<1>. SUFFICES ASSUME Init PROVE StreamInv
  OBVIOUS
<1>1. [status |-> "unknown", totalReceived |-> 0, receiveMax |-> 0,
       remoteSentEnd |-> FALSE] \in Stream
  BY WordAssumption DEF Stream, StreamStatus, Long
<1>2. streams \in [StreamIds -> Stream]
  BY <1>1 DEF Init
<1>3. PreparesInv
  BY DEF Init, PreparesInv
<1>4. shouldFulfill \in BOOLEAN /\ destroyed \in BOOLEAN
  BY DEF Init
<1>. QED  BY <1>2, <1>3, <1>4, InitHoldInv DEF StreamInv

\* StreamInv is inductive.
LEMMA NextStreamInv == StreamInv /\ [Next]_vars => StreamInv'
<1>. SUFFICES ASSUME StreamInv, [Next]_vars PROVE StreamInv'
  OBVIOUS
<1>1. HoldInv'
  BY NextHoldInv DEF StreamInv
<1>2. StepKeeps
  BY StepKept
<1>. QED  BY <1>1, <1>2 DEF StreamInv, StepKeeps, StreamsKept

\* Every reachable state satisfies StreamInv.
LEMMA StreamInvariance == Spec => []StreamInv
BY InitStreamInv, NextStreamInv, PTL DEF Spec

\* What is decided stays decided: an answer, a closed stream and its limit, and
\* without a callback the total of a closed stream (connection.ts:748), for every
\* sequence of packets, callbacks, limits and close events.
THEOREM NothingReopens == Spec => NothingReopened
<1>1. StreamInv /\ [Next]_vars => [Settled]_vars
  <2>. SUFFICES ASSUME StreamInv, [Next]_vars PROVE Settled
    OBVIOUS
  <2>1. StepKeeps
    BY StepKept
  <2>. QED  BY <2>1 DEF StepKeeps, AnswersKept, StreamsKept, KeptStream, Settled
<1>. QED  BY <1>1, StreamInvariance, PTL DEF Spec, NothingReopened

-----------------------------------------------------------------------------
(* The room for the peer's streams *)

Known == {id \in StreamIds : streams[id].status # "unknown"}

Ended == {id \in StreamIds : streams[id].remoteSentEnd}

\* The limit on ids grows by one stream for each one the peer ended, once, whichever
\* side created it.
RoomInv ==
    /\ IsFiniteSet(Ended)
    /\ maxStreamId = 2 * (MaxRemoteStreams + Cardinality(Ended))
    /\ Ended \subseteq Known
    /\ \A id \in Known : AllowedId(id, maxStreamId)

\* At most half of the ids up to 2 * half are odd.
LEMMA OddIds ==
  ASSUME NEW S \in SUBSET (Nat \ {0}), NEW half \in Nat,
         \A id \in S : id % 2 # 0 /\ ~(id > 2 * half)
  PROVE  IsFiniteSet(S) /\ Cardinality(S) \in Nat /\ Cardinality(S) <= half
<1>1. S \in SUBSET Nat /\ 2 * half \in Nat /\ \A id \in S : id <= 2 * half
  OBVIOUS
<1>2. IsFiniteSet(S)
  BY <1>1, FS_BoundedSetOfNaturals
<1>3. Cardinality(S) \in Nat
  BY <1>2, FS_CardinalityType
<1>4. IsFiniteSet(1 .. half) /\ Cardinality(1 .. half) = half
  <2>1. 1 \in Int /\ half \in Int
    OBVIOUS
  <2>2. IsFiniteSet(1 .. half) /\ Cardinality(1 .. half) = IF 1 > half THEN 0 ELSE half - 1 + 1
    BY <2>1, FS_Interval
  <2>. QED  BY <2>2
<1>. DEFINE T == 1 .. half
            f == [id \in S |-> (id + 1) \div 2]
<1>5. f \in Injection(S, T)
  <2>1. \A id \in S : (id + 1) \div 2 \in 1 .. half
    OBVIOUS
  <2>2. f \in [S -> T]
    BY <2>1
  <2>3. ASSUME NEW x \in S, NEW y \in S, f[x] = f[y] PROVE x = y
    <3>1. (x + 1) \div 2 = (y + 1) \div 2
      BY <2>3
    <3>2. x \in Nat /\ y \in Nat /\ x % 2 = 1 /\ y % 2 = 1
      OBVIOUS
    <3>. QED  BY <3>1, <3>2
  <2>. HIDE DEF f, T
  <2>. QED  BY <2>2, <2>3 DEF Injection, IsInjective
<1>. HIDE DEF f, T
<1>6. Cardinality(S) <= Cardinality(T)
  <2>1. IsFiniteSet(T)
    BY <1>4 DEF T
  <2>. QED  BY <1>5, <2>1, FS_Injection, Zenon
<1>. QED  BY <1>2, <1>3, <1>4, <1>6 DEF T

\* A new connection has room for MaxRemoteStreams streams.
LEMMA InitRoomInv == Init => RoomInv
<1>. SUFFICES ASSUME Init PROVE RoomInv
  OBVIOUS
<1>1. Ended = {} /\ Known = {}
  BY DEF Init, Ended, Known
<1>. QED  BY <1>1, FS_EmptySet, ReceiveAssumption DEF Init, RoomInv

\* A packet that ends streams makes room for as many.
LEMMA GrowRoomInv ==
  ASSUME StreamInv, RoomInv, NEW ended \in SUBSET StreamIds, RoomGrows(ended),
         streams' \in [StreamIds -> Stream]
  PROVE  RoomInv'
<1>1. /\ Known \subseteq Known'
      /\ \A id \in Known' : id \in StreamIds /\ AllowedId(id, maxStreamId)
  BY DEF RoomGrows, RoomInv, Known, Opens
<1>2. /\ StreamIds \subseteq Nat \ {0} /\ MaxRemoteStreams \in Nat
      /\ RemoteMaxStreamId \in Nat
  BY ReceiveAssumption
<1>3. IsFiniteSet(Ended) /\ Cardinality(Ended) \in Nat
  BY FS_CardinalityType DEF RoomInv
<1>. DEFINE half == MaxRemoteStreams + Cardinality(Ended)
<1>4. half \in Nat /\ maxStreamId = 2 * half
  BY <1>2, <1>3 DEF RoomInv
<1>. HIDE DEF half
<1>5. IsFiniteSet(Known')
  <2>. DEFINE bound == 2 * half + RemoteMaxStreamId
              S == Known'
  <2>1. bound \in Nat
    BY <1>2, <1>4
  <2>2. ASSUME NEW id \in S PROVE id \in Nat /\ id <= bound
    <3>1. id \in StreamIds /\ AllowedId(id, maxStreamId)
      BY <1>1, <2>2
    <3>2. id <= RemoteMaxStreamId \/ ~(id > 2 * half)
      BY <1>4, <3>1 DEF AllowedId
    <3>. QED  BY <1>2, <1>4, <3>1, <3>2
  <2>. HIDE DEF bound, S
  <2>3. IsFiniteSet(S)
    BY <2>1, <2>2, FS_BoundedSetOfNaturals
  <2>. QED  BY <2>3 DEF S
<1>6. ended \in SUBSET Known'
  BY DEF RoomGrows, Known
<1>7. IsFiniteSet(ended) /\ Cardinality(ended) \in Nat
  BY <1>5, <1>6, FS_Subset, FS_CardinalityType
<1>8. Ended' = Ended \cup ended /\ Ended \cap ended = {}
  <2>1. \A id \in StreamIds : streams[id].remoteSentEnd \in BOOLEAN
                              /\ streams'[id].remoteSentEnd \in BOOLEAN
    BY DEF StreamInv, Stream
  <2>. QED  BY <2>1 DEF Ended, RoomGrows
<1>9. /\ IsFiniteSet(Ended')
      /\ Cardinality(Ended') = Cardinality(Ended) + Cardinality(ended)
  <2>1. /\ IsFiniteSet(Ended \cup ended)
        /\ Cardinality(Ended \cup ended)
               = Cardinality(Ended) + Cardinality(ended) - Cardinality(Ended \cap ended)
    BY <1>3, <1>7, FS_Union
  <2>2. Cardinality(Ended \cap ended) = 0
    BY <1>8, FS_EmptySet
  <2>. QED  BY <1>3, <1>7, <1>8, <2>1, <2>2
<1>10. maxStreamId' = maxStreamId + 2 * Cardinality(ended)
  BY DEF RoomGrows
<1>11. maxStreamId' = 2 * (MaxRemoteStreams + Cardinality(Ended'))
  BY <1>2, <1>3, <1>4, <1>7, <1>9, <1>10 DEF half
<1>12. \A id \in Known' : AllowedId(id, maxStreamId')
  <2>1. maxStreamId \in Nat /\ maxStreamId' \in Nat /\ maxStreamId <= maxStreamId'
    BY <1>4, <1>7, <1>10
  <2>2. \A id \in Known' : id \in Nat /\ AllowedId(id, maxStreamId)
    BY <1>1, <1>2
  <2>3. ASSUME NEW id \in Known' PROVE AllowedId(id, maxStreamId')
    BY <2>1, <2>2 DEF AllowedId
  <2>. QED  BY <2>3
<1>13. Ended' \subseteq Known'
  BY <1>1, <1>6, <1>8 DEF RoomInv
<1>. QED  BY <1>9, <1>11, <1>12, <1>13 DEF RoomInv

\* RoomInv is inductive relative to StreamInv.
LEMMA NextRoomInv == StreamInv /\ RoomInv /\ [Next]_vars => RoomInv'
<1>. SUFFICES ASSUME StreamInv, RoomInv, [Next]_vars PROVE RoomInv'
  OBVIOUS
<1>1. StepKeeps
  BY StepKept
<1>2. CASE RoomKept
  <2>1. Known' = Known /\ Ended' = Ended /\ maxStreamId' = maxStreamId
    BY <1>2 DEF RoomKept, SameRoom, Known, Ended
  <2>. QED  BY <2>1 DEF RoomInv
<1>3. CASE \E ended \in SUBSET StreamIds : RoomGrows(ended)
  BY <1>1, <1>3, GrowRoomInv DEF StepKeeps, StreamsKept
<1>4. CASE RoomUsed
  <2>1. maxStreamId \in Nat
    BY FS_CardinalityType, ReceiveAssumption DEF RoomInv
  <2>2. maxStreamId' = maxStreamId + 2 * Cardinality({})
    BY <1>4, <2>1, FS_EmptySet DEF RoomUsed
  <2>3. {} \in SUBSET StreamIds /\ RoomGrows({})
    BY <1>4, <2>2 DEF RoomUsed, RoomGrows
  <2>. QED  BY <1>1, <2>3, GrowRoomInv DEF StepKeeps, StreamsKept
<1>. QED  BY <1>1, <1>2, <1>3, <1>4 DEF StepKeeps

\* The invariant holds in every state.
LEMMA RoomInvariance == Spec => []RoomInv
BY StreamInvariance, InitRoomInv, NextRoomInv, PTL DEF Spec

\* The receiving side's type invariant, for every word width, set of packets and
\* interleaving of their handlers.
THEOREM ReceiveTypes == Spec => []TypeOK
<1>1. StreamInv /\ RoomInv => TypeOK
  <2>. SUFFICES ASSUME StreamInv, RoomInv PROVE TypeOK
    OBVIOUS
  <2>1. Cardinality(Ended) \in Nat /\ MaxRemoteStreams \in Nat
    BY FS_CardinalityType, ReceiveAssumption DEF RoomInv
  <2>2. maxStreamId \in Nat
    BY <2>1 DEF RoomInv
  <2>. QED  BY <2>2 DEF TypeOK, StreamInv, HoldInv
<1>. QED  BY <1>1, StreamInvariance, RoomInvariance, PTL

\* "Maximum number of streams the other entity can have open at once"
\* (connection.ts:75): never more than maxRemoteStreams streams of the peer are open
\* that it has not ended, and one more for each stream of this side that it ended,
\* whichever frames it repeats and whenever the streams close.
THEOREM StreamsBounded == Spec => []OpenStreamsBounded
<1>1. StreamInv /\ RoomInv => OpenStreamsBounded
  <2>. SUFFICES ASSUME StreamInv, RoomInv PROVE OpenStreamsBounded
    OBVIOUS
  <2>. DEFINE open == openRemoteStreams
              own == ownStreamsEnded
              theirs == {id \in Known : id % 2 # 0}
              ended == {id \in Ended : id % 2 # 0}
              half == MaxRemoteStreams + Cardinality(Ended)
  <2>1. /\ IsFiniteSet(Ended) /\ Cardinality(Ended) \in Nat
        /\ MaxRemoteStreams \in Nat /\ StreamIds \subseteq Nat \ {0}
    BY FS_CardinalityType, ReceiveAssumption DEF RoomInv
  <2>2. half \in Nat /\ maxStreamId = 2 * half
    BY <2>1 DEF RoomInv
  <2>. HIDE DEF half
  <2>3. theirs \in SUBSET (Nat \ {0}) /\ \A id \in theirs : id % 2 # 0 /\ ~(id > 2 * half)
    BY <2>1, <2>2 DEF RoomInv, Known, AllowedId
  <2>4. open \in SUBSET (theirs \ ended) /\ theirs \cap ended = ended
    BY DEF openRemoteStreams, Known, Ended, RoomInv
  <2>5. Ended = ended \cup own /\ ended \cap own = {} /\ own = Ended \ ended
    BY DEF ownStreamsEnded, Ended
  <2>. HIDE DEF open, own, theirs, ended
  <2>6. IsFiniteSet(theirs) /\ Cardinality(theirs) \in Nat /\ Cardinality(theirs) <= half
    BY <2>2, <2>3, OddIds
  <2>7. /\ IsFiniteSet(ended) /\ IsFiniteSet(own)
        /\ Cardinality(ended) \in Nat /\ Cardinality(own) \in Nat
    BY <2>1, <2>5, FS_Subset, FS_CardinalityType
  <2>8. Cardinality(Ended) = Cardinality(ended) + Cardinality(own)
    <3>1. Cardinality(ended \cup own)
              = Cardinality(ended) + Cardinality(own) - Cardinality(ended \cap own)
      BY <2>7, FS_Union
    <3>2. Cardinality(ended \cap own) = 0
      BY <2>5, FS_EmptySet
    <3>. QED  BY <2>5, <2>7, <3>1, <3>2
  <2>9. /\ IsFiniteSet(theirs \ ended)
        /\ Cardinality(theirs \ ended) = Cardinality(theirs) - Cardinality(ended)
    BY <2>4, <2>6, FS_Difference
  <2>10. IsFiniteSet(open) /\ Cardinality(open) <= Cardinality(theirs \ ended)
    BY <2>4, <2>9, FS_Subset
  <2>11. Cardinality(open) \in Nat
    BY <2>10, FS_CardinalityType
  <2>12. Cardinality(open) <= MaxRemoteStreams + Cardinality(own)
    BY <2>1, <2>6, <2>7, <2>8, <2>9, <2>10, <2>11 DEF half
  <2>. QED  BY <2>12 DEF OpenStreamsBounded, open, own
<1>. QED  BY <1>1, StreamInvariance, RoomInvariance, PTL

-----------------------------------------------------------------------------
(* The shares of a packet *)

\* The shares of every packet add up to the lower half of the range, where
\* multiplyDivide is exact.  The sender's shares are amounts of money.
LowShares == \A packet \in Packets : 2 * shareSum(packet) <= MAX_UNSIGNED_VALUE + 1

\* The quotient of a product by a divisor that is at least one of its factors.
LEMMA QuotientBound ==
  ASSUME NEW a \in Nat, NEW s \in Nat, NEW d \in Nat \ {0}, s <= d
  PROVE  (a * s) \div d \in Nat /\ (a * s) \div d <= a
<1>. DEFINE n == a * s
            q == n \div d
            r == n % d
<1>1. n \in Nat /\ n <= a * d /\ a * d \in Nat
  OBVIOUS
<1>2. q \in Nat /\ r \in Nat /\ r < d /\ n = q * d + r
  BY <1>1, Division
<1>. HIDE DEF n, q, r
<1>3. ASSUME q > a PROVE FALSE
  <2>1. q >= a + 1
    BY <1>2, <1>3
  <2>2. q * d >= (a + 1) * d
    BY <1>2, <2>1
  <2>3. (a + 1) * d = a * d + d
    OBVIOUS
  <2>4. q * d \in Nat
    BY <1>2
  <2>. QED  BY <1>1, <1>2, <2>2, <2>3, <2>4
<1>. QED  BY <1>2, <1>3 DEF n, q

\* A frame's share is its part of the amount, rounded down.
LEMMA ShareRounded ==
  ASSUME LowShares, NEW packet \in Packets, validShares(packet),
         NEW i \in 1 .. Len(packet.money)
  PROVE  /\ streamAmount(packet, i) \in Nat
         /\ streamAmount(packet, i) <= packet.amount
         /\ shareSum(packet) \in Nat \ {0}
         /\ packet.money[i].shares <= shareSum(packet)
         /\ Rounded(streamAmount(packet, i), packet.money[i].shares, shareSum(packet),
                    packet.amount, shareSum(packet) - 1)
<1>. DEFINE a == packet.amount
            s == packet.money[i].shares
            d == shareSum(packet)
            n == Len(packet.money)
            q == (a * s) \div d
<1>1. /\ a \in Long /\ s \in Long /\ n \in Nat /\ packet.money \in Seq(MoneyFrame)
      /\ \A k \in 1 .. n : packet.money[k].shares \in Long
  BY PacketFields
<1>2. packet.money # <<>>
  BY <1>1
<1>3. d \in Long \ {0}
  BY <1>2 DEF validShares
<1>4. sharesOf(packet) \in [1 .. n -> Nat] /\ sharesOf(packet)[i] = s
  <2>1. Long \subseteq Nat
    BY WordAssumption DEF Long
  <2>. QED  BY <1>1, <2>1 DEF sharesOf
<1>5. s <= d
  <2>1. sharesOf(packet)[i] <= Total(sharesOf(packet), n)
    BY <1>1, <1>4, TotalChange
  <2>. QED  BY <1>4, <2>1 DEF shareSum
<1>6. a \in Nat /\ s \in Nat /\ d \in Nat \ {0} /\ a <= MAX_UNSIGNED_VALUE
  BY <1>1, <1>3, WordAssumption DEF Long
<1>7. 2 * d <= MAX_UNSIGNED_VALUE + 1
  BY DEF LowShares
<1>8. streamAmount(packet, i) = multiplyDivide(a, s, d).quo
  BY DEF streamAmount, multiplyDivideFloor
<1>. HIDE DEF a, s, d, n
<1>9. q \in Nat /\ q <= a
  BY <1>5, <1>6, QuotientBound
<1>10. multiplyDivide(a, s, d) = [quo |-> q, rem |-> (a * s) % d]
  <2>1. (a * s) \div d <= MAX_UNSIGNED_VALUE
    BY <1>6, <1>9, WordAssumption
  <2>. QED  BY <1>1, <1>3, <1>7, <2>1, MulExact
<1>11. streamAmount(packet, i) = q
  BY <1>8, <1>10
<1>12. Rounded(q, s, d, a, d - 1)
  <2>. DEFINE m == a * s
              r == m % d
  <2>1. m \in Nat
    BY <1>6
  <2>2. r \in Nat /\ r < d /\ m = q * d + r
    BY <1>6, <2>1, Division
  <2>. HIDE DEF r, q, m
  <2>3. q * d = d * q /\ d * q \in Nat
    BY <1>6, <1>9
  <2>4. d * q <= m /\ m <= d * q + (d - 1)
    BY <1>6, <2>1, <2>2, <2>3
  <2>. QED  BY <2>4 DEF Rounded, m
<1>. QED  BY <1>5, <1>6, <1>9, <1>11, <1>12 DEF a, s, d

\* What rounding loses of the whole amount.
LEMMA RoundingLoss ==
  ASSUME NEW a \in Nat, NEW d \in Nat \ {0}, NEW n \in Nat \ {0}, NEW sum \in Nat,
         Rounded(sum, d, d, a, n * (d - 1))
  PROVE  sum \in a - n + 1 .. a
<1>. DEFINE loss == a - sum
<1>1. d * sum <= a * d /\ a * d <= d * sum + n * (d - 1)
  BY DEF Rounded
<1>2. a * d = d * a
  OBVIOUS
<1>3. sum <= a
  <2>1. ASSUME sum >= a + 1 PROVE FALSE
    <3>1. d * sum >= d * (a + 1)
      BY <2>1
    <3>2. d * (a + 1) = d * a + d
      OBVIOUS
    <3>3. d * sum \in Nat /\ d * a \in Nat
      OBVIOUS
    <3>. QED  BY <1>1, <1>2, <3>1, <3>2, <3>3
  <2>. QED  BY <2>1
<1>4. loss \in Nat /\ a = sum + loss
  BY <1>3
<1>5. d * loss <= n * (d - 1)
  <2>1. d * a = d * sum + d * loss
    BY <1>4
  <2>2. d * sum \in Nat /\ d * loss \in Nat /\ n * (d - 1) \in Nat
    BY <1>4
  <2>. HIDE DEF loss
  <2>. QED  BY <1>1, <1>2, <2>1, <2>2
<1>. HIDE DEF loss
<1>6. loss <= n - 1
  <2>1. ASSUME loss >= n PROVE FALSE
    <3>1. d * loss >= d * n
      BY <1>4, <2>1
    <3>2. n * (d - 1) = d * n - n /\ d * n \in Nat /\ d * loss \in Nat
      BY <1>4
    <3>. QED  BY <1>5, <3>1, <3>2
  <2>. QED  BY <1>4, <2>1
<1>. QED  BY <1>3, <1>4, <1>6

\* The shares of a packet fall short of its amount by less than a unit per frame.
LEMMA SharesAddUp ==
  ASSUME LowShares, NEW packet \in Packets, validShares(packet), Len(packet.money) > 0
  PROVE  Total(paidOut(packet), Len(packet.money))
             \in packet.amount - Len(packet.money) + 1 .. packet.amount
<1>. DEFINE a == packet.amount
            d == shareSum(packet)
            n == Len(packet.money)
            q == paidOut(packet)
            s == sharesOf(packet)
<1>1. n \in Nat \ {0} /\ 1 \in 1 .. n /\ a \in Nat
  BY PacketFields, WordAssumption DEF Long
<1>2. d \in Nat \ {0}
  BY <1>1, ShareRounded
<1>3. \A k \in 1 .. n : streamAmount(packet, k) \in Nat /\ packet.money[k].shares \in Nat
  BY ShareRounded, PacketFields, WordAssumption DEF Long
<1>4. q \in [1 .. n -> Nat] /\ s \in [1 .. n -> Nat]
  BY <1>3 DEF paidOut, sharesOf
<1>5. \A k \in 1 .. n : Rounded(q[k], s[k], d, a, d - 1)
  BY ShareRounded DEF paidOut, sharesOf
<1>6. Total(s, n) = d
  BY DEF shareSum
<1>. HIDE DEF a, d, n, q, s
<1>7. d - 1 \in Nat
  BY <1>2
<1>8. Rounded(Total(q, n), Total(s, n), d, a, n * (d - 1))
  BY <1>1, <1>2, <1>4, <1>5, <1>7, TotalRounded
<1>9. Total(q, n) \in Nat
  BY <1>1, <1>4, TotalIsSum
<1>10. Total(q, n) \in a - n + 1 .. a
  BY <1>1, <1>2, <1>6, <1>8, <1>9, RoundingLoss
<1>. QED  BY <1>10 DEF a, n, q

\* No stream gets more than the packet brings, however many of its frames are the
\* stream's: the other frames' shares are not negative.
LEMMA CreditBound ==
  ASSUME LowShares, NEW packet \in Packets, validShares(packet), NEW id \in StreamIds
  PROVE  credited(packet, id) \in Nat /\ credited(packet, id) <= packet.amount
<1>. DEFINE c == credited(packet, id)
            n == Len(packet.money)
            v == amountsFor(packet, id)
            u == paidOut(packet)
            w == [k \in 1 .. n |-> IF packet.money[k].streamId = id THEN 0
                                   ELSE streamAmount(packet, k)]
<1>1. n \in Nat /\ v \in [1 .. n -> Nat] /\ c \in Long /\ c <= Total(v, n)
  BY PacketFields, CreditIsShare
<1>2. c \in Nat /\ packet.amount \in Nat
  BY <1>1, PacketFields, WordAssumption DEF Long
<1>3. \A k \in 1 .. n : streamAmount(packet, k) \in Nat
  BY ShareRounded
<1>4. w \in [1 .. n -> Nat] /\ \A k \in 1 .. n : u[k] = v[k] + w[k]
  BY <1>3 DEF amountsFor, paidOut
<1>. HIDE DEF w, v, u, c
<1>5. Total(u, n) = Total(v, n) + Total(w, n) /\ Total(v, n) \in Nat /\ Total(w, n) \in Nat
  BY <1>1, <1>4, TotalPlus, TotalIsSum
<1>6. CASE n = 0
  <2>1. c = 0
    BY <1>6, CreditIsShare DEF c
  <2>. QED  BY <1>2, <2>1 DEF c
<1>7. CASE n # 0
  <2>1. Total(u, n) \in packet.amount - n + 1 .. packet.amount
    BY <1>1, <1>7, SharesAddUp DEF u
  <2>2. c <= packet.amount
    BY <1>1, <1>2, <1>5, <2>1
  <2>. QED  BY <1>2, <2>2 DEF c
<1>. QED  BY <1>6, <1>7

-----------------------------------------------------------------------------
(* The ledger of the packets fulfilled *)

\* Only packets whose shares can be divided are fulfilled.
Divided(ps) ==
    \A k \in 1 .. Len(ps) :
       /\ ps[k].packet \in Packets
       /\ ps[k].status = "fulfilled" => validShares(ps[k].packet)

\* The entries of the ledgers are natural.
LEMMA AmountsType ==
  ASSUME NEW ps \in Seq(Prepare)
  PROVE  Len(ps) \in Nat /\ FulfilledAmounts(ps) \in [1 .. Len(ps) -> Nat]
BY PrepareAt DEF FulfilledAmounts

\* So are those of a stream.
LEMMA CreditsType ==
  ASSUME NEW ps \in Seq(Prepare), Divided(ps), NEW id \in StreamIds
  PROVE  FulfilledCredits(ps, id) \in [1 .. Len(ps) -> Nat]
<1>1. ASSUME NEW k \in 1 .. Len(ps), ps[k].status = "fulfilled"
      PROVE  credited(ps[k].packet, id) \in Nat
  <2>1. credited(ps[k].packet, id) \in Long
    BY <1>1, CreditIsShare DEF Divided
  <2>. QED  BY <2>1, WordAssumption DEF Long
<1>. QED  BY <1>1 DEF FulfilledCredits

\* The prepares new have the totals of ps.
SameLedger(ps, new) ==
    /\ Total(FulfilledAmounts(new), Len(new)) = Total(FulfilledAmounts(ps), Len(ps))
    /\ \A id \in StreamIds :
          Total(FulfilledCredits(new, id), Len(new)) = Total(FulfilledCredits(ps, id), Len(ps))

\* An entry of 0 adds nothing.
LEMMA ZeroEntry ==
  ASSUME NEW n \in Nat, NEW v \in [1 .. n -> Nat], NEW u \in [1 .. n + 1 -> Nat],
         \A k \in 1 .. n : u[k] = v[k], u[n + 1] = 0
  PROVE  Total(u, n + 1) = Total(v, n)
<1>1. Total(u, n + 1) = Total(v, n) + 0
  BY TotalExtend
<1>2. Total(v, n) \in Nat
  BY TotalIsSum
<1>. QED  BY <1>1, <1>2

\* A prepare that arrives is not fulfilled.
LEMMA LedgerReceive ==
  ASSUME NEW ps \in Seq(Prepare), Divided(ps), NEW p \in Prepare, p.status # "fulfilled",
         p.packet \in Packets
  PROVE  Divided(Append(ps, p)) /\ SameLedger(ps, Append(ps, p))
<1>. DEFINE n == Len(ps)
            new == Append(ps, p)
<1>1. /\ n \in Nat /\ new \in Seq(Prepare) /\ Len(new) = n + 1
      /\ new[n + 1] = p /\ \A k \in 1 .. n : new[k] = ps[k]
  OBVIOUS
<1>. HIDE DEF new
<1>2. Divided(new)
  <2>1. ASSUME NEW k \in 1 .. n + 1
        PROVE  /\ new[k].packet \in Packets
               /\ new[k].status = "fulfilled" => validShares(new[k].packet)
    <3>1. CASE k \in 1 .. n
      BY <1>1, <3>1 DEF Divided
    <3>2. CASE k = n + 1
      BY <1>1, <3>2
    <3>. QED  BY <1>1, <3>1, <3>2
  <2>. QED  BY <1>1, <2>1 DEF Divided
<1>3. Total(FulfilledAmounts(new), n + 1) = Total(FulfilledAmounts(ps), n)
  <2>1. /\ FulfilledAmounts(new) \in [1 .. n + 1 -> Nat]
        /\ FulfilledAmounts(ps) \in [1 .. n -> Nat]
    BY <1>1, AmountsType
  <2>2. /\ \A k \in 1 .. n : FulfilledAmounts(new)[k] = FulfilledAmounts(ps)[k]
        /\ FulfilledAmounts(new)[n + 1] = 0
    BY <1>1 DEF FulfilledAmounts
  <2>. QED  BY <1>1, <2>1, <2>2, ZeroEntry
<1>4. ASSUME NEW id \in StreamIds
      PROVE  Total(FulfilledCredits(new, id), n + 1) = Total(FulfilledCredits(ps, id), n)
  <2>1. /\ FulfilledCredits(new, id) \in [1 .. n + 1 -> Nat]
        /\ FulfilledCredits(ps, id) \in [1 .. n -> Nat]
    BY <1>1, <1>2, CreditsType
  <2>2. /\ \A k \in 1 .. n : FulfilledCredits(new, id)[k] = FulfilledCredits(ps, id)[k]
        /\ FulfilledCredits(new, id)[n + 1] = 0
    BY <1>1 DEF FulfilledCredits
  <2>. QED  BY <1>1, <2>1, <2>2, ZeroEntry
<1>. QED  BY <1>1, <1>2, <1>3, <1>4 DEF SameLedger, new

\* The ledgers of new have packet in addition to those of ps.
LedgerWith(ps, new, packet) ==
    /\ Total(FulfilledAmounts(new), Len(new))
           = Total(FulfilledAmounts(ps), Len(ps)) + packet.amount
    /\ \A id \in StreamIds :
          Total(FulfilledCredits(new, id), Len(new))
              = Total(FulfilledCredits(ps, id), Len(ps)) + credited(packet, id)

\* An entry that was 0 is added to the total.
LEMMA NewEntry ==
  ASSUME NEW n \in Nat, NEW v \in [1 .. n -> Nat], NEW u \in [1 .. n -> Nat],
         NEW i \in 1 .. n, \A k \in 1 .. n : k # i => u[k] = v[k], v[i] = 0
  PROVE  Total(u, n) = Total(v, n) + u[i]
<1>1. Total(u, n) = Total(v, n) - v[i] + u[i]
  BY TotalChange
<1>2. Total(v, n) \in Nat /\ u[i] \in Nat
  BY TotalIsSum
<1>. QED  BY <1>1, <1>2

\* A prepare that moves on is added to the ledgers when it is fulfilled.
LEMMA LedgerMoves ==
  ASSUME NEW ps \in Seq(Prepare), Divided(ps), NEW i \in 1 .. Len(ps),
         NEW st \in {"held"} \cup Answers, ps[i].status # "fulfilled",
         st = "fulfilled" => validShares(ps[i].packet),
         NEW new, new = WithStatus(ps, i, st)
  PROVE  /\ Divided(new)
         /\ st # "fulfilled" => SameLedger(ps, new)
         /\ st = "fulfilled" => LedgerWith(ps, new, ps[i].packet)
<1>. DEFINE n == Len(ps)
<1>0. st \in {"received", "held"} \cup Answers
  OBVIOUS
<1>1. /\ n \in Nat /\ new \in Seq(Prepare) /\ Len(new) = n
      /\ \A k \in 1 .. n : k # i => new[k] = ps[k]
      /\ new[i].status = st /\ new[i].packet = ps[i].packet
  <2>1. new \in Seq(Prepare) /\ Len(new) = n
    BY <1>0, StatusChange
  <2>2. \A k \in 1 .. n : k # i => new[k] = ps[k]
    BY <1>0, StatusChange
  <2>3. new[i].status = st /\ new[i].packet = ps[i].packet
    BY <1>0, StatusChange
  <2>. QED  BY <2>1, <2>2, <2>3
<1>2. Divided(new)
  BY <1>1 DEF Divided
<1>. DEFINE v == FulfilledAmounts(ps)
            u == FulfilledAmounts(new)
<1>3. v \in [1 .. n -> Nat] /\ u \in [1 .. n -> Nat]
  BY <1>1, AmountsType
<1>4. /\ \A k \in 1 .. n : k # i => u[k] = v[k]
      /\ v[i] = 0 /\ u[i] = IF st = "fulfilled" THEN ps[i].packet.amount ELSE 0
  BY <1>1 DEF FulfilledAmounts
<1>. HIDE DEF v, u
<1>5. Total(u, n) = Total(v, n) + u[i] /\ Total(v, n) \in Nat
  BY <1>1, <1>3, <1>4, NewEntry, TotalIsSum
<1>6. ASSUME NEW id \in StreamIds
      PROVE  /\ Total(FulfilledCredits(ps, id), n) \in Nat
             /\ Total(FulfilledCredits(new, id), n) = Total(FulfilledCredits(ps, id), n) +
                    IF st = "fulfilled" THEN credited(ps[i].packet, id) ELSE 0
  <2>. DEFINE w == FulfilledCredits(ps, id)
              x == FulfilledCredits(new, id)
  <2>1. w \in [1 .. n -> Nat] /\ x \in [1 .. n -> Nat]
    BY <1>1, <1>2, CreditsType
  <2>2. /\ \A k \in 1 .. n : k # i => x[k] = w[k]
        /\ w[i] = 0 /\ x[i] = IF st = "fulfilled" THEN credited(ps[i].packet, id) ELSE 0
    BY <1>1 DEF FulfilledCredits
  <2>. HIDE DEF w, x
  <2>3. Total(x, n) = Total(w, n) + x[i] /\ Total(w, n) \in Nat
    BY <1>1, <2>1, <2>2, NewEntry, TotalIsSum
  <2>. QED  BY <2>2, <2>3 DEF w, x
<1>7. ASSUME st # "fulfilled" PROVE SameLedger(ps, new)
  BY <1>1, <1>4, <1>5, <1>6, <1>7 DEF SameLedger, v, u
<1>8. ASSUME st = "fulfilled" PROVE LedgerWith(ps, new, ps[i].packet)
  BY <1>1, <1>4, <1>5, <1>6, <1>8 DEF LedgerWith, v, u
<1>. QED  BY <1>2, <1>7, <1>8

MoneyInv ==
    /\ Divided(prepares)
    /\ _totalReceived = Total(FulfilledAmounts(prepares), Len(prepares))
    /\ \A id \in StreamIds :
          /\ streams[id].totalReceived
                 = Total(FulfilledCredits(prepares, id), Len(prepares))
          /\ streams[id].totalReceived <= _totalReceived

SameTotals ==
    /\ _totalReceived' = _totalReceived
    /\ \A id \in StreamIds : streams'[id].totalReceived = streams[id].totalReceived

\* Nothing is received yet.
LEMMA InitMoneyInv == Init => MoneyInv
<1>. SUFFICES ASSUME Init PROVE MoneyInv
  OBVIOUS
<1>1. prepares = <<>> /\ prepares \in Seq(Prepare) /\ Len(prepares) = 0
  BY DEF Init
<1>2. Divided(prepares)
  BY <1>1 DEF Divided
<1>3. Total(FulfilledAmounts(prepares), 0) = 0
  BY <1>1, AmountsType, TotalEmpty
<1>4. ASSUME NEW id \in StreamIds PROVE Total(FulfilledCredits(prepares, id), 0) = 0
  BY <1>1, <1>2, CreditsType, TotalEmpty
<1>5. _totalReceived = 0 /\ \A id \in StreamIds : streams[id].totalReceived = 0
  BY DEF Init
<1>. QED  BY <1>1, <1>2, <1>3, <1>4, <1>5 DEF MoneyInv

\* A step that credits nothing and fulfills nothing.
LEMMA SameMoney ==
  ASSUME MoneyInv, SameTotals, Divided(prepares'), SameLedger(prepares, prepares')
  PROVE  MoneyInv'
<1>1. ASSUME NEW id \in StreamIds
      PROVE  /\ streams'[id].totalReceived
                    = Total(FulfilledCredits(prepares', id), Len(prepares'))
             /\ streams'[id].totalReceived <= _totalReceived'
  BY DEF MoneyInv, SameTotals, SameLedger
<1>2. _totalReceived' = Total(FulfilledAmounts(prepares'), Len(prepares'))
  BY DEF MoneyInv, SameTotals, SameLedger
<1>. QED  BY <1>1, <1>2 DEF MoneyInv

\* Opening, ending and closing streams and raising limits credit nothing.
LEMMA ReceiveTotals ==
  ASSUME StreamInv, NEW packet \in Packets, ReceivePrepare(packet)
  PROVE  SameTotals
<1>. DEFINE now == opened(packet)
            aborts == packet.aborts
<1>1. aborts \in BOOLEAN
  BY PacketFields DEF Packet
<1>2. PICK ended : streams' = [id \in StreamIds |->
                      IF id \in ended THEN _remoteEnded(now[id], aborts) ELSE now[id]]
  BY DEF ReceivePrepare
<1>3. ASSUME NEW id \in StreamIds
      PROVE  streams'[id].totalReceived = streams[id].totalReceived
  <2>1. now[id] \in Stream /\ now[id].totalReceived = streams[id].totalReceived
    BY OpenedStream
  <2>. HIDE DEF now, aborts
  <2>2. _remoteEnded(now[id], aborts).totalReceived = now[id].totalReceived
    BY <1>1, <2>1, StreamUpdates
  <2>3. streams'[id] = IF id \in ended THEN _remoteEnded(now[id], aborts) ELSE now[id]
    BY <1>2
  <2>. QED  BY <2>1, <2>2, <2>3
<1>. QED  BY <1>3 DEF SameTotals, ReceivePrepare

\* Closing, limiting and destroying streams change no total.
LEMMA OtherTotals ==
  ASSUME StreamInv,
         \/ Destroy /\ UNCHANGED _totalReceived
         \/ \E id \in StreamIds :
               \/ \E limit \in ReceiveMaxima : setReceiveMax(id, limit)
               \/ createStream(id)
               \/ CloseStream(id)
               \/ removeStreamRecord(id)
  PROVE  SameTotals
<1>0. streams \in [StreamIds -> Stream]
  BY DEF StreamInv
<1>1. ASSUME NEW id \in StreamIds, NEW t, t.totalReceived = streams[id].totalReceived,
             streams' = [streams EXCEPT ![id] = t], UNCHANGED _totalReceived
      PROVE  SameTotals
  BY <1>0, <1>1 DEF SameTotals
<1>2. ASSUME NEW id \in StreamIds, NEW st \in StreamStatus
      PROVE  withStatus(streams[id], st).totalReceived = streams[id].totalReceived
  BY <1>0, StreamUpdates
<1>3. ASSUME NEW id \in StreamIds, NEW limit \in ReceiveMaxima, setReceiveMax(id, limit)
      PROVE  SameTotals
  <2>1. limit \in Long /\ streams[id] \in Stream
    BY <1>0, ReceiveAssumption
  <2>2. limitedTo(streams[id], limit).totalReceived = streams[id].totalReceived
    BY <2>1, StreamUpdates
  <2>. QED  BY <1>1, <1>3, <2>2 DEF setReceiveMax
<1>4. ASSUME NEW id \in StreamIds, createStream(id) \/ CloseStream(id) \/ removeStreamRecord(id)
      PROVE  SameTotals
  <2>1. PICK st \in StreamStatus : streams' = [streams EXCEPT ![id] = withStatus(streams[id], st)]
    BY <1>4 DEF createStream, CloseStream, removeStreamRecord, StreamStatus
  <2>2. UNCHANGED _totalReceived
    BY <1>4 DEF createStream, CloseStream, removeStreamRecord
  <2>. QED  BY <1>1, <1>2, <2>1, <2>2
<1>5. ASSUME Destroy, UNCHANGED _totalReceived PROVE SameTotals
  <2>1. "closed" \in StreamStatus
    BY DEF StreamStatus
  <2>2. ASSUME NEW id \in StreamIds
        PROVE  streams'[id].totalReceived = streams[id].totalReceived
    <3>1. \/ streams'[id] = withStatus(streams[id], "closed")
          \/ streams'[id] = streams[id]
      BY <1>5 DEF Destroy
    <3>. QED  BY <1>2, <2>1, <3>1
  <2>. QED  BY <1>5, <2>2 DEF SameTotals
<1>. QED  BY <1>3, <1>4, <1>5

\* Fulfilling a packet that fits credits the connection with its amount and every
\* stream with its share, without saturation.
LEMMA FulfillMoney ==
  ASSUME LowShares, StreamInv, MoneyInv, NEW i \in DOMAIN prepares, NEW hold, Fulfill(i, hold),
         validShares(prepares[i].packet), prepares[i].status # "fulfilled",
         _totalReceived + prepares[i].packet.amount <= MAX_UNSIGNED_VALUE
  PROVE  MoneyInv'
<1>. DEFINE packet == prepares[i].packet
            a == packet.amount
<1>1. prepares \in Seq(Prepare) /\ i \in 1 .. Len(prepares) /\ packet \in Packets
  BY DEF StreamInv, HoldInv, PreparesInv
<1>2. a \in Long /\ _totalReceived \in Long /\ a \in Nat /\ _totalReceived \in Nat
  BY <1>1, PrepareAt, WordAssumption DEF StreamInv, HoldInv, Long
<1>3. prepares' = WithStatus(prepares, i, "fulfilled") /\ "fulfilled" \in Answers
  BY DEF Fulfill, Answer, WithStatus, Answers
<1>4. Divided(prepares') /\ LedgerWith(prepares, prepares', packet)
  BY <1>1, <1>3, LedgerMoves DEF MoneyInv
<1>5. /\ _totalReceived' = checkedAdd(_totalReceived, a).sum
      /\ streams' = [id \in StreamIds |-> _addToIncoming(streams[id], credited(packet, id))]
  BY DEF Fulfill, Credit
<1>6. _totalReceived + a <= MAX_UNSIGNED_VALUE
  OBVIOUS
<1>7. validShares(packet)
  OBVIOUS
<1>8. packet.amount = a
  OBVIOUS
<1>. HIDE DEF packet, a
<1>9. _totalReceived' = _totalReceived + a
  BY <1>2, <1>5, <1>6, CheckedAdd, WordAssumption
<1>10. ASSUME NEW id \in StreamIds
       PROVE  /\ streams'[id].totalReceived = streams[id].totalReceived + credited(packet, id)
              /\ streams'[id].totalReceived <= _totalReceived'
  <2>. DEFINE s == streams[id]
              t == s.totalReceived
              c == credited(packet, id)
              sum == checkedAdd(t, c).sum
  <2>1. s \in Stream /\ t <= _totalReceived
    BY DEF StreamInv, MoneyInv
  <2>2. t \in Long /\ t \in Nat
    BY <2>1, WordAssumption DEF Stream, Long
  <2>3. c \in Long /\ c \in Nat /\ c <= a
    BY <1>1, <1>7, <1>8, CreditIsShare, CreditBound
  <2>4. streams'[id] = [s EXCEPT !.totalReceived = sum]
    BY <1>5 DEF _addToIncoming
  <2>. HIDE DEF c, t
  <2>5. t + c <= _totalReceived + a /\ t + c <= MAX_UNSIGNED_VALUE
    BY <1>2, <1>6, <2>1, <2>2, <2>3, WordAssumption DEF t
  <2>6. sum = t + c
    BY <2>2, <2>3, <2>5, CheckedAdd, WordAssumption
  <2>. HIDE DEF sum, s
  <2>7. streams'[id].totalReceived = sum
    BY <2>1, <2>4 DEF Stream
  <2>. QED  BY <1>9, <2>5, <2>6, <2>7 DEF s, t, c
<1>11. _totalReceived' = Total(FulfilledAmounts(prepares'), Len(prepares'))
  BY <1>4, <1>8, <1>9 DEF MoneyInv, LedgerWith
<1>12. \A id \in StreamIds :
          streams'[id].totalReceived = Total(FulfilledCredits(prepares', id), Len(prepares'))
  BY <1>4, <1>10 DEF MoneyInv, LedgerWith
<1>. QED  BY <1>4, <1>10, <1>11, <1>12 DEF MoneyInv

\* The total can take a packet that is fulfilled at once.
LEMMA FitsAtOnce ==
  ASSUME HoldInv, NEW i \in DOMAIN prepares, HoldPrepare(i)
  PROVE  _totalReceived + prepares[i].packet.amount <= MAX_UNSIGNED_VALUE
<1>. DEFINE v == prepares[i].packet.amount
            received == _totalReceived
            hold == _incomingHold
            first == checkedAdd(received, hold).sum
<1>1. v \in Long /\ v \in Nat
  BY PrepareAt DEF HoldInv
<1>2. received \in Long /\ hold \in Long /\ received \in Nat /\ hold \in Nat
  BY WordAssumption DEF HoldInv, Long
<1>3. ~checkedAdd(first, v).overflow
  BY DEF HoldPrepare, addIncomingHold
<1>. HIDE DEF v, received, hold
<1>4. first = IF received + hold > MAX_UNSIGNED_VALUE THEN MAX_UNSIGNED_VALUE ELSE received + hold
  BY <1>2, CheckedAdd
<1>. HIDE DEF first
<1>5. first \in Long /\ first \in Nat /\ first >= received
  BY <1>2, <1>4, WordAssumption DEF Long
<1>6. first + v <= MAX_UNSIGNED_VALUE
  BY <1>1, <1>3, <1>5, CheckedAdd, WordAssumption
<1>7. received + v <= MAX_UNSIGNED_VALUE
  BY <1>1, <1>2, <1>5, <1>6, WordAssumption
<1>. QED  BY <1>7 DEF received, v

\* MoneyInv is inductive relative to StreamInv, if the shares are low.
LEMMA NextMoneyInv ==
  ASSUME LowShares, StreamInv, MoneyInv, [Next]_vars
  PROVE  MoneyInv'
<1>0. prepares \in Seq(Prepare) /\ Divided(prepares)
  BY DEF StreamInv, HoldInv, MoneyInv
<1>1. ASSUME NEW packet \in Packets, ReceivePrepare(packet) PROVE MoneyInv'
  <2>1. PICK st \in {"received", "rejected"} :
           prepares' = Append(prepares, [packet |-> packet, status |-> st])
    BY <1>1 DEF ReceivePrepare
  <2>. DEFINE p == [packet |-> packet, status |-> st]
  <2>2. p \in Prepare /\ p.packet \in Packets /\ p.status # "fulfilled"
    BY <2>1, PacketFields DEF Prepare, Answers
  <2>. HIDE DEF p
  <2>3. prepares' = Append(prepares, p)
    BY <2>1 DEF p
  <2>4. Divided(prepares') /\ SameLedger(prepares, prepares')
    BY <1>0, <2>2, <2>3, LedgerReceive
  <2>. QED  BY <1>1, <2>4, ReceiveTotals, SameMoney
<1>2. ASSUME NEW i \in DOMAIN prepares, NEW st \in {"held"} \cup Answers, st # "fulfilled",
             prepares[i].status # "fulfilled", prepares' = WithStatus(prepares, i, st),
             SameTotals
      PROVE  MoneyInv'
  <2>1. i \in 1 .. Len(prepares)
    BY <1>0
  <2>2. Divided(prepares') /\ SameLedger(prepares, prepares')
    BY <1>0, <1>2, <2>1, LedgerMoves
  <2>. QED  BY <1>2, <2>2, SameMoney
<1>3. ASSUME NEW i \in DOMAIN prepares, RejectPrepare(i) \/ DeclinePrepare(i) PROVE MoneyInv'
  <2>1. prepares' = WithStatus(prepares, i, "rejected") /\ prepares[i].status # "fulfilled"
    BY <1>3 DEF RejectPrepare, DeclinePrepare, Answer, WithStatus
  <2>2. SameTotals
    BY <1>3 DEF RejectPrepare, DeclinePrepare, SameTotals
  <2>3. "rejected" \in Answers
    BY DEF Answers
  <2>. QED  BY <1>2, <2>1, <2>2, <2>3
<1>4. ASSUME NEW i \in DOMAIN prepares, OverflowPrepare(i) PROVE MoneyInv'
  <2>1. prepares' = WithStatus(prepares, i, "overflowed") /\ prepares[i].status # "fulfilled"
    BY <1>4 DEF OverflowPrepare, Answer, WithStatus
  <2>2. SameTotals
    BY <1>4, OtherTotals DEF OverflowPrepare
  <2>3. "overflowed" \in Answers
    BY DEF Answers
  <2>. QED  BY <1>2, <2>1, <2>2, <2>3
<1>5. ASSUME NEW i \in DOMAIN prepares, HoldPrepare(i) PROVE MoneyInv'
  <2>1. prepares[i].packet \in Packets /\ prepares[i].status # "fulfilled"
    BY <1>5 DEF StreamInv, PreparesInv, HoldPrepare
  <2>2. validShares(prepares[i].packet)
    BY <1>5, <2>1, AcceptedPacket DEF HoldPrepare
  <2>3. _totalReceived + prepares[i].packet.amount <= MAX_UNSIGNED_VALUE
    BY <1>5, FitsAtOnce DEF StreamInv
  <2>4. CASE shouldFulfill /\ prepares[i].packet.amount > 0
    <3>1. prepares' = WithStatus(prepares, i, "held") /\ UNCHANGED <<streams, _totalReceived>>
      BY <1>5, <2>4 DEF HoldPrepare, Answer, WithStatus
    <3>2. SameTotals
      BY <3>1 DEF SameTotals
    <3>. QED  BY <1>2, <2>1, <3>1, <3>2
  <2>5. CASE ~(shouldFulfill /\ prepares[i].packet.amount > 0)
    <3>1. \E hold : Fulfill(i, hold)
      BY <1>5, <2>5 DEF HoldPrepare
    <3>. QED  BY <2>1, <2>2, <2>3, <3>1, FulfillMoney
  <2>. QED  BY <2>4, <2>5
<1>6. ASSUME NEW i \in DOMAIN prepares, FulfillPrepare(i) PROVE MoneyInv'
  <2>1. Fulfill(i, _incomingHold) /\ prepares[i].status = "held"
    BY <1>6 DEF FulfillPrepare
  <2>2. validShares(prepares[i].packet)
    BY <2>1 DEF StreamInv, PreparesInv
  <2>3. _totalReceived + prepares[i].packet.amount <= MAX_UNSIGNED_VALUE
    BY <2>1, HeldInSum DEF StreamInv, Held
  <2>. QED  BY <2>1, <2>2, <2>3, FulfillMoney
<1>7. ASSUME UNCHANGED prepares, SameTotals PROVE MoneyInv'
  <2>1. SameLedger(prepares, prepares')
    BY <1>7 DEF SameLedger
  <2>. QED  BY <1>0, <1>7, <2>1, SameMoney
<1>8. ASSUME NEW id \in StreamIds,
             \/ \E limit \in ReceiveMaxima : setReceiveMax(id, limit)
             \/ createStream(id)
             \/ CloseStream(id)
             \/ removeStreamRecord(id)
      PROVE  MoneyInv'
  <2>1. SameTotals
    BY <1>8, OtherTotals
  <2>2. UNCHANGED prepares
    BY <1>8 DEF setReceiveMax, createStream, CloseStream, removeStreamRecord
  <2>. QED  BY <1>7, <2>1, <2>2
<1>9. CASE UNCHANGED vars
  BY <1>7, <1>9 DEF vars, SameTotals
<1>. QED  BY <1>1, <1>3, <1>4, <1>5, <1>6, <1>8, <1>9 DEF Next

\* Money is neither made nor lost (connection.ts:774-779, 841-842), for every word
\* width, number of streams and sequence of packets: the totals are those of the
\* packets that were fulfilled, and a packet's shares fall short of its amount by
\* less than a unit per frame.
THEOREM MoneyIsConserved ==
  ASSUME LowShares
  PROVE  Spec => []MoneyConserved
<1>1. StreamInv /\ MoneyInv /\ [Next]_vars => MoneyInv'
  BY NextMoneyInv
<1>2. StreamInv /\ MoneyInv => MoneyConserved
  <2>. SUFFICES ASSUME StreamInv, MoneyInv PROVE MoneyConserved
    OBVIOUS
  <2>1. DOMAIN prepares = 1 .. Len(prepares)
    BY DEF StreamInv, HoldInv
  <2>2. ASSUME NEW i \in DOMAIN prepares, prepares[i].status = "fulfilled",
               Len(prepares[i].packet.money) > 0
        PROVE  Total(paidOut(prepares[i].packet), Len(prepares[i].packet.money))
                   \in prepares[i].packet.amount - Len(prepares[i].packet.money) + 1
                           .. prepares[i].packet.amount
    <3>1. prepares[i].packet \in Packets /\ validShares(prepares[i].packet)
      BY <2>1, <2>2 DEF MoneyInv, Divided
    <3>. QED  BY <2>2, <3>1, SharesAddUp
  <2>. QED  BY <2>2 DEF MoneyInv, MoneyConserved
<1>. QED  BY <1>1, <1>2, InitMoneyInv, StreamInvariance, PTL DEF Spec

-----------------------------------------------------------------------------
(* The limit of a stream *)

\* The limit with its extra fits a Long.
ExactLimit(limit) ==
    (limit * AllowableReceiveExtra.a) \div AllowableReceiveExtra.b < MAX_UNSIGNED_VALUE

\* The extra is a factor of at least 1 with a denominator in the lower half of the
\* range, and a limit whose extra does not fit allows everything, as 'Infinity' does.
ExtraFits ==
    /\ AllowableReceiveExtra.b <= AllowableReceiveExtra.a
    /\ 2 * AllowableReceiveExtra.b <= MAX_UNSIGNED_VALUE + 1
    /\ \A limit \in ReceiveMaxima :
          \/ ExactLimit(limit)
          \/ multiplyByLongCeil(AllowableReceiveExtra, limit) = MAX_UNSIGNED_VALUE

\* A stream without a limit of its own may receive nothing.
LEMMA ExactZero == ExactLimit(0)
<1>. DEFINE b == AllowableReceiveExtra.b
            n == 0 * AllowableReceiveExtra.a
<1>1. b \in Nat \ {0} /\ AllowableReceiveExtra.a \in Nat
  BY ReceiveAssumption, WordAssumption DEF Rational, Long
<1>2. n = 0
  BY <1>1
<1>3. MAX_UNSIGNED_VALUE \in Nat /\ MAX_UNSIGNED_VALUE # 0
  BY WordAssumption
<1>. HIDE DEF b, n
<1>4. n \div b = 0
  BY <1>1, <1>2
<1>. QED  BY <1>3, <1>4 DEF ExactLimit, b, n

\* What the extra makes of a value, rounded up.
LEMMA ExtraCeil ==
  ASSUME ExtraFits, NEW limit \in ReceiveMaxima \cup {0}, ExactLimit(limit),
         NEW m \in Nat, m <= limit
  PROVE  /\ multiplyByLongCeil(AllowableReceiveExtra, m) \in Nat
         /\ m * AllowableReceiveExtra.a
                <= AllowableReceiveExtra.b * multiplyByLongCeil(AllowableReceiveExtra, m)
         /\ AllowableReceiveExtra.b * multiplyByLongCeil(AllowableReceiveExtra, m)
                <= m * AllowableReceiveExtra.a + (AllowableReceiveExtra.b - 1)
<1>. DEFINE a == AllowableReceiveExtra.a
            b == AllowableReceiveExtra.b
            n == m * a
            q == n \div b
            r == n % b
            big == limit * a
            up == multiplyDivideCeil(m, a, b)
<1>1. /\ a \in Long /\ b \in Long \ {0} /\ a \in Nat /\ b \in Nat \ {0}
      /\ limit \in Long /\ limit \in Nat
  BY ReceiveAssumption, WordAssumption DEF Rational, Long
<1>2. 2 * b <= MAX_UNSIGNED_VALUE + 1 /\ big \div b < MAX_UNSIGNED_VALUE
  BY DEF ExtraFits, ExactLimit
<1>3. m \in Long
  BY <1>1, WordAssumption DEF Long
<1>4. up = multiplyByLongCeil(AllowableReceiveExtra, m)
  BY DEF multiplyByLongCeil
<1>5. up = IF multiplyDivide(m, a, b).rem = 0 \/ multiplyDivide(m, a, b).quo = MAX_UNSIGNED_VALUE
           THEN multiplyDivide(m, a, b).quo ELSE multiplyDivide(m, a, b).quo + 1
  BY DEF multiplyDivideCeil
<1>. HIDE DEF a, b
<1>6. n \in Nat /\ big \in Nat /\ n <= big
  BY <1>1
<1>7. q \in Nat /\ r \in Nat /\ r < b /\ n = q * b + r
  BY <1>1, <1>6, Division
<1>8. q < MAX_UNSIGNED_VALUE
  <2>. DEFINE p == big \div b
              s == big % b
  <2>1. p \in Nat /\ s \in Nat /\ s < b /\ big = p * b + s
    BY <1>1, <1>6, Division
  <2>2. p < MAX_UNSIGNED_VALUE
    BY <1>2
  <2>. HIDE DEF p, s, q, r, n, big
  <2>3. ASSUME q >= p + 1 PROVE FALSE
    <3>1. q * b >= (p + 1) * b
      BY <1>1, <1>7, <2>1, <2>3
    <3>2. (p + 1) * b = p * b + b /\ p * b \in Nat /\ q * b \in Nat
      BY <1>1, <1>7, <2>1
    <3>. QED  BY <1>1, <1>6, <1>7, <2>1, <3>1, <3>2
  <2>. QED  BY <1>7, <2>1, <2>2, <2>3, WordAssumption
<1>9. multiplyDivide(m, a, b) = [quo |-> q, rem |-> r]
  <2>1. (m * a) \div b <= MAX_UNSIGNED_VALUE
    BY <1>7, <1>8, WordAssumption
  <2>. QED  BY <1>1, <1>2, <1>3, <2>1, MulExact
<1>10. up = IF r = 0 THEN q ELSE q + 1
  <2>. HIDE DEF q, r, up, n
  <2>. QED  BY <1>5, <1>7, <1>8, <1>9, WordAssumption
<1>11. up \in Nat /\ n <= b * up /\ b * up <= n + (b - 1)
  <2>. HIDE DEF q, r, up, n
  <2>1. b * q = q * b /\ b * (q + 1) = q * b + b /\ q * b \in Nat
    BY <1>1, <1>7
  <2>2. CASE r = 0
    BY <1>1, <1>7, <1>10, <2>1, <2>2
  <2>3. CASE r # 0
    BY <1>1, <1>7, <1>10, <2>1, <2>3
  <2>. QED  BY <2>2, <2>3
<1>. QED  BY <1>4, <1>11 DEF a, b

\* Numbers of which one multiple is at most less than a factor above the other.
LEMMA MultipleBound ==
  ASSUME NEW b \in Nat \ {0}, NEW x \in Nat, NEW y \in Nat, b * x <= b * y + (b - 1)
  PROVE  x <= y
<1>1. ASSUME x >= y + 1 PROVE FALSE
  <2>1. b * x >= b * (y + 1)
    BY <1>1
  <2>2. b * (y + 1) = b * y + b /\ b * y \in Nat /\ b * x \in Nat
    OBVIOUS
  <2>. QED  BY <2>1, <2>2
<1>. QED  BY <1>1

\* A larger limit allows at least as much.
LEMMA LimitMonotone ==
  ASSUME ExtraFits, NEW limit \in ReceiveMaxima \cup {0}, ExactLimit(limit),
         NEW m \in Nat, m <= limit
  PROVE  multiplyByLongCeil(AllowableReceiveExtra, m)
             <= multiplyByLongCeil(AllowableReceiveExtra, limit)
<1>. DEFINE a == AllowableReceiveExtra.a
            b == AllowableReceiveExtra.b
            x == multiplyByLongCeil(AllowableReceiveExtra, m)
            y == multiplyByLongCeil(AllowableReceiveExtra, limit)
<1>1. a \in Nat /\ b \in Nat \ {0} /\ limit \in Nat /\ limit <= limit
  BY ReceiveAssumption, WordAssumption DEF Rational, Long
<1>2. x \in Nat /\ b * x <= m * a + (b - 1)
  BY ExtraCeil
<1>3. y \in Nat /\ limit * a <= b * y
  BY <1>1, ExtraCeil
<1>. HIDE DEF a, b, x, y
<1>4. m * a <= limit * a /\ m * a \in Nat /\ limit * a \in Nat /\ b * x \in Nat /\ b * y \in Nat
  BY <1>1, <1>2, <1>3
<1>5. b * x <= b * y + (b - 1)
  BY <1>1, <1>2, <1>3, <1>4
<1>6. x <= y
  BY <1>1, <1>2, <1>3, <1>5, MultipleBound
<1>. QED  BY <1>6 DEF x, y

\* What a stream can still receive does not take it over its limit: the extra is
\* allowed on what is left, which is less than the extra on the whole limit.
LEMMA RemainderWithinLimit ==
  ASSUME ExtraFits, NEW limit \in ReceiveMaxima \cup {0}, ExactLimit(limit),
         NEW t \in Nat, t <= limit
  PROVE  t + multiplyByLongCeil(AllowableReceiveExtra, limit - t)
             <= multiplyByLongCeil(AllowableReceiveExtra, limit)
<1>. DEFINE a == AllowableReceiveExtra.a
            b == AllowableReceiveExtra.b
            m == limit - t
            x == multiplyByLongCeil(AllowableReceiveExtra, m)
            y == multiplyByLongCeil(AllowableReceiveExtra, limit)
<1>1. a \in Nat /\ b \in Nat \ {0} /\ limit \in Nat /\ limit <= limit /\ b <= a
  BY ReceiveAssumption, WordAssumption DEF Rational, Long, ExtraFits
<1>2. m \in Nat /\ m <= limit /\ limit = m + t
  BY <1>1
<1>3. x \in Nat /\ b * x <= m * a + (b - 1)
  BY <1>2, ExtraCeil
<1>4. y \in Nat /\ limit * a <= b * y
  BY <1>1, ExtraCeil
<1>. HIDE DEF a, b, x, y, m
<1>5. limit * a = m * a + t * a /\ b * (t + x) = b * t + b * x
  BY <1>1, <1>2, <1>3
<1>6. b * t <= t * a
  <2>1. t * b <= t * a /\ b * t = t * b
    BY <1>1
  <2>. QED  BY <2>1
<1>7. /\ m * a \in Nat /\ t * a \in Nat /\ b * t \in Nat /\ b * x \in Nat /\ b * y \in Nat
      /\ t + x \in Nat
  BY <1>1, <1>2, <1>3, <1>4
<1>8. b * (t + x) <= b * y + (b - 1)
  BY <1>1, <1>3, <1>4, <1>5, <1>6, <1>7
<1>9. t + x <= y
  BY <1>1, <1>4, <1>7, <1>8, MultipleBound
<1>. QED  BY <1>9 DEF m, x, y

\* The limits are the application's, and without a callback no stream is over its own.
LimitInv ==
    /\ \A id \in StreamIds : streams[id].receiveMax \in ReceiveMaxima \cup {0}
    /\ ReceiveMaxEnforcedAtOnce

\* A stream that is paid once by every packet fulfilled after a step was so before.
LEMMA PaidOnceBefore ==
  ASSUME AnswersKept, NEW id, paidOncePerPacket(id)'
  PROVE  paidOncePerPacket(id)
BY DEF AnswersKept, Answers, paidOncePerPacket

\* The step fulfills the packet it credits.
CreditsPacket(packet) ==
    /\ acceptsPacket(packet)
    /\ Credit(packet)
    /\ \A id \in StreamIds : paidOncePerPacket(id)' => paysOnce(packet, id)

\* A step credits the streams of a packet it accepts, or there is a callback, or no
\* total changes.
LEMMA CreditsAccepted ==
  ASSUME StreamInv, [Next]_vars, ~shouldFulfill
  PROVE  SameTotals \/ \E packet \in Packets : CreditsPacket(packet)
<1>1. ASSUME NEW packet \in Packets, ReceivePrepare(packet) PROVE SameTotals
  BY <1>1, ReceiveTotals
<1>2. ASSUME NEW i \in DOMAIN prepares, RejectPrepare(i) \/ DeclinePrepare(i)
      PROVE  SameTotals
  BY <1>2 DEF RejectPrepare, DeclinePrepare, SameTotals
<1>3. ASSUME NEW i \in DOMAIN prepares, OverflowPrepare(i) PROVE SameTotals
  BY <1>3, OtherTotals DEF OverflowPrepare
<1>4. ASSUME NEW i \in DOMAIN prepares, HoldPrepare(i)
      PROVE  \E packet \in Packets : CreditsPacket(packet)
  <2>1. prepares[i].packet \in Packets /\ prepares \in Seq(Prepare) /\ i \in 1 .. Len(prepares)
    BY DEF StreamInv, HoldInv, PreparesInv
  <2>2. /\ acceptsPacket(prepares[i].packet) /\ Credit(prepares[i].packet)
        /\ prepares' = WithStatus(prepares, i, "fulfilled")
    BY <1>4 DEF HoldPrepare, Fulfill, Answer, WithStatus
  <2>3. "fulfilled" \in {"received", "held"} \cup Answers
    BY DEF Answers
  <2>4. /\ prepares' \in Seq(Prepare) /\ Len(prepares') = Len(prepares)
        /\ prepares'[i].status = "fulfilled" /\ prepares'[i].packet = prepares[i].packet
    BY <2>1, <2>2, <2>3, StatusChange
  <2>5. i \in DOMAIN prepares'
    BY <2>1, <2>4
  <2>6. \A id \in StreamIds : paidOncePerPacket(id)' => paysOnce(prepares[i].packet, id)
    BY <2>4, <2>5 DEF paidOncePerPacket, paysOnce
  <2>. QED  BY <2>1, <2>2, <2>6 DEF CreditsPacket
<1>5. ASSUME NEW i \in DOMAIN prepares, FulfillPrepare(i) PROVE FALSE
  BY <1>5 DEF FulfillPrepare, StreamInv, PreparesInv
<1>6. ASSUME NEW id \in StreamIds,
             \/ \E limit \in ReceiveMaxima : setReceiveMax(id, limit)
             \/ createStream(id)
             \/ CloseStream(id)
             \/ removeStreamRecord(id)
      PROVE  SameTotals
  BY <1>6, OtherTotals
<1>7. CASE UNCHANGED vars
  BY <1>7 DEF vars, SameTotals
<1>. QED  BY <1>1, <1>2, <1>3, <1>4, <1>5, <1>6, <1>7 DEF Next

\* An accepted packet takes no stream over its limit that it pays with one frame.
LEMMA AcceptedWithinLimit ==
  ASSUME ExtraFits, StreamInv, LimitInv, ~shouldFulfill, NEW packet \in Packets,
         acceptsPacket(packet), Credit(packet), NEW id \in StreamIds,
         paysOnce(packet, id), paidOncePerPacket(id), ExactLimit(streams[id].receiveMax)
  PROVE  streams'[id].totalReceived <= receiveLimit(streams'[id])
<1>. DEFINE s == streams[id]
            t == s.totalReceived
            limit == s.receiveMax
            c == credited(packet, id)
            u == _addToIncoming(s, c)
            room == multiplyByLongCeil(AllowableReceiveExtra, limit)
<1>1. /\ s \in Stream /\ streams'[id] = u /\ limit \in ReceiveMaxima \cup {0}
  BY DEF StreamInv, Credit, LimitInv
<1>2. validShares(packet)
  BY AcceptedPacket
<1>3. t \in Long /\ limit \in Long /\ t \in Nat /\ limit \in Nat
  BY <1>1, WordAssumption DEF Stream, Long
<1>4. c \in Long /\ c \in Nat
  BY <1>2, CreditIsShare, WordAssumption DEF Long
<1>5. t <= room
  BY DEF LimitInv, ReceiveMaxEnforcedAtOnce, receiveLimit
<1>6. c = 0 \/ c <= maxStreamCanReceive(s)
  <2>1. CASE \E i \in 1 .. Len(packet.money) : packet.money[i].streamId = id
    <3>1. PICK i \in 1 .. Len(packet.money) : packet.money[i].streamId = id
      BY <2>1
    <3>2. i \in DOMAIN packet.money /\ DOMAIN packet.money = 1 .. Len(packet.money)
      BY PacketFields
    <3>3. \A k \in 1 .. Len(packet.money) : packet.money[k].streamId = id => k = i
      BY <3>1, <3>2 DEF paysOnce
    <3>4. c = streamAmount(packet, i)
      BY <1>2, <3>1, <3>3, CreditIsShare
    <3>5. streamAmount(packet, i) <= maxStreamCanReceive(s)
      BY <3>1, <3>2 DEF acceptsPacket
    <3>. QED  BY <3>4, <3>5
  <2>2. CASE ~\E i \in 1 .. Len(packet.money) : packet.money[i].streamId = id
    BY <1>2, <2>2, CreditIsShare
  <2>. QED  BY <2>1, <2>2
<1>7. /\ u.receiveMax = limit
      /\ u.totalReceived <= t + c
      /\ u.totalReceived \in Nat
  <2>. HIDE DEF c
  <2>1. u \in Stream /\ u.receiveMax = limit /\ u.totalReceived <= t + c
    BY <1>1, <1>4, CreditUpdate
  <2>2. u.totalReceived \in Nat
    BY <2>1, WordAssumption DEF Stream, Long
  <2>. QED  BY <2>1, <2>2
<1>8. room \in Nat /\ multiplyByLongCeil(AllowableReceiveExtra, 0) = 0
  <2>1. room \in Nat
    BY <1>1, <1>3, ExtraCeil
  <2>. DEFINE b == AllowableReceiveExtra.b
              z == multiplyByLongCeil(AllowableReceiveExtra, 0)
  <2>2. b \in Nat \ {0} /\ AllowableReceiveExtra.a \in Nat
    BY ReceiveAssumption, WordAssumption DEF Rational, Long
  <2>3. z \in Nat /\ b * z <= 0 * AllowableReceiveExtra.a + (b - 1)
    <3>. DEFINE none == 0
    <3>1. none \in Nat /\ none <= none /\ none \in ReceiveMaxima \cup {0} /\ ExactLimit(none)
      BY ExactZero
    <3>2. z = multiplyByLongCeil(AllowableReceiveExtra, none)
      OBVIOUS
    <3>3. 0 * AllowableReceiveExtra.a = none * AllowableReceiveExtra.a
      OBVIOUS
    <3>. HIDE DEF none, z
    <3>. QED  BY <3>1, <3>2, <3>3, ExtraCeil
  <2>. HIDE DEF b, z
  <2>4. b * z <= b * 0 + (b - 1)
    BY <2>2, <2>3
  <2>5. z <= 0
    BY <2>2, <2>3, <2>4, MultipleBound
  <2>. QED  BY <2>1, <2>3, <2>5 DEF z
<1>9. t + c <= room
  <2>1. CASE c = 0
    BY <1>3, <1>5, <1>8, <2>1
  <2>2. CASE c # 0
    <3>1. c <= maxStreamCanReceive(s)
      BY <1>6, <2>2
    <3>2. CASE limit < t
      <4>1. maxStreamCanReceive(s) = 0
        BY <1>8, <3>2 DEF maxStreamCanReceive, _getAmountStreamCanReceive
      <4>. HIDE DEF c
      <4>. QED  BY <1>4, <2>2, <3>1, <4>1
    <3>3. CASE ~(limit < t)
      <4>1. t <= limit
        BY <1>3, <3>3
      <4>2. checkedSubtract(limit, t).difference = limit - t
        BY <1>3, <4>1, CheckedSubtract
      <4>3. maxStreamCanReceive(s) = multiplyByLongCeil(AllowableReceiveExtra, limit - t)
        BY <3>3, <4>2 DEF maxStreamCanReceive, _getAmountStreamCanReceive
      <4>4. t + multiplyByLongCeil(AllowableReceiveExtra, limit - t) <= room
        BY <1>1, <1>3, <4>1, RemainderWithinLimit
      <4>5. limit - t \in Nat /\ limit - t <= limit
        BY <1>3, <4>1
      <4>6. multiplyByLongCeil(AllowableReceiveExtra, limit - t) \in Nat
        BY <1>1, <1>3, <4>5, ExtraCeil
      <4>. DEFINE rest == multiplyByLongCeil(AllowableReceiveExtra, limit - t)
      <4>7. c <= rest /\ t + rest <= room /\ rest \in Nat
        BY <3>1, <4>3, <4>4, <4>6
      <4>. HIDE DEF rest, room, t, c
      <4>. QED  BY <1>3, <1>4, <1>8, <4>7
    <3>. QED  BY <3>2, <3>3
  <2>. QED  BY <2>1, <2>2
<1>10. receiveLimit(u) = room
  BY <1>7 DEF receiveLimit
<1>11. u.totalReceived <= room
  <2>. HIDE DEF u, room, t, c
  <2>. QED  BY <1>3, <1>4, <1>7, <1>8, <1>9
<1>. QED  BY <1>1, <1>10, <1>11

\* LimitInv is inductive relative to StreamInv.
LEMMA NextLimitInv ==
  ASSUME ExtraFits, StreamInv, LimitInv, [Next]_vars
  PROVE  LimitInv'
<1>1. StepKeeps
  BY StepKept
<1>2. ASSUME NEW id \in StreamIds
      PROVE  /\ streams'[id] \in Stream /\ streams[id] \in Stream
             /\ streams'[id].receiveMax \in ReceiveMaxima \cup {0}
             /\ streams'[id].receiveMax >= streams[id].receiveMax
  BY <1>1 DEF StreamInv, LimitInv, StepKeeps, StreamsKept, KeptStream
<1>3. ASSUME ~shouldFulfill, NEW id \in StreamIds, paidOncePerPacket(id)'
      PROVE  streams'[id].totalReceived <= receiveLimit(streams'[id])
  <2>. paidOncePerPacket(id)
    BY <1>1, <1>3, PaidOnceBefore DEF StepKeeps
  <2>0. CASE ~ExactLimit(streams'[id].receiveMax)
    <3>1. streams'[id].receiveMax \in ReceiveMaxima
      BY <1>2, <2>0, ExactZero
    <3>2. receiveLimit(streams'[id]) = MAX_UNSIGNED_VALUE
      BY <2>0, <3>1 DEF ExtraFits, receiveLimit
    <3>3. streams'[id].totalReceived \in Long
      BY <1>2 DEF Stream
    <3>. QED  BY <3>2, <3>3, WordAssumption DEF Long
  <2>1. CASE SameTotals /\ ExactLimit(streams'[id].receiveMax)
    <3>. DEFINE m == streams[id].receiveMax
                limit == streams'[id].receiveMax
                t == streams[id].totalReceived
                x == multiplyByLongCeil(AllowableReceiveExtra, m)
                y == multiplyByLongCeil(AllowableReceiveExtra, limit)
    <3>1. m \in Nat /\ limit \in Nat /\ t \in Nat
      BY <1>2, WordAssumption DEF Stream, Long
    <3>2. limit \in ReceiveMaxima \cup {0} /\ m <= limit /\ ExactLimit(limit) /\ limit <= limit
      BY <1>2, <2>1, <3>1
    <3>3. t <= x
      BY <1>3 DEF LimitInv, ReceiveMaxEnforcedAtOnce, receiveLimit
    <3>4. streams'[id].totalReceived = t
      BY <2>1 DEF SameTotals
    <3>5. receiveLimit(streams'[id]) = y
      BY DEF receiveLimit
    <3>. HIDE DEF m, limit, t
    <3>6. x <= y
      BY <3>1, <3>2, LimitMonotone
    <3>7. x \in Nat /\ y \in Nat
      BY <3>1, <3>2, ExtraCeil
    <3>. HIDE DEF x, y
    <3>8. t <= y
      BY <3>1, <3>3, <3>6, <3>7
    <3>. QED  BY <3>4, <3>5, <3>8
  <2>2. CASE /\ \E packet \in Packets : CreditsPacket(packet)
             /\ ExactLimit(streams'[id].receiveMax)
    <3>1. PICK packet \in Packets : acceptsPacket(packet) /\ Credit(packet) /\ paysOnce(packet, id)
      BY <1>3, <2>2 DEF CreditsPacket
    <3>2. credited(packet, id) \in Long
      BY <3>1, AcceptedPacket, CreditIsShare
    <3>3. streams'[id] = _addToIncoming(streams[id], credited(packet, id))
      BY <3>1 DEF Credit
    <3>4. streams'[id].receiveMax = streams[id].receiveMax
      BY <1>2, <3>2, <3>3, CreditUpdate
    <3>. QED  BY <1>3, <2>2, <3>1, <3>4, AcceptedWithinLimit
  <2>. QED  BY <1>3, <2>0, <2>1, <2>2, CreditsAccepted
<1>4. ReceiveMaxEnforcedAtOnce'
  BY <1>1, <1>3 DEF StepKeeps, ReceiveMaxEnforcedAtOnce
<1>. QED  BY <1>2, <1>4 DEF LimitInv

\* A new connection's streams have received nothing.
LEMMA InitLimitInv == ExtraFits /\ Init => LimitInv
<1>. SUFFICES ASSUME ExtraFits, Init PROVE LimitInv
  OBVIOUS
<1>1. ASSUME NEW id \in StreamIds
      PROVE  /\ streams[id].receiveMax \in ReceiveMaxima \cup {0}
             /\ streams[id].totalReceived <= receiveLimit(streams[id])
  <2>1. streams[id].receiveMax = 0 /\ streams[id].totalReceived = 0
    BY DEF Init
  <2>2. multiplyByLongCeil(AllowableReceiveExtra, 0) \in Nat
    <3>. DEFINE none == 0
    <3>1. none \in Nat /\ none <= none /\ none \in ReceiveMaxima \cup {0} /\ ExactLimit(none)
      BY ExactZero
    <3>. HIDE DEF none
    <3>2. multiplyByLongCeil(AllowableReceiveExtra, none) \in Nat
      BY <3>1, ExtraCeil
    <3>. QED  BY <3>2 DEF none
  <2>3. 0 <= multiplyByLongCeil(AllowableReceiveExtra, 0)
    BY <2>2
  <2>. QED  BY <2>1, <2>3 DEF receiveLimit
<1>. QED  BY <1>1 DEF LimitInv, ReceiveMaxEnforcedAtOnce

\* "calling `setReceiveMax(100)` twice will only let the stream receive 100 units"
\* (stream.ts:194) and the extra of connection.ts:728, across any sequence of packets
\* and raised limits, when the check and the credit run in one segment, for every
\* stream that each packet pays with one frame; several frames of one packet are each
\* compared alone with the limit.  With a callback between the check and the credit
\* the limit can be exceeded as well (run receive_max_concurrent).
THEOREM LimitKeptAtOnce ==
  ASSUME ExtraFits
  PROVE  Spec => []ReceiveMaxEnforcedAtOnce
<1>1. StreamInv /\ LimitInv /\ [Next]_vars => LimitInv'
  BY NextLimitInv
<1>2. Init => LimitInv
  BY InitLimitInv
<1>3. LimitInv => ReceiveMaxEnforcedAtOnce
  BY DEF LimitInv
<1>. QED  BY <1>1, <1>2, <1>3, StreamInvariance, PTL DEF Spec

=============================================================================
