------------------------ MODULE PaymentSenderProofs -------------------------
(***************************************************************************)
(* Proofs about the send loop of PaymentSender, for all quotes, replies    *)
(* and limits.                                                             *)
(*                                                                         *)
(* The inductive invariant is IInv below.  NoOverpay alone is not          *)
(* inductive: a reply subtracts its packet's amount from the amount in     *)
(* flight with a saturating subtraction, and only if the amount in flight  *)
(* is at least that packet's amount is the sum preserved.  The ledger says *)
(* that: the amount in flight is the last value of a prefix sum over the   *)
(* requests in flight.                                                     *)
(***************************************************************************)
EXTENDS PaymentSender, PrefixSums, TLAPS

-----------------------------------------------------------------------------
(* Arithmetic *)

\* Integer division of a natural by a positive amount is natural.
LEMMA DivNat ==
  ASSUME NEW n \in Nat, NEW d \in PositiveInt
  PROVE  n \div d \in Nat
BY DEF PositiveInt

\* Products of naturals are natural, of positive amounts positive.
LEMMA MulNat ==
  ASSUME NEW n \in Nat, NEW m \in Nat
  PROVE  n * m \in Nat
OBVIOUS

\* Products of positive amounts are positive.
LEMMA MulPositive ==
  ASSUME NEW n \in PositiveInt, NEW m \in PositiveInt
  PROVE  n * m \in PositiveInt
BY DEF PositiveInt

\* Int.divideCeil returns a natural, and rounds a positive amount up to at least 1.
LEMMA DivideCeilNat ==
  ASSUME NEW n \in Nat, NEW d \in PositiveInt
  PROVE  divideCeil(n, d) \in Nat
<1>1. n + d - 1 \in Nat
  BY DEF PositiveInt
<1>. QED  BY <1>1, DivNat DEF divideCeil

\* divideCeil of positive amounts is positive.
LEMMA DivideCeilPositive ==
  ASSUME NEW n \in PositiveInt, NEW d \in PositiveInt
  PROVE  divideCeil(n, d) \in PositiveInt
<1>1. n + d - 1 \in Nat /\ n + d - 1 >= d
  BY DEF PositiveInt
<1>2. (n + d - 1) \div d >= 1
  BY <1>1 DEF PositiveInt
<1>. QED  BY <1>1, <1>2, DivNat DEF divideCeil, PositiveInt

\* saturatingSubtract stays natural.
LEMMA SubtractNat ==
  ASSUME NEW n \in Nat, NEW m \in Nat
  PROVE  saturatingSubtract(n, m) \in Nat /\ saturatingSubtract(n, m) <= n
BY DEF saturatingSubtract

\* orLesser returns one of its arguments, the one that is known.
LEMMA OrLesserType ==
  ASSUME NEW n \in Nat, NEW m \in OptionalAmount
  PROVE  /\ orLesser(n, m) \in Nat
         /\ orLesser(n, m) <= n
         /\ m # undefined => orLesser(n, m) <= m
         /\ n \in PositiveInt /\ (m = undefined \/ m \in PositiveInt)
               => orLesser(n, m) \in PositiveInt
BY UndefinedAssumption DEF orLesser, OptionalAmount, PositiveInt

\* orGreater returns one of its arguments, the one that is known.
LEMMA OrGreaterType ==
  ASSUME NEW n \in Nat, NEW m \in OptionalAmount
  PROVE  /\ orGreater(n, m) \in Nat
         /\ orGreater(n, m) >= n
         /\ m # undefined => orGreater(n, m) >= m
BY UndefinedAssumption DEF orGreater, OptionalAmount

\* multiplyFloor and multiplyCeil of a natural by a ratio are natural.
LEMMA MultiplyNat ==
  ASSUME NEW n \in Nat, NEW r \in Ratio
  PROVE  multiplyFloor(n, r) \in Nat /\ multiplyCeil(n, r) \in Nat
<1>1. r.a \in Nat /\ r.b \in PositiveInt
  BY DEF Ratio
<1>2. n * r.a \in Nat
  BY <1>1, MulNat
<1>. QED  BY <1>1, <1>2, DivNat, DivideCeilNat DEF multiplyFloor, multiplyCeil

\* multiplyCeil of a positive amount by a positive ratio is positive.
LEMMA MultiplyCeilPositive ==
  ASSUME NEW n \in PositiveInt, NEW r \in PositiveRatio
  PROVE  multiplyCeil(n, r) \in PositiveInt
<1>1. r.a \in PositiveInt /\ r.b \in PositiveInt
  BY DEF PositiveRatio
<1>2. n * r.a \in PositiveInt
  BY <1>1, MulPositive
<1>. QED  BY <1>1, <1>2, DivideCeilPositive DEF multiplyCeil

\* A positive ratio is a ratio.
LEMMA PositiveRatioIsRatio ==
  ASSUME NEW r \in PositiveRatio
  PROVE  r \in Ratio
BY DEF Ratio, PositiveRatio, PositiveInt

-----------------------------------------------------------------------------
(* ExchangeRateController *)

\* A reply keeps the rate bounds well typed.
LEMMA ObserveRateType ==
  ASSUME NEW rate \in RateBounds, NEW s \in PositiveInt, NEW d \in OptionalAmount
  PROVE  observeRate(rate, s, d) \in RateBounds
<1>. DEFINE new == observeRate(rate, s, d)
<1>1. rate.lowerBoundRate \in Ratio /\ rate.upperBoundRate \in PositiveRatio
  BY DEF RateBounds
<1>2. CASE d = undefined
  BY <1>2 DEF observeRate
<1>3. CASE d # undefined
  <2>1. d \in Nat /\ d + 1 \in PositiveInt
    BY <1>3 DEF OptionalAmount, PositiveInt
  <2>2. RatioOf(d, s) \in Ratio /\ RatioOf(d + 1, s) \in PositiveRatio
    BY <2>1 DEF RatioOf, Ratio, PositiveRatio
  <2>. QED  BY <1>1, <2>2, <1>3 DEF observeRate, RateBounds, PositiveInt
<1>. QED  BY <1>2, <1>3

\* A reply leaves a rate between the bounds.
LEMMA ObserveRateOrdered ==
  ASSUME NEW rate \in RateBounds, NEW s \in PositiveInt, NEW d \in OptionalAmount,
         isLessThan(rate.lowerBoundRate, rate.upperBoundRate)
  PROVE  isLessThan(observeRate(rate, s, d).lowerBoundRate,
                    observeRate(rate, s, d).upperBoundRate)
<1>1. rate.lowerBoundRate \in Ratio /\ rate.upperBoundRate \in PositiveRatio
  BY DEF RateBounds
<1>2. CASE d = undefined
  BY <1>2 DEF observeRate
<1>3. CASE d # undefined
  <2>. DEFINE low == rate.lowerBoundRate
              high == rate.upperBoundRate
              packetLow == RatioOf(d, s)
              packetHigh == RatioOf(d + 1, s)
  <2>1. d \in Nat
    BY <1>3 DEF OptionalAmount
  <2>2. /\ packetLow.a = d /\ packetLow.b = s
        /\ packetHigh.a = d + 1 /\ packetHigh.b = s
    BY DEF RatioOf
  <2>3. /\ low.a \in Nat /\ low.b \in PositiveInt
        /\ high.a \in PositiveInt /\ high.b \in PositiveInt
    BY <1>1 DEF Ratio, PositiveRatio
  <2>4. isLessThan(packetLow, packetHigh)
    <3>1. d * s < s * (d + 1)
      BY <2>1 DEF PositiveInt
    <3>. QED  BY <3>1, <2>2 DEF isLessThan
  <2>5. ~isLessThanOrEqualTo(packetHigh, low) => isLessThan(low, packetHigh)
    <3>1. /\ low.a * s \in Nat /\ low.b * (d + 1) \in Nat
          /\ s * low.a = low.a * s /\ (d + 1) * low.b = low.b * (d + 1)
      BY <2>1, <2>3 DEF PositiveInt
    <3>. QED  BY <3>1, <2>2 DEF isLessThan, isLessThanOrEqualTo
  <2>6. ~isLessThanOrEqualTo(high, packetLow) => isLessThan(packetLow, high)
    <3>1. /\ high.a * s \in Nat /\ high.b * d \in Nat
          /\ s * high.a = high.a * s /\ d * high.b = high.b * d
      BY <2>1, <2>3 DEF PositiveInt
    <3>. QED  BY <3>1, <2>2 DEF isLessThan, isLessThanOrEqualTo
  <2>. HIDE DEF packetLow, packetHigh, low, high
  <2>7. observeRate(rate, s, d) =
          [lowerBoundRate |->
             IF \/ isLessThanOrEqualTo(packetHigh, low)
                \/ isLessThanOrEqualTo(high, packetLow)
                \/ isLessThan(low, packetLow)
             THEN packetLow ELSE low,
           upperBoundRate |->
             IF \/ isLessThanOrEqualTo(packetHigh, low)
                \/ isLessThanOrEqualTo(high, packetLow)
                \/ isLessThan(packetHigh, high)
             THEN packetHigh ELSE high]
    BY <1>3 DEF observeRate, packetLow, packetHigh, low, high, PositiveInt
  <2>8. isLessThan(low, high)
    BY DEF low, high
  <2>. QED  BY <2>4, <2>5, <2>6, <2>7, <2>8
<1>. QED  BY <1>2, <1>3

-----------------------------------------------------------------------------
(* MaxPacketAmountController *)

\* A known maximum is positive, and the verified capacity is within it.
MaxPacketOK(mp) ==
    /\ mp \in MaxPacketState
    /\ mp.type # "UnknownMax"
    /\ mp.maxPacketAmount \in PositiveInt
    /\ mp.verifiedPathCapacity <= mp.maxPacketAmount

\* adjustPathCapacity restores the bound on the capacity and keeps the maximum.
LEMMA AdjustPathCapacityOK ==
  ASSUME NEW mp \in MaxPacketState, NEW ack \in Nat,
         mp.type # "UnknownMax", mp.maxPacketAmount \in PositiveInt
  PROVE  /\ MaxPacketOK(adjustPathCapacity(mp, ack))
         /\ adjustPathCapacity(mp, ack).maxPacketAmount = mp.maxPacketAmount
<1>. DEFINE capacity == orLesser(orGreater(mp.verifiedPathCapacity, ack),
                                 getMaxPacketAmountLimit(mp))
<1>1. getMaxPacketAmountLimit(mp) = mp.maxPacketAmount
  BY DEF getMaxPacketAmountLimit
<1>2. /\ mp.verifiedPathCapacity \in Nat
      /\ mp.maxPacketAmount \in Nat /\ mp.maxPacketAmount \in OptionalAmount
      /\ mp.maxPacketAmount # undefined
  BY UndefinedAssumption DEF MaxPacketState, PositiveInt, OptionalAmount
<1>3. orGreater(mp.verifiedPathCapacity, ack) \in Nat
  BY <1>2, OrGreaterType DEF OptionalAmount
<1>4. capacity \in Nat /\ capacity <= mp.maxPacketAmount
  BY <1>1, <1>2, <1>3, OrLesserType
<1>. HIDE DEF capacity
<1>5. adjustPathCapacity(mp, ack) =
        [type |-> IF mp.type = "ImpreciseMax" /\ capacity = mp.maxPacketAmount
                  THEN "PreciseMax" ELSE mp.type,
         maxPacketAmount |-> mp.maxPacketAmount,
         verifiedPathCapacity |-> capacity]
  BY DEF adjustPathCapacity, capacity
<1>. QED  BY <1>4, <1>5 DEF MaxPacketOK, MaxPacketState

\* An F08 keeps the state consistent and never raises the maximum.
LEMMA ReduceMaxPacketOK ==
  ASSUME NEW mp, MaxPacketOK(mp), NEW s \in PositiveInt,
         NEW metadata \in [received : Nat, maximum : Nat] \cup {undefined}
  PROVE  /\ MaxPacketOK(reduceMaxPacketAmount(mp, metadata, s))
         /\ reduceMaxPacketAmount(mp, metadata, s).maxPacketAmount <= mp.maxPacketAmount
<1>. DEFINE newMax == newMaxOf(metadata, s)
            reduced == [type |-> IF metadata = undefined THEN "ImpreciseMax"
                                                         ELSE "PreciseMax",
                        maxPacketAmount |-> newMax,
                        verifiedPathCapacity |-> mp.verifiedPathCapacity]
<1>1. CASE \/ invalidF08(metadata) \/ newMax = 0
           \/ mp.type # "UnknownMax" /\ newMax >= mp.maxPacketAmount
  BY <1>1 DEF reduceMaxPacketAmount, MaxPacketOK, PositiveInt
<1>2. CASE ~(\/ invalidF08(metadata) \/ newMax = 0
             \/ mp.type # "UnknownMax" /\ newMax >= mp.maxPacketAmount)
  <2>1. newMax \in Nat
    <3>1. CASE metadata = undefined
      BY <3>1, SubtractNat DEF newMaxOf, PositiveInt
    <3>2. CASE metadata # undefined
      <4>1. metadata.received \in PositiveInt /\ metadata.maximum \in Nat
        BY <1>2, <3>2 DEF invalidF08, PositiveInt
      <4>2. RatioOf(s, metadata.received) \in Ratio
        BY <4>1 DEF RatioOf, Ratio, PositiveInt
      <4>. QED  BY <3>2, <4>1, <4>2, MultiplyNat DEF newMaxOf
    <3>. QED  BY <3>1, <3>2
  <2>2. newMax \in PositiveInt /\ newMax < mp.maxPacketAmount
    BY <1>2, <2>1 DEF MaxPacketOK, PositiveInt
  <2>. HIDE DEF newMax
  <2>3. /\ reduced \in MaxPacketState
        /\ reduced.type # "UnknownMax"
        /\ reduced.maxPacketAmount = newMax
    BY <2>1 DEF MaxPacketOK, MaxPacketState, OptionalAmount
  <2>4. mp.verifiedPathCapacity \in Nat
    BY DEF MaxPacketOK, MaxPacketState
  <2>5. reduceMaxPacketAmount(mp, metadata, s)
          = adjustPathCapacity(reduced, mp.verifiedPathCapacity)
    BY <1>2 DEF reduceMaxPacketAmount, newMax
  <2>. HIDE DEF reduced
  <2>6. /\ MaxPacketOK(adjustPathCapacity(reduced, mp.verifiedPathCapacity))
        /\ adjustPathCapacity(reduced, mp.verifiedPathCapacity).maxPacketAmount = newMax
    BY <2>2, <2>3, <2>4, AdjustPathCapacityOK
  <2>7. newMax <= mp.maxPacketAmount
    BY <2>2 DEF MaxPacketOK, PositiveInt
  <2>. QED  BY <2>5, <2>6, <2>7
<1>. QED  BY <1>1, <1>2

\* The next packet amount is positive and within the maximum.
LEMMA NextMaxPacketAmount ==
  ASSUME NEW mp, MaxPacketOK(mp)
  PROVE  /\ getNextMaxPacketAmount(mp) \in PositiveInt
         /\ getNextMaxPacketAmount(mp) <= mp.maxPacketAmount
<1>1. CASE mp.type = "PreciseMax"
  BY <1>1 DEF getNextMaxPacketAmount, MaxPacketOK, PositiveInt
<1>2. CASE mp.type = "ImpreciseMax"
  <2>. DEFINE gap == mp.maxPacketAmount - mp.verifiedPathCapacity
  <2>1. /\ mp.maxPacketAmount \in Nat /\ mp.maxPacketAmount > 0
        /\ mp.verifiedPathCapacity \in Nat /\ gap \in Nat
    BY DEF MaxPacketOK, MaxPacketState, PositiveInt
  <2>2. saturatingSubtract(mp.maxPacketAmount, mp.verifiedPathCapacity) = gap
    BY <2>1 DEF saturatingSubtract, MaxPacketOK
  <2>3. \A g \in Nat : /\ (g + 2 - 1) \div 2 \in Nat /\ (g + 2 - 1) \div 2 <= g
                       /\ g > 0 => (g + 2 - 1) \div 2 > 0
    OBVIOUS
  <2>. DEFINE half == (gap + 2 - 1) \div 2
  <2>4. getNextMaxPacketAmount(mp) = half + mp.verifiedPathCapacity
    BY <1>2, <2>2 DEF getNextMaxPacketAmount, divideCeil
  <2>5. half \in Nat /\ half <= gap /\ (gap > 0 => half > 0)
    BY <2>1, <2>3
  <2>. HIDE DEF half
  <2>6. \A h, m, c \in Nat : /\ m > 0 /\ h <= m - c /\ (m - c > 0 => h > 0)
                            => h + c \in Nat /\ h + c > 0 /\ h + c <= m
    OBVIOUS
  <2>7. /\ half + mp.verifiedPathCapacity \in Nat
        /\ half + mp.verifiedPathCapacity > 0
        /\ half + mp.verifiedPathCapacity <= mp.maxPacketAmount
    BY <2>1, <2>5, <2>6
  <2>. QED  BY <2>4, <2>7 DEF PositiveInt
<1>. QED  BY <1>1, <1>2 DEF MaxPacketOK, MaxPacketState

-----------------------------------------------------------------------------
(* The ledgers of the requests in flight *)

HeldSource(rs) ==
    [k \in 1 .. Len(rs) |-> IF rs[k].status = "inFlight" THEN rs[k].sourceAmount ELSE 0]

HeldDestination(rs) ==
    [k \in 1 .. Len(rs) |->
        IF rs[k].status = "inFlight" THEN rs[k].highEndDestinationAmount ELSE 0]

HeldCount(rs) ==
    [k \in 1 .. Len(rs) |-> IF rs[k].status = "inFlight" THEN 1 ELSE 0]

\* The totals s, d and c are those of the requests rs.
Ledger(rs, s, d, c) ==
    /\ SumIs(HeldSource(rs), Len(rs), s)
    /\ SumIs(HeldDestination(rs), Len(rs), d)
    /\ SumIs(HeldCount(rs), Len(rs), c)

\* A member of a sequence of requests has the fields of a request.
LEMMA RequestAt ==
  ASSUME NEW rs \in Seq(Request), NEW i \in 1 .. Len(rs)
  PROVE  /\ rs[i] \in Request
         /\ rs[i].sourceAmount \in Nat /\ rs[i].sourceAmount > 0
         /\ rs[i].highEndDestinationAmount \in Nat
         /\ rs[i].minDestinationAmount \in Nat
         /\ rs[i].applyCorrection \in BOOLEAN
<1>1. rs[i] \in Request
  OBVIOUS
<1>. QED  BY <1>1 DEF Request, PositiveInt

\* Deciding a request's fate keeps it a request.
LEMMA SettledRequest ==
  ASSUME NEW r \in Request, NEW st \in {"fulfilled", "rejected", "expired"}
  PROVE  [r EXCEPT !.status = st] \in Request /\ [r EXCEPT !.status = st].status = st
<1>1. [r EXCEPT !.status = st] \in Request
  BY DEF Request
<1>2. [r EXCEPT !.status = st].status = st
  BY DEF Request
<1>. QED  BY <1>1, <1>2, Zenon

\* The held amounts of a sequence of requests are natural.
LEMMA HeldTypes ==
  ASSUME NEW rs \in Seq(Request)
  PROVE  /\ HeldSource(rs) \in [1 .. Len(rs) -> Nat]
         /\ HeldDestination(rs) \in [1 .. Len(rs) -> Nat]
         /\ HeldCount(rs) \in [1 .. Len(rs) -> Nat]
BY RequestAt DEF HeldSource, HeldDestination, HeldCount

\* Sending a packet adds its amounts to the ledgers.
LEMMA LedgerSend ==
  ASSUME NEW rs \in Seq(Request), NEW s, NEW d, NEW c, Ledger(rs, s, d, c),
         NEW r \in Request, r.status = "inFlight"
  PROVE  Ledger(Append(rs, r), s + r.sourceAmount, d + r.highEndDestinationAmount, c + 1)
<1>. DEFINE n == Len(rs)
            new == Append(rs, r)
<1>1. /\ n \in Nat /\ new \in Seq(Request) /\ Len(new) = n + 1
      /\ new[n + 1] = r /\ \A k \in 1 .. n : new[k] = rs[k]
  OBVIOUS
<1>. HIDE DEF new
<1>2. /\ HeldSource(new) \in [1 .. n + 1 -> Nat]
      /\ HeldDestination(new) \in [1 .. n + 1 -> Nat]
      /\ HeldCount(new) \in [1 .. n + 1 -> Nat]
  BY <1>1, HeldTypes
<1>3. \A k \in 1 .. n : /\ HeldSource(new)[k] = HeldSource(rs)[k]
                        /\ HeldDestination(new)[k] = HeldDestination(rs)[k]
                        /\ HeldCount(new)[k] = HeldCount(rs)[k]
  BY <1>1 DEF HeldSource, HeldDestination, HeldCount
<1>4. /\ HeldSource(new)[n + 1] = r.sourceAmount
      /\ HeldDestination(new)[n + 1] = r.highEndDestinationAmount
      /\ HeldCount(new)[n + 1] = 1
  BY <1>1 DEF HeldSource, HeldDestination, HeldCount
<1>5. SumIs(HeldSource(new), n + 1, s + r.sourceAmount)
  BY <1>1, <1>2, <1>3, <1>4, HeldTypes, SumExtend DEF Ledger
<1>6. SumIs(HeldDestination(new), n + 1, d + r.highEndDestinationAmount)
  BY <1>1, <1>2, <1>3, <1>4, HeldTypes, SumExtend DEF Ledger
<1>7. SumIs(HeldCount(new), n + 1, c + 1)
  BY <1>1, <1>2, <1>3, <1>4, HeldTypes, SumExtend DEF Ledger
<1>. QED  BY <1>1, <1>5, <1>6, <1>7 DEF Ledger, new

\* A reply finds its packet's amounts in the ledgers and takes them out.
LEMMA LedgerSettle ==
  ASSUME NEW rs \in Seq(Request), NEW s, NEW d, NEW c, Ledger(rs, s, d, c),
         NEW i \in 1 .. Len(rs), rs[i].status = "inFlight",
         NEW st \in {"fulfilled", "rejected", "expired"}
  PROVE  LET new == [rs EXCEPT ![i].status = st]
         IN  /\ new \in Seq(Request)
             /\ s \in Nat /\ d \in Nat /\ c \in Nat
             /\ rs[i].sourceAmount <= s
             /\ rs[i].highEndDestinationAmount <= d
             /\ 1 <= c
             /\ Ledger(new, s - rs[i].sourceAmount, d - rs[i].highEndDestinationAmount,
                       c - 1)
<1>. DEFINE n == Len(rs)
            new == [rs EXCEPT ![i].status = st]
<1>. DEFINE q == [rs[i] EXCEPT !.status = st]
<1>0. rs[i] \in Request
  BY RequestAt
<1>1. q \in Request /\ q.status = st
  BY <1>0, SettledRequest, Zenon
<1>a. new = [rs EXCEPT ![i] = q]
  BY Zenon
<1>. HIDE DEF new, q
<1>2. /\ n \in Nat /\ new \in Seq(Request) /\ Len(new) = n
      /\ \A k \in 1 .. n : k # i => new[k] = rs[k]
      /\ new[i].status = st
  BY <1>1, <1>a
<1>3. /\ HeldSource(new) \in [1 .. n -> Nat] /\ HeldSource(rs) \in [1 .. n -> Nat]
      /\ HeldDestination(new) \in [1 .. n -> Nat] /\ HeldDestination(rs) \in [1 .. n -> Nat]
      /\ HeldCount(new) \in [1 .. n -> Nat] /\ HeldCount(rs) \in [1 .. n -> Nat]
  BY <1>2, HeldTypes
<1>4. \A k \in 1 .. n : k # i =>
         /\ HeldSource(new)[k] = HeldSource(rs)[k]
         /\ HeldDestination(new)[k] = HeldDestination(rs)[k]
         /\ HeldCount(new)[k] = HeldCount(rs)[k]
  BY <1>2 DEF HeldSource, HeldDestination, HeldCount
<1>5. HeldSource(new)[i] = 0 /\ HeldDestination(new)[i] = 0 /\ HeldCount(new)[i] = 0
  BY <1>2 DEF HeldSource, HeldDestination, HeldCount
<1>6. /\ HeldSource(rs)[i] = rs[i].sourceAmount
      /\ HeldDestination(rs)[i] = rs[i].highEndDestinationAmount
      /\ HeldCount(rs)[i] = 1
  BY DEF HeldSource, HeldDestination, HeldCount
<1>7. /\ s \in Nat /\ rs[i].sourceAmount <= s
      /\ SumIs(HeldSource(new), n, s - rs[i].sourceAmount)
  <2>1. SumIs(HeldSource(rs), n, s)
    BY DEF Ledger
  <2>2. /\ HeldSource(new) \in [1 .. n -> Nat] /\ HeldSource(rs) \in [1 .. n -> Nat]
        /\ \A k \in 1 .. n : k # i => HeldSource(new)[k] = HeldSource(rs)[k]
        /\ HeldSource(new)[i] = 0
    BY <1>3, <1>4, <1>5
  <2>3. /\ s \in Nat /\ HeldSource(rs)[i] <= s
        /\ SumIs(HeldSource(new), n, s - HeldSource(rs)[i])
    BY <1>2, <2>1, <2>2, SumSettle
  <2>. QED  BY <1>6, <2>3
<1>8. /\ d \in Nat /\ rs[i].highEndDestinationAmount <= d
      /\ SumIs(HeldDestination(new), n, d - rs[i].highEndDestinationAmount)
  <2>1. SumIs(HeldDestination(rs), n, d)
    BY DEF Ledger
  <2>2. /\ HeldDestination(new) \in [1 .. n -> Nat] /\ HeldDestination(rs) \in [1 .. n -> Nat]
        /\ \A k \in 1 .. n : k # i => HeldDestination(new)[k] = HeldDestination(rs)[k]
        /\ HeldDestination(new)[i] = 0
    BY <1>3, <1>4, <1>5
  <2>3. /\ d \in Nat /\ HeldDestination(rs)[i] <= d
        /\ SumIs(HeldDestination(new), n, d - HeldDestination(rs)[i])
    BY <1>2, <2>1, <2>2, SumSettle
  <2>. QED  BY <1>6, <2>3
<1>9. /\ c \in Nat /\ 1 <= c
      /\ SumIs(HeldCount(new), n, c - 1)
  <2>1. SumIs(HeldCount(rs), n, c)
    BY DEF Ledger
  <2>2. /\ HeldCount(new) \in [1 .. n -> Nat] /\ HeldCount(rs) \in [1 .. n -> Nat]
        /\ \A k \in 1 .. n : k # i => HeldCount(new)[k] = HeldCount(rs)[k]
        /\ HeldCount(new)[i] = 0
    BY <1>3, <1>4, <1>5
  <2>3. /\ c \in Nat /\ HeldCount(rs)[i] <= c
        /\ SumIs(HeldCount(new), n, c - HeldCount(rs)[i])
    BY <1>2, <2>1, <2>2, SumSettle
  <2>. QED  BY <1>6, <2>3
<1>10. Ledger(new, s - rs[i].sourceAmount, d - rs[i].highEndDestinationAmount, c - 1)
  BY <1>2, <1>7, <1>8, <1>9 DEF Ledger
<1>. QED  BY <1>2, <1>7, <1>8, <1>9, <1>10, Zenon DEF new

\* With no source amount in flight, no request is.
LEMMA LedgerZero ==
  ASSUME NEW rs \in Seq(Request), NEW s, NEW d, NEW c, Ledger(rs, s, d, c), s = 0,
         NEW i \in 1 .. Len(rs)
  PROVE  rs[i].status # "inFlight"
<1>1. SumIs(HeldSource(rs), Len(rs), 0) /\ HeldSource(rs) \in [1 .. Len(rs) -> Nat]
  BY HeldTypes DEF Ledger
<1>2. HeldSource(rs)[i] = 0
  BY <1>1, SumZero
<1>. QED  BY <1>2, RequestAt DEF HeldSource

-----------------------------------------------------------------------------
(* The inductive invariant *)

\* The loop has a result exactly when it stopped sending.
LoopResult == (loop = "running") <=> (result = "none")

InFlightSums ==
    Ledger(requests, sourceAmountInFlight, destinationAmountInFlight, inFlightCount)

IInv ==
    /\ TypeOK
    /\ MaxPacketOK(maxPacketController)
    /\ RateIntervalNonEmpty
    /\ InFlightSums
    /\ NoOverpay
    /\ LoopResult
    /\ DoneIsSettled

\* The quotes of startQuote are well typed.
LEMMA QuoteType ==
  ASSUME NEW t \in Targets, acceptable(t)
  PROVE  startQuote(t) \in Quote
<1>1. /\ t.paymentType \in PaymentTypes /\ t.amount \in PositiveInt
      /\ t.minExchangeRate \in Ratio /\ t.maxPacketAmount \in PositiveInt
  BY TargetsAssumption DEF Target
<1>2. maxSourceAmountOf(t) \in Nat
  <2>1. CASE t.paymentType = "FixedSend"
    BY <1>1, <2>1 DEF maxSourceAmountOf, PositiveInt
  <2>2. CASE t.paymentType = "FixedDelivery"
    <3>1. t.minExchangeRate.a > 0
      BY <2>2 DEF acceptable
    <3>2. reciprocal(t.minExchangeRate) \in Ratio
      BY <1>1, <3>1 DEF reciprocal, RatioOf, Ratio, PositiveInt
    <3>3. multiplyFloor(t.amount, reciprocal(t.minExchangeRate)) \in Nat
      BY <1>1, <3>2, MultiplyNat DEF PositiveInt
    <3>. QED  BY <2>2, <3>3 DEF maxSourceAmountOf
  <2>. QED  BY <1>1, <2>1, <2>2 DEF PaymentTypes
<1>3. minDeliveryAmountOf(t) \in Nat
  <2>1. saturatingSubtract(t.amount, 1) \in Nat
    BY <1>1, SubtractNat DEF PositiveInt
  <2>2. multiplyCeil(saturatingSubtract(t.amount, 1), t.minExchangeRate) \in Nat
    BY <1>1, <2>1, MultiplyNat
  <2>. QED  BY <1>1, <2>2 DEF minDeliveryAmountOf, PositiveInt
<1>. QED  BY <1>1, <1>2, <1>3 DEF startQuote, Quote

\* Every payment starts in the inductive invariant.
LEMMA InitIInv == Init => IInv
<1>. SUFFICES ASSUME Init PROVE IInv
  OBVIOUS
<1>1. PICK t \in Targets : /\ acceptable(t)
                           /\ quote = startQuote(t)
                           /\ rateCalculator = t.rate
                           /\ maxPacketController = NewMaxPacket(t.maxPacketAmount)
  BY DEF Init
<1>2. /\ t \in Target /\ isLessThan(t.rate.lowerBoundRate, t.rate.upperBoundRate)
      /\ t.rate \in RateBounds /\ t.maxPacketAmount \in PositiveInt
  BY TargetsAssumption DEF Target
<1>3. quote \in Quote
  BY <1>1, QuoteType
<1>4. MaxPacketOK(maxPacketController)
  BY <1>1, <1>2, UndefinedAssumption
     DEF MaxPacketOK, NewMaxPacket, MaxPacketState, OptionalAmount, PositiveInt
<1>5. requests = <<>> /\ requests \in Seq(Request) /\ Len(requests) = 0
  BY DEF Init
<1>6. TypeOK
  BY <1>1, <1>2, <1>3, <1>4, <1>5 DEF Init, TypeOK, MaxPacketOK, OptionalAmount
<1>7. RateIntervalNonEmpty
  BY <1>1, <1>2 DEF RateIntervalNonEmpty
<1>8. InFlightSums
  BY <1>5, SumEmpty DEF Init, InFlightSums, Ledger
<1>9. NoOverpay
  BY <1>3 DEF Init, NoOverpay, Quote
<1>10. LoopResult /\ DoneIsSettled
  BY DEF Init, LoopResult, DoneIsSettled
<1>. QED  BY <1>4, <1>6, <1>7, <1>8, <1>9, <1>10 DEF IInv

-----------------------------------------------------------------------------
(* Steps *)

\* The amounts of the packet nextState commits to.
LEMMA PacketAmounts ==
  ASSUME IInv, ~nothingToSend, ~insufficientRate
  PROVE  /\ packetSourceAmount \in PositiveInt
         /\ amountSent + sourceAmountInFlight + packetSourceAmount <= quote.maxSourceAmount
         /\ minDestinationAmount \in Nat
         /\ highEndDestination(rateCalculator, packetSourceAmount) \in Nat
<1>1. /\ quote \in Quote /\ amountSent \in Nat /\ amountDelivered \in Nat
      /\ sourceAmountInFlight \in Nat /\ destinationAmountInFlight \in Nat
      /\ rateCalculator \in RateBounds
      /\ amountSent + sourceAmountInFlight <= quote.maxSourceAmount
      /\ MaxPacketOK(maxPacketController)
  BY DEF IInv, TypeOK, NoOverpay
<1>2. /\ quote.maxSourceAmount \in Nat /\ quote.minDeliveryAmount \in Nat
      /\ quote.minExchangeRate \in Ratio /\ quote.paymentType \in PaymentTypes
  BY <1>1 DEF Quote
<1>3. /\ availableToSend \in PositiveInt
      /\ availableToSend = quote.maxSourceAmount - amountSent - sourceAmountInFlight
  BY <1>1, <1>2 DEF nothingToSend, availableToSend, saturatingSubtract, PositiveInt
<1>. DEFINE capped == orLesser(orLesser(availableToSend,
                                        getNextMaxPacketAmount(maxPacketController)),
                               MaxU64)
<1>4. capped \in PositiveInt /\ capped <= availableToSend
  <2>1. /\ getNextMaxPacketAmount(maxPacketController) \in PositiveInt
        /\ MaxU64 \in PositiveInt
    BY <1>1, NextMaxPacketAmount, MaxU64Assumption DEF PositiveInt
  <2>. DEFINE first == orLesser(availableToSend, getNextMaxPacketAmount(maxPacketController))
  <2>2. first \in PositiveInt /\ first <= availableToSend
    BY <1>3, <2>1, OrLesserType DEF OptionalAmount, PositiveInt
  <2>. HIDE DEF first
  <2>3. orLesser(first, MaxU64) \in PositiveInt /\ orLesser(first, MaxU64) <= first
    BY <2>1, <2>2, OrLesserType DEF OptionalAmount, PositiveInt
  <2>. QED  BY <1>3, <2>2, <2>3 DEF first, PositiveInt
<1>. HIDE DEF capped
<1>5. packetSourceAmount \in PositiveInt /\ packetSourceAmount <= availableToSend
  <2>1. CASE quote.paymentType = "FixedSend"
    BY <1>4, <2>1 DEF packetSourceAmount, capped
  <2>2. CASE quote.paymentType = "FixedDelivery"
    <3>1. remainingToDeliver \in PositiveInt
      <4>1. remainingToDeliver \in Nat
        BY <1>1, <1>2, SubtractNat DEF remainingToDeliver
      <4>. QED  BY <2>2, <4>1 DEF nothingToSend, PositiveInt
    <3>2. rateCalculator.lowerBoundRate \in Ratio
      BY <1>1 DEF RateBounds
    <3>3. sourceAmountDeliveryLimit # undefined
      BY <2>2 DEF insufficientRate
    <3>4. /\ rateCalculator.lowerBoundRate.a > 0
          /\ sourceAmountDeliveryLimit
               = multiplyCeil(remainingToDeliver, reciprocal(rateCalculator.lowerBoundRate))
      BY <3>3 DEF sourceAmountDeliveryLimit, highEndSource, reciprocal
    <3>5. reciprocal(rateCalculator.lowerBoundRate) \in PositiveRatio
      BY <3>2, <3>4 DEF reciprocal, RatioOf, Ratio, PositiveRatio, PositiveInt
    <3>6. sourceAmountDeliveryLimit \in PositiveInt
      BY <3>1, <3>4, <3>5, MultiplyCeilPositive
    <3>7. packetSourceAmount = orLesser(capped, sourceAmountDeliveryLimit)
      BY <2>2 DEF packetSourceAmount, capped
    <3>8. /\ orLesser(capped, sourceAmountDeliveryLimit) \in PositiveInt
          /\ orLesser(capped, sourceAmountDeliveryLimit) <= capped
      BY <1>4, <3>6, OrLesserType DEF OptionalAmount, PositiveInt
    <3>. QED  BY <1>3, <1>4, <3>7, <3>8 DEF PositiveInt
  <2>. QED  BY <1>2, <2>1, <2>2 DEF PaymentTypes
<1>6. minDestinationAmount \in Nat
  <2>1. packetSourceAmount \in Nat /\ saturatingSubtract(packetSourceAmount, 1) \in Nat
    BY <1>5, SubtractNat DEF PositiveInt
  <2>2. /\ multiplyCeil(packetSourceAmount, quote.minExchangeRate) \in Nat
        /\ multiplyCeil(saturatingSubtract(packetSourceAmount, 1), quote.minExchangeRate)
             \in Nat
    BY <1>2, <2>1, MultiplyNat
  <2>. QED  BY <2>2 DEF minDestinationAmount
<1>7. highEndDestination(rateCalculator, packetSourceAmount) \in Nat
  <2>1. rateCalculator.upperBoundRate \in Ratio /\ packetSourceAmount \in Nat
    BY <1>1, <1>5, PositiveRatioIsRatio DEF RateBounds, PositiveInt
  <2>2. multiplyCeil(packetSourceAmount, rateCalculator.upperBoundRate) \in Nat
    BY <2>1, MultiplyNat
  <2>3. saturatingSubtract(multiplyCeil(packetSourceAmount, rateCalculator.upperBoundRate), 1)
          \in Nat
    BY <2>2, SubtractNat
  <2>. QED  BY <2>3, OrLesserType, MaxU64Assumption DEF highEndDestination, OptionalAmount
<1>8. amountSent + sourceAmountInFlight + packetSourceAmount <= quote.maxSourceAmount
  BY <1>1, <1>2, <1>3, <1>5 DEF PositiveInt
<1>. QED  BY <1>5, <1>6, <1>7, <1>8

\* Steps that move only the loop: an attempt is dropped, or the loop ends.
LEMMA LoopStep ==
  ASSUME IInv,
         UNCHANGED <<quote, moneyVars, reportVars, rateCalculator, maxPacketController,
                     inFlightCount, requests>>,
         deadline' \in {"unset", "pending", "passed"},
         attempts' \in Nat,
         \/ UNCHANGED <<loop, result>>
         \/ /\ loop = "running" /\ loop' = "completing" /\ result' \in PaymentErrors
         \/ /\ loop = "completing" /\ loop' = "ended" /\ UNCHANGED result
  PROVE  IInv'
<1>1. TypeOK'
  BY DEF IInv, TypeOK, moneyVars, reportVars
<1>2. /\ MaxPacketOK(maxPacketController)' /\ RateIntervalNonEmpty'
      /\ InFlightSums' /\ NoOverpay'
  BY DEF IInv, RateIntervalNonEmpty, InFlightSums, NoOverpay, moneyVars
<1>3. LoopResult'
  BY DEF IInv, LoopResult, PaymentErrors
<1>4. DoneIsSettled'
  BY DEF IInv, LoopResult, DoneIsSettled, InFlight, moneyVars, PaymentErrors
<1>. QED  BY <1>1, <1>2, <1>3, <1>4 DEF IInv

\* nextState commits to a packet.
LEMMA SendStep ==
  ASSUME IInv, SendPacket
  PROVE  IInv'
<1>. DEFINE high == highEndDestination(rateCalculator, packetSourceAmount)
            r == [sourceAmount |-> packetSourceAmount,
                  minDestinationAmount |-> minDestinationAmount,
                  highEndDestinationAmount |-> high,
                  applyCorrection |-> appliesCorrection,
                  status |-> "inFlight"]
<1>1. /\ packetSourceAmount \in PositiveInt
      /\ amountSent + sourceAmountInFlight + packetSourceAmount <= quote.maxSourceAmount
      /\ minDestinationAmount \in Nat
      /\ high \in Nat
  BY PacketAmounts DEF SendPacket
<1>2. appliesCorrection \in BOOLEAN
  BY DEF appliesCorrection, completesPayment
<1>3. /\ sourceAmountInFlight' = sourceAmountInFlight + packetSourceAmount
      /\ destinationAmountInFlight' = destinationAmountInFlight + high
      /\ appliedRoundingCorrection' = appliesCorrection
      /\ requests' = Append(requests, r)
      /\ deadline' = IF deadline = "unset" THEN "pending" ELSE deadline
      /\ inFlightCount' = inFlightCount + 1
      /\ UNCHANGED <<quote, amountSent, amountDelivered, reportVars, rateCalculator,
                     maxPacketController, loopVars>>
      /\ loop = "running"
  BY DEF SendPacket, Ready, Unobjected, Attempting
<1>4. r \in Request /\ r.status = "inFlight" /\ r.sourceAmount = packetSourceAmount
      /\ r.highEndDestinationAmount = high
  BY <1>1, <1>2 DEF Request
<1>. HIDE DEF r, high
<1>5. requests \in Seq(Request) /\ requests' \in Seq(Request)
  BY <1>3, <1>4 DEF IInv, TypeOK
<1>6. TypeOK'
  BY <1>1, <1>2, <1>3, <1>5 DEF IInv, TypeOK, reportVars, loopVars, PositiveInt
<1>7. InFlightSums'
  <2>1. Ledger(Append(requests, r), sourceAmountInFlight + packetSourceAmount,
               destinationAmountInFlight + high, inFlightCount + 1)
    BY <1>4, <1>5, LedgerSend DEF IInv, InFlightSums
  <2>. QED  BY <1>3, <2>1 DEF InFlightSums
<1>8. NoOverpay'
  BY <1>1, <1>3 DEF IInv, TypeOK, NoOverpay, PositiveInt, Quote
<1>9. MaxPacketOK(maxPacketController)' /\ RateIntervalNonEmpty'
  BY <1>3 DEF IInv, RateIntervalNonEmpty
<1>10. LoopResult' /\ DoneIsSettled'
  BY <1>3 DEF IInv, LoopResult, DoneIsSettled, loopVars
<1>. QED  BY <1>6, <1>7, <1>8, <1>9, <1>10 DEF IInv

\* The state a reply handler returns is a payment error, "Done" or "Schedule".
LEMMA ReplyStateValue ==
  ASSUME NEW request, NEW reply
  PROVE  replyState(request, reply) \in PaymentErrors \cup {"Done", "Schedule"}
BY DEF replyState, controllerError, PaymentErrors

\* A reply is accounted for.
LEMMA ReplyStep ==
  ASSUME IInv, NEW i \in DOMAIN requests, NEW reply \in Replies, HandleReply(i, reply)
  PROVE  IInv'
<1>. DEFINE request == requests[i]
            st == fate(reply)
<1>1. /\ reply \in Reply
      /\ reply.fulfill \in BOOLEAN
      /\ reply.destinationAmount \in OptionalAmount
      /\ reply.metadata \in [received : Nat, maximum : Nat] \cup {undefined}
      /\ reply.receiveMax \in OptionalAmount /\ reply.receipt \in OptionalAmount
  BY RepliesAssumption DEF Reply
<1>2. /\ requests \in Seq(Request) /\ i \in 1 .. Len(requests)
      /\ quote \in Quote /\ quote.maxSourceAmount \in Nat
      /\ amountSent \in Nat /\ amountDelivered \in Nat
      /\ sourceAmountInFlight \in Nat /\ destinationAmountInFlight \in Nat
      /\ inFlightCount \in Nat
  BY DEF IInv, TypeOK, Quote
<1>3. /\ request \in Request
      /\ request.sourceAmount \in Nat /\ request.sourceAmount > 0
      /\ request.sourceAmount \in PositiveInt
      /\ request.highEndDestinationAmount \in Nat
      /\ request.minDestinationAmount \in Nat
      /\ request.applyCorrection \in BOOLEAN
  BY <1>2, RequestAt DEF PositiveInt
<1>4. /\ loop # "ended"
      /\ request.status = "inFlight"
      /\ ApplyControllers(request, reply)
      /\ Account(request, reply)
      /\ updateStreamReceipt(reply)
      /\ updateReceiveMax(request, reply)
      /\ requests' = [requests EXCEPT ![i].status = st]
      /\ IF loop = "running"
         THEN IF replyState(request, reply) = "Schedule"
              THEN attempts' = attempts + 1 /\ UNCHANGED <<loop, result>>
              ELSE EndLoop(replyState(request, reply))
         ELSE UNCHANGED loopVars
      /\ UNCHANGED quote
  BY DEF HandleReply
<1>5. st \in {"fulfilled", "rejected", "expired"}
  BY DEF fate
<1>. HIDE DEF st
<1>6. /\ requests' \in Seq(Request)
      /\ request.sourceAmount <= sourceAmountInFlight
      /\ request.highEndDestinationAmount <= destinationAmountInFlight
      /\ 1 <= inFlightCount
      /\ Ledger(requests', sourceAmountInFlight - request.sourceAmount,
                destinationAmountInFlight - request.highEndDestinationAmount,
                inFlightCount - 1)
  BY <1>2, <1>4, <1>5, LedgerSettle DEF IInv, InFlightSums
<1>. HIDE DEF request
<1>7. /\ rateCalculator' \in RateBounds
      /\ RateIntervalNonEmpty'
  BY <1>1, <1>3, <1>4, ObserveRateType, ObserveRateOrdered
     DEF IInv, TypeOK, ApplyControllers, RateIntervalNonEmpty
<1>8. MaxPacketOK(maxPacketController')
  <2>1. MaxPacketOK(maxPacketController)
    BY DEF IInv
  <2>2. MaxPacketOK(reduceMaxPacketAmount(maxPacketController, reply.metadata,
                                          request.sourceAmount))
    BY <1>1, <1>3, <2>1, ReduceMaxPacketOK
  <2>3. MaxPacketOK(adjustPathCapacity(maxPacketController, request.sourceAmount))
    BY <1>3, <2>1, AdjustPathCapacityOK DEF MaxPacketOK
  <2>. QED  BY <1>4, <2>1, <2>2, <2>3 DEF ApplyControllers
<1>9. /\ sourceAmountInFlight' = sourceAmountInFlight - request.sourceAmount
      /\ destinationAmountInFlight'
            = destinationAmountInFlight - request.highEndDestinationAmount
      /\ inFlightCount' = inFlightCount - 1
  BY <1>2, <1>3, <1>4, <1>6 DEF Account, ApplyControllers, saturatingSubtract
<1>10. InFlightSums'
  BY <1>6, <1>9 DEF InFlightSums
<1>11. \/ amountSent' = amountSent
       \/ amountSent' = amountSent + request.sourceAmount
  BY <1>4 DEF Account
<1>12. NoOverpay'
  <2>1. amountSent + sourceAmountInFlight <= quote.maxSourceAmount
    BY DEF IInv, NoOverpay
  <2>2. amountSent' + sourceAmountInFlight' <= quote.maxSourceAmount
    BY SMTT(20), <1>2, <1>3, <1>6, <1>9, <1>11, <2>1
  <2>. QED  BY <1>4, <2>2 DEF NoOverpay
<1>13. amountDelivered' \in Nat
  <2>1. orGreater(request.minDestinationAmount, reply.destinationAmount) \in Nat
    BY <1>1, <1>3, OrGreaterType
  <2>. QED  BY <1>2, <1>4, <2>1 DEF Account
<1>14. remoteReceiveMax' \in OptionalAmount /\ latestReceipt' \in OptionalAmount
  <2>1. remoteReceiveMax \in OptionalAmount /\ latestReceipt \in OptionalAmount
    BY DEF IInv, TypeOK
  <2>2. reply.receiveMax # undefined
          => orGreater(reply.receiveMax, remoteReceiveMax) \in OptionalAmount
    BY <1>1, <2>1, OrGreaterType DEF OptionalAmount
  <2>. QED  BY <1>1, <1>4, <2>1, <2>2 DEF updateReceiveMax, updateStreamReceipt
<1>15. /\ attempts' \in Nat
       /\ loop' \in {"running", "completing", "ended"}
       /\ result' \in PaymentErrors \cup {"none", "Done"}
       /\ LoopResult'
  BY <1>4, ReplyStateValue DEF IInv, TypeOK, LoopResult, EndLoop, loopVars, PaymentErrors
<1>16. TypeOK'
  <2>1. /\ amountSent' \in Nat /\ sourceAmountInFlight' \in Nat
        /\ destinationAmountInFlight' \in Nat /\ inFlightCount' \in Nat
    <3>1. amountSent' \in Nat
      BY <1>2, <1>3, <1>11
    <3>2. \A m, n \in Nat : n <= m => m - n \in Nat
      OBVIOUS
    <3>3. sourceAmountInFlight' \in Nat /\ destinationAmountInFlight' \in Nat
      BY <1>2, <1>3, <1>6, <1>9, <3>2
    <3>4. inFlightCount' \in Nat
      BY <1>2, <1>6, <1>9
    <3>. QED  BY <3>1, <3>3, <3>4
  <2>2. appliedRoundingCorrection' \in BOOLEAN
    BY <1>4 DEF Account
  <2>3. deadline' \in {"unset", "pending", "passed"}
    BY <1>4 DEF ApplyControllers, IInv, TypeOK
  <2>4. maxPacketController' \in MaxPacketState /\ quote' \in Quote
    BY <1>2, <1>4, <1>8 DEF MaxPacketOK
  <2>. QED  BY <1>6, <1>7, <1>13, <1>14, <1>15, <2>1, <2>2, <2>3, <2>4 DEF TypeOK
<1>17. DoneIsSettled'
  <2>. SUFFICES ASSUME result' = "Done"
                PROVE  /\ InFlight' = {}
                       /\ quote'.paymentType = "FixedSend"
                            => amountSent' = quote'.maxSourceAmount
                       /\ quote'.paymentType = "FixedDelivery"
                            => amountDelivered' >= quote'.minDeliveryAmount
    BY DEF DoneIsSettled
  <2>1. loop = "running"
    <3>1. ASSUME loop # "running" PROVE FALSE
      <4>1. result = "Done"
        BY <1>4, <3>1 DEF loopVars
      <4>2. InFlight = {}
        BY <4>1 DEF IInv, DoneIsSettled
      <4>. QED  BY <1>4, <4>2 DEF InFlight, request
    <3>. QED  BY <3>1
  <2>2. paid
    <3>1. result = "none"
      BY <2>1 DEF IInv, LoopResult
    <3>2. replyState(request, reply) = "Done"
      BY <1>4, <2>1, <3>1 DEF EndLoop
    <3>. QED  BY <3>2 DEF replyState, controllerError
  <2>3. sourceAmountInFlight' = 0
    <3>1. CASE quote.paymentType = "FixedSend"
      BY <1>2, <1>4, <1>12, <1>16, <2>2, <3>1 DEF paid, NoOverpay, TypeOK
    <3>2. CASE quote.paymentType = "FixedDelivery"
      BY <2>2, <3>2 DEF paid
    <3>. QED  BY <1>2, <3>1, <3>2 DEF Quote, PaymentTypes
  <2>4. \A k \in 1 .. Len(requests') : requests'[k].status # "inFlight"
    <3>1. Ledger(requests', sourceAmountInFlight', destinationAmountInFlight',
                 inFlightCount')
      BY <1>10 DEF InFlightSums
    <3>. QED  BY <1>6, <2>3, <3>1, LedgerZero
  <2>5. InFlight' = {}
    BY <1>6, <2>4 DEF InFlight
  <2>. QED  BY <1>4, <2>2, <2>5 DEF paid
<1>. QED  BY <1>7, <1>8, <1>10, <1>12, <1>15, <1>16, <1>17 DEF IInv

\* Every step of the send loop preserves the inductive invariant.
LEMMA NextIInv == IInv /\ [Next]_vars => IInv'
<1>. SUFFICES ASSUME IInv, [Next]_vars PROVE IInv'
  OBVIOUS
<1>. USE DEF EndLoop, Yield, Attempting, Unobjected, Ready, controllerVars
<1>1. attempts \in Nat /\ deadline \in {"unset", "pending", "passed"}
  BY DEF IInv, TypeOK
<1>2. CASE SequenceLimitReached
  BY <1>1, <1>2, LoopStep DEF SequenceLimitReached, PaymentErrors
<1>3. CASE IdleDeadlineExceeded
  BY <1>1, <1>3, LoopStep DEF IdleDeadlineExceeded, PaymentErrors
<1>4. CASE PacerYields
  BY <1>1, <1>4, LoopStep DEF PacerYields
<1>5. CASE NothingToSend
  BY <1>1, <1>5, LoopStep DEF NothingToSend
<1>6. CASE RateDropped
  BY <1>1, <1>6, LoopStep DEF RateDropped, PaymentErrors
<1>7. CASE SendPacket
  BY <1>7, SendStep
<1>8. CASE ReceiveReply
  BY <1>8, ReplyStep DEF ReceiveReply
<1>9. CASE CompleteReplies
  BY <1>1, <1>9, LoopStep DEF CompleteReplies
<1>10. CASE DeadlinePasses
  BY <1>1, <1>10, LoopStep DEF DeadlinePasses, loopVars
<1>11. CASE Ended \/ UNCHANGED vars
  BY <1>1, <1>11, LoopStep DEF Ended, vars, loopVars
<1>. QED
  BY <1>2, <1>3, <1>4, <1>5, <1>6, <1>7, <1>8, <1>9, <1>10, <1>11 DEF Next, TrySending

-----------------------------------------------------------------------------
(* The ledgers of the packets that may have been paid *)

\* The amounts and corrections of a sequence of requests are natural.
LEMMA SpendTypes ==
  ASSUME NEW rs \in Seq(Request), NEW S
  PROVE  SourceIn(rs, S) \in [1 .. Len(rs) -> Nat] /\ Corrections(rs) \in [1 .. Len(rs) -> Nat]
BY RequestAt DEF SourceIn, Corrections

\* A packet that is sent may be paid, and corrects nothing yet.
LEMMA SpendSend ==
  ASSUME NEW rs \in Seq(Request), NEW r \in Request, r.status = "inFlight"
  PROVE  /\ Total(SourceIn(Append(rs, r), Spending), Len(rs) + 1)
              = Total(SourceIn(rs, Spending), Len(rs)) + r.sourceAmount
         /\ Total(Corrections(Append(rs, r)), Len(rs) + 1)
              = Total(Corrections(rs), Len(rs))
<1>. DEFINE n == Len(rs)
            new == Append(rs, r)
<1>1. /\ n \in Nat /\ new \in Seq(Request) /\ Len(new) = n + 1
      /\ new[n + 1] = r /\ \A k \in 1 .. n : new[k] = rs[k]
  OBVIOUS
<1>. HIDE DEF new
<1>2. /\ SourceIn(new, Spending) \in [1 .. n + 1 -> Nat]
      /\ Corrections(new) \in [1 .. n + 1 -> Nat]
      /\ SourceIn(rs, Spending) \in [1 .. n -> Nat]
      /\ Corrections(rs) \in [1 .. n -> Nat]
  BY <1>1, SpendTypes
<1>3. \A k \in 1 .. n : /\ SourceIn(new, Spending)[k] = SourceIn(rs, Spending)[k]
                        /\ Corrections(new)[k] = Corrections(rs)[k]
  BY <1>1 DEF SourceIn, Corrections
<1>4. SourceIn(new, Spending)[n + 1] = r.sourceAmount /\ Corrections(new)[n + 1] = 0
  BY <1>1 DEF SourceIn, Corrections, Spending
<1>5. Total(SourceIn(new, Spending), n + 1)
        = Total(SourceIn(rs, Spending), n) + SourceIn(new, Spending)[n + 1]
  BY <1>1, <1>2, <1>3, TotalExtend
<1>6. Total(Corrections(new), n + 1) = Total(Corrections(rs), n) + Corrections(new)[n + 1]
  BY <1>1, <1>2, <1>3, TotalExtend
<1>7. Total(Corrections(rs), n) \in Nat
  BY <1>1, <1>2, TotalIsSum
<1>. QED  BY <1>4, <1>5, <1>6, <1>7 DEF new

\* The requests once the fate of request i is known.
Settled(rs, i, st) == [rs EXCEPT ![i].status = st]

\* Only a reject says that a packet was not paid; a fulfill settles its correction.
SettledOnce(rs, new, i, st) ==
    /\ Len(new) = Len(rs)
    /\ \A k \in 1 .. Len(rs) :
          /\ k # i => new[k] = rs[k]
          /\ new[k].sourceAmount = rs[k].sourceAmount
          /\ new[k].minDestinationAmount = rs[k].minDestinationAmount
          /\ new[k].applyCorrection = rs[k].applyCorrection
    /\ Total(SourceIn(rs, Spending), Len(rs)) \in Nat
    /\ rs[i].sourceAmount <= Total(SourceIn(rs, Spending), Len(rs))
    /\ Total(SourceIn(new, Spending), Len(rs))
         = Total(SourceIn(rs, Spending), Len(rs))
             - IF st = "rejected" THEN rs[i].sourceAmount ELSE 0
    /\ Total(Corrections(rs), Len(rs)) \in Nat
    /\ Total(Corrections(new), Len(rs))
         = Total(Corrections(rs), Len(rs))
             + IF st = "fulfilled" /\ rs[i].applyCorrection THEN 1 ELSE 0

\* A reply settles its own request, in the ledgers of what may have been paid too.
LEMMA SpendSettle ==
  ASSUME NEW rs \in Seq(Request), NEW i \in 1 .. Len(rs), rs[i].status = "inFlight",
         NEW st \in {"fulfilled", "rejected", "expired"},
         NEW new, new = Settled(rs, i, st)
  PROVE  SettledOnce(rs, new, i, st)
<1>. DEFINE n == Len(rs)
            q == [rs[i] EXCEPT !.status = st]
<1>0. rs[i] \in Request /\ rs[i].sourceAmount \in Nat /\ n \in Nat
  BY RequestAt
<1>1. q \in Request /\ q.status = st
  BY <1>0, SettledRequest, Zenon
<1>2. /\ q.sourceAmount = rs[i].sourceAmount
      /\ q.minDestinationAmount = rs[i].minDestinationAmount
      /\ q.applyCorrection = rs[i].applyCorrection
  BY <1>0 DEF Request
<1>a. new = [rs EXCEPT ![i] = q]
  BY Zenon DEF Settled
<1>. HIDE DEF q
<1>3. /\ new \in Seq(Request) /\ Len(new) = n
      /\ \A k \in 1 .. n : k # i => new[k] = rs[k]
      /\ new[i] = q
  BY <1>1, <1>a
<1>4. /\ SourceIn(new, Spending) \in [1 .. n -> Nat] /\ Corrections(new) \in [1 .. n -> Nat]
      /\ SourceIn(rs, Spending) \in [1 .. n -> Nat] /\ Corrections(rs) \in [1 .. n -> Nat]
  BY <1>3, SpendTypes
<1>5. \A k \in 1 .. n : k # i =>
         /\ SourceIn(new, Spending)[k] = SourceIn(rs, Spending)[k]
         /\ Corrections(new)[k] = Corrections(rs)[k]
  BY <1>3 DEF SourceIn, Corrections
<1>6. /\ SourceIn(rs, Spending)[i] = rs[i].sourceAmount
      /\ SourceIn(new, Spending)[i] = IF st = "rejected" THEN 0 ELSE rs[i].sourceAmount
  BY <1>1, <1>2, <1>3 DEF SourceIn, Spending
<1>7. /\ Corrections(rs)[i] = 0
      /\ Corrections(new)[i] = IF st = "fulfilled" /\ rs[i].applyCorrection THEN 1 ELSE 0
  BY <1>1, <1>2, <1>3 DEF Corrections
<1>8. /\ Total(SourceIn(new, Spending), n)
           = Total(SourceIn(rs, Spending), n) - SourceIn(rs, Spending)[i]
               + SourceIn(new, Spending)[i]
      /\ SourceIn(rs, Spending)[i] <= Total(SourceIn(rs, Spending), n)
  BY <1>0, <1>4, <1>5, TotalChange
<1>9. Total(Corrections(new), n)
        = Total(Corrections(rs), n) - Corrections(rs)[i] + Corrections(new)[i]
  BY <1>0, <1>4, <1>5, TotalChange
<1>10. Total(SourceIn(rs, Spending), n) \in Nat /\ Total(Corrections(rs), n) \in Nat
  BY <1>0, <1>4, TotalIsSum
<1>11. Total(SourceIn(new, Spending), n)
         = Total(SourceIn(rs, Spending), n) - IF st = "rejected" THEN rs[i].sourceAmount ELSE 0
  BY <1>0, <1>6, <1>8, <1>10
<1>12. Total(Corrections(new), n)
         = Total(Corrections(rs), n)
             + IF st = "fulfilled" /\ rs[i].applyCorrection THEN 1 ELSE 0
  BY <1>7, <1>9, <1>10
<1>13. \A k \in 1 .. n :
         /\ k # i => new[k] = rs[k]
         /\ new[k].sourceAmount = rs[k].sourceAmount
         /\ new[k].minDestinationAmount = rs[k].minDestinationAmount
         /\ new[k].applyCorrection = rs[k].applyCorrection
  BY <1>2, <1>3
<1>. QED  BY <1>3, <1>6, <1>8, <1>10, <1>11, <1>12, <1>13 DEF SettledOnce

-----------------------------------------------------------------------------
(* The minimum rate *)

\* divideCeil rounds up.
LEMMA DivideCeilCovers ==
  ASSUME NEW n \in Nat, NEW d \in PositiveInt
  PROVE  divideCeil(n, d) * d >= n
<1>. DEFINE m == n + d - 1
            q == m \div d
<1>1. m \in Nat /\ d \in Nat /\ d > 0 /\ q \in Nat
  BY DivNat DEF PositiveInt
<1>2. m = d * q + (m % d) /\ m % d < d /\ m % d \in Nat
  BY <1>1
<1>3. d * q = q * d /\ q * d \in Nat
  BY <1>1
<1>4. q * d >= n
  <2>1. n + d - 1 = q * d + (m % d)
    BY <1>2, <1>3
  <2>. HIDE DEF q, m
  <2>. QED  BY <1>1, <1>2, <1>3, <2>1
<1>. QED  BY <1>4 DEF divideCeil

\* What rounding up an amount at a rate delivers, scaled by the rate's denominator.
LEMMA MultiplyCeilCovers ==
  ASSUME NEW n \in Nat, NEW r \in Ratio
  PROVE  multiplyCeil(n, r) * r.b >= n * r.a
<1>1. n * r.a \in Nat /\ r.b \in PositiveInt
  BY MulNat DEF Ratio
<1>. QED  BY <1>1, DivideCeilCovers DEF multiplyCeil

\* Two deliveries that keep a rate a / b keep it together.
LEMMA RatesAdd ==
  ASSUME NEW a \in Nat, NEW b \in Nat, NEW d \in Nat, NEW s \in Nat, NEW c \in Nat,
         NEW m \in Nat, NEW x \in Nat, NEW y \in Nat, NEW g \in Nat,
         d * b >= (s - c) * a, m * b >= (x - y) * a, g >= m
  PROVE  (d + g) * b >= ((s + x) - (c + y)) * a
<1>1. (d + g) * b = d * b + g * b
  OBVIOUS
<1>2. g * b >= m * b
  <2>1. g * b = m * b + (g - m) * b
    OBVIOUS
  <2>2. (g - m) * b \in Nat
    <3>1. g - m \in Nat
      OBVIOUS
    <3>. QED  BY <3>1, MulNat
  <2>3. m * b \in Nat /\ g * b \in Nat
    BY MulNat
  <2>. QED  BY <2>1, <2>2, <2>3
<1>3. ((s + x) - (c + y)) * a = (s - c) * a + (x - y) * a
  OBVIOUS
<1>4. d * b \in Nat /\ g * b \in Nat /\ m * b \in Nat /\ (s - c) * a \in Int /\ (x - y) * a \in Int
  <2>1. s - c \in Int /\ x - y \in Int
    OBVIOUS
  <2>. QED  BY MulNat, <2>1
<1>5. \A p, q, u, v, w \in Int : p >= u /\ q >= w /\ w >= v => p + q >= u + v
  OBVIOUS
<1>6. d * b + g * b >= (s - c) * a + (x - y) * a
  BY <1>2, <1>4, <1>5
<1>. QED  BY <1>1, <1>3, <1>6

\* The unit a request may lose to rounding.
Lost(r) == IF r.applyCorrection THEN 1 ELSE 0

\* A request asks for the minimum rate on all but that unit.
MeetsRate(r, rate) == r.minDestinationAmount * rate.b >= (r.sourceAmount - Lost(r)) * rate.a

\* The packet nextState commits to asks for the minimum rate.
LEMMA PacketMeetsRate ==
  ASSUME IInv, ~nothingToSend, ~insufficientRate
  PROVE  minDestinationAmount * quote.minExchangeRate.b
           >= (packetSourceAmount - IF appliesCorrection THEN 1 ELSE 0)
                * quote.minExchangeRate.a
<1>1. packetSourceAmount \in Nat /\ packetSourceAmount > 0
  BY PacketAmounts DEF PositiveInt
<1>2. quote.minExchangeRate \in Ratio
  BY DEF IInv, TypeOK, Quote
<1>3. CASE appliesCorrection
  <2>1. saturatingSubtract(packetSourceAmount, 1) = packetSourceAmount - 1
        /\ packetSourceAmount - 1 \in Nat
    BY <1>1 DEF saturatingSubtract
  <2>2. minDestinationAmount = multiplyCeil(packetSourceAmount - 1, quote.minExchangeRate)
    BY <1>3, <2>1 DEF minDestinationAmount
  <2>. QED  BY <1>2, <1>3, <2>1, <2>2, MultiplyCeilCovers
<1>4. CASE ~appliesCorrection
  <2>1. minDestinationAmount = multiplyCeil(packetSourceAmount, quote.minExchangeRate)
    BY <1>4 DEF minDestinationAmount
  <2>2. packetSourceAmount - 0 = packetSourceAmount
    BY <1>1
  <2>. QED  BY <1>1, <1>2, <1>4, <2>1, <2>2, MultiplyCeilCovers
<1>. QED  BY <1>3, <1>4

-----------------------------------------------------------------------------
(* The second layer of the invariant *)

Spent == Total(SourceIn(requests, Spending), Len(requests))

Corrected == Total(Corrections(requests), Len(requests))

\* While the loop runs no packet has expired, so what may have been paid is what
\* is accounted for.
SpendInv ==
    /\ Spent \in Nat
    /\ Spent <= quote.maxSourceAmount
    /\ loop = "running" => Spent = amountSent + sourceAmountInFlight

RateInv ==
    /\ Corrected \in Nat
    /\ \A k \in 1 .. Len(requests) : MeetsRate(requests[k], quote.minExchangeRate)
    /\ amountDelivered * quote.minExchangeRate.b
           >= (amountSent - Corrected) * quote.minExchangeRate.a

\* A fixed send that runs has something left to pay, so an attempt that yields
\* waits for a packet in flight.
AliveInv ==
    quote.paymentType = "FixedSend" /\ loop = "running" =>
        /\ amountSent < quote.maxSourceAmount
        /\ attempts > 0 \/ inFlightCount > 0

PayInv == SpendInv /\ RateInv /\ AliveInv

\* No payment has spent anything at first.
LEMMA InitPayInv == Init => PayInv
<1>. SUFFICES ASSUME Init PROVE PayInv
  OBVIOUS
<1>0. IInv
  BY InitIInv
<1>1. requests = <<>> /\ requests \in Seq(Request) /\ Len(requests) = 0
  BY DEF Init
<1>2. Spent = 0 /\ Corrected = 0
  BY <1>1, SpendTypes, TotalEmpty DEF Spent, Corrected
<1>3. /\ amountSent = 0 /\ amountDelivered = 0 /\ sourceAmountInFlight = 0 /\ attempts = 1
  BY DEF Init
<1>4. /\ quote.maxSourceAmount \in Nat
      /\ quote.minExchangeRate.a \in Nat /\ quote.minExchangeRate.b \in Nat
  BY <1>0 DEF IInv, TypeOK, Quote, Ratio, PositiveInt
<1>5. SpendInv
  BY <1>2, <1>3, <1>4 DEF SpendInv
<1>6. RateInv
  BY <1>1, <1>2, <1>3, <1>4 DEF RateInv
<1>7. AliveInv
  <2>1. PICK t \in Targets : quote = startQuote(t)
    BY DEF Init
  <2>2. t.amount \in Nat /\ t.amount > 0
    BY TargetsAssumption DEF Target, PositiveInt
  <2>3. quote.paymentType = "FixedSend" => quote.maxSourceAmount = t.amount
    BY <2>1 DEF startQuote, maxSourceAmountOf
  <2>. QED  BY <1>3, <2>2, <2>3 DEF AliveInv
<1>. QED  BY <1>5, <1>6, <1>7 DEF PayInv

\* Steps that move only the loop, and leave it waiting for a packet if it runs on.
LEMMA LoopPayStep ==
  ASSUME PayInv,
         UNCHANGED <<quote, moneyVars, inFlightCount, requests>>,
         loop' = "running" =>
            /\ loop = "running"
            /\ \/ attempts' = attempts
               \/ quote.paymentType = "FixedSend" => inFlightCount > 0
  PROVE  PayInv'
<1>1. SpendInv'
  BY DEF PayInv, SpendInv, Spent, moneyVars
<1>2. RateInv'
  BY DEF PayInv, RateInv, Corrected, moneyVars
<1>3. AliveInv'
  BY DEF PayInv, AliveInv, moneyVars
<1>. QED  BY <1>1, <1>2, <1>3 DEF PayInv

\* A fixed send with nothing available has packets in flight.
LEMMA YieldWaits ==
  ASSUME IInv, PayInv, loop = "running", nothingToSend, quote.paymentType = "FixedSend"
  PROVE  inFlightCount > 0
<1>1. /\ amountSent \in Nat /\ sourceAmountInFlight \in Nat /\ inFlightCount \in Nat
      /\ quote.maxSourceAmount \in Nat /\ requests \in Seq(Request)
  BY DEF IInv, TypeOK, Quote
<1>2. availableToSend = 0
  BY DEF nothingToSend
<1>3. amountSent < quote.maxSourceAmount
  BY DEF PayInv, AliveInv
<1>4. sourceAmountInFlight > 0
  BY <1>1, <1>2, <1>3 DEF availableToSend, saturatingSubtract
<1>5. SUFFICES ASSUME inFlightCount = 0 PROVE FALSE
  BY <1>1
<1>6. SumIs(HeldCount(requests), Len(requests), 0)
  BY <1>5 DEF IInv, InFlightSums, Ledger
<1>7. \A k \in 1 .. Len(requests) : requests[k].status # "inFlight"
  <2>. TAKE k \in 1 .. Len(requests)
  <2>1. Len(requests) \in Nat /\ HeldCount(requests) \in [1 .. Len(requests) -> Nat]
    BY <1>1, HeldTypes
  <2>2. HeldCount(requests)[k] = 0
    BY <1>6, <2>1, SumZero
  <2>. QED  BY <2>2 DEF HeldCount
<1>8. /\ HeldSource(requests) \in [1 .. Len(requests) -> Nat]
      /\ \A k \in 1 .. Len(requests) : HeldSource(requests)[k] = 0
  BY <1>1, <1>7, HeldTypes DEF HeldSource
<1>9. Total(HeldSource(requests), Len(requests)) = 0
  BY <1>1, <1>8, TotalZeros
<1>10. sourceAmountInFlight = Total(HeldSource(requests), Len(requests))
  BY <1>1, SumIsTotal DEF IInv, InFlightSums, Ledger
<1>. QED  BY <1>4, <1>9, <1>10

\* A packet is sent.
LEMMA SendPayStep ==
  ASSUME IInv, PayInv, SendPacket
  PROVE  PayInv'
<1>. DEFINE high == highEndDestination(rateCalculator, packetSourceAmount)
            r == [sourceAmount |-> packetSourceAmount,
                  minDestinationAmount |-> minDestinationAmount,
                  highEndDestinationAmount |-> high,
                  applyCorrection |-> appliesCorrection,
                  status |-> "inFlight"]
<1>1. /\ packetSourceAmount \in PositiveInt
      /\ amountSent + sourceAmountInFlight + packetSourceAmount <= quote.maxSourceAmount
      /\ minDestinationAmount \in Nat
      /\ high \in Nat
  BY PacketAmounts DEF SendPacket
<1>2. appliesCorrection \in BOOLEAN
  BY DEF appliesCorrection, completesPayment
<1>3. /\ sourceAmountInFlight' = sourceAmountInFlight + packetSourceAmount
      /\ requests' = Append(requests, r)
      /\ inFlightCount' = inFlightCount + 1
      /\ UNCHANGED <<quote, amountSent, amountDelivered, loopVars>>
      /\ loop = "running"
  BY DEF SendPacket, Ready, Unobjected, Attempting
<1>4. /\ r \in Request /\ r.status = "inFlight" /\ r.sourceAmount = packetSourceAmount
      /\ r.minDestinationAmount = minDestinationAmount
      /\ r.applyCorrection = appliesCorrection
  BY <1>1, <1>2 DEF Request
<1>. HIDE DEF r, high
<1>5. requests \in Seq(Request) /\ requests' \in Seq(Request) /\ Len(requests) \in Nat
      /\ Len(requests') = Len(requests) + 1 /\ requests'[Len(requests) + 1] = r
      /\ \A k \in 1 .. Len(requests) : requests'[k] = requests[k]
  BY <1>3, <1>4 DEF IInv, TypeOK
<1>6. Spent' = Spent + packetSourceAmount /\ Corrected' = Corrected
  BY <1>3, <1>4, <1>5, SpendSend DEF Spent, Corrected
<1>7. /\ amountSent \in Nat /\ sourceAmountInFlight \in Nat /\ inFlightCount \in Nat
      /\ quote.maxSourceAmount \in Nat /\ packetSourceAmount \in Nat
  BY <1>1 DEF IInv, TypeOK, Quote, PositiveInt
<1>8. SpendInv'
  <2>1. Spent = amountSent + sourceAmountInFlight /\ Spent \in Nat
    BY <1>3 DEF PayInv, SpendInv
  <2>. QED  BY <1>1, <1>3, <1>6, <1>7, <2>1 DEF SpendInv, loopVars
<1>9. RateInv'
  <2>1. MeetsRate(r, quote.minExchangeRate)
    BY <1>4, PacketMeetsRate DEF MeetsRate, Lost, SendPacket
  <2>2. \A k \in 1 .. Len(requests') : MeetsRate(requests'[k], quote.minExchangeRate)
    <3>. TAKE k \in 1 .. Len(requests')
    <3>1. CASE k = Len(requests) + 1
      BY <1>5, <2>1, <3>1
    <3>2. CASE k # Len(requests) + 1
      <4>1. k \in 1 .. Len(requests)
        BY <1>5, <3>2
      <4>. QED  BY <1>5, <4>1 DEF PayInv, RateInv
    <3>. QED  BY <3>1, <3>2
  <2>. QED  BY <1>3, <1>6, <2>2 DEF PayInv, RateInv
<1>10. AliveInv'
  BY <1>3, <1>7 DEF PayInv, AliveInv, loopVars
<1>. QED  BY <1>8, <1>9, <1>10 DEF PayInv

\* A reply is accounted for.
LEMMA ReplyPayStep ==
  ASSUME IInv, IInv', PayInv, NEW i \in DOMAIN requests, NEW reply \in Replies,
         HandleReply(i, reply)
  PROVE  PayInv'
<1>. DEFINE request == requests[i]
            st == fate(reply)
            x == request.sourceAmount
            a == quote.minExchangeRate.a
            b == quote.minExchangeRate.b
<1>1. /\ reply.fulfill \in BOOLEAN
      /\ reply.destinationAmount \in OptionalAmount
  BY RepliesAssumption DEF Reply
<1>2. /\ requests \in Seq(Request) /\ i \in 1 .. Len(requests) /\ Len(requests) \in Nat
      /\ quote.maxSourceAmount \in Nat /\ a \in Nat /\ b \in Nat
      /\ amountSent \in Nat /\ amountDelivered \in Nat
      /\ sourceAmountInFlight \in Nat /\ inFlightCount \in Nat /\ attempts \in Nat
  <2>1. /\ requests \in Seq(Request) /\ quote \in Quote
        /\ amountSent \in Nat /\ amountDelivered \in Nat
        /\ sourceAmountInFlight \in Nat /\ inFlightCount \in Nat /\ attempts \in Nat
    BY DEF IInv, TypeOK
  <2>2. i \in 1 .. Len(requests) /\ Len(requests) \in Nat
    BY <2>1
  <2>3. quote.maxSourceAmount \in Nat /\ a \in Nat /\ b \in Nat
    BY <2>1 DEF Quote, Ratio, PositiveInt
  <2>. QED  BY <2>1, <2>2, <2>3
<1>3. /\ x \in Nat /\ x > 0 /\ request.minDestinationAmount \in Nat
      /\ request.applyCorrection \in BOOLEAN
  BY <1>2, RequestAt
<1>4. /\ request.status = "inFlight"
      /\ Account(request, reply)
      /\ requests' = [requests EXCEPT ![i].status = st]
      /\ IF loop = "running"
         THEN IF replyState(request, reply) = "Schedule"
              THEN attempts' = attempts + 1 /\ UNCHANGED <<loop, result>>
              ELSE EndLoop(replyState(request, reply))
         ELSE UNCHANGED loopVars
      /\ UNCHANGED quote
  BY DEF HandleReply
<1>5. /\ st \in {"fulfilled", "rejected", "expired"}
      /\ st = "fulfilled" <=> reply.fulfill
  BY <1>1 DEF fate
<1>6. loop' = "running" => /\ loop = "running" /\ attempts' = attempts + 1
                           /\ replyState(request, reply) = "Schedule"
  BY <1>4 DEF EndLoop, loopVars
<1>7. loop' = "running" => st # "expired"
  BY <1>6 DEF replyState, controllerError, isIgnoredReject, fate
<1>. HIDE DEF st
<1>8. x <= sourceAmountInFlight
  BY <1>2, <1>4, <1>5, LedgerSettle DEF IInv, InFlightSums
<1>9. /\ Len(requests') = Len(requests)
      /\ \A k \in 1 .. Len(requests) :
            /\ requests'[k].sourceAmount = requests[k].sourceAmount
            /\ requests'[k].minDestinationAmount = requests[k].minDestinationAmount
            /\ requests'[k].applyCorrection = requests[k].applyCorrection
      /\ Spent \in Nat /\ x <= Spent
      /\ Spent' = Spent - IF st = "rejected" THEN x ELSE 0
      /\ Corrected \in Nat
      /\ Corrected' = Corrected
                        + IF st = "fulfilled" /\ request.applyCorrection THEN 1 ELSE 0
  <2>1. requests' = Settled(requests, i, st)
    BY <1>4, Zenon DEF Settled
  <2>2. requests[i].status = "inFlight"
    BY <1>4
  <2>3. SettledOnce(requests, requests', i, st)
    BY <1>2, <1>5, <2>1, <2>2, SpendSettle
  <2>. QED  BY <2>3 DEF SettledOnce, Spent, Corrected
<1>10. /\ sourceAmountInFlight' = sourceAmountInFlight - x
       /\ amountSent' = amountSent + IF st = "fulfilled" THEN x ELSE 0
  BY <1>2, <1>3, <1>4, <1>5, <1>8 DEF Account, saturatingSubtract
<1>11. SpendInv'
  <2>1. /\ Spent <= quote.maxSourceAmount
        /\ loop = "running" => Spent = amountSent + sourceAmountInFlight
    BY DEF PayInv, SpendInv
  <2>. HIDE DEF x
  <2>2. Spent' \in Nat /\ Spent' <= quote'.maxSourceAmount
    <3>1. quote' = quote
      BY <1>4
    <3>2. Spent' \in Nat /\ Spent' <= quote.maxSourceAmount
      BY <1>2, <1>3, <1>9, <2>1
    <3>. QED  BY <3>1, <3>2
  <2>3. loop' = "running" => Spent' = amountSent' + sourceAmountInFlight'
    BY <1>2, <1>3, <1>5, <1>6, <1>7, <1>8, <1>9, <1>10, <2>1
  <2>. QED  BY <2>2, <2>3 DEF SpendInv
<1>12. RateInv'
  <2>1. /\ \A k \in 1 .. Len(requests) : MeetsRate(requests[k], quote.minExchangeRate)
        /\ amountDelivered * b >= (amountSent - Corrected) * a
    BY DEF PayInv, RateInv
  <2>2. \A k \in 1 .. Len(requests') : MeetsRate(requests'[k], quote'.minExchangeRate)
    BY <1>4, <1>9, <2>1 DEF MeetsRate, Lost
  <2>3. Corrected' \in Nat
    BY <1>9
  <2>4. amountDelivered' * b >= (amountSent' - Corrected') * a
    <3>1. CASE st = "fulfilled"
      <4>. DEFINE m == request.minDestinationAmount
                  g == orGreater(m, reply.destinationAmount)
                  y == Lost(request)
      <4>1. g \in Nat /\ g >= m /\ y \in Nat
        BY <1>1, <1>3, OrGreaterType DEF Lost
      <4>2. m * b >= (x - y) * a
        BY <1>2, <2>1 DEF MeetsRate
      <4>3. amountDelivered' = amountDelivered + g
        BY <1>4, <1>5, <3>1 DEF Account
      <4>4. Corrected' = Corrected + y
        BY <1>9, <3>1 DEF Lost
      <4>5. amountSent' = amountSent + x
        BY <1>10, <3>1
      <4>6. m \in Nat /\ Corrected \in Nat
        BY <1>3, <1>9
      <4>. HIDE DEF g, y, m, x, a, b, Corrected
      <4>7. (amountDelivered + g) * b >= ((amountSent + x) - (Corrected + y)) * a
        BY <1>2, <1>3, <2>1, <4>1, <4>2, <4>6, RatesAdd
      <4>. QED  BY <4>3, <4>4, <4>5, <4>7
    <3>2. CASE st # "fulfilled"
      <4>1. amountDelivered' = amountDelivered
        BY <1>4, <1>5, <3>2 DEF Account
      <4>2. amountSent' = amountSent /\ Corrected' = Corrected
        BY <1>2, <1>9, <1>10, <3>2
      <4>. QED  BY <2>1, <4>1, <4>2
    <3>. QED  BY <3>1, <3>2
  <2>. QED  BY <1>4, <2>2, <2>3, <2>4 DEF RateInv
<1>13. AliveInv'
  <2>. SUFFICES ASSUME quote.paymentType = "FixedSend", loop' = "running"
                PROVE  amountSent' < quote.maxSourceAmount /\ attempts' > 0
    BY <1>4 DEF AliveInv
  <2>1. ~paid
    BY <1>6 DEF replyState, controllerError
  <2>2. amountSent' # quote.maxSourceAmount
    BY <2>1 DEF paid
  <2>3. amountSent' + sourceAmountInFlight' <= quote.maxSourceAmount /\ amountSent' \in Nat
        /\ sourceAmountInFlight' \in Nat
    BY <1>4 DEF IInv, NoOverpay, TypeOK
  <2>. QED  BY <1>2, <1>6, <2>2, <2>3
<1>. QED  BY <1>11, <1>12, <1>13 DEF PayInv

\* Every step preserves both layers.
LEMMA NextPayInv == IInv /\ IInv' /\ PayInv /\ [Next]_vars => PayInv'
<1>. SUFFICES ASSUME IInv, IInv', PayInv, [Next]_vars PROVE PayInv'
  OBVIOUS
<1>. USE DEF EndLoop, Yield, Attempting, Unobjected, Ready, controllerVars
<1>1. CASE SequenceLimitReached \/ IdleDeadlineExceeded \/ RateDropped
  BY <1>1, LoopPayStep DEF SequenceLimitReached, IdleDeadlineExceeded, RateDropped
<1>2. CASE PacerYields
  <2>1. inFlightCount > 0
    BY <1>2, LimitsAssumption DEF PacerYields, IInv, TypeOK, PositiveInt
  <2>. QED  BY <1>2, <2>1, LoopPayStep DEF PacerYields
<1>3. CASE NothingToSend
  <2>1. quote.paymentType = "FixedSend" => inFlightCount > 0
    BY <1>3, YieldWaits DEF NothingToSend
  <2>. QED  BY <1>3, <2>1, LoopPayStep DEF NothingToSend
<1>4. CASE SendPacket
  BY <1>4, SendPayStep
<1>5. CASE ReceiveReply
  BY <1>5, ReplyPayStep DEF ReceiveReply
<1>6. CASE CompleteReplies
  BY <1>6, LoopPayStep DEF CompleteReplies
<1>7. CASE DeadlinePasses
  BY <1>7, LoopPayStep DEF DeadlinePasses, loopVars
<1>8. CASE Ended \/ UNCHANGED vars
  BY <1>8, LoopPayStep DEF Ended, vars, loopVars
<1>. QED
  BY <1>1, <1>2, <1>3, <1>4, <1>5, <1>6, <1>7, <1>8 DEF Next, TrySending

-----------------------------------------------------------------------------
(* Theorems *)

\* The inductive invariant always holds.
LEMMA Invariance == Spec => []IInv
BY InitIInv, NextIInv, PTL DEF Spec

\* The send loop is type correct, for every quote and every sequence of replies.
THEOREM TypeCorrect == Spec => []TypeOK
<1>1. IInv => TypeOK
  BY DEF IInv
<1>. QED  BY <1>1, Invariance, PTL

\* payment.ts:103: what was sent and what is in flight never exceed the quoted
\* maximum source amount, for every quote, reply sequence and pacing.
THEOREM NeverOverpays == Spec => []NoOverpay
<1>1. IInv => NoOverpay
  BY DEF IInv
<1>. QED  BY <1>1, Invariance, PTL

\* A payment that resolved as done met its target with nothing left in flight
\* (payment.ts:241-256).
THEOREM DoneMeansSettled == Spec => []DoneIsSettled
<1>1. IInv => DoneIsSettled
  BY DEF IInv
<1>. QED  BY <1>1, Invariance, PTL

\* The exchange rate bounds never cross (exchange-rate.ts:30-64).
THEOREM RateBoundsOrdered == Spec => []RateIntervalNonEmpty
<1>1. IInv => RateIntervalNonEmpty
  BY DEF IInv
<1>. QED  BY <1>1, Invariance, PTL

\* The verified path capacity and the next packet amount stay within the packet
\* maximum, and the next amount is positive (max-packet.ts:46, 72).
THEOREM CapacityBounded == Spec => []CapacityWithinMax
<1>1. IInv => CapacityWithinMax
  <2>. SUFFICES ASSUME IInv PROVE CapacityWithinMax
    OBVIOUS
  <2>1. MaxPacketOK(maxPacketController)
    BY DEF IInv
  <2>2. getMaxPacketAmountLimit(maxPacketController) = maxPacketController.maxPacketAmount
    BY <2>1 DEF MaxPacketOK, getMaxPacketAmountLimit
  <2>. QED  BY <2>1, <2>2, NextMaxPacketAmount DEF CapacityWithinMax, MaxPacketOK, PositiveInt
<1>. QED  BY <1>1, Invariance, PTL

\* Both layers of the invariant always hold.
LEMMA PayInvariance == Spec => [](IInv /\ PayInv)
BY InitPayInv, NextPayInv, InitIInv, NextIInv, PTL DEF Spec

\* request.ts:113-115: also if every packet that timed out at the sender was paid
\* after all, the payment stays within its quoted maximum, for every quote and
\* every sequence of replies.
THEOREM LatePacketsCovered == Spec => []NoOverpayIfLate
<1>1. PayInv => NoOverpayIfLate
  BY DEF PayInv, SpendInv, Spent, NoOverpayIfLate
<1>. QED  BY <1>1, PayInvariance, PTL

\* payment.ts:200-202: the amounts in flight and the pacer's count are those of the
\* requests in flight, so no saturating subtraction ever hides a difference.
THEOREM InFlightExact == Spec => []InFlightLedger
<1>1. IInv => InFlightLedger
  <2>. SUFFICES ASSUME IInv PROVE InFlightLedger
    OBVIOUS
  <2>1. requests \in Seq(Request) /\ Len(requests) \in Nat
    BY DEF IInv, TypeOK
  <2>2. /\ SourceIn(requests, {"inFlight"}) = HeldSource(requests)
        /\ DestinationIn(requests, {"inFlight"}) = HeldDestination(requests)
        /\ CountIn(requests, {"inFlight"}) = HeldCount(requests)
    BY <2>1 DEF SourceIn, DestinationIn, CountIn, HeldSource, HeldDestination, HeldCount
  <2>. QED  BY <2>1, <2>2, SumIsTotal DEF IInv, InFlightSums, Ledger, InFlightLedger
<1>. QED  BY <1>1, Invariance, PTL

\* payment.ts:143-148: all but one source unit of each corrected packet is delivered
\* at the minimum rate or better, for every rate, amount and order of replies.
THEOREM MinimumRateKept == Spec => []MinimumRateEnforced
<1>1. PayInv => MinimumRateEnforced
  BY DEF PayInv, RateInv, Corrected, MinimumRateEnforced
<1>. QED  BY <1>1, PayInvariance, PTL

\* payment.ts:108-109: the loop of a fixed send always has an attempt or a reply to
\* wait for.  Fixed deliveries are left out: theirs may stop with neither.
THEOREM FixedSendStaysAlive == Spec => [](quote.paymentType = "FixedSend" => LoopAlive)
<1>1. IInv /\ PayInv => (quote.paymentType = "FixedSend" => LoopAlive)
  <2>. SUFFICES ASSUME IInv, PayInv, quote.paymentType = "FixedSend", loop = "running",
                       ~(attempts > 0), InFlight = {}
                PROVE  FALSE
    BY DEF LoopAlive
  <2>1. inFlightCount > 0
    BY DEF PayInv, AliveInv
  <2>2. requests \in Seq(Request) /\ Len(requests) \in Nat
    BY DEF IInv, TypeOK
  <2>3. /\ HeldCount(requests) \in [1 .. Len(requests) -> Nat]
        /\ \A k \in 1 .. Len(requests) : HeldCount(requests)[k] = 0
    BY <2>2, HeldTypes DEF HeldCount, InFlight
  <2>4. Total(HeldCount(requests), Len(requests)) = 0
    BY <2>2, <2>3, TotalZeros
  <2>5. inFlightCount = Total(HeldCount(requests), Len(requests))
    BY <2>2, SumIsTotal DEF IInv, InFlightSums, Ledger
  <2>. QED  BY <2>1, <2>4, <2>5
<1>. QED  BY <1>1, PayInvariance, PTL

-----------------------------------------------------------------------------
(* What a step may never do *)

\* A reply only adds to what is accounted for.
LEMMA ReplyMonotone ==
  ASSUME IInv, NEW i \in DOMAIN requests, NEW reply \in Replies, HandleReply(i, reply)
  PROVE  Monotone
<1>. DEFINE request == requests[i]
            st == fate(reply)
<1>1. /\ reply.fulfill \in BOOLEAN
      /\ reply.destinationAmount \in OptionalAmount
      /\ reply.metadata \in [received : Nat, maximum : Nat] \cup {undefined}
      /\ reply.receiveMax \in OptionalAmount /\ reply.receipt \in OptionalAmount
  BY RepliesAssumption DEF Reply
<1>2. /\ requests \in Seq(Request) /\ i \in 1 .. Len(requests)
      /\ DOMAIN requests = 1 .. Len(requests)
      /\ amountSent \in Nat /\ amountDelivered \in Nat
      /\ remoteReceiveMax \in OptionalAmount /\ latestReceipt \in OptionalAmount
      /\ MaxPacketOK(maxPacketController)
  BY DEF IInv, TypeOK
<1>3. /\ request.sourceAmount \in Nat /\ request.sourceAmount \in PositiveInt
      /\ request.minDestinationAmount \in Nat
  BY <1>2, RequestAt DEF PositiveInt
<1>4. /\ request.status = "inFlight"
      /\ ApplyControllers(request, reply)
      /\ Account(request, reply)
      /\ updateStreamReceipt(reply)
      /\ updateReceiveMax(request, reply)
      /\ requests' = [requests EXCEPT ![i].status = st]
      /\ IF loop = "running"
         THEN IF replyState(request, reply) = "Schedule"
              THEN attempts' = attempts + 1 /\ UNCHANGED <<loop, result>>
              ELSE EndLoop(replyState(request, reply))
         ELSE UNCHANGED loopVars
  BY DEF HandleReply
<1>5. st \in {"fulfilled", "rejected", "expired"}
  BY DEF fate
<1>. HIDE DEF st
<1>6. amountSent' >= amountSent /\ amountDelivered' >= amountDelivered
  <2>1. orGreater(request.minDestinationAmount, reply.destinationAmount) \in Nat
    BY <1>1, <1>3, OrGreaterType
  <2>. QED  BY <1>2, <1>3, <1>4, <2>1 DEF Account
<1>7. latestReceipt # undefined => latestReceipt' >= latestReceipt
  BY <1>1, <1>2, <1>4 DEF updateStreamReceipt, OptionalAmount
<1>8. remoteReceiveMax # undefined => remoteReceiveMax' >= remoteReceiveMax
  <2>. SUFFICES ASSUME remoteReceiveMax # undefined PROVE remoteReceiveMax' >= remoteReceiveMax
    OBVIOUS
  <2>1. remoteReceiveMax \in Nat
    BY <1>2 DEF OptionalAmount
  <2>2. reply.receiveMax # undefined
          => orGreater(reply.receiveMax, remoteReceiveMax) >= remoteReceiveMax
    BY <1>1, <1>2, OrGreaterType DEF OptionalAmount
  <2>. QED  BY <1>4, <2>1, <2>2 DEF updateReceiveMax
<1>9. getMaxPacketAmountLimit(maxPacketController')
        <= getMaxPacketAmountLimit(maxPacketController)
  <2>. DEFINE mp == maxPacketController
  <2>1. /\ MaxPacketOK(reduceMaxPacketAmount(mp, reply.metadata, request.sourceAmount))
        /\ reduceMaxPacketAmount(mp, reply.metadata, request.sourceAmount).maxPacketAmount
             <= mp.maxPacketAmount
    BY <1>1, <1>2, <1>3, ReduceMaxPacketOK
  <2>2. /\ MaxPacketOK(adjustPathCapacity(mp, request.sourceAmount))
        /\ adjustPathCapacity(mp, request.sourceAmount).maxPacketAmount = mp.maxPacketAmount
    BY <1>2, <1>3, AdjustPathCapacityOK DEF MaxPacketOK
  <2>3. \A state : MaxPacketOK(state) =>
           /\ getMaxPacketAmountLimit(state) = state.maxPacketAmount
           /\ state.maxPacketAmount \in Nat
    BY DEF MaxPacketOK, getMaxPacketAmountLimit, PositiveInt
  <2>4. /\ MaxPacketOK(mp') /\ mp'.maxPacketAmount <= mp.maxPacketAmount
    <3>1. mp.maxPacketAmount <= mp.maxPacketAmount
      BY <1>2, <2>3
    <3>. QED  BY <1>2, <1>4, <2>1, <2>2, <3>1 DEF ApplyControllers
  <2>. QED  BY <1>2, <2>3, <2>4
<1>10. /\ Len(requests') = Len(requests)
       /\ \A k \in 1 .. Len(requests) : k # i => requests'[k] = requests[k]
  <2>1. requests' = Settled(requests, i, st)
    BY <1>4, Zenon DEF Settled
  <2>2. requests[i].status = "inFlight"
    BY <1>4
  <2>3. SettledOnce(requests, requests', i, st)
    BY <1>2, <1>5, <2>1, <2>2, SpendSettle
  <2>. QED  BY <2>3 DEF SettledOnce
<1>11. result # "none" => result' = result
  BY <1>4 DEF IInv, LoopResult, loopVars
<1>. QED
  BY <1>2, <1>4, <1>6, <1>7, <1>8, <1>9, <1>10, <1>11 DEF Monotone

\* Steps that leave the accounts alone.
LEMMA QuietMonotone ==
  ASSUME IInv, UNCHANGED <<amountSent, amountDelivered, reportVars, maxPacketController>>,
         requests' = requests \/ (result = "none" /\ \E r : requests' = Append(requests, r)),
         result # "none" => result' = result
  PROVE  Monotone
<1>1. /\ requests \in Seq(Request) /\ amountSent \in Nat /\ amountDelivered \in Nat
      /\ remoteReceiveMax \in OptionalAmount /\ latestReceipt \in OptionalAmount
      /\ MaxPacketOK(maxPacketController)
  BY DEF IInv, TypeOK
<1>2. getMaxPacketAmountLimit(maxPacketController) \in Nat
  BY <1>1 DEF MaxPacketOK, getMaxPacketAmountLimit, PositiveInt
<1>3. \A k \in DOMAIN requests : requests'[k] = requests[k]
  BY <1>1
<1>4. result # "none" => Len(requests') = Len(requests)
  OBVIOUS
<1>5. /\ latestReceipt # undefined => latestReceipt' >= latestReceipt
      /\ remoteReceiveMax # undefined => remoteReceiveMax' >= remoteReceiveMax
  BY <1>1 DEF OptionalAmount, reportVars
<1>. QED  BY <1>1, <1>2, <1>3, <1>4, <1>5 DEF Monotone

\* payment.ts:195-256, senders/index.ts:82-124: what was accounted for is final.  No
\* step lowers the amounts sent and delivered, the receipt or the receiver's maximum,
\* raises the packet maximum, or changes the fate of a packet or the result.
THEOREM AccountsAreFinal == Spec => AccountingIsFinal
<1>1. IInv /\ [Next]_vars => [Monotone]_vars
  <2>. SUFFICES ASSUME IInv, Next PROVE Monotone \/ UNCHANGED vars
    OBVIOUS
  <2>. USE DEF EndLoop, Yield, Attempting, Unobjected, Ready, controllerVars, moneyVars
  <2>0. loop = "running" => result = "none"
    BY DEF IInv, LoopResult
  <2>1. CASE SequenceLimitReached \/ IdleDeadlineExceeded \/ RateDropped
    BY <2>0, <2>1, QuietMonotone DEF SequenceLimitReached, IdleDeadlineExceeded, RateDropped
  <2>2. CASE PacerYields \/ NothingToSend
    BY <2>2, QuietMonotone DEF PacerYields, NothingToSend
  <2>3. CASE SendPacket
    <3>1. /\ UNCHANGED <<amountSent, amountDelivered, reportVars, maxPacketController>>
          /\ \E r : requests' = Append(requests, r)
          /\ UNCHANGED loopVars /\ loop = "running"
      BY <2>3 DEF SendPacket
    <3>. QED  BY <2>0, <3>1, QuietMonotone DEF loopVars
  <2>4. CASE ReceiveReply
    BY <2>4, ReplyMonotone DEF ReceiveReply
  <2>5. CASE CompleteReplies
    BY <2>5, QuietMonotone DEF CompleteReplies
  <2>6. CASE DeadlinePasses
    BY <2>6, QuietMonotone DEF DeadlinePasses, loopVars
  <2>7. CASE Ended
    BY <2>7 DEF Ended
  <2>. QED
    BY <2>1, <2>2, <2>3, <2>4, <2>5, <2>6, <2>7 DEF Next, TrySending
<1>. QED  BY <1>1, Invariance, PTL DEF Spec, AccountingIsFinal

=============================================================================
