------------------------ MODULE MCConnectionReceive -------------------------
(***************************************************************************)
(* Instances of ConnectionReceive for TLC: a word of 4 bits, so that a few *)
(* packets reach its limit, and an allowed extra of a fifth.               *)
(***************************************************************************)
EXTENDS ConnectionReceive

Extra == [a |-> 6, b |-> 5]

Pays(amount, shares) ==
    [amount |-> amount, prepareAmount |-> 1, fulfillable |-> TRUE, closes |-> {},
     aborts |-> FALSE, money |-> shares]

Share(id, shares) == [streamId |-> id, shares |-> shares]

\* One stream, two streams of which one only fits once another was ended, and two
\* frames for one stream.
MoneyPackets ==
    {Pays(5, <<Share(1, 1)>>), Pays(8, <<Share(1, 1), Share(3, 2)>>),
     [Pays(9, <<Share(1, 1), Share(1, 1)>>) EXCEPT !.closes = {1}]}

\* An amount of 0 that aborts a stream, an unfulfillable test packet, a stream that
\* only the server may create and that the peer ends, and shares that cannot be
\* divided.
OddPackets ==
    {[Pays(0, <<>>) EXCEPT !.prepareAmount = 0, !.closes = {1}, !.aborts = TRUE],
     [Pays(3, <<Share(1, 1)>>) EXCEPT !.fulfillable = FALSE],
     [Pays(3, <<Share(1, 1), Share(2, 1)>>) EXCEPT !.closes = {2}],
     Pays(3, <<Share(1, 0)>>)}

AllPackets == MoneyPackets \cup OddPackets

\* A sender of equal packets on one stream.
EqualPackets == {Pays(5, <<Share(1, 1)>>)}

=============================================================================
