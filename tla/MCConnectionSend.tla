-------------------------- MODULE MCConnectionSend --------------------------
(***************************************************************************)
(* Instances of ConnectionSend for TLC: words of 4 bits, amounts below     *)
(* half of them, and frames for every branch of the frame handlers.        *)
(***************************************************************************)
EXTENDS ConnectionSend

OneToOne == {[a |-> 1, b |-> 1]}

GreaterThanOne == {[a |-> 3, b |-> 2]}

Other ==
    [type |-> "other", streamId |-> 1, receiveMax |-> 0, totalReceived |-> 0, error |-> FALSE]

MaxMoney(id, max, received) ==
    [Other EXCEPT !.type = "StreamMaxMoney", !.streamId = id, !.receiveMax = max,
                  !.totalReceived = received]

\* The receiver blocks stream 1 at 1 unit, or lets it have 4; it closes the stream
\* or the connection, with and without an error.
AllFrames ==
    {Other, MaxMoney(1, 1, 1), MaxMoney(1, 4, 0)}
        \cup {[Other EXCEPT !.type = t, !.error = e] :
                 t \in {"StreamClose", "ConnectionClose"}, e \in BOOLEAN}

\* The receiver blocks stream 1, or closes the connection without an error.
ClosingFrames == {MaxMoney(1, 1, 1), [Other EXCEPT !.type = "ConnectionClose"]}

OtherFrame == {Other}

AllMetadata == {undefined, [received |-> 3, maximum |-> 2], [received |-> 1, maximum |-> 0]}

NoMetadata == {undefined}

=============================================================================
