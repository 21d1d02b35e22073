------------------------------- MODULE Payout -------------------------------
(***************************************************************************)
(* A payout to one payment pointer: PayoutConnection of packages/          *)
(* ilp-spsp-payout, which pays a growing target over one STREAM connection *)
(* after another, and its expiry by Payout.                                *)
(*                                                                         *)
(* A link is one call of trySending with the connection and the stream it  *)
(* creates.  STREAM itself is external: a stream that is open sends its    *)
(* packets one at a time up to its limit, a packet in flight may be        *)
(* fulfilled after the stream was closed, and the error and close events   *)
(* of the connection and of the stream come in any order with the          *)
(* clean-ups they schedule.                                                *)
(***************************************************************************)
EXTENDS Integers, Totals

CONSTANTS
    MaxRetries,     \* maxRetries
    Amounts,        \* what send() may be called with
    MaxTarget,      \* bound: the target
    MaxLinks        \* bound: links that exist at a time

ASSUME PayoutAssumption ==
    /\ MaxRetries \in Nat /\ MaxTarget \in Nat /\ MaxLinks \in Nat
    /\ Amounts \subseteq Nat \ {0}

VARIABLES
    payout,     \* the PayoutConnection
    links,      \* per call of trySending, its connection and stream
    account     \* history: what was paid, what of it was not counted, and whether
                \* a link was started while another one was in use

payoutVars == <<payout, links, account>>

LinkIds == 1..MaxLinks

\* this.stream and this.connection belong to the link current, 0 if there is none.
\* timers counts the retries that wait for retryInterval.
PayoutState ==
    [state : {"DISCONNECTED", "CONNECTING", "IDLE", "SENDING", "ABORTED"},
     closing : BOOLEAN, retries : Nat, target : Nat, sent : Nat, timers : Nat,
     current : LinkIds \cup {0}]

\* total is what onOutgoingMoney counted, the stream's totalSent while it listens.  A
\* stream that is "closing" was destroyed and has not emitted its close event.
Link ==
    [phase : {"none", "connecting", "up", "erred", "closed"},
     stream : {"none", "open", "closing", "closed"},
     sendMax : Nat, inFlight : BOOLEAN,
     total : Nat, applied : BOOLEAN, listening : BOOLEAN, cleanUps : Nat]

NoLink ==
    [phase |-> "none", stream |-> "none", sendMax |-> 0, inFlight |-> FALSE,
     total |-> 0, applied |-> FALSE, listening |-> FALSE, cleanUps |-> 0]

Connecting == [NoLink EXCEPT !.phase = "connecting"]

PayoutInit ==
    /\ payout = [state |-> "DISCONNECTED", closing |-> FALSE, retries |-> 0, target |-> 0,
                 sent |-> 0, timers |-> 0, current |-> 0]
    /\ links = [c \in LinkIds |-> NoLink]
    /\ account = [paid |-> 0, uncounted |-> 0, overlapped |-> FALSE]

\* Mutant: the limit of a new stream forgets what earlier streams paid.
MutantGetSendMax(p) == p.target

getSendMax(p) == p.target - p.sent

-----------------------------------------------------------------------------
(* Connecting *)

inUse(link) == link.phase = "connecting" \/ link.listening

\* A link that was cleaned up and has no packet in flight is forgotten: its stream
\* is closed, and this.stream refusing a limit is all that could still be seen of it.
forget(link) ==
    IF link.applied /\ ~link.inFlight /\ link.cleanUps = 0 THEN NoLink ELSE link

tried(p, state) == [p EXCEPT !.retries = @ + 1, !.state = state]

\* safeTrySending and the first part of trySending, with the payout and the links as
\* the caller left them.
safeTrySending(p, current) ==
    LET free == {c \in LinkIds : current[c] = NoLink}
        next == CHOOSE c \in free : TRUE
    IN  IF p.retries >= MaxRetries
        THEN /\ payout' = tried(p, "ABORTED")
             /\ links' = current
             /\ UNCHANGED account
        ELSE IF p.state # "DISCONNECTED"
        THEN /\ payout' = tried(p, p.state)
             /\ links' = current
             /\ UNCHANGED account
        ELSE /\ free # {}
             /\ payout' = tried(p, "CONNECTING")
             /\ links' = [current EXCEPT ![next] = Connecting]
             /\ account' = [account EXCEPT !.overlapped =
                                @ \/ \E c \in LinkIds : inUse(current[c])]

connected(link, limit) ==
    [link EXCEPT !.phase = "up", !.stream = "open", !.sendMax = limit, !.listening = TRUE]

\* The query and createConnection succeed: the stream gets what is left to pay.
Connected(c) ==
    LET due == getSendMax(payout)
    IN  /\ links[c].phase = "connecting"
        /\ payout' = [payout EXCEPT !.state = IF due > 0 THEN "SENDING" ELSE "IDLE",
                                    !.current = c]
        /\ links' = [links EXCEPT ![c] = connected(@, IF due > 0 THEN due ELSE 0)]
        /\ UNCHANGED account

\* The query or createConnection fails: a retry is due after retryInterval, unless
\* the payout is closing.
ConnectFails(c) ==
    /\ links[c].phase = "connecting"
    /\ links' = [links EXCEPT ![c] = NoLink]
    /\ payout' = IF payout.closing THEN payout
                 ELSE [payout EXCEPT !.state = "DISCONNECTED", !.timers = @ + 1]
    /\ UNCHANGED account

RetryTimer ==
    /\ payout.timers > 0
    /\ safeTrySending([payout EXCEPT !.timers = @ - 1], links)

-----------------------------------------------------------------------------
(* The stream pays and its events *)

\* External: the stream sends a packet, which is answered later.
SendMoney(c) ==
    /\ links[c].stream = "open" /\ links[c].inFlight = FALSE
    /\ links[c].total < links[c].sendMax
    /\ links' = [links EXCEPT ![c] = [@ EXCEPT !.inFlight = TRUE]]
    /\ UNCHANGED <<payout, account>>

\* onOutgoingMoney, the link's total having been raised.
onOutgoingMoney(p, link) ==
    [p EXCEPT !.retries = 0,
              !.state = IF link.total + p.sent >= p.target THEN "IDLE" ELSE @]

\* The answer to a packet was received, and what it paid counted.
spent(link) == [link EXCEPT !.inFlight = FALSE]

counted(link) == [link EXCEPT !.inFlight = FALSE, !.total = @ + 1]

\* The packet is fulfilled.  Money that arrives after the clean-up is not counted.
MoneySent(c) ==
    /\ links[c].inFlight
    /\ IF links[c].listening
       THEN /\ links' = [links EXCEPT ![c] = counted(@)]
            /\ payout' = onOutgoingMoney(payout, counted(links[c]))
       ELSE links' = [links EXCEPT ![c] = forget(spent(@))] /\ payout' = payout
    /\ account' = [account EXCEPT !.paid = @ + 1,
                                  !.uncounted = IF links[c].listening THEN @ ELSE @ + 1]

\* A packet that is rejected is sent again, unless the stream was closed.
MoneyRejected(c) ==
    /\ links[c].inFlight /\ links[c].stream # "open"
    /\ links' = [links EXCEPT ![c] = forget(spent(@))]
    /\ UNCHANGED <<payout, account>>

\* Events of the link's connection or stream, which leave them as given, schedule a
\* clean-up each.  Events after the first clean-up has run are not heard and left out.
heard(link, phase, stream, events) ==
    [link EXCEPT !.phase = phase, !.stream = stream, !.cleanUps = @ + events]

\* destroy(err): the connection's error event; the stream is destroyed.
ConnectionError(c) ==
    LET stream == links[c].stream
    IN  /\ links[c].listening /\ links[c].phase = "up"
        /\ links' = [links EXCEPT ![c] =
                        heard(@, "erred", IF stream = "open" THEN "closing" ELSE stream, 1)]
        /\ UNCHANGED <<payout, account>>

\* The stream's error event, after its peer closed it with an error, and its close
\* event, which is emitted before the clean-up of the first runs.
StreamError(c) ==
    /\ links[c].listening /\ links[c].stream = "open"
    /\ links' = [links EXCEPT ![c] = heard(@, links[c].phase, "closed", 2)]
    /\ UNCHANGED <<payout, account>>

\* The close event of the stream, which either side may have closed...
StreamClosed(c) ==
    /\ links[c].listening /\ links[c].stream \in {"open", "closing"}
    /\ links' = [links EXCEPT ![c] = heard(@, links[c].phase, "closed", 1)]
    /\ UNCHANGED <<payout, account>>

\* ...and of the connection, once its streams are closed.
ConnectionClosed(c) ==
    /\ links[c].listening /\ links[c].phase \in {"up", "erred"} /\ links[c].stream = "closed"
    /\ links' = [links EXCEPT ![c] = heard(@, "closed", "closed", 1)]
    /\ UNCHANGED <<payout, account>>

HeardEvent(c) == ConnectionError(c) \/ StreamError(c) \/ StreamClosed(c) \/ ConnectionClosed(c)

\* Mutant: every clean-up adds the stream's total.
MutantCleanedUp(p, link) ==
    [p EXCEPT !.state = "DISCONNECTED", !.sent = @ + link.total]

\* The payout after a clean-up: the first one of a link adds what its stream paid.
cleanedUp(p, link) ==
    [p EXCEPT !.state = "DISCONNECTED", !.sent = IF link.applied THEN @ ELSE @ + link.total]

\* Mutant: a clean-up leaves the retry to the next call of send().
MutantTriesAgain(p) == FALSE

triesAgain(p) == getSendMax(p) > 0

\* The listeners are removed: a packet in flight and the clean-ups that are due are
\* all that is still seen of the closed connection and stream.
cleaned(link) ==
    [NoLink EXCEPT !.inFlight = link.inFlight, !.total = link.total, !.applied = TRUE,
                   !.cleanUps = link.cleanUps - 1]

\* A clean-up that was scheduled by setImmediate.
cleanUp(c) ==
    LET p == cleanedUp(payout, links[c])
        current == [links EXCEPT ![c] = forget(cleaned(@))]
    IN  /\ links[c].cleanUps > 0
        /\ IF triesAgain(p) THEN safeTrySending(p, current)
           ELSE payout' = p /\ links' = current /\ UNCHANGED account

-----------------------------------------------------------------------------
(* The application *)

\* setSendMax throws if its stream was closed, or has paid more; the target is
\* raised all the same.
accepts(link, limit) == link.stream = "open" /\ limit >= link.total

limited(link, limit) == [link EXCEPT !.sendMax = limit]

send(amount) ==
    LET p == [payout EXCEPT !.target = @ + amount]
        limit == getSendMax(p)
    IN  /\ ~payout.closing
        /\ payout.target + amount <= MaxTarget
        /\ IF payout.state \in {"SENDING", "IDLE"} /\ payout.current # 0
           THEN /\ payout' = [p EXCEPT !.state = "SENDING"]
                /\ links' = IF accepts(links[payout.current], limit)
                            THEN [links EXCEPT ![payout.current] = limited(@, limit)]
                            ELSE links
                /\ UNCHANGED account
           ELSE safeTrySending(p, links)

destroyed(link) == [link EXCEPT !.stream = "closing"]

\* expirePaymentPointer of Payout once nothing was sent for a while, and close():
\* the payout is forgotten, the last timer cleared and the connection destroyed.
expirePaymentPointer ==
    /\ ~payout.closing
    /\ payout' = [payout EXCEPT !.closing = TRUE, !.timers = IF @ > 0 THEN @ - 1 ELSE 0]
    /\ links' = IF payout.current # 0 /\ links[payout.current].stream = "open"
                THEN [links EXCEPT ![payout.current] = destroyed(@)] ELSE links
    /\ UNCHANGED account

PayoutNext ==
    \/ \E amount \in Amounts : send(amount)
    \/ expirePaymentPointer
    \/ RetryTimer
    \/ \E c \in LinkIds :
          \/ Connected(c) \/ ConnectFails(c)
          \/ SendMoney(c) \/ MoneySent(c) \/ MoneyRejected(c)
          \/ HeardEvent(c) \/ cleanUp(c)

PayoutSpec == PayoutInit /\ [][PayoutNext]_payoutVars

\* Timers and immediates run, connecting resolves or fails, a stream that was
\* destroyed closes, and one that is open pays up to its limit or is closed.
PayoutFairness ==
    /\ []<>(payout.timers = 0)
    /\ \A c \in LinkIds :
          /\ []<>(links[c].phase # "connecting")
          /\ []<>~(links[c].stream = "closing" /\ links[c].listening)
          /\ []<>(links[c].cleanUps = 0)
          /\ []<>~(links[c].stream = "open" /\ links[c].total < links[c].sendMax)

-----------------------------------------------------------------------------
(* Properties *)

\* What the streams paid that no clean-up has added yet.
unapplied == [c \in LinkIds |-> IF links[c].applied THEN 0 ELSE links[c].total]

(* However many of the close and error events of a connection and its stream schedule  *)
(* a clean-up, sent grows by what the stream paid exactly once: sent and the totals of *)
(* the links in use are what was paid, less what was paid after a clean-up had removed *)
(* the listener.                                                                       *)
PayoutLedger ==
    account.paid - account.uncounted = payout.sent + Total(unapplied, MaxLinks)

(* Over any number of connections a payout pays no more than it was asked for, unless  *)
(* two connections were in use at once (a second clean-up of the same failure marks    *)
(* the payout disconnected while the retry of the first one is connecting) or money    *)
(* arrived after the clean-up of its stream.                                           *)
PaysOnce ==
    ~account.overlapped /\ account.uncounted = 0 => account.paid <= payout.target

(* A payout that fails is tried again: it pays its target in the end, or runs out of   *)
(* retries, or expires.  No failure, early close or call of send() while it connects   *)
(* leaves it waiting for an event that does not come.                                  *)
PayoutSettles ==
    []<>(payout.closing \/ payout.state = "ABORTED" \/ account.paid >= payout.target)

=============================================================================
