----------------------------- MODULE MCServices -----------------------------
(***************************************************************************)
(* Four components side by side for TLC: the data of a stream, the server  *)
(* and its pool, payouts and quotes.  A behaviour picks one of them and    *)
(* leaves the others in an initial state, so that the state spaces add up  *)
(* instead of multiplying.                                                 *)
(***************************************************************************)
EXTENDS StreamData, ServerPool, Payout, Quote

VARIABLE component

servicesVars == <<component, dataVars, poolVars, payoutVars, quoteVars>>

MCBufferSizes ==
    {[writer |-> 4, reader |-> 4], [writer |-> 5, reader |-> 1]}

MCTestAmounts == <<0, 8, 4, 2>>

MCPaths ==
    {[rate |-> RatioOf(n, 2), maximum |-> m, metadata |-> b] :
        n \in {1, 3}, m \in {0, 2, 20}, b \in BOOLEAN}

MCAsset == [valid |-> TRUE, code |-> <<88, 89, 90>>]

\* Options that are sealed, a tag with a character beyond ASCII among them, and ones
\* that are refused: an invalid nonce, and a tag that leaves a token of one byte more.
MCConnectionOptions ==
    {[paymentTag |-> tag, receiptSetup |-> undefined, asset |-> undefined] :
        tag \in {undefined, <<>>}}
    \cup {[paymentTag |-> undefined, receiptSetup |-> [valid |-> FALSE], asset |-> undefined]}
    \cup {[paymentTag |-> tag, receiptSetup |-> [valid |-> TRUE], asset |-> MCAsset] :
             tag \in {<<116, 8364>>, <<116, 97, 103>>}}

\* A component that is not picked stays in one of its initial states.
Init ==
    /\ component \in {"data", "pool", "payout", "quote"}
    /\ PoolInit
    /\ PayoutInit
    /\ DataInit /\ (component # "data" => reader.flowing /\ reader.bufferSize = 4)
    /\ QuoteInit /\ (component # "quote" => path.rate.a = 1 /\ path.maximum = 0
                                            /\ path.metadata /\ path.token.flags = {})

DataStep ==
    component = "data" /\ DataNext /\ UNCHANGED <<component, poolVars, payoutVars, quoteVars>>

PoolStep ==
    component = "pool" /\ PoolNext /\ UNCHANGED <<component, dataVars, payoutVars, quoteVars>>

PayoutStep ==
    component = "payout" /\ PayoutNext /\ UNCHANGED <<component, dataVars, poolVars, quoteVars>>

QuoteStep ==
    component = "quote" /\ QuoteNext /\ UNCHANGED <<component, dataVars, poolVars, payoutVars>>

Next == DataStep \/ PoolStep \/ PayoutStep \/ QuoteStep

Spec ==
    /\ Init
    /\ [][Next]_servicesVars
    /\ DataFairness /\ PoolFairness /\ PayoutFairness /\ QuoteFairness

=============================================================================
