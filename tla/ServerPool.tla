----------------------------- MODULE ServerPool -----------------------------
(***************************************************************************)
(* The STREAM server and its connection pool: server.ts and pool.ts of     *)
(* packages/ilp-protocol-stream/src.  Packets that arrive are handed to    *)
(* the connection their address names, which the first one creates, and    *)
(* close() drains the packets in progress before it ends the connections   *)
(* and disconnects the plugin.                                             *)
(*                                                                         *)
(* A connection is named after the packet that creates it.  What it does   *)
(* with a packet is ConnectionReceive's business: here it takes time and   *)
(* an answer comes back, from a closed connection too.  The plugin and the *)
(* application are external; the application awaits listen(), and calls    *)
(* close() on a server that listens or whose close() failed.               *)
(***************************************************************************)
EXTENDS Integers

CONSTANTS
    ConnectionIds,  \* the connection ids in the addresses of packets
    MaxPackets,     \* bound: packets that arrive
    MaxListens      \* bound: calls of listen()

ASSUME PoolAssumption == MaxPackets \in Nat /\ MaxListens \in Nat

VARIABLES
    server,         \* the Server and its plugin
    pools,          \* the pool of each call of listen()
    packets,        \* handleData, per packet
    connections     \* per connection, "none", "open" or "closed"

poolVars == <<server, pools, packets, connections>>

Packets == 1..MaxPackets

\* handler is the plugin's data handler, pool the last pool made (0 is undefined) and
\* ending the connections whose end() pool.close() waits for.
ServerState ==
    [handler : {"none", "handleData", "T99"}, plugin : BOOLEAN, listens : 0..MaxListens,
     phase : {"down", "connecting", "listening", "draining", "delaying", "ending", "failed"},
     pool : 0..MaxListens, ending : SUBSET Packets]

Pool == [activeConnections : [ConnectionIds -> Packets \cup {0}],
         pendingConnections : [ConnectionIds -> Packets \cup {0}]]

\* A packet that is "creating" or "waiting" awaits the connection's promise, one at
\* "tick" the next tick of the event loop.
PacketState ==
    [state : {"none", "creating", "waiting", "tick", "handling", "answered"},
     id : ConnectionIds \cup {0}, readable : BOOLEAN, pool : 0..MaxListens,
     connection : Packets \cup {0}, reply : {"none", "F00", "F02", "F06", "T99", "handled"}]

Unsent == [state |-> "none", id |-> 0, readable |-> FALSE, pool |-> 0, connection |-> 0,
           reply |-> "none"]

EmptyPool == [activeConnections |-> [id \in ConnectionIds |-> 0],
              pendingConnections |-> [id \in ConnectionIds |-> 0]]

PoolInit ==
    /\ server = [handler |-> "none", plugin |-> FALSE, listens |-> 0, phase |-> "down",
                 pool |-> 0, ending |-> {}]
    /\ pools = [n \in 1..MaxListens |-> EmptyPool]
    /\ packets = [r \in Packets |-> Unsent]
    /\ connections = [c \in Packets |-> "none"]

\* A pool with the active or the pending entry of an id set, or removed by 0.
withActive(pool, id, c) ==
    [pool EXCEPT !.activeConnections = [@ EXCEPT ![id] = c]]

withPending(pool, id, c) ==
    [pool EXCEPT !.pendingConnections = [@ EXCEPT ![id] = c]]

inProgress(r) == packets[r].state \notin {"none", "answered"}

inState(p, state) == [p EXCEPT !.state = state]

answered(p, code) == [p EXCEPT !.state = "answered", !.reply = code]

-----------------------------------------------------------------------------
(* handleData and getConnection *)

\* Packets arrive in the order of their numbers.
Arrives(r) ==
    /\ packets[r].state = "none"
    /\ \A q \in Packets : q < r => packets[q].state # "none"

\* What handleData answers before it asks the pool.  Until the first listen() is done
\* there is no pool, and the TypeError is answered with F00.
HandleMalformed(r) ==
    /\ Arrives(r)
    /\ server.handler = "handleData"
    /\ \E code \in {"F00", "F02"} : packets' = [packets EXCEPT ![r] = answered(@, code)]
    /\ UNCHANGED <<server, pools, connections>>

HandleEarly(r) ==
    /\ Arrives(r)
    /\ server.handler = "handleData" /\ server.pool = 0
    /\ packets' = [packets EXCEPT ![r] = answered(@, "F00")]
    /\ UNCHANGED <<server, pools, connections>>

\* The handler that close() registers.
HandleClosing(r) ==
    /\ Arrives(r)
    /\ server.handler = "T99"
    /\ packets' = [packets EXCEPT ![r] = answered(@, "T99")]
    /\ UNCHANGED <<server, pools, connections>>

\* Mutant: a connection that is still being created is not found.
MutantPendingConnection(pool, id) == 0

pendingConnection(pool, id) == pool.pendingConnections[id]

\* A packet that asked the pool for the connection of its id.
asked(id, readable, state, c) ==
    [state |-> state, id |-> id, readable |-> readable, pool |-> server.pool, connection |-> c,
     reply |-> "none"]

\* During a second listen() this.pool is still the pool of the first.
getConnection(r, id, readable) ==
    LET pool == pools[server.pool]
        active == pool.activeConnections[id]
        pending == pendingConnection(pool, id)
    IN  /\ Arrives(r)
        /\ server.handler = "handleData" /\ server.pool # 0
        /\ \/ /\ active # 0
              /\ packets' = [packets EXCEPT ![r] = asked(id, readable, "handling", active)]
              /\ UNCHANGED pools
           \/ /\ active = 0 /\ pending # 0
              /\ packets' = [packets EXCEPT ![r] = asked(id, readable, "waiting", pending)]
              /\ UNCHANGED pools
           \/ /\ active = 0 /\ pending = 0
              /\ packets' = [packets EXCEPT ![r] = asked(id, readable, "creating", r)]
              /\ pools' = [pools EXCEPT ![server.pool] = withPending(@, id, r)]
        /\ UNCHANGED <<server, connections>>

waitsFor(p, c) == p.state = "waiting" /\ p.connection = c

\* The packet decrypts with the secret of its token: the connection is built and
\* becomes active, the packets that waited for it are handled at once, the one that
\* created it at the next tick.
ConnectionCreated(r) ==
    LET p == packets[r]
    IN  /\ p.state = "creating" /\ p.readable
        /\ connections' = [connections EXCEPT ![r] = "open"]
        /\ pools' = [pools EXCEPT ![p.pool] = withPending(withActive(@, p.id, r), p.id, 0)]
        /\ packets' = [q \in Packets |->
                          IF q = r THEN inState(p, "tick")
                          ELSE IF waitsFor(packets[q], r) THEN inState(packets[q], "handling")
                          ELSE packets[q]]
        /\ UNCHANGED server

\* Mutant: only the packet that could not be read is answered.
MutantFailsWith(q, r) == q = r

\* The packets that share the failure of the one that creates the connection.
failsWith(q, r) == q = r \/ waitsFor(packets[q], r)

\* The packet does not decrypt: it and all that wait for it are answered F02.
CreationFails(r) ==
    LET p == packets[r]
    IN  /\ p.state = "creating" /\ ~p.readable
        /\ pools' = [pools EXCEPT ![p.pool] = withPending(@, p.id, 0)]
        /\ packets' = [q \in Packets |->
                          IF failsWith(q, r) THEN answered(packets[q], "F02") ELSE packets[q]]
        /\ UNCHANGED <<server, connections>>

NextTick(r) ==
    /\ packets[r].state = "tick"
    /\ packets' = [packets EXCEPT ![r] = inState(@, "handling")]
    /\ UNCHANGED <<server, pools, connections>>

\* The connection's handlePrepare ends with a fulfill or an error with its code.
handlePrepare(r) ==
    /\ packets[r].state = "handling"
    /\ packets' = [packets EXCEPT ![r] =
                      answered(@, IF packets[r].readable THEN "handled" ELSE "F06")]
    /\ UNCHANGED <<server, pools, connections>>

\* External: the peer, the application, an error, the idle timer or pool.close()
\* closes the connection, and its close event removes what the pool has under the id.
ConnectionCloses(c) ==
    LET p == packets[c]
    IN  /\ connections[c] = "open"
        /\ connections' = [connections EXCEPT ![c] = "closed"]
        /\ pools' = [pools EXCEPT ![p.pool] = withPending(withActive(@, p.id, 0), p.id, 0)]
        /\ UNCHANGED <<server, packets>>

-----------------------------------------------------------------------------
(* listen() and close() *)

listen ==
    /\ server.phase = "down" /\ server.listens < MaxListens
    /\ server' = [server EXCEPT !.handler = "handleData", !.plugin = TRUE, !.listens = @ + 1,
                                !.phase = "connecting"]
    /\ UNCHANGED <<pools, packets, connections>>

\* The plugin is connected and its address is known: a new pool replaces the last one.
Listening ==
    /\ server.phase = "connecting"
    /\ server' = [server EXCEPT !.phase = "listening", !.pool = server.listens]
    /\ UNCHANGED <<pools, packets, connections>>

\* connect() or the fetch of the address fails: the handler stays registered.
ListenFails ==
    /\ server.phase = "connecting"
    /\ server' = [server EXCEPT !.phase = "down"]
    /\ UNCHANGED <<pools, packets, connections>>

close ==
    /\ server.phase \in {"listening", "failed"}
    /\ server' = [server EXCEPT !.handler = "T99", !.phase = "draining"]
    /\ UNCHANGED <<pools, packets, connections>>

\* Mutant: close() does not wait for the packets in progress.
MutantDrained == TRUE

\* await this.pendingRequests: no packet has entered handleData since close().
drained == \A r \in Packets : ~inProgress(r)

Drained ==
    /\ server.phase = "draining" /\ drained
    /\ server' = [server EXCEPT !.phase = "delaying"]
    /\ UNCHANGED <<pools, packets, connections>>

\* After disconnectDelay pool.close() calls end() on the active connections.
EndConnections ==
    LET active == pools[server.pool].activeConnections
    IN  /\ server.phase = "delaying"
        /\ server' = [server EXCEPT !.phase = "ending",
                                    !.ending = {active[id] : id \in ConnectionIds} \ {0}]
        /\ UNCHANGED <<pools, packets, connections>>

\* A connection has an error while end() waits for its send loop: close() rejects.
EndFails ==
    /\ server.phase = "ending"
    /\ \E c \in server.ending : connections[c] = "open"
    /\ server' = [server EXCEPT !.phase = "failed", !.ending = {}]
    /\ UNCHANGED <<pools, packets, connections>>

Disconnect ==
    /\ server.phase = "ending"
    /\ \A c \in server.ending : connections[c] = "closed"
    /\ server' = [server EXCEPT !.phase = "down", !.handler = "none", !.plugin = FALSE,
                                !.ending = {}]
    /\ UNCHANGED <<pools, packets, connections>>

PoolNext ==
    \/ listen \/ Listening \/ ListenFails
    \/ close \/ Drained \/ EndConnections \/ EndFails \/ Disconnect
    \/ \E r \in Packets :
          \/ HandleMalformed(r) \/ HandleEarly(r) \/ HandleClosing(r)
          \/ \E id \in ConnectionIds, readable \in BOOLEAN : getConnection(r, id, readable)
          \/ ConnectionCreated(r) \/ CreationFails(r) \/ NextTick(r) \/ handlePrepare(r)
          \/ ConnectionCloses(r)

PoolSpec == PoolInit /\ [][PoolNext]_poolVars

\* close() waits for end() of connections, which need not settle: see EndSettles of
\* ConnectionSend.
awaitsEnd == server.phase = "ending" /\ server.ending # {}

\* Promises that do not depend on another packet settle, timers and immediates run.
\* Nothing is assumed of end(), and a waiting packet has no step of its own.
PoolFairness ==
    /\ []<>(server.phase \notin {"connecting", "delaying", "ending"} \/ awaitsEnd)
    /\ []<>~(server.phase = "draining" /\ drained)
    /\ \A r \in Packets : []<>(packets[r].state \notin {"creating", "tick", "handling"})

-----------------------------------------------------------------------------
(* Properties *)

(* Packets for a new connection that arrive while the first of them creates it do not  *)
(* create another: a pool has one open connection for an id, and hands packets to it   *)
(* until it is closed.                                                                 *)
OneConnectionPerId ==
    \A c \in Packets : connections[c] = "open" =>
        LET p == packets[c]
        IN  pools[p.pool].activeConnections[p.id] = c

(* close() returns its answers and ends its connections before the plugin is           *)
(* disconnected: no packet is in progress then and no connection of the server's pool  *)
(* is open.  Only connections that a second listen() created in the pool it was about  *)
(* to replace are left out.                                                            *)
RepliesBeforeDisconnect ==
    ~server.plugin =>
        /\ \A r \in Packets : ~inProgress(r)
        /\ \A c \in Packets : connections[c] = "open" => packets[c].pool # server.pool

(* Every packet is answered, also one that waits for a connection another packet fails *)
(* to create, and close() comes to an end, disconnected or rejected, or as far as the  *)
(* connections it ends: as long as new packets keep away, the server comes to rest.    *)
ServerSettles ==
    []<>(drained /\ (server.phase \notin {"draining", "delaying", "ending"} \/ awaitsEnd))

=============================================================================
