--------------------------- MODULE ServicesProofs ---------------------------
(***************************************************************************)
(* Proofs about the components that MCServices checks beside the data of a *)
(* stream (for which see StreamDataProofs): the server and its connection  *)
(* pool, payouts and quotes, for any number of packets, connections, links *)
(* and calls, and any paths, test amounts and bounds.                      *)
(***************************************************************************)
EXTENDS ServerPool, Payout, Quote, PrefixSums, SequenceTheorems, TLAPS

-----------------------------------------------------------------------------
(***************************************************************************)
(* The server and its connection pool.                                     *)
(*                                                                         *)
(* OneConnectionPerId is not inductive: it says nothing of the packets     *)
(* that are creating a connection, and the one that is created last would  *)
(* take the place of another.  PoolInv adds what the pool keeps of them:   *)
(* an id is active or pending, never both, and the pending entry is the    *)
(* packet that creates the connection.  RepliesBeforeDisconnect needs what *)
(* close() has done so far in each of its phases.                          *)
(***************************************************************************)

PoolTypeOK ==
    /\ server \in ServerState
    /\ pools \in [1 .. MaxListens -> Pool]
    /\ packets \in [Packets -> PacketState]
    /\ connections \in [Packets -> {"none", "open", "closed"}]

\* The pool and the id of a packet that asked the pool for a connection.
Routed(p) == p.pool \in 1 .. MaxListens /\ p.id \in ConnectionIds

\* A packet that creates a connection is the pending entry of its id.
CreatingIsPending ==
    \A r \in Packets : packets[r].state = "creating" =>
        /\ Routed(packets[r])
        /\ pools[packets[r].pool].pendingConnections[packets[r].id] = r

\* An id with a pending entry has no active connection.
PendingNotActive ==
    \A n \in 1 .. MaxListens, id \in ConnectionIds :
        pools[n].pendingConnections[id] # 0 => pools[n].activeConnections[id] = 0

\* An open connection is the active one of the pool and id of its packet.
OpenIsActive ==
    \A c \in Packets : connections[c] = "open" =>
        /\ Routed(packets[c])
        /\ pools[packets[c].pool].activeConnections[packets[c].id] = c

\* A packet has no connection before it has created it.
CreatedOnce ==
    \A r \in Packets : packets[r].state \in {"none", "creating"} => connections[r] = "none"

PoolInv ==
    /\ PoolTypeOK
    /\ CreatingIsPending
    /\ PendingNotActive
    /\ OpenIsActive
    /\ CreatedOnce

\* The connections of the server's pool that are open.
OpenInPool(c) == connections[c] = "open" /\ packets[c].pool = server.pool

\* What listen() and close() have done by each phase.
PhaseInv ==
    /\ server.phase = "connecting" => server.listens # 0
    /\ server.phase \notin {"down", "connecting"} => server.pool # 0
    /\ server.phase \in {"draining", "delaying", "ending", "failed"} => server.handler = "T99"
    /\ server.phase \in {"delaying", "ending", "failed"} => drained
    /\ server.phase = "ending" => \A c \in Packets : OpenInPool(c) => c \in server.ending
    /\ ~server.plugin =>
          /\ server.phase = "down" /\ server.handler = "none"
          /\ drained
          /\ \A c \in Packets : ~OpenInPool(c)

\* The parts of the state that only packets and connections change, and that only
\* listen() and close() change.
ServerStep ==
    listen \/ Listening \/ ListenFails \/ close \/ Drained \/ EndConnections \/ EndFails \/ Disconnect

AnswerStep(r) == HandleMalformed(r) \/ HandleEarly(r) \/ HandleClosing(r)

-----------------------------------------------------------------------------
(* The initial state *)

\* The server has no pool, no packet and no connection at first.
LEMMA PoolInitInv == PoolInit => PoolInv /\ PhaseInv
<1>. SUFFICES ASSUME PoolInit PROVE PoolInv /\ PhaseInv
  OBVIOUS
<1>1. PoolTypeOK
  BY PoolAssumption DEF PoolInit, PoolTypeOK, ServerState, Pool, PacketState, Unsent, EmptyPool, Packets
<1>2. \A r \in Packets : packets[r].state = "none" /\ connections[r] = "none"
  BY DEF PoolInit, Unsent
<1>3. PendingNotActive
  BY DEF PoolInit, EmptyPool, PendingNotActive
<1>4. PoolInv
  BY <1>1, <1>2, <1>3 DEF PoolInv, CreatingIsPending, OpenIsActive, CreatedOnce
<1>5. PhaseInv
  BY <1>2 DEF PoolInit, PhaseInv, drained, inProgress, OpenInPool
<1>. QED  BY <1>4, <1>5

-----------------------------------------------------------------------------
(* The pool *)

\* Steps of listen() and close() leave the pools and the packets alone.
LEMMA ServerStepPool == PoolInv /\ PhaseInv /\ ServerStep => PoolInv'
<1>. SUFFICES ASSUME PoolInv, PhaseInv, ServerStep PROVE PoolInv'
  OBVIOUS
<1>1. UNCHANGED <<pools, packets, connections>>
  BY DEF ServerStep, listen, Listening, ListenFails, close, Drained, EndConnections, EndFails,
         Disconnect
<1>2. server' \in ServerState
  <2>1. server \in ServerState
    BY DEF PoolInv, PoolTypeOK
  <2>2. CASE EndConnections
    <3>1. server.pool \in 1 .. MaxListens
      BY <2>1, <2>2 DEF EndConnections, PhaseInv, ServerState
    <3>2. \A id \in ConnectionIds : pools[server.pool].activeConnections[id] \in Packets \cup {0}
      BY <3>1 DEF PoolInv, PoolTypeOK, Pool
    <3>. DEFINE active == pools[server.pool].activeConnections
                ending == {active[id] : id \in ConnectionIds} \ {0}
    <3>3. ending \in SUBSET Packets
      BY <3>2
    <3>4. server' = [server EXCEPT !.phase = "ending", !.ending = ending]
      BY <2>2 DEF EndConnections
    <3>. HIDE DEF ending
    <3>. QED  BY <2>1, <3>3, <3>4 DEF ServerState
  <2>3. CASE listen
    <3>1. server.listens + 1 \in 0 .. MaxListens
      BY <2>1, <2>3, PoolAssumption DEF listen, ServerState
    <3>. QED  BY <2>1, <2>3, <3>1 DEF listen, ServerState
  <2>4. CASE Listening \/ ListenFails \/ close \/ Drained \/ EndFails \/ Disconnect
    BY <2>1, <2>4 DEF Listening, ListenFails, close, Drained, EndFails, Disconnect, ServerState
  <2>. QED  BY <2>2, <2>3, <2>4 DEF ServerStep
<1>. QED  BY <1>1, <1>2 DEF PoolInv, PoolTypeOK, CreatingIsPending, PendingNotActive, OpenIsActive,
                            CreatedOnce, Routed

\* A packet that is answered at once, is taken off the tick or leaves the connection
\* changes nothing the pool knows: it had no connection to create.
LEMMA PacketStepPool ==
  ASSUME NEW r \in Packets, PoolInv, UNCHANGED <<server, pools, connections>>,
         NEW p \in PacketState, packets' = [packets EXCEPT ![r] = p],
         packets[r].state # "creating", p.state \notin {"none", "creating"},
         packets[r].state = "none" \/ (p.pool = packets[r].pool /\ p.id = packets[r].id)
  PROVE  PoolInv'
<1>1. packets \in [Packets -> PacketState]
  BY DEF PoolInv, PoolTypeOK
<1>2. packets' \in [Packets -> PacketState] /\ packets'[r] = p
      /\ \A q \in Packets : q # r => packets'[q] = packets[q]
  BY <1>1
<1>3. PoolTypeOK'
  BY <1>2 DEF PoolInv, PoolTypeOK
<1>4. CreatingIsPending' /\ CreatedOnce'
  BY <1>2 DEF PoolInv, CreatingIsPending, CreatedOnce, Routed
<1>5. PendingNotActive'
  BY DEF PoolInv, PendingNotActive
<1>6. OpenIsActive'
  BY <1>2 DEF PoolInv, OpenIsActive, CreatedOnce, Routed
<1>. QED  BY <1>3, <1>4, <1>5, <1>6 DEF PoolInv

\* An answer keeps the other fields of a packet.
LEMMA AnsweredType ==
  ASSUME NEW p \in PacketState, NEW code \in {"F00", "F02", "F06", "T99", "handled"}
  PROVE  /\ answered(p, code) \in PacketState
         /\ answered(p, code).state = "answered"
         /\ answered(p, code).pool = p.pool /\ answered(p, code).id = p.id
BY DEF answered, PacketState

\* A packet in another state keeps its other fields.
LEMMA StateType ==
  ASSUME NEW p \in PacketState, NEW s \in {"tick", "handling"}
  PROVE  /\ inState(p, s) \in PacketState
         /\ inState(p, s).state = s
         /\ inState(p, s).pool = p.pool /\ inState(p, s).id = p.id
BY DEF inState, PacketState

\* Packets that handleData answers before it asks the pool.
LEMMA AnswerStepPool ==
  ASSUME NEW r \in Packets, PoolInv, AnswerStep(r)
  PROVE  PoolInv'
<1>1. packets[r] \in PacketState /\ packets[r].state = "none"
  BY DEF PoolInv, PoolTypeOK, AnswerStep, HandleMalformed, HandleEarly, HandleClosing, Arrives
<1>2. PICK code \in {"F00", "F02", "F06", "T99", "handled"} :
          packets' = [packets EXCEPT ![r] = answered(packets[r], code)]
  BY DEF AnswerStep, HandleMalformed, HandleEarly, HandleClosing
<1>3. UNCHANGED <<server, pools, connections>>
  BY DEF AnswerStep, HandleMalformed, HandleEarly, HandleClosing
<1>. QED  BY <1>1, <1>2, <1>3, AnsweredType, PacketStepPool

\* NextTick and handlePrepare.
LEMMA HandleStepPool ==
  ASSUME NEW r \in Packets, PoolInv, NextTick(r) \/ handlePrepare(r)
  PROVE  PoolInv'
<1>1. packets[r] \in PacketState
  BY DEF PoolInv, PoolTypeOK
<1>2. CASE NextTick(r)
  <2>1. packets' = [packets EXCEPT ![r] = inState(packets[r], "handling")] /\ UNCHANGED <<server, pools, connections>>
        /\ packets[r].state = "tick"
    BY <1>2 DEF NextTick
  <2>. QED  BY <1>1, <2>1, StateType, PacketStepPool
<1>3. CASE handlePrepare(r)
  <2>1. PICK code \in {"F06", "handled"} : packets' = [packets EXCEPT ![r] = answered(packets[r], code)]
    BY <1>3 DEF handlePrepare
  <2>2. UNCHANGED <<server, pools, connections>> /\ packets[r].state = "handling"
    BY <1>3 DEF handlePrepare
  <2>. QED  BY <1>1, <2>1, <2>2, AnsweredType, PacketStepPool
<1>. QED  BY <1>2, <1>3

\* Setting one entry of a pool leaves its other entries alone.
LEMMA EntryTypes ==
  ASSUME NEW pool \in Pool, NEW id \in ConnectionIds, NEW c \in Packets \cup {0}
  PROVE  /\ withActive(pool, id, c) \in Pool /\ withPending(pool, id, c) \in Pool
         /\ withActive(pool, id, c).pendingConnections = pool.pendingConnections
         /\ withPending(pool, id, c).activeConnections = pool.activeConnections
         /\ withActive(pool, id, c).activeConnections[id] = c
         /\ withPending(pool, id, c).pendingConnections[id] = c
         /\ \A i \in ConnectionIds : i # id =>
               /\ withActive(pool, id, c).activeConnections[i] = pool.activeConnections[i]
               /\ withPending(pool, id, c).pendingConnections[i] = pool.pendingConnections[i]
BY DEF withActive, withPending, Pool

\* The steps that set entries of a pool.
PoolSet(n, new) == pools' = [pools EXCEPT ![n] = new]

\* The entries of the pools after the pending one of an id was set...
LEMMA PendingUpdate ==
  ASSUME NEW n \in 1 .. MaxListens, NEW id \in ConnectionIds, NEW c \in Packets \cup {0},
         pools \in [1 .. MaxListens -> Pool],
         PoolSet(n, withPending(pools[n], id, c))
  PROVE  /\ pools' \in [1 .. MaxListens -> Pool]
         /\ pools'[n].pendingConnections[id] = c
         /\ \A m \in 1 .. MaxListens, i \in ConnectionIds :
               /\ pools'[m].activeConnections[i] = pools[m].activeConnections[i]
               /\ (m # n \/ i # id) =>
                     pools'[m].pendingConnections[i] = pools[m].pendingConnections[i]
<1>1. pools[n] \in Pool
  OBVIOUS
<1>. QED  BY <1>1, EntryTypes DEF PoolSet

\* ...and after both were.
LEMMA PoolUpdate ==
  ASSUME NEW n \in 1 .. MaxListens, NEW id \in ConnectionIds, NEW c \in Packets \cup {0},
         pools \in [1 .. MaxListens -> Pool],
         PoolSet(n, withPending(withActive(pools[n], id, c), id, 0))
  PROVE  /\ pools' \in [1 .. MaxListens -> Pool]
         /\ pools'[n].activeConnections[id] = c /\ pools'[n].pendingConnections[id] = 0
         /\ \A m \in 1 .. MaxListens, i \in ConnectionIds : (m # n \/ i # id) =>
               /\ pools'[m].activeConnections[i] = pools[m].activeConnections[i]
               /\ pools'[m].pendingConnections[i] = pools[m].pendingConnections[i]
<1>. DEFINE half == withActive(pools[n], id, c)
            new == withPending(half, id, 0)
<1>1. pools[n] \in Pool
  OBVIOUS
<1>2. /\ half \in Pool /\ half.pendingConnections = pools[n].pendingConnections
      /\ half.activeConnections[id] = c
      /\ \A i \in ConnectionIds : i # id =>
            half.activeConnections[i] = pools[n].activeConnections[i]
  BY <1>1, EntryTypes
<1>. HIDE DEF half
<1>3. /\ new \in Pool /\ new.activeConnections = half.activeConnections
      /\ new.pendingConnections[id] = 0
      /\ \A i \in ConnectionIds : i # id =>
            new.pendingConnections[i] = half.pendingConnections[i]
  <2>. DEFINE zero == 0
  <2>1. zero \in Packets \cup {0}
    OBVIOUS
  <2>. HIDE DEF zero
  <2>2. /\ withPending(half, id, zero) \in Pool
        /\ withPending(half, id, zero).activeConnections = half.activeConnections
        /\ withPending(half, id, zero).pendingConnections[id] = zero
    BY <1>2, <2>1, EntryTypes
  <2>3. ASSUME NEW i \in ConnectionIds, i # id
        PROVE  withPending(half, id, zero).pendingConnections[i] = half.pendingConnections[i]
    BY <1>2, <2>3 DEF withPending, Pool
  <2>. QED  BY <2>2, <2>3 DEF zero
<1>4. pools' = [pools EXCEPT ![n] = new]
  BY DEF half, PoolSet
<1>. HIDE DEF new
<1>5. /\ pools' \in [1 .. MaxListens -> Pool] /\ pools'[n] = new
      /\ \A m \in 1 .. MaxListens : m # n => pools'[m] = pools[m]
  BY <1>3, <1>4
<1>. QED  BY <1>2, <1>3, <1>5

\* A packet that asks the pool gets the active connection, waits for the pending one,
\* or becomes the pending entry of an id that has neither.
LEMMA GetConnectionPool ==
  ASSUME NEW r \in Packets, NEW id \in ConnectionIds, NEW readable \in BOOLEAN,
         PoolInv, getConnection(r, id, readable)
  PROVE  PoolInv'
<1>. DEFINE n == server.pool
            pool == pools[n]
            active == pool.activeConnections[id]
            pending == pool.pendingConnections[id]
<1>1. /\ packets \in [Packets -> PacketState] /\ pools \in [1 .. MaxListens -> Pool]
      /\ n \in 1 .. MaxListens /\ packets[r].state = "none" /\ connections[r] = "none"
  BY DEF PoolInv, PoolTypeOK, ServerState, getConnection, Arrives, CreatedOnce
<1>2. pool \in Pool /\ active \in Packets \cup {0} /\ pending \in Packets \cup {0}
  BY <1>1 DEF Pool
<1>3. ASSUME NEW s \in {"handling", "waiting", "creating"}, NEW c \in Packets
      PROVE  /\ asked(id, readable, s, c) \in PacketState
             /\ asked(id, readable, s, c).state = s
             /\ asked(id, readable, s, c).pool = n
             /\ asked(id, readable, s, c).id = id
  BY <1>1 DEF PacketState, asked
<1>4. CASE /\ active # 0 \/ pending # 0
           /\ UNCHANGED <<server, pools, connections>>
           /\ \E s \in {"handling", "waiting"}, c \in Packets :
                 packets' = [packets EXCEPT ![r] = asked(id, readable, s, c)]
  <2>1. PICK s \in {"handling", "waiting"}, c \in Packets :
          packets' = [packets EXCEPT ![r] = asked(id, readable, s, c)]
    BY <1>4
  <2>. QED  BY <1>1, <1>3, <1>4, <2>1, PacketStepPool
<1>5. CASE /\ active = 0 /\ pending = 0
           /\ UNCHANGED <<server, connections>>
           /\ packets' = [packets EXCEPT ![r] = asked(id, readable, "creating", r)]
           /\ pools' = [pools EXCEPT ![n] = withPending(pools[n], id, r)]
  <2>. DEFINE new == asked(id, readable, "creating", r)
  <2>1. new \in PacketState /\ new.state = "creating" /\ new.pool = n /\ new.id = id
    BY <1>3
  <2>3. packets' = [packets EXCEPT ![r] = new]
    BY <1>5
  <2>. HIDE DEF new
  <2>4. /\ packets' \in [Packets -> PacketState] /\ packets'[r] = new
        /\ \A q \in Packets : q # r => packets'[q] = packets[q]
    BY <1>1, <2>1, <2>3
  <2>5. /\ pools' \in [1 .. MaxListens -> Pool]
        /\ pools'[n].pendingConnections[id] = r
        /\ \A m \in 1 .. MaxListens, i \in ConnectionIds :
              /\ pools'[m].activeConnections[i] = pools[m].activeConnections[i]
              /\ (m # n \/ i # id) =>
                    pools'[m].pendingConnections[i] = pools[m].pendingConnections[i]
    <3>1. PoolSet(n, withPending(pools[n], id, r))
      BY <1>5 DEF PoolSet
    <3>. HIDE DEF n
    <3>. QED  BY <1>1, <3>1, PendingUpdate
  <2>6. PoolTypeOK'
    BY <1>5, <2>4, <2>5 DEF PoolInv, PoolTypeOK
  <2>7. CreatingIsPending'
    <3>. SUFFICES ASSUME NEW q \in Packets, packets'[q].state = "creating"
                  PROVE  /\ Routed(packets'[q])
                         /\ pools'[packets'[q].pool].pendingConnections[packets'[q].id] = q
      BY DEF CreatingIsPending, Routed
    <3>1. CASE q = r
      BY <1>1, <2>1, <2>4, <2>5, <3>1 DEF Routed
    <3>2. CASE q # r
      <4>1. packets'[q] = packets[q] /\ Routed(packets[q])
            /\ pools[packets[q].pool].pendingConnections[packets[q].id] = q
        BY <2>4, <3>2 DEF PoolInv, CreatingIsPending
      <4>2. q # 0
        BY DEF Packets
      <4>3. ~(packets[q].pool = n /\ packets[q].id = id)
        BY <1>5, <4>1, <4>2
      <4>. QED  BY <2>5, <4>1, <4>3 DEF Routed
    <3>. QED  BY <3>1, <3>2
  <2>8. PendingNotActive'
    BY <1>5, <2>5 DEF PoolInv, PendingNotActive
  <2>9. OpenIsActive'
    BY <1>1, <1>5, <2>4, <2>5 DEF PoolInv, OpenIsActive, Routed
  <2>10. CreatedOnce'
    BY <1>1, <1>5, <2>4 DEF PoolInv, CreatedOnce
  <2>. QED  BY <2>6, <2>7, <2>8, <2>9, <2>10 DEF PoolInv
<1>. QED
  <2>1. active # 0 => active \in Packets
    BY <1>2
  <2>2. pending # 0 => pending \in Packets
    BY <1>2
  <2>. QED  BY <1>4, <1>5, <2>1, <2>2 DEF getConnection, pendingConnection

\* The connection takes the place of the pending entry of its packet.
LEMMA ConnectionCreatedPool ==
  ASSUME NEW r \in Packets, PoolInv, ConnectionCreated(r)
  PROVE  PoolInv'
<1>. DEFINE p == packets[r]
            n == p.pool
            id == p.id
<1>1. /\ packets \in [Packets -> PacketState] /\ pools \in [1 .. MaxListens -> Pool]
      /\ connections \in [Packets -> {"none", "open", "closed"}]
      /\ p.state = "creating" /\ n \in 1 .. MaxListens /\ id \in ConnectionIds
      /\ pools[n].pendingConnections[id] = r /\ r # 0
  BY DEF PoolInv, PoolTypeOK, ConnectionCreated, CreatingIsPending, Routed, Packets
<1>2. pools[n].activeConnections[id] = 0
  BY <1>1 DEF PoolInv, PendingNotActive
<1>3. /\ pools' \in [1 .. MaxListens -> Pool]
      /\ pools'[n].activeConnections[id] = r /\ pools'[n].pendingConnections[id] = 0
      /\ \A m \in 1 .. MaxListens, i \in ConnectionIds : (m # n \/ i # id) =>
            /\ pools'[m].activeConnections[i] = pools[m].activeConnections[i]
            /\ pools'[m].pendingConnections[i] = pools[m].pendingConnections[i]
  <2>1. PoolSet(n, withPending(withActive(pools[n], id, r), id, 0))
    BY DEF ConnectionCreated, PoolSet
  <2>. HIDE DEF p, n, id
  <2>. QED  BY <1>1, <2>1, PoolUpdate
<1>4. /\ packets' \in [Packets -> PacketState]
      /\ \A q \in Packets : packets'[q].pool = packets[q].pool /\ packets'[q].id = packets[q].id
      /\ packets'[r].state = "tick"
      /\ \A q \in Packets : packets'[q].state \in {"none", "creating"} =>
            q # r /\ packets'[q].state = packets[q].state
  <2>1. \A q \in Packets : packets'[q] =
            IF q = r THEN inState(packets[r], "tick")
            ELSE IF waitsFor(packets[q], r) THEN inState(packets[q], "handling")
            ELSE packets[q]
    BY DEF ConnectionCreated
  <2>2. \A q \in Packets : packets[q] \in PacketState
    BY <1>1
  <2>3. \A q \in Packets : /\ packets'[q] \in PacketState
                           /\ packets'[q].pool = packets[q].pool /\ packets'[q].id = packets[q].id
                           /\ packets'[q].state \in {packets[q].state, "tick", "handling"}
    BY <2>1, <2>2, StateType
  <2>4. packets'[r].state = "tick"
    BY <2>1, <2>2, StateType
  <2>5. packets' = [q \in Packets |-> packets'[q]]
    BY DEF ConnectionCreated
  <2>6. packets' \in [Packets -> PacketState]
    BY <2>3, <2>5
  <2>. QED  BY <2>3, <2>4, <2>6
<1>5. connections' = [connections EXCEPT ![r] = "open"] /\ UNCHANGED server
  BY DEF ConnectionCreated
<1>. HIDE DEF p, n, id
<1>6. PoolTypeOK'
  BY <1>1, <1>3, <1>4, <1>5 DEF PoolInv, PoolTypeOK
<1>7. CreatingIsPending'
  <2>. SUFFICES ASSUME NEW q \in Packets, packets'[q].state = "creating"
                PROVE  /\ Routed(packets'[q])
                       /\ pools'[packets'[q].pool].pendingConnections[packets'[q].id] = q
    BY DEF CreatingIsPending, Routed
  <2>1. q # r /\ packets[q].state = "creating"
    BY <1>4
  <2>2. /\ packets[q].pool \in 1 .. MaxListens /\ packets[q].id \in ConnectionIds
        /\ pools[packets[q].pool].pendingConnections[packets[q].id] = q
    BY <2>1 DEF PoolInv, CreatingIsPending, Routed
  <2>. QED  BY <1>1, <1>3, <1>4, <2>1, <2>2 DEF Routed
<1>8. PendingNotActive'
  BY <1>1, <1>3 DEF PoolInv, PendingNotActive
<1>9. OpenIsActive'
  <2>. SUFFICES ASSUME NEW c \in Packets, connections'[c] = "open"
                PROVE  /\ Routed(packets'[c])
                       /\ pools'[packets'[c].pool].activeConnections[packets'[c].id] = c
    BY DEF OpenIsActive, Routed
  <2>1. CASE c = r
    BY <1>1, <1>3, <1>4, <2>1 DEF Routed, p, n, id
  <2>2. CASE c # r
    <3>1. connections[c] = "open"
      BY <1>1, <1>5, <2>2
    <3>2. /\ packets[c].pool \in 1 .. MaxListens /\ packets[c].id \in ConnectionIds
          /\ pools[packets[c].pool].activeConnections[packets[c].id] = c /\ c # 0
      BY <3>1 DEF PoolInv, OpenIsActive, Routed, Packets
    <3>. QED  BY <1>2, <1>3, <1>4, <3>2 DEF Routed
  <2>. QED  BY <2>1, <2>2
<1>10. CreatedOnce'
  BY <1>1, <1>4, <1>5 DEF PoolInv, CreatedOnce
<1>. QED  BY <1>6, <1>7, <1>8, <1>9, <1>10 DEF PoolInv

\* A creation that fails leaves its id free.
LEMMA CreationFailsPool ==
  ASSUME NEW r \in Packets, PoolInv, CreationFails(r)
  PROVE  PoolInv'
<1>. DEFINE p == packets[r]
            n == p.pool
            id == p.id
<1>1. /\ packets \in [Packets -> PacketState] /\ pools \in [1 .. MaxListens -> Pool]
      /\ p.state = "creating" /\ n \in 1 .. MaxListens /\ id \in ConnectionIds
      /\ pools[n].pendingConnections[id] = r /\ r # 0
  BY DEF PoolInv, PoolTypeOK, CreationFails, CreatingIsPending, Routed, Packets
<1>2. /\ pools' \in [1 .. MaxListens -> Pool]
      /\ pools'[n].pendingConnections[id] = 0
      /\ \A m \in 1 .. MaxListens, i \in ConnectionIds :
            /\ pools'[m].activeConnections[i] = pools[m].activeConnections[i]
            /\ (m # n \/ i # id) =>
                  pools'[m].pendingConnections[i] = pools[m].pendingConnections[i]
  <2>1. PoolSet(n, withPending(pools[n], id, 0))
    BY DEF CreationFails, PoolSet
  <2>. HIDE DEF p, n, id
  <2>. QED  BY <1>1, <2>1, PendingUpdate
<1>3. /\ packets' \in [Packets -> PacketState]
      /\ \A q \in Packets : packets'[q].pool = packets[q].pool /\ packets'[q].id = packets[q].id
      /\ \A q \in Packets : packets'[q].state \in {"none", "creating"} =>
            q # r /\ packets'[q].state = packets[q].state
  <2>1. \A q \in Packets : packets'[q] =
            IF failsWith(q, r) THEN answered(packets[q], "F02") ELSE packets[q]
    BY DEF CreationFails
  <2>2. \A q \in Packets : packets[q] \in PacketState
    BY <1>1
  <2>3. \A q \in Packets : /\ packets'[q] \in PacketState
                           /\ packets'[q].pool = packets[q].pool /\ packets'[q].id = packets[q].id
                           /\ packets'[q].state \in {packets[q].state, "answered"}
    BY <2>1, <2>2, AnsweredType
  <2>4. packets'[r].state = "answered"
    BY <2>1, <2>2, AnsweredType DEF failsWith
  <2>5. packets' = [q \in Packets |-> packets'[q]]
    BY DEF CreationFails
  <2>6. packets' \in [Packets -> PacketState]
    BY <2>3, <2>5
  <2>. QED  BY <2>3, <2>4, <2>6
<1>4. UNCHANGED <<server, connections>>
  BY DEF CreationFails
<1>. HIDE DEF p, n, id
<1>5. PoolTypeOK'
  BY <1>2, <1>3, <1>4 DEF PoolInv, PoolTypeOK
<1>6. CreatingIsPending'
  <2>. SUFFICES ASSUME NEW q \in Packets, packets'[q].state = "creating"
                PROVE  /\ Routed(packets'[q])
                       /\ pools'[packets'[q].pool].pendingConnections[packets'[q].id] = q
    BY DEF CreatingIsPending, Routed
  <2>1. q # r /\ packets[q].state = "creating"
    BY <1>3
  <2>2. /\ packets[q].pool \in 1 .. MaxListens /\ packets[q].id \in ConnectionIds
        /\ pools[packets[q].pool].pendingConnections[packets[q].id] = q
    BY <2>1 DEF PoolInv, CreatingIsPending, Routed
  <2>. QED  BY <1>1, <1>2, <1>3, <2>1, <2>2 DEF Routed
<1>7. PendingNotActive'
  BY <1>1, <1>2 DEF PoolInv, PendingNotActive
<1>8. OpenIsActive'
  BY <1>2, <1>3, <1>4 DEF PoolInv, OpenIsActive, Routed
<1>9. CreatedOnce'
  BY <1>3, <1>4 DEF PoolInv, CreatedOnce
<1>. QED  BY <1>5, <1>6, <1>7, <1>8, <1>9 DEF PoolInv

\* The close event of a connection frees its id, which had no pending entry.
LEMMA ConnectionClosesPool ==
  ASSUME NEW c \in Packets, PoolInv, ConnectionCloses(c)
  PROVE  PoolInv'
<1>. DEFINE p == packets[c]
            n == p.pool
            id == p.id
<1>1. /\ pools \in [1 .. MaxListens -> Pool]
      /\ connections \in [Packets -> {"none", "open", "closed"}]
      /\ n \in 1 .. MaxListens /\ id \in ConnectionIds /\ c # 0
      /\ pools[n].activeConnections[id] = c
      /\ packets[c].state \notin {"none", "creating"}
  BY DEF PoolInv, PoolTypeOK, ConnectionCloses, OpenIsActive, Routed, Packets, CreatedOnce
<1>2. pools[n].pendingConnections[id] = 0
  BY <1>1 DEF PoolInv, PendingNotActive
<1>3. /\ pools' \in [1 .. MaxListens -> Pool]
      /\ pools'[n].activeConnections[id] = 0 /\ pools'[n].pendingConnections[id] = 0
      /\ \A m \in 1 .. MaxListens, i \in ConnectionIds : (m # n \/ i # id) =>
            /\ pools'[m].activeConnections[i] = pools[m].activeConnections[i]
            /\ pools'[m].pendingConnections[i] = pools[m].pendingConnections[i]
  <2>1. PoolSet(n, withPending(withActive(pools[n], id, 0), id, 0))
    BY DEF ConnectionCloses, PoolSet
  <2>. HIDE DEF p, n, id
  <2>. QED  BY <1>1, <2>1, PoolUpdate
<1>4. connections' = [connections EXCEPT ![c] = "closed"] /\ UNCHANGED <<server, packets>>
  BY DEF ConnectionCloses
<1>. HIDE DEF p, n, id
<1>5. PoolTypeOK'
  BY <1>1, <1>3, <1>4 DEF PoolInv, PoolTypeOK
<1>6. CreatingIsPending'
  <2>. SUFFICES ASSUME NEW q \in Packets, packets[q].state = "creating"
                PROVE  /\ Routed(packets[q])
                       /\ pools'[packets[q].pool].pendingConnections[packets[q].id] = q
    BY <1>4 DEF CreatingIsPending, Routed
  <2>1. /\ packets[q].pool \in 1 .. MaxListens /\ packets[q].id \in ConnectionIds /\ q # 0
        /\ pools[packets[q].pool].pendingConnections[packets[q].id] = q
    BY DEF PoolInv, CreatingIsPending, Routed, Packets
  <2>. QED  BY <1>2, <1>3, <2>1 DEF Routed
<1>7. PendingNotActive'
  BY <1>1, <1>3 DEF PoolInv, PendingNotActive
<1>8. OpenIsActive'
  <2>. SUFFICES ASSUME NEW d \in Packets, connections'[d] = "open"
                PROVE  /\ Routed(packets[d])
                       /\ pools'[packets[d].pool].activeConnections[packets[d].id] = d
    BY <1>4 DEF OpenIsActive, Routed
  <2>1. d # c /\ connections[d] = "open"
    BY <1>1, <1>4
  <2>2. /\ packets[d].pool \in 1 .. MaxListens /\ packets[d].id \in ConnectionIds
        /\ pools[packets[d].pool].activeConnections[packets[d].id] = d
    BY <2>1 DEF PoolInv, OpenIsActive, Routed
  <2>. QED  BY <1>1, <1>3, <2>1, <2>2 DEF Routed
<1>9. CreatedOnce'
  BY <1>1, <1>4 DEF PoolInv, CreatedOnce
<1>. QED  BY <1>5, <1>6, <1>7, <1>8, <1>9 DEF PoolInv

-----------------------------------------------------------------------------
(* listen() and close() *)

\* Each step of listen() and close() brings about what its phase promises.
LEMMA ServerStepPhase == PoolInv /\ PhaseInv /\ ServerStep => PhaseInv'
<1>. SUFFICES ASSUME PoolInv, PhaseInv, ServerStep PROVE PhaseInv'
  OBVIOUS
<1>1. server \in ServerState
  BY DEF PoolInv, PoolTypeOK
<1>2. CASE listen
  BY <1>1, <1>2 DEF listen, PhaseInv, ServerState
<1>3. CASE Listening
  BY <1>1, <1>3 DEF Listening, PhaseInv, ServerState
<1>4. CASE ListenFails
  BY <1>1, <1>4 DEF ListenFails, PhaseInv, ServerState, drained, inProgress, OpenInPool
<1>5. CASE close
  BY <1>1, <1>5 DEF close, PhaseInv, ServerState
<1>6. CASE Drained
  BY <1>1, <1>6 DEF Drained, PhaseInv, ServerState, drained, inProgress
<1>7. CASE EndConnections
  <2>. DEFINE active == pools[server.pool].activeConnections
              ending == {active[id] : id \in ConnectionIds} \ {0}
  <2>1. server' = [server EXCEPT !.phase = "ending", !.ending = ending]
        /\ server.phase = "delaying" /\ UNCHANGED <<packets, connections>>
    BY <1>7 DEF EndConnections
  <2>2. \A c \in Packets : OpenInPool(c) => c \in ending
    BY DEF PoolInv, OpenIsActive, OpenInPool, Routed, Packets
  <2>. HIDE DEF ending
  <2>. QED  BY <1>1, <2>1, <2>2 DEF PhaseInv, ServerState, drained, inProgress, OpenInPool
<1>8. CASE EndFails
  BY <1>1, <1>8 DEF EndFails, PhaseInv, ServerState, drained, inProgress
<1>9. CASE Disconnect
  <2>1. \A c \in Packets : ~OpenInPool(c)
    BY <1>9 DEF Disconnect, PhaseInv, OpenInPool
  <2>. QED  BY <1>1, <1>9, <2>1 DEF Disconnect, PhaseInv, ServerState, drained, inProgress, OpenInPool
<1>. QED  BY <1>2, <1>3, <1>4, <1>5, <1>6, <1>7, <1>8, <1>9 DEF ServerStep

\* Once close() has drained the packets none enters handleData, and a packet that is
\* answered at once or a connection that closes leaves what was drained.
LEMMA PacketStepPhase ==
  ASSUME NEW r \in Packets, PoolInv, PhaseInv,
         \/ AnswerStep(r)
         \/ \E id \in ConnectionIds, readable \in BOOLEAN : getConnection(r, id, readable)
         \/ ConnectionCreated(r) \/ CreationFails(r) \/ NextTick(r) \/ handlePrepare(r)
         \/ ConnectionCloses(r)
  PROVE  PhaseInv'
<1>1. UNCHANGED server /\ packets \in [Packets -> PacketState]
      /\ connections \in [Packets -> {"none", "open", "closed"}]
  BY DEF AnswerStep, HandleMalformed, HandleEarly, HandleClosing, getConnection, ConnectionCreated,
         CreationFails, NextTick, handlePrepare, ConnectionCloses, PoolInv, PoolTypeOK
<1>2. CASE AnswerStep(r)
  <2>1. PICK code \in {"F00", "F02", "F06", "T99", "handled"} :
            packets' = [packets EXCEPT ![r] = answered(packets[r], code)]
    BY <1>2 DEF AnswerStep, HandleMalformed, HandleEarly, HandleClosing
  <2>2. packets'[r].state = "answered" /\ packets'[r].pool = packets[r].pool
        /\ \A q \in Packets : q # r => packets'[q] = packets[q]
    BY <1>1, <2>1, AnsweredType
  <2>3. UNCHANGED connections
    BY <1>2 DEF AnswerStep, HandleMalformed, HandleEarly, HandleClosing
  <2>4. /\ drained => drained'
        /\ \A c \in Packets : OpenInPool(c)' <=> OpenInPool(c)
    BY <1>1, <2>2, <2>3 DEF drained, inProgress, OpenInPool
  <2>. QED  BY <1>1, <2>4 DEF PhaseInv
<1>3. CASE \E id \in ConnectionIds, readable \in BOOLEAN : getConnection(r, id, readable)
  <2>1. server.handler = "handleData"
    BY <1>3 DEF getConnection
  <2>. QED  BY <1>1, <2>1 DEF PhaseInv
<1>4. CASE ConnectionCreated(r) \/ CreationFails(r) \/ NextTick(r) \/ handlePrepare(r)
  <2>1. ~drained
    BY <1>4 DEF ConnectionCreated, CreationFails, NextTick, handlePrepare, drained, inProgress
  <2>. QED  BY <1>1, <2>1 DEF PhaseInv
<1>5. CASE ConnectionCloses(r)
  <2>1. connections' = [connections EXCEPT ![r] = "closed"] /\ UNCHANGED packets
    BY <1>5 DEF ConnectionCloses
  <2>2. \A c \in Packets : OpenInPool(c)' => OpenInPool(c)
    BY <1>1, <2>1 DEF OpenInPool
  <2>3. drained' <=> drained
    BY <2>1 DEF drained, inProgress
  <2>. QED  BY <1>1, <2>2, <2>3 DEF PhaseInv
<1>. QED  BY <1>2, <1>3, <1>4, <1>5

-----------------------------------------------------------------------------
(* The theorems *)

\* Every step of the server and of its packets keeps both parts of the invariant.
LEMMA PoolNextInv == PoolInv /\ PhaseInv /\ [PoolNext]_poolVars => PoolInv' /\ PhaseInv'
<1>. SUFFICES ASSUME PoolInv, PhaseInv, [PoolNext]_poolVars PROVE PoolInv' /\ PhaseInv'
  OBVIOUS
<1>1. CASE ServerStep
  BY <1>1, ServerStepPool, ServerStepPhase
<1>2. ASSUME NEW r \in Packets, AnswerStep(r)
      PROVE  PoolInv' /\ PhaseInv'
  BY <1>2, AnswerStepPool, PacketStepPhase
<1>3. ASSUME NEW r \in Packets, NEW id \in ConnectionIds, NEW readable \in BOOLEAN,
             getConnection(r, id, readable)
      PROVE  PoolInv' /\ PhaseInv'
  BY <1>3, GetConnectionPool, PacketStepPhase
<1>4. ASSUME NEW r \in Packets, ConnectionCreated(r)
      PROVE  PoolInv' /\ PhaseInv'
  BY <1>4, ConnectionCreatedPool, PacketStepPhase
<1>5. ASSUME NEW r \in Packets, CreationFails(r)
      PROVE  PoolInv' /\ PhaseInv'
  BY <1>5, CreationFailsPool, PacketStepPhase
<1>6. ASSUME NEW r \in Packets, NextTick(r) \/ handlePrepare(r)
      PROVE  PoolInv' /\ PhaseInv'
  BY <1>6, HandleStepPool, PacketStepPhase
<1>7. ASSUME NEW r \in Packets, ConnectionCloses(r)
      PROVE  PoolInv' /\ PhaseInv'
  BY <1>7, ConnectionClosesPool, PacketStepPhase
<1>8. CASE UNCHANGED poolVars
  BY <1>8 DEF poolVars, PoolInv, PoolTypeOK, CreatingIsPending, PendingNotActive, OpenIsActive,
              CreatedOnce, Routed, PhaseInv, drained, inProgress, OpenInPool
<1>. QED  BY <1>1, <1>2, <1>3, <1>4, <1>5, <1>6, <1>7, <1>8
          DEF PoolNext, ServerStep, AnswerStep

\* The invariant holds throughout.
LEMMA PoolInvariant == PoolSpec => [](PoolInv /\ PhaseInv)
BY PoolInitInv, PoolNextInv, PTL DEF PoolSpec

\* ServerConnectionPool.getConnection: however many packets for an id arrive while a
\* connection is being created, fails to be created, or closes, a pool has at most one
\* open connection for the id, and finds it.
THEOREM OneConnection == PoolSpec => []OneConnectionPerId
<1>1. PoolInv => OneConnectionPerId
  BY DEF PoolInv, OpenIsActive, OneConnectionPerId
<1>. QED  BY <1>1, PoolInvariant, PTL

\* Server.close: when the plugin is disconnected every packet that entered handleData
\* was answered, and the connections of the server's pool are closed.
THEOREM RepliesFirst == PoolSpec => []RepliesBeforeDisconnect
<1>1. PhaseInv => RepliesBeforeDisconnect
  BY DEF PhaseInv, RepliesBeforeDisconnect, drained, OpenInPool
<1>. QED  BY <1>1, PoolInvariant, PTL

-----------------------------------------------------------------------------
(***************************************************************************)
(* Payouts.                                                                *)
(*                                                                         *)
(* PayoutLedger needs to know that a link which is neither in use nor      *)
(* cleaned up has paid nothing, and that money can only be in flight on a  *)
(* link that is.  PaysOnce needs more: as long as no link was started      *)
(* while another was in use there is one link in use at most, and what is  *)
(* counted together with the limit of its stream is within the target.     *)
(* The invariant is stated of any payout, links and account, because       *)
(* safeTrySending continues from what its caller has changed.              *)
(***************************************************************************)

Account == [paid : Nat, uncounted : Nat, overlapped : BOOLEAN]

\* The life of a link: it listens from its connection to its first clean-up.
LinkOK(link) ==
    /\ link \in Link
    /\ link.phase = "connecting" => ~link.listening /\ ~link.applied
    /\ link.listening => ~link.applied /\ link.phase \in {"up", "erred", "closed"}
    /\ link.stream = "open" => link.listening /\ link.cleanUps = 0
    /\ ~link.listening /\ ~link.applied => link.total = 0 /\ ~link.inFlight /\ link.cleanUps = 0

\* A stream pays up to its limit.
WithinLimit(link) ==
    link.listening =>
        link.total <= link.sendMax /\ (link.inFlight => link.total < link.sendMax)

owed(link) == IF link.applied THEN 0 ELSE link.total

Owed(ls) == [c \in LinkIds |-> owed(ls[c])]

\* Without an overlap one link is in use at most...
OneInUse(ls, a) ==
    ~a.overlapped => \A c, d \in LinkIds : inUse(ls[c]) /\ inUse(ls[d]) => c = d

\* ...and may not pay more than what is left of the target.
WithinTarget(p, ls, a) ==
    ~a.overlapped =>
        /\ p.sent <= p.target
        /\ \A c \in LinkIds :
              WithinLimit(ls[c]) /\ (ls[c].listening => p.sent + ls[c].sendMax <= p.target)

PayoutOK(p, ls, a) ==
    /\ p \in PayoutState
    /\ ls \in [LinkIds -> Link] /\ \A c \in LinkIds : LinkOK(ls[c])
    /\ a \in Account
    /\ a.paid - a.uncounted = p.sent + Total(Owed(ls), MaxLinks)
    /\ OneInUse(ls, a)
    /\ WithinTarget(p, ls, a)

PayoutInv == PayoutOK(payout, links, account)

-----------------------------------------------------------------------------
(* The life of a link *)

\* A slot that is not used, and one that is connecting.
LEMMA NewLinks ==
  /\ LinkOK(NoLink) /\ owed(NoLink) = 0 /\ ~inUse(NoLink) /\ ~NoLink.listening
  /\ LinkOK(Connecting) /\ owed(Connecting) = 0 /\ ~Connecting.listening
BY DEF LinkOK, Link, NoLink, Connecting, owed, inUse

\* Forgetting a link that was cleaned up.
LEMMA ForgetLink ==
  ASSUME NEW link, LinkOK(link)
  PROVE  /\ LinkOK(forget(link)) /\ owed(forget(link)) = owed(link)
         /\ inUse(forget(link)) => inUse(link)
         /\ WithinLimit(link) => WithinLimit(forget(link))
         /\ forget(link).listening => forget(link) = link
<1>1. CASE link.applied /\ ~link.inFlight /\ link.cleanUps = 0
  BY <1>1, NewLinks DEF forget, owed, WithinLimit
<1>2. CASE ~(link.applied /\ ~link.inFlight /\ link.cleanUps = 0)
  BY <1>2 DEF forget
<1>. QED  BY <1>1, <1>2

\* The query succeeds.
LEMMA ConnectedLink ==
  ASSUME NEW link, LinkOK(link), link.phase = "connecting", NEW limit \in Nat
  PROVE  LET new == connected(link, limit)
         IN  /\ LinkOK(new) /\ owed(new) = owed(link) /\ inUse(link) /\ new.listening
             /\ new.sendMax = limit /\ WithinLimit(new)
<1>. DEFINE new == connected(link, limit)
<1>1. link \in Link
  BY DEF LinkOK
<1>2. /\ new \in Link /\ new.phase = "up" /\ new.stream = "open" /\ new.sendMax = limit
      /\ new.listening /\ new.total = link.total /\ new.applied = link.applied
      /\ new.inFlight = link.inFlight /\ new.cleanUps = link.cleanUps
  BY <1>1 DEF Link, connected
<1>. HIDE DEF new
<1>3. /\ LinkOK(new) /\ owed(new) = owed(link) /\ inUse(link) /\ new.listening
      /\ new.sendMax = limit /\ WithinLimit(new)
  BY <1>2 DEF LinkOK, owed, inUse, WithinLimit
<1>. QED  BY <1>3 DEF new

\* The answer to a packet is no longer awaited.
LEMMA SpentLink ==
  ASSUME NEW link, LinkOK(link)
  PROVE  LET new == spent(link)
         IN  /\ LinkOK(new) /\ owed(new) = owed(link) /\ (inUse(new) => inUse(link))
             /\ new.listening = link.listening /\ new.sendMax = link.sendMax
             /\ WithinLimit(link) => WithinLimit(new)
<1>. DEFINE new == spent(link)
<1>1. link \in Link
  BY DEF LinkOK
<1>2. /\ new \in Link /\ new.phase = link.phase /\ new.stream = link.stream
      /\ new.sendMax = link.sendMax /\ new.listening = link.listening /\ new.total = link.total
      /\ new.applied = link.applied /\ new.cleanUps = link.cleanUps /\ new.inFlight = FALSE
  BY <1>1 DEF Link, spent
<1>. HIDE DEF new
<1>3. /\ LinkOK(new) /\ owed(new) = owed(link) /\ (inUse(new) => inUse(link))
      /\ new.listening = link.listening /\ new.sendMax = link.sendMax
      /\ WithinLimit(link) => WithinLimit(new)
  BY <1>1, <1>2 DEF LinkOK, owed, inUse, WithinLimit
<1>. QED  BY <1>3 DEF new

\* The stream counts what a packet paid.
LEMMA CountedLink ==
  ASSUME NEW link, LinkOK(link), link.inFlight, link.listening
  PROVE  LET new == counted(link)
         IN  /\ LinkOK(new) /\ owed(new) = owed(link) + 1 /\ inUse(link)
             /\ new.listening /\ new.sendMax = link.sendMax
             /\ WithinLimit(link) => WithinLimit(new)
<1>. DEFINE new == counted(link)
            total == link.total + 1
<1>1. link \in Link /\ link.total \in Nat /\ link.sendMax \in Nat
  BY DEF LinkOK, Link
<1>2. total \in Nat /\ new = [link EXCEPT !.inFlight = FALSE, !.total = total]
  BY <1>1 DEF counted
<1>. HIDE DEF total, new
<1>3. /\ new \in Link /\ new.phase = link.phase /\ new.stream = link.stream
      /\ new.sendMax = link.sendMax /\ new.listening = link.listening
      /\ new.total = total /\ new.applied = link.applied
      /\ new.cleanUps = link.cleanUps /\ new.inFlight = FALSE
  BY <1>1, <1>2 DEF Link
<1>4. /\ LinkOK(new) /\ owed(new) = owed(link) + 1 /\ inUse(link)
      /\ new.listening /\ new.sendMax = link.sendMax
      /\ WithinLimit(link) => WithinLimit(new)
  BY <1>1, <1>3 DEF LinkOK, owed, inUse, total, WithinLimit
<1>. QED  BY <1>4 DEF new

\* An event is heard, or two.
LEMMA HeardLink ==
  ASSUME NEW link, LinkOK(link), link.listening,
         NEW phase \in {"up", "erred", "closed"}, NEW stream \in {"none", "closing", "closed"},
         NEW events \in {1, 2}
  PROVE  LET new == heard(link, phase, stream, events)
         IN  /\ LinkOK(new) /\ owed(new) = owed(link) /\ inUse(link)
             /\ new.listening /\ new.sendMax = link.sendMax
             /\ WithinLimit(link) => WithinLimit(new)
<1>. DEFINE new == heard(link, phase, stream, events)
            n == link.cleanUps + events
<1>1. link \in Link /\ link.cleanUps \in Nat
  BY DEF LinkOK, Link
<1>2. n \in Nat /\ new = [link EXCEPT !.phase = phase, !.stream = stream, !.cleanUps = n]
  BY <1>1 DEF heard
<1>. HIDE DEF n, new
<1>3. /\ new \in Link /\ new.phase = phase /\ new.stream = stream
      /\ new.sendMax = link.sendMax /\ new.listening = link.listening
      /\ new.total = link.total /\ new.applied = link.applied /\ new.inFlight = link.inFlight
  BY <1>1, <1>2 DEF Link
<1>4. /\ LinkOK(new) /\ owed(new) = owed(link) /\ inUse(link) /\ new.listening
      /\ new.sendMax = link.sendMax
      /\ WithinLimit(link) => WithinLimit(new)
  BY <1>3 DEF LinkOK, owed, inUse, WithinLimit
<1>. QED  BY <1>4 DEF new

\* A clean-up has run.
LEMMA CleanedLink ==
  ASSUME NEW link, LinkOK(link), link.cleanUps > 0
  PROVE  LET new == cleaned(link)
         IN  /\ LinkOK(new) /\ owed(new) = 0 /\ ~inUse(new) /\ ~new.listening
             /\ link.listening \/ link.applied
<1>. DEFINE new == cleaned(link)
            n == link.cleanUps - 1
<1>1. link \in Link /\ link.cleanUps \in Nat /\ link.total \in Nat /\ link.inFlight \in BOOLEAN
  BY DEF LinkOK, Link
<1>2. n \in Nat
      /\ new = [NoLink EXCEPT !.inFlight = link.inFlight, !.total = link.total,
                               !.applied = TRUE, !.cleanUps = n]
  BY <1>1 DEF cleaned
<1>. HIDE DEF n, new
<1>3. /\ new \in Link /\ new.phase = "none" /\ new.stream = "none"
      /\ ~new.listening /\ new.applied
  BY <1>1, <1>2 DEF Link, NoLink
<1>4. link.listening \/ link.applied
  BY <1>1 DEF LinkOK
<1>5. LinkOK(new) /\ owed(new) = 0 /\ ~inUse(new) /\ ~new.listening
  BY <1>3 DEF LinkOK, owed, inUse
<1>. QED  BY <1>4, <1>5 DEF new

\* A packet leaves an open stream, ...
LEMMA SendingLink ==
  ASSUME NEW link, LinkOK(link), link.stream = "open", link.total < link.sendMax, NEW new,
         new = [link EXCEPT !.inFlight = TRUE]
  PROVE  /\ LinkOK(new) /\ owed(new) = owed(link) /\ inUse(link) /\ link.listening
         /\ new.listening /\ new.sendMax = link.sendMax /\ WithinLimit(new)
<1>1. link \in Link /\ link.total \in Nat /\ link.sendMax \in Nat
  BY DEF LinkOK, Link
<1>2. /\ new \in Link /\ new.phase = link.phase /\ new.stream = link.stream
      /\ new.sendMax = link.sendMax /\ new.listening = link.listening /\ new.total = link.total
      /\ new.applied = link.applied /\ new.cleanUps = link.cleanUps
  BY <1>1 DEF Link
<1>. QED  BY <1>1, <1>2 DEF LinkOK, owed, inUse, WithinLimit

\* ...its limit is set, ...
LEMMA LimitedLink ==
  ASSUME NEW link, LinkOK(link), link.stream = "open", NEW limit \in Nat
  PROVE  LET new == limited(link, limit)
         IN  /\ LinkOK(new) /\ owed(new) = owed(link) /\ inUse(link) /\ link.listening
             /\ new.listening /\ new.sendMax = limit
             /\ WithinLimit(link) /\ limit >= link.sendMax => WithinLimit(new)
<1>. DEFINE new == limited(link, limit)
<1>1. link \in Link /\ link.total \in Nat /\ link.sendMax \in Nat
  BY DEF LinkOK, Link
<1>2. /\ new \in Link /\ new.phase = link.phase /\ new.stream = link.stream
      /\ new.sendMax = limit /\ new.listening = link.listening /\ new.total = link.total
      /\ new.applied = link.applied /\ new.inFlight = link.inFlight
      /\ new.cleanUps = link.cleanUps
  BY <1>1 DEF Link, limited
<1>. HIDE DEF new
<1>3. /\ LinkOK(new) /\ owed(new) = owed(link) /\ inUse(link) /\ link.listening
      /\ new.listening /\ new.sendMax = limit
      /\ WithinLimit(link) /\ limit >= link.sendMax => WithinLimit(new)
  BY <1>1, <1>2 DEF LinkOK, owed, inUse, WithinLimit
<1>. QED  BY <1>3 DEF new

\* ...or it is destroyed.
LEMMA DestroyedLink ==
  ASSUME NEW link, LinkOK(link), link.stream = "open"
  PROVE  LET new == destroyed(link)
         IN  /\ LinkOK(new) /\ owed(new) = owed(link) /\ inUse(link) /\ link.listening
             /\ new.listening /\ new.sendMax = link.sendMax
             /\ WithinLimit(link) => WithinLimit(new)
<1>. DEFINE new == destroyed(link)
<1>1. link \in Link
  BY DEF LinkOK
<1>2. /\ new \in Link /\ new.phase = link.phase /\ new.stream = "closing"
      /\ new.sendMax = link.sendMax /\ new.listening = link.listening /\ new.total = link.total
      /\ new.applied = link.applied /\ new.inFlight = link.inFlight
      /\ new.cleanUps = link.cleanUps
  BY <1>1 DEF Link, destroyed
<1>. HIDE DEF new
<1>3. /\ LinkOK(new) /\ owed(new) = owed(link) /\ inUse(link) /\ link.listening
      /\ new.listening /\ new.sendMax = link.sendMax
      /\ WithinLimit(link) => WithinLimit(new)
  BY <1>1, <1>2 DEF LinkOK, owed, inUse, WithinLimit
<1>. QED  BY <1>3 DEF new

-----------------------------------------------------------------------------
(* Steps of one link *)

SetLink(ls, new, c, link) == new = [ls EXCEPT ![c] = link]

\* A step of one link keeps the invariant if what it adds to the account is what it adds
\* to sent and to what the link owes, and what is counted and allowed is within the target.
LEMMA LinkStep ==
  ASSUME NEW p, NEW ls, NEW a, PayoutOK(p, ls, a), NEW c \in LinkIds,
         NEW q \in PayoutState, NEW b \in Account, NEW link, LinkOK(link),
         NEW new, SetLink(ls, new, c, link),
         ~b.overlapped => /\ ~a.overlapped
                          /\ inUse(link) => inUse(ls[c]) \/ \A d \in LinkIds : ~inUse(ls[d]),
         b.paid - b.uncounted = a.paid - a.uncounted + (q.sent - p.sent) + owed(link) - owed(ls[c]),
         ~a.overlapped => /\ q.sent <= q.target /\ p.target <= q.target
                          /\ q.sent = p.sent \/ ls[c].listening
                          /\ WithinLimit(link)
                          /\ link.listening => q.sent + link.sendMax <= q.target
  PROVE  PayoutOK(q, new, b)
<1>1. /\ ls \in [LinkIds -> Link] /\ \A d \in LinkIds : LinkOK(ls[d])
      /\ link \in Link
      /\ a \in Account /\ p \in PayoutState
  BY DEF PayoutOK, LinkOK
<1>2. /\ new \in [LinkIds -> Link] /\ new[c] = link
      /\ \A d \in LinkIds : d # c => new[d] = ls[d]
  BY <1>1 DEF SetLink
<1>3. \A d \in LinkIds : LinkOK(new[d])
  BY <1>1, <1>2
<1>4. \A l \in Link : owed(l) \in Nat
  BY DEF Link, owed
<1>5. Owed(ls) \in [LinkIds -> Nat] /\ Owed(new) \in [LinkIds -> Nat]
      /\ \A d \in LinkIds : Owed(ls)[d] = owed(ls[d]) /\ Owed(new)[d] = owed(new[d])
  BY <1>1, <1>2, <1>4 DEF Owed
<1>6. Total(Owed(new), MaxLinks) = Total(Owed(ls), MaxLinks) - owed(ls[c]) + owed(link)
  <2>1. \A d \in 1 .. MaxLinks : d # c => Owed(new)[d] = Owed(ls)[d]
    BY <1>2, <1>5 DEF LinkIds
  <2>2. MaxLinks \in Nat /\ c \in 1 .. MaxLinks
        /\ Owed(ls) \in [1 .. MaxLinks -> Nat] /\ Owed(new) \in [1 .. MaxLinks -> Nat]
    BY <1>5, PayoutAssumption DEF LinkIds
  <2>3. Total(Owed(new), MaxLinks) = Total(Owed(ls), MaxLinks) - Owed(ls)[c] + Owed(new)[c]
    BY <2>1, <2>2, TotalChange
  <2>. QED  BY <1>2, <1>5, <2>3
<1>7. b.paid - b.uncounted = q.sent + Total(Owed(new), MaxLinks)
  <2>1. Total(Owed(ls), MaxLinks) \in Nat
    BY <1>5, PayoutAssumption, TotalIsSum DEF LinkIds
  <2>2. owed(link) \in Nat /\ owed(ls[c]) \in Nat /\ p.sent \in Nat /\ q.sent \in Nat
        /\ a.paid \in Nat /\ a.uncounted \in Nat
    BY <1>1, <1>4 DEF PayoutState, Account
  <2>3. a.paid - a.uncounted = p.sent + Total(Owed(ls), MaxLinks)
    BY DEF PayoutOK
  <2>. QED  BY <1>6, <2>1, <2>2, <2>3
<1>8. OneInUse(new, b)
  BY <1>2 DEF PayoutOK, OneInUse
<1>9. WithinTarget(q, new, b)
  <2>. SUFFICES ASSUME ~b.overlapped, NEW d \in LinkIds, new[d].listening
                PROVE  WithinLimit(new[d]) /\ q.sent + new[d].sendMax <= q.target
    BY DEF WithinTarget, WithinLimit
  <2>1. CASE d = c
    BY <1>2, <2>1
  <2>2. CASE d # c
    <3>1. ls[d].listening /\ new[d].sendMax = ls[d].sendMax /\ inUse(ls[d])
      BY <1>2, <2>2 DEF inUse
    <3>2. ~ls[c].listening
      BY <2>2, <3>1 DEF PayoutOK, OneInUse, inUse
    <3>3. p.sent + ls[d].sendMax <= p.target /\ WithinLimit(ls[d])
      BY <3>1 DEF PayoutOK, WithinTarget
    <3>4. p.sent \in Nat /\ p.target \in Nat /\ q.target \in Nat /\ ls[d].sendMax \in Nat
      BY <1>1 DEF PayoutState, Link
    <3>. QED  BY <1>2, <2>2, <3>1, <3>2, <3>3, <3>4
  <2>. QED  BY <2>1, <2>2
<1>. QED  BY <1>1, <1>2, <1>3, <1>7, <1>8, <1>9 DEF PayoutOK

\* A step that leaves the links, the account and sent alone.
LEMMA PayoutStep ==
  ASSUME NEW p, NEW ls, NEW a, PayoutOK(p, ls, a), NEW q \in PayoutState,
         q.sent = p.sent, p.target <= q.target
  PROVE  PayoutOK(q, ls, a)
<1>1. p.sent \in Nat /\ p.target \in Nat /\ q.target \in Nat
  BY DEF PayoutOK, PayoutState
<1>2. \A c \in LinkIds : ls[c].sendMax \in Nat
  BY DEF PayoutOK, Link
<1>3. WithinTarget(q, ls, a)
  BY <1>1, <1>2 DEF PayoutOK, WithinTarget
<1>. QED  BY <1>3 DEF PayoutOK

-----------------------------------------------------------------------------
(* The actions *)

\* A retry counts and changes the state of the payout, no more.
LEMMA TriedType ==
  ASSUME NEW p \in PayoutState,
         NEW state \in {"DISCONNECTED", "CONNECTING", "IDLE", "SENDING", "ABORTED"}
  PROVE  /\ tried(p, state) \in PayoutState
         /\ tried(p, state).sent = p.sent /\ tried(p, state).target = p.target
<1>. DEFINE n == p.retries + 1
<1>1. n \in Nat /\ tried(p, state) = [p EXCEPT !.retries = n, !.state = state]
  BY DEF PayoutState, tried
<1>. HIDE DEF n
<1>. QED  BY <1>1 DEF PayoutState

\* safeTrySending aborts, waits for another link or starts one.
LEMMA TrySending ==
  ASSUME NEW p, NEW current, PayoutOK(p, current, account), safeTrySending(p, current)
  PROVE  PayoutInv'
<1>. DEFINE free == {c \in LinkIds : current[c] = NoLink}
            next == CHOOSE c \in free : TRUE
<1>1. p \in PayoutState /\ account \in Account
      /\ p.state \in {"DISCONNECTED", "CONNECTING", "IDLE", "SENDING", "ABORTED"}
      /\ p.sent \in Nat /\ p.target \in Nat
  BY DEF PayoutOK, PayoutState
<1>2. CASE /\ links' = current /\ UNCHANGED account
           /\ payout' = tried(p, "ABORTED") \/ payout' = tried(p, p.state)
  <2>1. payout' \in PayoutState /\ payout'.sent = p.sent /\ payout'.target = p.target
    BY <1>1, <1>2, TriedType
  <2>2. p.target <= payout'.target
    BY <1>1, <2>1
  <2>. QED  BY <1>2, <2>1, <2>2, PayoutStep DEF PayoutInv
<1>3. CASE /\ free # {}
           /\ payout' = tried(p, "CONNECTING")
           /\ links' = [current EXCEPT ![next] = Connecting]
           /\ account' = [account EXCEPT !.overlapped =
                              @ \/ \E c \in LinkIds : inUse(current[c])]
  <2>1. payout' \in PayoutState /\ payout'.sent = p.sent /\ payout'.target = p.target
    BY <1>1, <1>3, TriedType
  <2>2. next \in LinkIds /\ current[next] = NoLink
    BY <1>3
  <2>3. /\ account' \in Account /\ account'.paid = account.paid
        /\ account'.uncounted = account.uncounted
        /\ ~account'.overlapped => ~account.overlapped /\ \A c \in LinkIds : ~inUse(current[c])
    BY <1>1, <1>3 DEF Account
  <2>4. ~account.overlapped => p.sent <= p.target
    BY DEF PayoutOK, WithinTarget
  <2>5. account.paid \in Nat /\ account.uncounted \in Nat
    BY <1>1 DEF Account
  <2>. HIDE DEF next, free
  <2>6. LinkOK(Connecting) /\ owed(Connecting) = 0 /\ ~Connecting.listening /\ owed(NoLink) = 0
        /\ WithinLimit(Connecting)
    BY NewLinks DEF WithinLimit
  <2>7. account'.paid - account'.uncounted
          = account.paid - account.uncounted + (payout'.sent - p.sent)
              + owed(Connecting) - owed(current[next])
    BY <1>1, <2>1, <2>2, <2>3, <2>5, <2>6
  <2>8. SetLink(current, links', next, Connecting)
    BY <1>3 DEF SetLink
  <2>9. p.target <= payout'.target
    BY <1>1, <2>1
  <2>. QED  BY <1>1, <2>1, <2>2, <2>3, <2>4, <2>6, <2>7, <2>8, <2>9, LinkStep DEF PayoutInv
<1>. QED  BY <1>2, <1>3 DEF safeTrySending

\* The query succeeds, and the stream may pay what is left of the target.
LEMMA ConnectedInv ==
  ASSUME NEW c \in LinkIds, PayoutInv, Connected(c)
  PROVE  PayoutInv'
<1>. DEFINE due == getSendMax(payout)
            limit == IF due > 0 THEN due ELSE 0
            state == IF due > 0 THEN "SENDING" ELSE "IDLE"
            link == connected(links[c], limit)
<1>1. /\ payout \in PayoutState /\ account \in Account /\ LinkOK(links[c])
      /\ payout.sent \in Nat /\ payout.target \in Nat /\ owed(links[c]) \in Nat
      /\ account.paid \in Nat /\ account.uncounted \in Nat
  BY DEF PayoutInv, PayoutOK, PayoutState, LinkOK, Link, owed, Account
<1>2. limit \in Nat /\ (payout.sent <= payout.target => payout.sent + limit <= payout.target)
  BY <1>1 DEF getSendMax
<1>3. /\ links[c].phase = "connecting" /\ links' = [links EXCEPT ![c] = link]
      /\ UNCHANGED account /\ payout' = [payout EXCEPT !.state = state, !.current = c]
  BY DEF Connected
<1>4. state \in {"SENDING", "IDLE"}
  OBVIOUS
<1>. HIDE DEF limit, state
<1>5. /\ LinkOK(link) /\ owed(link) = owed(links[c]) /\ inUse(links[c]) /\ link.sendMax = limit
      /\ WithinLimit(link)
  BY <1>1, <1>2, <1>3, ConnectedLink
<1>6. payout' \in PayoutState /\ payout'.sent = payout.sent /\ payout'.target = payout.target
  BY <1>1, <1>3, <1>4 DEF PayoutState
<1>7. ~account.overlapped => payout.sent <= payout.target
  BY DEF PayoutInv, PayoutOK, WithinTarget
<1>. HIDE DEF link
<1>8. account'.paid - account'.uncounted
        = account.paid - account.uncounted + (payout'.sent - payout.sent)
            + owed(link) - owed(links[c])
  BY <1>1, <1>3, <1>5, <1>6
<1>9. SetLink(links, links', c, link) /\ payout.target <= payout'.target
  BY <1>1, <1>3, <1>6 DEF SetLink
<1>10. ~account.overlapped => /\ payout'.sent <= payout'.target
                              /\ payout'.sent + link.sendMax <= payout'.target
  BY <1>2, <1>5, <1>6, <1>7
<1>11. account' = account
  BY <1>3
<1>. QED  BY <1>1, <1>5, <1>6, <1>8, <1>9, <1>10, <1>11, LinkStep DEF PayoutInv

\* Steps of a link that change neither its listening, its limit nor what it owes.
LEMMA QuietStep ==
  ASSUME NEW c \in LinkIds, PayoutInv, NEW link, LinkOK(link), owed(link) = owed(links[c]),
         inUse(link) => inUse(links[c]),
         link.listening => links[c].listening /\ link.sendMax = links[c].sendMax,
         WithinLimit(links[c]) => WithinLimit(link),
         links' = [links EXCEPT ![c] = link], UNCHANGED <<payout, account>>
  PROVE  PayoutInv'
<1>1. /\ payout \in PayoutState /\ account \in Account
      /\ payout.sent \in Nat /\ payout.target \in Nat /\ owed(links[c]) \in Nat
      /\ account.paid \in Nat /\ account.uncounted \in Nat
  BY DEF PayoutInv, PayoutOK, PayoutState, LinkOK, Link, owed, Account
<1>2. ~account.overlapped =>
          /\ payout.sent <= payout.target /\ WithinLimit(link)
          /\ link.listening => payout.sent + link.sendMax <= payout.target
  BY DEF PayoutInv, PayoutOK, WithinTarget
<1>3. account'.paid - account'.uncounted
        = account.paid - account.uncounted + (payout'.sent - payout.sent)
            + owed(link) - owed(links[c])
  BY <1>1
<1>4. SetLink(links, links', c, link) /\ payout.target <= payout'.target
  BY <1>1 DEF SetLink
<1>. QED  BY <1>1, <1>2, <1>3, <1>4, LinkStep DEF PayoutInv

\* The query fails.
LEMMA ConnectFailsInv ==
  ASSUME NEW c \in LinkIds, PayoutInv, ConnectFails(c)
  PROVE  PayoutInv'
<1>1. /\ payout \in PayoutState /\ account \in Account /\ LinkOK(links[c])
      /\ links[c].phase = "connecting" /\ owed(links[c]) = 0
      /\ payout.sent \in Nat /\ payout.target \in Nat
      /\ account.paid \in Nat /\ account.uncounted \in Nat
  BY DEF PayoutInv, PayoutOK, PayoutState, Account, ConnectFails, LinkOK, owed
<1>2. payout' \in PayoutState /\ payout'.sent = payout.sent /\ payout'.target = payout.target
  <2>. DEFINE n == payout.timers + 1
              retry == [payout EXCEPT !.state = "DISCONNECTED", !.timers = n]
  <2>1. n \in Nat /\ payout' \in {payout, retry}
    BY <1>1 DEF ConnectFails, PayoutState
  <2>. HIDE DEF n
  <2>2. retry \in PayoutState /\ retry.sent = payout.sent /\ retry.target = payout.target
    BY <1>1, <2>1 DEF PayoutState
  <2>. HIDE DEF retry
  <2>. QED  BY <1>1, <2>1, <2>2
<1>3. SetLink(links, links', c, NoLink) /\ account' = account
  BY DEF ConnectFails, SetLink
<1>4. account'.paid - account'.uncounted
        = account.paid - account.uncounted + (payout'.sent - payout.sent)
            + owed(NoLink) - owed(links[c])
  BY <1>1, <1>2, <1>3, NewLinks
<1>5. payout.target <= payout'.target /\ (~account.overlapped => payout'.sent <= payout'.target)
  BY <1>1, <1>2 DEF PayoutInv, PayoutOK, WithinTarget
<1>6. LinkOK(NoLink) /\ ~inUse(NoLink) /\ ~NoLink.listening /\ WithinLimit(NoLink)
  BY NewLinks DEF WithinLimit
<1>. QED  BY <1>1, <1>2, <1>3, <1>4, <1>5, <1>6, LinkStep DEF PayoutInv

\* A retry is due.
LEMMA RetryTimerInv ==
  ASSUME PayoutInv, RetryTimer
  PROVE  PayoutInv'
<1>. DEFINE n == payout.timers - 1
            p == [payout EXCEPT !.timers = n]
<1>1. payout \in PayoutState /\ payout.timers \in Nat /\ payout.target \in Nat
  BY DEF PayoutInv, PayoutOK, PayoutState
<1>2. n \in Nat /\ safeTrySending(p, links)
  BY <1>1 DEF RetryTimer
<1>. HIDE DEF n
<1>3. p \in PayoutState /\ p.sent = payout.sent /\ p.target = payout.target
  BY <1>1, <1>2 DEF PayoutState
<1>. HIDE DEF p
<1>4. PayoutOK(p, links, account)
  BY <1>1, <1>3, PayoutStep DEF PayoutInv
<1>. QED  BY <1>2, <1>4, TrySending

\* A packet leaves.
LEMMA SendMoneyInv ==
  ASSUME NEW c \in LinkIds, PayoutInv, SendMoney(c)
  PROVE  PayoutInv'
<1>. DEFINE link == [links[c] EXCEPT !.inFlight = TRUE]
<1>1. LinkOK(links[c]) /\ links[c].sendMax \in Nat /\ links[c].stream = "open"
      /\ links[c].total < links[c].sendMax
  BY DEF PayoutInv, PayoutOK, Link, LinkOK, SendMoney
<1>2. links' = [links EXCEPT ![c] = link] /\ UNCHANGED <<payout, account>>
  BY DEF SendMoney
<1>3. /\ LinkOK(link) /\ owed(link) = owed(links[c]) /\ inUse(links[c]) /\ links[c].listening
      /\ link.listening /\ link.sendMax = links[c].sendMax /\ WithinLimit(link)
  BY <1>1, SendingLink
<1>. HIDE DEF link
<1>. QED  BY <1>2, <1>3, QuietStep

\* A packet is rejected.
LEMMA MoneyRejectedInv ==
  ASSUME NEW c \in LinkIds, PayoutInv, MoneyRejected(c)
  PROVE  PayoutInv'
<1>. DEFINE link == forget(spent(links[c]))
<1>1. LinkOK(links[c])
  BY DEF PayoutInv, PayoutOK
<1>2. links' = [links EXCEPT ![c] = link] /\ UNCHANGED <<payout, account>>
  BY DEF MoneyRejected
<1>3. /\ LinkOK(link) /\ owed(link) = owed(links[c]) /\ (inUse(link) => inUse(links[c]))
      /\ (link.listening => links[c].listening /\ link.sendMax = links[c].sendMax)
      /\ (WithinLimit(links[c]) => WithinLimit(link))
  BY <1>1, SpentLink, ForgetLink
<1>. HIDE DEF link
<1>. QED  BY <1>2, <1>3, QuietStep

\* The connection or the stream emits an event.
LEMMA EventInv ==
  ASSUME NEW c \in LinkIds, PayoutInv, HeardEvent(c)
  PROVE  PayoutInv'
<1>1. LinkOK(links[c]) /\ links[c].listening /\ links[c].phase \in {"up", "erred", "closed"}
      /\ links[c].stream \in {"none", "open", "closing", "closed"}
  BY DEF PayoutInv, PayoutOK, LinkOK, Link, HeardEvent, ConnectionError, StreamError,
         StreamClosed, ConnectionClosed
<1>2. PICK phase \in {"up", "erred", "closed"}, stream \in {"none", "closing", "closed"},
           events \in {1, 2} :
          links' = [links EXCEPT ![c] = heard(links[c], phase, stream, events)]
  BY <1>1 DEF HeardEvent, ConnectionError, StreamError, StreamClosed, ConnectionClosed
<1>3. UNCHANGED <<payout, account>>
  BY DEF HeardEvent, ConnectionError, StreamError, StreamClosed, ConnectionClosed
<1>. DEFINE link == heard(links[c], phase, stream, events)
<1>4. /\ LinkOK(link) /\ owed(link) = owed(links[c]) /\ inUse(links[c])
      /\ link.listening /\ link.sendMax = links[c].sendMax
      /\ WithinLimit(links[c]) => WithinLimit(link)
  BY <1>1, HeardLink
<1>5. links' = [links EXCEPT ![c] = link]
  BY <1>2
<1>. HIDE DEF link
<1>. QED  BY <1>1, <1>3, <1>4, <1>5, QuietStep

\* A packet is fulfilled: the stream counts it, unless it was cleaned up.
LEMMA MoneySentInv ==
  ASSUME NEW c \in LinkIds, PayoutInv, MoneySent(c)
  PROVE  PayoutInv'
<1>. DEFINE paid == account.paid + 1
            uncounted == account.uncounted + 1
<1>1. /\ payout \in PayoutState /\ account \in Account /\ LinkOK(links[c]) /\ links[c].inFlight
      /\ payout.sent \in Nat /\ payout.target \in Nat /\ owed(links[c]) \in Nat
      /\ account.paid \in Nat /\ account.uncounted \in Nat /\ paid \in Nat /\ uncounted \in Nat
  BY DEF PayoutInv, PayoutOK, PayoutState, Account, LinkOK, Link, owed, MoneySent
<1>2. ~account.overlapped =>
          /\ payout.sent <= payout.target /\ WithinLimit(links[c])
          /\ links[c].listening => payout.sent + links[c].sendMax <= payout.target
  BY DEF PayoutInv, PayoutOK, WithinTarget
<1>3. CASE links[c].listening
  <2>. DEFINE link == counted(links[c])
              state == IF link.total + payout.sent >= payout.target THEN "IDLE" ELSE payout.state
  <2>1. /\ account' = [account EXCEPT !.paid = paid, !.uncounted = account.uncounted]
        /\ links' = [links EXCEPT ![c] = link]
        /\ payout' = [payout EXCEPT !.retries = 0, !.state = state]
    BY <1>3 DEF MoneySent, onOutgoingMoney
  <2>2. state \in {"DISCONNECTED", "CONNECTING", "IDLE", "SENDING", "ABORTED"}
    BY <1>1 DEF PayoutState
  <2>. HIDE DEF state, paid
  <2>3. /\ account' \in Account /\ account'.paid = paid /\ account'.uncounted = account.uncounted
        /\ account'.overlapped = account.overlapped
    BY <1>1, <2>1 DEF Account
  <2>4. payout' \in PayoutState /\ payout'.sent = payout.sent /\ payout'.target = payout.target
    BY <1>1, <2>1, <2>2 DEF PayoutState
  <2>5. /\ LinkOK(link) /\ owed(link) = owed(links[c]) + 1 /\ inUse(links[c])
        /\ link.sendMax = links[c].sendMax /\ (WithinLimit(links[c]) => WithinLimit(link))
    BY <1>1, <1>3, CountedLink
  <2>6. SetLink(links, links', c, link)
    BY <2>1 DEF SetLink
  <2>. HIDE DEF link
  <2>7. account'.paid - account'.uncounted
          = account.paid - account.uncounted + (payout'.sent - payout.sent)
              + owed(link) - owed(links[c])
    BY <1>1, <2>3, <2>4, <2>5 DEF paid
  <2>8. payout.target <= payout'.target
        /\ (~account.overlapped => /\ payout'.sent <= payout'.target /\ WithinLimit(link)
                                   /\ payout'.sent + link.sendMax <= payout'.target)
    BY <1>1, <1>2, <1>3, <2>4, <2>5
  <2>. QED  BY <1>1, <2>3, <2>4, <2>5, <2>6, <2>7, <2>8, LinkStep DEF PayoutInv
<1>4. CASE ~links[c].listening
  <2>. DEFINE link == forget(spent(links[c]))
  <2>1. /\ account' = [account EXCEPT !.paid = paid, !.uncounted = uncounted]
        /\ links' = [links EXCEPT ![c] = link] /\ payout' = payout
    BY <1>4 DEF MoneySent
  <2>. HIDE DEF paid, uncounted
  <2>2. /\ account' \in Account /\ account'.paid = paid /\ account'.uncounted = uncounted
        /\ account'.overlapped = account.overlapped
    BY <1>1, <2>1 DEF Account
  <2>3. /\ LinkOK(link) /\ owed(link) = owed(links[c]) /\ (inUse(link) => inUse(links[c]))
        /\ ~link.listening
    BY <1>1, <1>4, SpentLink, ForgetLink
  <2>4. SetLink(links, links', c, link)
    BY <2>1 DEF SetLink
  <2>. HIDE DEF link
  <2>5. account'.paid - account'.uncounted
          = account.paid - account.uncounted + (payout'.sent - payout.sent)
              + owed(link) - owed(links[c])
    BY <1>1, <2>1, <2>2, <2>3 DEF paid, uncounted
  <2>6. payout.target <= payout'.target /\ WithinLimit(link)
        /\ (~account.overlapped => payout'.sent <= payout'.target)
    BY <1>1, <1>2, <2>1, <2>3 DEF WithinLimit
  <2>7. payout' = payout
    BY <2>1
  <2>. QED  BY <1>1, <2>2, <2>3, <2>4, <2>5, <2>6, <2>7, LinkStep DEF PayoutInv
<1>. QED  BY <1>3, <1>4

\* The first clean-up of a link adds what it owes to sent; a retry may follow.
LEMMA CleanUpInv ==
  ASSUME NEW c \in LinkIds, PayoutInv, cleanUp(c)
  PROVE  PayoutInv'
<1>. DEFINE p == cleanedUp(payout, links[c])
            link == forget(cleaned(links[c]))
            current == [links EXCEPT ![c] = link]
            sent == payout.sent + owed(links[c])
<1>1. /\ payout \in PayoutState /\ account \in Account /\ LinkOK(links[c]) /\ links[c].cleanUps > 0
      /\ payout.sent \in Nat /\ payout.target \in Nat /\ owed(links[c]) \in Nat
      /\ account.paid \in Nat /\ account.uncounted \in Nat /\ links[c] \in Link
      /\ links[c].total \in Nat /\ links[c].sendMax \in Nat
  BY DEF PayoutInv, PayoutOK, PayoutState, Account, LinkOK, Link, owed, cleanUp
<1>2. /\ LinkOK(link) /\ owed(link) = 0 /\ ~inUse(link) /\ ~link.listening
      /\ links[c].listening \/ links[c].applied
  BY <1>1, CleanedLink, ForgetLink
<1>3. sent \in Nat /\ p = [payout EXCEPT !.state = "DISCONNECTED", !.sent = sent]
  <2>1. sent = IF links[c].applied THEN payout.sent ELSE payout.sent + links[c].total
    BY <1>1 DEF owed
  <2>2. sent \in Nat
    BY <1>1
  <2>. HIDE DEF sent
  <2>. QED  BY <2>1, <2>2 DEF cleanedUp
<1>. HIDE DEF sent
<1>4. p \in PayoutState /\ p.sent = sent /\ p.target = payout.target
  BY <1>1, <1>3 DEF PayoutState
<1>5. SetLink(links, current, c, link)
  BY DEF SetLink
<1>6. \/ safeTrySending(p, current)
      \/ payout' = p /\ links' = current /\ account' = account
  BY DEF cleanUp
<1>. HIDE DEF p, link, current
<1>7. account.paid - account.uncounted
        = account.paid - account.uncounted + (p.sent - payout.sent) + owed(link) - owed(links[c])
  BY <1>1, <1>2, <1>4 DEF sent
<1>8. ~account.overlapped => p.sent <= p.target
  <2>1. CASE links[c].listening
    <3>1. owed(links[c]) = links[c].total
      BY <1>1, <2>1 DEF LinkOK, owed
    <3>. QED  BY <1>1, <1>4, <2>1, <3>1 DEF PayoutInv, PayoutOK, WithinTarget, WithinLimit, sent
  <2>2. CASE links[c].applied
    <3>1. owed(links[c]) = 0
      BY <2>2 DEF owed
    <3>. QED  BY <1>1, <1>4, <3>1 DEF PayoutInv, PayoutOK, WithinTarget, sent
  <2>. QED  BY <1>2, <2>1, <2>2
<1>9. p.sent = payout.sent \/ links[c].listening
  <2>1. CASE links[c].applied
    <3>1. owed(links[c]) = 0
      BY <2>1 DEF owed
    <3>. QED  BY <1>1, <1>4, <3>1 DEF sent
  <2>. QED  BY <1>2, <2>1
<1>10. payout.target <= p.target /\ WithinLimit(link)
  BY <1>1, <1>2, <1>4 DEF WithinLimit
<1>11. PayoutOK(p, current, account)
  BY <1>1, <1>2, <1>4, <1>5, <1>7, <1>8, <1>9, <1>10, LinkStep DEF PayoutInv
<1>. QED  BY <1>6, <1>11, TrySending DEF PayoutInv

\* send() raises the target, and the limit of the current stream or starts a link.
LEMMA SendInv ==
  ASSUME NEW amount \in Amounts, PayoutInv, send(amount)
  PROVE  PayoutInv'
<1>. DEFINE target == payout.target + amount
            p == [payout EXCEPT !.target = target]
            limit == getSendMax(p)
            c == payout.current
<1>1. /\ payout \in PayoutState /\ account \in Account /\ payout.sent \in Nat
      /\ payout.target \in Nat /\ target \in Nat /\ payout.target <= target
      /\ account.paid \in Nat /\ account.uncounted \in Nat /\ c \in LinkIds \cup {0}
  BY PayoutAssumption DEF PayoutInv, PayoutOK, PayoutState, Account
<1>2. \/ /\ c # 0 /\ payout' = [p EXCEPT !.state = "SENDING"] /\ account' = account
         /\ \/ links' = links
            \/ /\ accepts(links[c], limit)
               /\ links' = [links EXCEPT ![c] = limited(links[c], limit)]
      \/ safeTrySending(p, links)
  BY DEF send
<1>. HIDE DEF target
<1>3. p \in PayoutState /\ p.sent = payout.sent /\ p.target = target
  BY <1>1 DEF PayoutState
<1>4. limit = target - payout.sent
  BY <1>3 DEF getSendMax
<1>. HIDE DEF p, limit, c
<1>5. PayoutOK(p, links, account)
  BY <1>1, <1>3, PayoutStep DEF PayoutInv
<1>6. CASE safeTrySending(p, links)
  BY <1>5, <1>6, TrySending
<1>7. ASSUME c # 0, payout' = [p EXCEPT !.state = "SENDING"], account' = account
      PROVE  payout' \in PayoutState /\ payout'.sent = payout.sent /\ payout'.target = target
  BY <1>3, <1>7 DEF PayoutState
<1>8. CASE c # 0 /\ payout' = [p EXCEPT !.state = "SENDING"] /\ account' = account /\ links' = links
  BY <1>1, <1>7, <1>8, PayoutStep DEF PayoutInv
<1>9. CASE /\ c # 0 /\ payout' = [p EXCEPT !.state = "SENDING"] /\ account' = account
           /\ accepts(links[c], limit) /\ links' = [links EXCEPT ![c] = limited(links[c], limit)]
  <2>. DEFINE link == limited(links[c], limit)
  <2>1. c \in LinkIds
    BY <1>1, <1>9
  <2>2. /\ LinkOK(links[c]) /\ links[c].stream = "open" /\ links[c].total \in Nat
        /\ links[c].sendMax \in Nat /\ owed(links[c]) \in Nat
    BY <1>9, <2>1 DEF PayoutInv, PayoutOK, LinkOK, Link, owed, accepts
  <2>3. limit \in Nat
    BY <1>1, <1>4, <1>9, <2>2 DEF accepts
  <2>4. /\ LinkOK(link) /\ owed(link) = owed(links[c]) /\ inUse(links[c]) /\ links[c].listening
        /\ link.listening /\ link.sendMax = limit
        /\ WithinLimit(links[c]) /\ limit >= links[c].sendMax => WithinLimit(link)
    BY <2>2, <2>3, LimitedLink
  <2>5. payout' \in PayoutState /\ payout'.sent = payout.sent /\ payout'.target = target
    BY <1>7, <1>9
  <2>6. SetLink(links, links', c, link) /\ account' = account
    BY <1>9 DEF SetLink
  <2>. HIDE DEF link
  <2>7. ~account.overlapped =>
            /\ payout.sent <= payout.target /\ WithinLimit(links[c])
            /\ payout.sent + links[c].sendMax <= payout.target
    BY <2>1, <2>4 DEF PayoutInv, PayoutOK, WithinTarget
  <2>8. payout.target <= payout'.target
        /\ (~account.overlapped => /\ payout'.sent <= payout'.target /\ WithinLimit(link)
                                   /\ payout'.sent + link.sendMax <= payout'.target)
    BY <1>1, <1>4, <2>2, <2>3, <2>4, <2>5, <2>7
  <2>9. account'.paid - account'.uncounted
          = account.paid - account.uncounted + (payout'.sent - payout.sent)
              + owed(link) - owed(links[c])
    BY <1>1, <2>2, <2>4, <2>5, <2>6
  <2>. QED  BY <1>1, <2>1, <2>4, <2>5, <2>6, <2>8, <2>9, LinkStep DEF PayoutInv
<1>. QED  BY <1>2, <1>6, <1>8, <1>9

\* The payout expires, and the stream of its connection is destroyed.
LEMMA ExpireInv ==
  ASSUME PayoutInv, expirePaymentPointer
  PROVE  PayoutInv'
<1>. DEFINE c == payout.current
            n == IF payout.timers > 0 THEN payout.timers - 1 ELSE 0
<1>1. /\ payout \in PayoutState /\ account \in Account /\ payout.sent \in Nat
      /\ payout.target \in Nat /\ c \in LinkIds \cup {0} /\ n \in Nat
      /\ account.paid \in Nat /\ account.uncounted \in Nat
  BY DEF PayoutInv, PayoutOK, PayoutState, Account
<1>2. /\ payout' = [payout EXCEPT !.closing = TRUE, !.timers = n] /\ account' = account
      /\ \/ links' = links
         \/ /\ c # 0 /\ links[c].stream = "open"
            /\ links' = [links EXCEPT ![c] = destroyed(links[c])]
  BY DEF expirePaymentPointer
<1>. HIDE DEF n, c
<1>3. payout' \in PayoutState /\ payout'.sent = payout.sent /\ payout'.target = payout.target
  BY <1>1, <1>2 DEF PayoutState
<1>4. payout.target <= payout'.target
  BY <1>1, <1>3
<1>5. CASE links' = links
  BY <1>2, <1>3, <1>4, <1>5, PayoutStep DEF PayoutInv
<1>6. CASE c # 0 /\ links[c].stream = "open" /\ links' = [links EXCEPT ![c] = destroyed(links[c])]
  <2>. DEFINE link == destroyed(links[c])
  <2>1. c \in LinkIds
    BY <1>1, <1>6
  <2>2. LinkOK(links[c]) /\ owed(links[c]) \in Nat
    BY <2>1 DEF PayoutInv, PayoutOK, LinkOK, Link, owed
  <2>3. /\ LinkOK(link) /\ owed(link) = owed(links[c]) /\ inUse(links[c]) /\ links[c].listening
        /\ link.listening /\ link.sendMax = links[c].sendMax
        /\ WithinLimit(links[c]) => WithinLimit(link)
    BY <1>6, <2>2, DestroyedLink
  <2>4. SetLink(links, links', c, link) /\ account' = account
    BY <1>2, <1>6 DEF SetLink
  <2>. HIDE DEF link
  <2>5. ~account.overlapped =>
            /\ payout'.sent <= payout'.target /\ WithinLimit(link)
            /\ payout'.sent + link.sendMax <= payout'.target
    BY <1>3, <2>1, <2>3 DEF PayoutInv, PayoutOK, WithinTarget
  <2>6. account'.paid - account'.uncounted
          = account.paid - account.uncounted + (payout'.sent - payout.sent)
              + owed(link) - owed(links[c])
    BY <1>1, <1>3, <2>2, <2>3, <2>4
  <2>. QED  BY <1>1, <1>3, <1>4, <2>1, <2>3, <2>4, <2>5, <2>6, LinkStep DEF PayoutInv
<1>. QED  BY <1>2, <1>5, <1>6

-----------------------------------------------------------------------------
(* The theorems *)

\* Nothing was paid and no link exists at first.
LEMMA PayoutInitInv == PayoutInit => PayoutInv
<1>. SUFFICES ASSUME PayoutInit PROVE PayoutInv
  OBVIOUS
<1>1. payout \in PayoutState /\ account \in Account /\ payout.sent = 0 /\ payout.target = 0
      /\ account.paid = 0 /\ account.uncounted = 0
  BY DEF PayoutInit, PayoutState, Account
<1>2. \A c \in LinkIds : links[c] = NoLink
  BY DEF PayoutInit
<1>3. links \in [LinkIds -> Link]
  BY NewLinks DEF PayoutInit, LinkOK
<1>4. Total(Owed(links), MaxLinks) = 0
  <2>1. Owed(links) \in [1 .. MaxLinks -> Nat] /\ \A k \in 1 .. MaxLinks : Owed(links)[k] = 0
    BY <1>2, NewLinks DEF Owed, LinkIds
  <2>. QED  BY <2>1, PayoutAssumption, TotalZeros
<1>5. OneInUse(links, account) /\ WithinTarget(payout, links, account)
  BY <1>1, <1>2, NewLinks DEF OneInUse, WithinTarget, WithinLimit
<1>. QED  BY <1>1, <1>2, <1>3, <1>4, <1>5, NewLinks DEF PayoutInv, PayoutOK

\* Every step keeps the invariant.
LEMMA PayoutNextInv == PayoutInv /\ [PayoutNext]_payoutVars => PayoutInv'
<1>. SUFFICES ASSUME PayoutInv, [PayoutNext]_payoutVars PROVE PayoutInv'
  OBVIOUS
<1>1. ASSUME NEW amount \in Amounts, send(amount)
      PROVE  PayoutInv'
  BY <1>1, SendInv
<1>2. CASE expirePaymentPointer
  BY <1>2, ExpireInv
<1>3. CASE RetryTimer
  BY <1>3, RetryTimerInv
<1>4. ASSUME NEW c \in LinkIds, Connected(c) \/ ConnectFails(c)
      PROVE  PayoutInv'
  BY <1>4, ConnectedInv, ConnectFailsInv
<1>5. ASSUME NEW c \in LinkIds, SendMoney(c) \/ MoneySent(c) \/ MoneyRejected(c)
      PROVE  PayoutInv'
  BY <1>5, SendMoneyInv, MoneySentInv, MoneyRejectedInv
<1>6. ASSUME NEW c \in LinkIds, HeardEvent(c)
      PROVE  PayoutInv'
  BY <1>6, EventInv
<1>7. ASSUME NEW c \in LinkIds, cleanUp(c)
      PROVE  PayoutInv'
  BY <1>7, CleanUpInv
<1>8. CASE UNCHANGED payoutVars
  BY <1>8 DEF payoutVars, PayoutInv
<1>. QED  BY <1>1, <1>2, <1>3, <1>4, <1>5, <1>6, <1>7, <1>8 DEF PayoutNext

\* The invariant holds throughout.
LEMMA PayoutInvariant == PayoutSpec => []PayoutInv
BY PayoutInitInv, PayoutNextInv, PTL DEF PayoutSpec

\* The clean-ups of PayoutConnection: whatever close and error events schedule them and in
\* whatever order they run, sent and the totals of the streams in use add up to what was
\* paid and counted.
THEOREM PayoutLedgerHolds == PayoutSpec => []PayoutLedger
<1>1. PayoutInv => PayoutLedger
  <2>1. unapplied = Owed(links)
    BY DEF unapplied, Owed, owed
  <2>. QED  BY <2>1 DEF PayoutInv, PayoutOK, PayoutLedger
<1>. QED  BY <1>1, PayoutInvariant, PTL

\* PayoutConnection.send: over any number of connections, failures and retries a payout
\* pays no more than its target, unless connections overlapped or money went uncounted.
THEOREM PaysOnceHolds == PayoutSpec => []PaysOnce
<1>1. PayoutInv => PaysOnce
  <2>. SUFFICES ASSUME PayoutInv, ~account.overlapped, account.uncounted = 0
                PROVE  account.paid <= payout.target
    BY DEF PaysOnce
  <2>1. /\ payout.sent \in Nat /\ payout.target \in Nat /\ account.paid \in Nat
        /\ \A c \in LinkIds : LinkOK(links[c]) /\ links[c] \in Link
    BY DEF PayoutInv, PayoutOK, PayoutState, Account
  <2>2. \A c \in LinkIds : owed(links[c]) \in Nat
    BY <2>1 DEF Link, owed
  <2>3. Owed(links) \in [1 .. MaxLinks -> Nat] /\ MaxLinks \in Nat
        /\ \A c \in 1 .. MaxLinks : Owed(links)[c] = owed(links[c])
    BY <2>2, PayoutAssumption DEF Owed, LinkIds
  <2>4. \A c \in LinkIds : ~links[c].listening => owed(links[c]) = 0
    BY <2>1 DEF LinkOK, owed
  <2>5. account.paid = payout.sent + Total(Owed(links), MaxLinks)
    BY <2>1 DEF PayoutInv, PayoutOK
  <2>6. CASE \A c \in LinkIds : ~links[c].listening
    <3>1. Total(Owed(links), MaxLinks) = 0
      BY <2>3, <2>4, <2>6, TotalZeros DEF LinkIds
    <3>. QED  BY <2>1, <2>5, <3>1 DEF PayoutInv, PayoutOK, WithinTarget
  <2>7. ASSUME NEW c \in LinkIds, links[c].listening
        PROVE  account.paid <= payout.target
    <3>1. \A d \in LinkIds : d # c => ~links[d].listening
      BY <2>7 DEF PayoutInv, PayoutOK, OneInUse, inUse
    <3>2. Total(Owed(links), MaxLinks) = owed(links[c])
      BY <2>3, <2>4, <3>1, TotalSingle DEF LinkIds
    <3>3. owed(links[c]) = links[c].total
      BY <2>1, <2>7 DEF LinkOK, owed
    <3>4. links[c].total <= links[c].sendMax /\ payout.sent + links[c].sendMax <= payout.target
      BY <2>7 DEF PayoutInv, PayoutOK, WithinTarget, WithinLimit
    <3>5. links[c].total \in Nat /\ links[c].sendMax \in Nat
      BY <2>1 DEF Link
    <3>. QED  BY <2>1, <2>5, <3>2, <3>3, <3>4, <3>5
  <2>. QED  BY <2>6, <2>7
<1>. QED  BY <1>1, PayoutInvariant, PTL

-----------------------------------------------------------------------------
(***************************************************************************)
(* Quotes.                                                                 *)
(*                                                                         *)
(* QuoteSound speaks of the end of a probe.  QuoteInv says what is known   *)
(* while it runs: the verified capacity of the controllers passes, what is *)
(* above a maximum that was searched for does not, and the rate is between *)
(* the bounds once a packet was delivered.  The first upper bound may be   *)
(* wrong; because it is a whole number the first packet replaces it then.  *)
(* Only the asset probe hears of the asset, from the receiver's token.     *)
(***************************************************************************)

\* The requests of the senders: to the token's address, or to the one behind it.
QuoteRequest ==
    [amount : Nat, frames : SUBSET {"ConnectionNewAddress", "ConnectionClose"},
     segments : {<<path.token>>, <<NoToken, path.token>>}]

ProbeResult ==
    [lowEstimatedExchangeRate : Ratio, highEstimatedExchangeRate : PositiveRatio,
     maxPacketAmount : Nat]

ErrorResult ==
    [error : {"DestinationAssetConflict", "EstablishmentFailed", "UnknownDestinationAsset",
              "RateProbeFailed", "ClosedByReceiver", "ConnectorError"}]

DoneResult == [error : {"none"}, value : {undefined, theAsset} \cup ProbeResult]

SenderState ==
    [loop : {"idle", "running", "completing", "ended"}, attempts : Nat,
     inFlight : SUBSET QuoteRequest, result : {undefined} \cup ErrorResult \cup DoneResult,
     requestCount : Nat, replyCount : Nat, didConnect : BOOLEAN,
     destinationAsset : {undefined, theAsset}, remaining : Seq(Nat),
     deadline : {"unset", "pending", "passed"}]

PathOK ==
    /\ path.rate \in PositiveRatio /\ path.maximum \in Nat /\ path.metadata \in BOOLEAN
    /\ path.token.sealed = TRUE

\* What waits for its answer while a probe runs.
InFlightOK(phase, s) ==
    /\ phase = "assetProbe" => s.inFlight \subseteq {assetRequest(0), assetRequest(1)}
    /\ phase = "rateProbe" =>
          \A r \in s.inFlight : r = streamRequest(r.amount, {}, <<path.token>>)

\* What the maximum packet amount says of the path: the verified capacity passes, and
\* what is above a maximum that was not computed from an F08's amounts does not.
MaxOK(mp) ==
    /\ mp \in MaxPacketState
    /\ mp.type = "UnknownMax" <=> mp.maxPacketAmount = undefined
    /\ mp.maxPacketAmount # 0
    /\ mp.verifiedPathCapacity <= getMaxPacketAmountLimit(mp)
    /\ fits(mp.verifiedPathCapacity)
    /\ mp.type # "UnknownMax" /\ ~path.metadata => ~fits(mp.maxPacketAmount + 1)

\* The rate is not below the lower bound.  It is below the upper one, unless that is
\* still the first one.
RateOK(rate) ==
    /\ rate \in RateBounds
    /\ isLessThanOrEqualTo(rate.lowerBoundRate, path.rate)
    /\ isLessThan(path.rate, rate.upperBoundRate) \/ rate.upperBoundRate = RatioOf(MaxU64, 1)

ProbedOK(rate, mp) ==
    /\ RateOK(rate) /\ MaxOK(mp)
    /\ mp.verifiedPathCapacity > 0 => isLessThan(path.rate, rate.upperBoundRate)

\* A result that tells the truth about the path.
SoundResult(q) ==
    /\ \/ q.maxPacketAmount = MaxU64 /\ fits(MaxProbeAmount)
       \/ fits(q.maxPacketAmount) /\ (path.metadata \/ ~fits(q.maxPacketAmount + 1))
    /\ isLessThanOrEqualTo(q.lowEstimatedExchangeRate, path.rate)
    /\ isLessThan(path.rate, q.highEstimatedExchangeRate)

\* The result of a loop that completes is sound when it is not an error...
CompletingOK(phase, s) ==
    s.loop = "completing" =>
        /\ phase \in {"assetProbe", "rateProbe", "closing"}
        /\ s.result.error = "none" =>
              /\ phase = "assetProbe" => s.destinationAsset = theAsset
              /\ phase = "rateProbe" => SoundResult(s.result.value)

\* ...and stays so in the phases that follow.
ResultOK(phase, s) ==
    /\ phase \in {"resolved", "rateProbe", "quoted"} => s.destinationAsset = theAsset
    /\ phase = "quoted" => SoundResult(s.result.value)

SenderOK(phase, s) ==
    /\ s \in SenderState
    /\ InFlightOK(phase, s)
    /\ CompletingOK(phase, s)
    /\ ResultOK(phase, s)

QuoteInv ==
    /\ setup \in SetupState
    /\ PathOK
    /\ SenderOK(setup.phase, sender)
    /\ ProbedOK(probedRate, probedMax)

-----------------------------------------------------------------------------
(* Ratios *)

\* Integer division by a positive amount rounds down.
LEMMA FloorOf ==
  ASSUME NEW x \in Nat, NEW b \in PositiveInt
  PROVE  /\ x \div b \in Nat
         /\ (x \div b) * b <= x
         /\ x < ((x \div b) + 1) * b
BY DEF PositiveInt

\* Products keep the order of their factors.
LEMMA ProductOrder ==
  ASSUME NEW n \in Nat, NEW m \in Nat, n <= m, NEW a \in Nat
  PROVE  n * a <= m * a /\ n * a \in Nat /\ m * a \in Nat
OBVIOUS

\* What a path makes of an amount, and what that says of its rate.
LEMMA ConvertedBounds ==
  ASSUME NEW n \in Nat, NEW r \in PositiveRatio
  PROVE  LET d == multiplyFloor(n, r)
         IN  /\ d \in Nat
             /\ r.a \in PositiveInt /\ r.b \in PositiveInt /\ r.a \in Nat /\ r.b \in Nat
             /\ d * r.b <= n * r.a
             /\ n * r.a < (d + 1) * r.b
<1>. DEFINE x == n * r.a
<1>1. r.a \in PositiveInt /\ r.b \in PositiveInt /\ r.a \in Nat /\ r.b \in Nat
  BY DEF PositiveRatio, PositiveInt
<1>2. x \in Nat
  BY <1>1
<1>3. multiplyFloor(n, r) = x \div r.b
  BY DEF multiplyFloor
<1>. HIDE DEF x
<1>4. x \div r.b \in Nat /\ (x \div r.b) * r.b <= x /\ x < ((x \div r.b) + 1) * r.b
  BY <1>1, <1>2, FloorOf
<1>. QED  BY <1>1, <1>3, <1>4 DEF x

\* A larger packet is not worth less.
LEMMA ConvertedGrows ==
  ASSUME NEW n \in Nat, NEW m \in Nat, n <= m, NEW r \in PositiveRatio
  PROVE  multiplyFloor(n, r) <= multiplyFloor(m, r)
<1>. DEFINE d == multiplyFloor(n, r)
            e == multiplyFloor(m, r)
            b == r.b
            x == n * r.a
            y == m * r.a
<1>1. d \in Nat /\ e \in Nat /\ b \in Nat /\ b > 0 /\ d * b <= x /\ y < (e + 1) * b /\ r.a \in Nat
  BY ConvertedBounds DEF PositiveInt
<1>2. x <= y /\ x \in Nat /\ y \in Nat
  BY <1>1, ProductOrder
<1>. HIDE DEF d, e, b, x, y
<1>3. d * b < (e + 1) * b
  BY <1>1, <1>2
<1>4. e + 1 <= d => (e + 1) * b <= d * b
  BY <1>1, ProductOrder
<1>5. d <= e
  BY <1>1, <1>3, <1>4
<1>. QED  BY <1>5 DEF d, e

LEMMA FitsLess ==
  ASSUME PathOK, NEW n \in Nat, NEW m \in Nat, n <= m, fits(m)
  PROVE  fits(n)
<1>. DEFINE d == multiplyFloor(n, path.rate)
            e == multiplyFloor(m, path.rate)
<1>1. d \in Nat /\ e \in Nat /\ d <= e /\ e <= path.maximum /\ path.maximum \in Nat
  BY ConvertedBounds, ConvertedGrows DEF PathOK, fits
<1>. HIDE DEF d, e
<1>2. d <= path.maximum
  BY <1>1
<1>. QED  BY <1>2 DEF fits, d

-----------------------------------------------------------------------------
(* ExchangeRateController and MaxPacketAmountController *)

\* A packet whose amount was delivered leaves the rate of the path between the bounds,
\* the first upper bound included: it is a whole number.
LEMMA ObservedRate ==
  ASSUME PathOK, NEW rate, RateOK(rate), NEW n \in Nat, n > 0
  PROVE  LET new == observeRate(rate, n, multiplyFloor(n, path.rate))
         IN  RateOK(new) /\ isLessThan(path.rate, new.upperBoundRate)
<1>. DEFINE d == multiplyFloor(n, path.rate)
            r == path.rate
            low == rate.lowerBoundRate
            high == rate.upperBoundRate
            packetLow == RatioOf(d, n)
            packetHigh == RatioOf(d + 1, n)
            reset == isLessThanOrEqualTo(packetHigh, low) \/ isLessThanOrEqualTo(high, packetLow)
            new == observeRate(rate, n, d)
<1>1. /\ r \in PositiveRatio /\ r.a \in Nat /\ r.b \in Nat /\ r.b > 0 /\ d \in Nat
      /\ d * r.b <= n * r.a /\ n * r.a < (d + 1) * r.b
  BY ConvertedBounds DEF PathOK, PositiveInt
<1>2. /\ low \in Ratio /\ high \in PositiveRatio
      /\ isLessThanOrEqualTo(low, r)
      /\ isLessThan(r, high) \/ high = RatioOf(MaxU64, 1)
  BY DEF RateOK, RateBounds
<1>. HIDE DEF d, r
<1>3. /\ packetLow.a = d /\ packetLow.b = n /\ packetHigh.a = d + 1 /\ packetHigh.b = n
      /\ packetLow \in Ratio /\ packetHigh \in PositiveRatio
  BY <1>1 DEF RatioOf, Ratio, PositiveRatio, PositiveInt
<1>4. isLessThanOrEqualTo(packetLow, r) /\ isLessThan(r, packetHigh)
  <2>1. r.a * n = n * r.a /\ r.b * (d + 1) = (d + 1) * r.b
    BY <1>1
  <2>. QED  BY <1>1, <1>3, <2>1 DEF isLessThanOrEqualTo, isLessThan
<1>5. new = [lowerBoundRate |-> IF reset \/ isLessThan(low, packetLow) THEN packetLow ELSE low,
             upperBoundRate |-> IF reset \/ isLessThan(packetHigh, high) THEN packetHigh ELSE high]
  <2>1. n # 0 /\ d # undefined
    BY <1>1, UndefinedAssumption
  <2>. QED  BY <2>1 DEF observeRate
<1>6. ASSUME ~isLessThan(r, high), high = RatioOf(MaxU64, 1)
      PROVE  isLessThanOrEqualTo(high, packetLow)
  <2>. DEFINE M == MaxU64
  <2>1. high.a = M /\ high.b = 1 /\ M \in Nat
    BY <1>6, MaxU64Assumption DEF RatioOf
  <2>2. r.b * M <= r.a
    BY <1>1, <1>6, <2>1 DEF isLessThan
  <2>. HIDE DEF M
  <2>3. (r.b * M) * n <= r.a * n /\ (r.b * M) * n = (M * n) * r.b /\ r.a * n = n * r.a
    <3>1. r.b * M \in Nat
      BY <1>1, <2>1
    <3>. QED  BY <1>1, <2>1, <2>2, <3>1, ProductOrder
  <2>4. M * n \in Nat /\ n * r.a \in Nat /\ (M * n) * r.b \in Nat /\ (d + 1) * r.b \in Nat
    BY <1>1, <2>1
  <2>5. (M * n) * r.b < (d + 1) * r.b
    BY <1>1, <2>3, <2>4
  <2>6. ~(d + 1 <= M * n)
    <3>1. d + 1 <= M * n => (d + 1) * r.b <= (M * n) * r.b
      <4>. DEFINE y == M * n
      <4>1. y \in Nat /\ d + 1 \in Nat
        BY <1>1, <2>4
      <4>. HIDE DEF y
      <4>2. d + 1 <= y => (d + 1) * r.b <= y * r.b
        BY <1>1, <4>1, ProductOrder
      <4>. QED  BY <4>2 DEF y
    <3>. QED  BY <2>4, <2>5, <3>1
  <2>7. M * n <= 1 * d
    BY <1>1, <2>4, <2>6
  <2>. QED  BY <1>3, <2>1, <2>7 DEF isLessThanOrEqualTo
<1>. HIDE DEF low, high, packetLow, packetHigh, new
<1>7. /\ new.lowerBoundRate \in {packetLow, low}
      /\ new.upperBoundRate = packetHigh \/ (new.upperBoundRate = high /\ isLessThan(r, high))
  BY <1>2, <1>5, <1>6
<1>8. new \in RateBounds
  BY <1>2, <1>3, <1>5 DEF RateBounds
<1>. QED  BY <1>2, <1>4, <1>7, <1>8 DEF RateOK, r, d, new

\* The state of MaxPacketAmountController while its capacity may be above its maximum.
MaxKnown(mp) ==
    /\ mp \in MaxPacketState
    /\ mp.type = "UnknownMax" <=> mp.maxPacketAmount = undefined
    /\ mp.maxPacketAmount # 0
    /\ fits(mp.verifiedPathCapacity)
    /\ mp.type # "UnknownMax" /\ ~path.metadata => ~fits(mp.maxPacketAmount + 1)

\* The limit is a positive amount.
LEMMA LimitType ==
  ASSUME NEW mp, MaxKnown(mp)
  PROVE  /\ mp.verifiedPathCapacity \in Nat
         /\ getMaxPacketAmountLimit(mp) \in Nat /\ getMaxPacketAmountLimit(mp) > 0
         /\ mp.type # "UnknownMax" =>
               mp.maxPacketAmount \in Nat /\ getMaxPacketAmountLimit(mp) = mp.maxPacketAmount
BY UndefinedAssumption, MaxU64Assumption
   DEF MaxKnown, MaxPacketState, OptionalAmount, getMaxPacketAmountLimit

\* An amount that passed raises the capacity, up to the maximum.
LEMMA AdjustedMax ==
  ASSUME PathOK, NEW mp, MaxKnown(mp), NEW n \in Nat, fits(n)
  PROVE  LET new == adjustPathCapacity(mp, n)
         IN  /\ MaxOK(new)
             /\ new.verifiedPathCapacity > 0 => mp.verifiedPathCapacity > 0 \/ n > 0
<1>. DEFINE v == mp.verifiedPathCapacity
            limit == getMaxPacketAmountLimit(mp)
            capacity == orLesser(orGreater(v, n), limit)
            type == IF mp.type = "ImpreciseMax" /\ capacity = mp.maxPacketAmount
                    THEN "PreciseMax" ELSE mp.type
            new == adjustPathCapacity(mp, n)
<1>1. v \in Nat /\ limit \in Nat /\ limit > 0 /\ undefined \notin Nat
  BY LimitType, UndefinedAssumption
<1>2. new = [type |-> type, maxPacketAmount |-> mp.maxPacketAmount, verifiedPathCapacity |-> capacity]
  BY DEF adjustPathCapacity
<1>. HIDE DEF v, limit
<1>3. /\ capacity \in Nat /\ capacity <= limit /\ (capacity <= v \/ capacity <= n)
      /\ capacity > 0 => v > 0 \/ n > 0
  BY <1>1 DEF orLesser, orGreater
<1>. HIDE DEF capacity
<1>4. fits(capacity)
  BY <1>1, <1>3, FitsLess DEF MaxKnown, v
<1>5. type \in {"UnknownMax", "PreciseMax", "ImpreciseMax"} /\ (type = "UnknownMax" <=> mp.type = "UnknownMax")
  BY DEF MaxKnown, MaxPacketState
<1>. HIDE DEF type, new
<1>6. /\ new.type = type /\ new.maxPacketAmount = mp.maxPacketAmount
      /\ new.verifiedPathCapacity = capacity /\ new \in MaxPacketState
  BY <1>2, <1>3, <1>5 DEF MaxKnown, MaxPacketState
<1>7. getMaxPacketAmountLimit(new) = limit
  BY <1>5, <1>6 DEF getMaxPacketAmountLimit, limit
<1>8. MaxOK(new)
  BY <1>3, <1>4, <1>5, <1>6, <1>7 DEF MaxOK, MaxKnown
<1>. QED  BY <1>3, <1>6, <1>8 DEF new, v

LEMMA MaxOKKnown ==
  ASSUME NEW mp, MaxOK(mp)
  PROVE  MaxKnown(mp)
BY DEF MaxOK, MaxKnown

\* A packet that was too large lowers the maximum: without the amounts of the hop to
\* the amount below the packet's.
LEMMA ReducedMax ==
  ASSUME PathOK, NEW mp, MaxOK(mp), NEW n \in Nat, ~fits(n), NEW metadata,
         metadata = IF path.metadata
                    THEN [received |-> multiplyFloor(n, path.rate), maximum |-> path.maximum]
                    ELSE undefined
  PROVE  LET new == reduceMaxPacketAmount(mp, metadata, n)
         IN  /\ MaxOK(new)
             /\ new.verifiedPathCapacity > 0 => mp.verifiedPathCapacity > 0
<1>. DEFINE d == multiplyFloor(n, path.rate)
            newMax == newMaxOf(metadata, n)
            v == mp.verifiedPathCapacity
            type == IF metadata = undefined THEN "ImpreciseMax" ELSE "PreciseMax"
            reduced == [type |-> type, maxPacketAmount |-> newMax, verifiedPathCapacity |-> v]
            new == reduceMaxPacketAmount(mp, metadata, n)
<1>1. d \in Nat /\ path.maximum \in Nat /\ d > path.maximum /\ path.metadata \in BOOLEAN
  BY ConvertedBounds DEF PathOK, fits
<1>2. v \in Nat /\ fits(v) /\ MaxKnown(mp)
  BY LimitType, MaxOKKnown DEF MaxOK
<1>3. newMax \in Nat /\ (~path.metadata => newMax = saturatingSubtract(n, 1))
  <2>1. CASE metadata = undefined
    <3>1. newMax = saturatingSubtract(n, 1)
      BY <2>1 DEF newMaxOf
    <3>. QED  BY <3>1 DEF saturatingSubtract
  <2>2. CASE metadata # undefined
    <3>1. path.metadata /\ metadata = [received |-> d, maximum |-> path.maximum]
      BY <1>1, <2>2
    <3>2. newMax = multiplyFloor(path.maximum, RatioOf(n, d))
      BY <2>2, <3>1 DEF newMaxOf
    <3>3. newMax = (path.maximum * n) \div d
      BY <3>2 DEF multiplyFloor, RatioOf
    <3>. HIDE DEF d
    <3>4. path.maximum * n \in Nat /\ d \in PositiveInt
      BY <1>1 DEF PositiveInt
    <3>. QED  BY <3>1, <3>3, <3>4, FloorOf
  <2>. QED  BY <2>1, <2>2
<1>. HIDE DEF d, newMax, type
<1>4. CASE new = mp
  BY <1>2, <1>4
<1>5. CASE newMax # 0 /\ new = adjustPathCapacity(reduced, v)
  <2>1. ~path.metadata => ~fits(newMax + 1)
    <3>1. ~path.metadata => newMax + 1 = n
      BY <1>3, <1>5 DEF saturatingSubtract
    <3>. QED  BY <3>1
  <2>2. /\ reduced \in MaxPacketState /\ reduced.type # "UnknownMax"
        /\ reduced.maxPacketAmount = newMax /\ reduced.verifiedPathCapacity = v
    BY <1>2, <1>3 DEF MaxPacketState, OptionalAmount, type
  <2>. HIDE DEF reduced, v
  <2>3. MaxKnown(reduced)
    BY <1>2, <1>3, <1>5, <2>1, <2>2, UndefinedAssumption DEF MaxKnown
  <2>4. MaxOK(new) /\ (new.verifiedPathCapacity > 0 => v > 0)
    <3>. HIDE DEF new
    <3>. QED  BY <1>2, <1>5, <2>2, <2>3, AdjustedMax
  <2>. QED  BY <2>4 DEF v
<1>6. new = mp \/ (newMax # 0 /\ new = adjustPathCapacity(reduced, v))
  BY DEF reduceMaxPacketAmount, newMax, type
<1>. QED  BY <1>4, <1>5, <1>6

\* The next amount of the search is an amount.
LEMMA NextAmount ==
  ASSUME NEW mp, MaxOK(mp), mp.type # "UnknownMax"
  PROVE  getNextMaxPacketAmount(mp) \in Nat
<1>. DEFINE v == mp.verifiedPathCapacity
            m == mp.maxPacketAmount
            gap == saturatingSubtract(m, v)
<1>1. v \in Nat /\ m \in Nat
  BY MaxOKKnown, LimitType
<1>2. gap \in Nat
  BY <1>1 DEF saturatingSubtract
<1>. HIDE DEF gap, v, m
<1>3. (gap + 2 - 1) \div 2 \in Nat
  BY <1>2
<1>4. getNextMaxPacketAmount(mp) = ((gap + 2 - 1) \div 2) + v \/ getNextMaxPacketAmount(mp) = m
  BY DEF getNextMaxPacketAmount, divideCeil, gap, v, m
<1>. QED  BY <1>1, <1>3, <1>4

-----------------------------------------------------------------------------
(* The replies *)

\* A reject without STREAM data, of the receiver or of a connector, is not authentic.
LEMMA BareReject ==
  ASSUME NEW code
  PROVE  LET reply == buildReject(code, undefined, undefined)
         IN  /\ assetsIn(reply) = {} /\ ~isAuthenticReply(reply) /\ ~reply.fulfill
             /\ reply.code = code /\ reply.destinationAmount = undefined
BY DEF buildReject, assetsIn, framesOf, isAuthenticReply

\* What the path and the receiver can answer to a probe of an amount.
LEMMA RateReplies ==
  ASSUME PathOK, NEW n \in Nat, NEW reply \in repliesTo(streamRequest(n, {}, <<path.token>>))
  PROVE  /\ assetsIn(reply) = {}
         /\ \/ /\ reply.code # "F08" /\ ~isAuthenticReply(reply)
               /\ reply.destinationAmount = undefined
            \/ /\ reply.code = "F08" /\ ~fits(n) /\ reply.destinationAmount = undefined
               /\ reply.metadata = IF path.metadata
                                   THEN [received |-> multiplyFloor(n, path.rate),
                                         maximum |-> path.maximum]
                                   ELSE undefined
            \/ /\ reply.code # "F08" /\ fits(n)
               /\ reply.destinationAmount = multiplyFloor(n, path.rate)
<1>. DEFINE r == streamRequest(n, {}, <<path.token>>)
            d == multiplyFloor(n, path.rate)
<1>1. r.amount = n /\ r.frames = {} /\ r.segments = <<path.token>> /\ converted(r) = d
  BY DEF streamRequest, converted
<1>2. d \in Nat /\ path.maximum \in Nat
  BY ConvertedBounds DEF PathOK
<1>. HIDE DEF r, d
<1>3. \/ \E code \in {"T00", "R00"} : reply = buildReject(code, undefined, undefined)
      \/ d > path.maximum /\ reply = f08(r)
      \/ d <= path.maximum /\ reply \in createReply(prepareOf(r))
  BY <1>1, <1>2 DEF repliesTo, r
<1>4. CASE \E code \in {"T00", "R00"} : reply = buildReject(code, undefined, undefined)
  BY <1>4, BareReject
<1>5. CASE d > path.maximum /\ reply = f08(r)
  <2>1. /\ reply.code = "F08" /\ reply.destinationAmount = undefined /\ assetsIn(reply) = {}
        /\ reply.metadata = IF path.metadata THEN [received |-> d, maximum |-> path.maximum]
                            ELSE undefined
    BY <1>1, <1>5 DEF f08, buildReject, assetsIn, framesOf
  <2>2. ~fits(n)
    BY <1>2, <1>5 DEF fits, d
  <2>. QED  BY <2>1, <2>2 DEF d
<1>6. CASE d <= path.maximum /\ reply \in createReply(prepareOf(r))
  <2>. DEFINE pr == prepareOf(r)
  <2>1. /\ pr.frames = {} /\ pr.amount = d /\ pr.fulfillable = FALSE /\ pr.isRequest = TRUE
        /\ extractLocalAddressSegment(pr.destination) = path.token
    BY <1>1, SMTT(40) DEF prepareOf, extractLocalAddressSegment
  <2>2. assetFrames(pr, decryptToken(path.token)) = {}
    BY <2>1 DEF assetFrames
  <2>. HIDE DEF pr
  <2>3. \/ \E code \in {"F02", "F06"} : reply = buildReject(code, undefined, undefined)
        \/ reply = buildReject("F99", d, {})
    BY <1>6, <2>1, <2>2 DEF createReply, pr
  <2>4. CASE \E code \in {"F02", "F06"} : reply = buildReject(code, undefined, undefined)
    BY <2>4, BareReject
  <2>5. CASE reply = buildReject("F99", d, {})
    <3>1. reply.code = "F99" /\ reply.destinationAmount = d /\ assetsIn(reply) = {}
      BY <2>5 DEF buildReject, assetsIn, framesOf
    <3>. QED  BY <1>6, <3>1 DEF fits, d
  <2>. QED  BY <2>3, <2>4, <2>5
<1>. QED  BY <1>3, <1>4, <1>5, <1>6

\* An asset probe hears of no asset but the one in the credentials.
LEMMA AssetReplies ==
  ASSUME PathOK, NEW r \in {assetRequest(0), assetRequest(1)}, NEW reply \in repliesTo(r)
  PROVE  assetsIn(reply) \subseteq {theAsset}
<1>. DEFINE d == multiplyFloor(0, path.rate)
<1>1. /\ r.frames = {"ConnectionNewAddress"} /\ converted(r) = d
      /\ r.segments \in {<<path.token>>, <<NoToken, path.token>>}
  BY DEF assetRequest, streamRequest, converted
<1>2. d = 0 /\ path.maximum \in Nat
  BY ConvertedBounds DEF PathOK, multiplyFloor, PositiveRatio, PositiveInt
<1>. HIDE DEF d
<1>3. \/ \E code \in {"T00", "R00"} : reply = buildReject(code, undefined, undefined)
      \/ reply \in createReply(prepareOf(r))
  BY <1>1, <1>2 DEF repliesTo
<1>4. CASE \E code \in {"T00", "R00"} : reply = buildReject(code, undefined, undefined)
  BY <1>4, BareReject
<1>5. CASE reply \in createReply(prepareOf(r))
  <2>. DEFINE pr == prepareOf(r)
              token == extractLocalAddressSegment(pr.destination)
              frames == assetFrames(pr, decryptToken(path.token))
  <2>1. /\ pr.frames = {"ConnectionNewAddress"} /\ pr.fulfillable = FALSE /\ pr.isRequest = TRUE
        /\ token \in {path.token, NoToken}
    BY <1>1 DEF prepareOf, extractLocalAddressSegment
  <2>2. decryptToken(NoToken) = undefined
    BY DEF decryptToken, NoToken
  <2>3. frames \subseteq {[type |-> "ConnectionAssetDetails", asset |-> theAsset]}
    BY DEF assetFrames, theAsset
  <2>. HIDE DEF pr, frames
  <2>4. \/ \E code \in {"F02", "F06"} : reply = buildReject(code, undefined, undefined)
        \/ \E n : reply = buildReject("F99", n, frames)
    BY <1>5, <2>1, <2>2 DEF createReply, pr, frames
  <2>5. CASE \E code \in {"F02", "F06"} : reply = buildReject(code, undefined, undefined)
    BY <2>5, BareReject
  <2>6. CASE \E n : reply = buildReject("F99", n, frames)
    <3>1. framesOf(reply) \subseteq {[type |-> "ConnectionAssetDetails", asset |-> theAsset]}
      BY <2>3, <2>6 DEF buildReject, framesOf
    <3>. QED  BY <3>1 DEF assetsIn
  <2>. QED  BY <2>4, <2>5, <2>6
<1>. QED  BY <1>3, <1>4, <1>5

-----------------------------------------------------------------------------
(* The senders *)

\* No step changes the path, so that the next state may be judged by this one.
LEMMA PathStays ==
  ASSUME path' = path, PathOK, setup' \in SetupState, SenderOK(setup'.phase, sender'),
         ProbedOK(probedRate', probedMax')
  PROVE  QuoteInv'
<1>1. PathOK' /\ theAsset' = theAsset
  BY DEF PathOK, theAsset
<1>2. SenderState' = SenderState
  BY <1>1 DEF SenderState, QuoteRequest, DoneResult
<1>3. \A n : fits(n)' <=> fits(n)
  BY DEF fits
<1>4. \A q : SoundResult(q)' <=> SoundResult(q)
  BY <1>3 DEF SoundResult
<1>5. ProbedOK(probedRate, probedMax)'
  BY <1>3 DEF ProbedOK, RateOK, MaxOK
<1>6. InFlightOK(setup.phase, sender)'
  BY DEF SenderOK, InFlightOK, assetRequest
<1>7. CompletingOK(setup.phase, sender)' /\ ResultOK(setup.phase, sender)'
  BY <1>1, <1>4 DEF SenderOK, CompletingOK, ResultOK
<1>8. SenderOK(setup.phase, sender)'
  BY <1>2, <1>6, <1>7 DEF SenderOK
<1>. QED  BY <1>1, <1>5, <1>8 DEF QuoteInv

\* A sender that starts.
Starting(asset, remaining) ==
    [loop |-> "running", attempts |-> 1, inFlight |-> {}, result |-> undefined,
     requestCount |-> 0, replyCount |-> 0, didConnect |-> FALSE, destinationAsset |-> asset,
     remaining |-> remaining, deadline |-> "unset"]

LEMMA StartedSender ==
  ASSUME NEW asset \in {undefined, theAsset}, NEW remaining \in Seq(Nat), NEW phase,
         phase \in {"assetProbe", "closing"} \/ (phase = "rateProbe" /\ asset = theAsset)
  PROVE  SenderOK(phase, Starting(asset, remaining))
<1>. DEFINE s == Starting(asset, remaining)
<1>1. s \in SenderState /\ s.loop = "running" /\ s.inFlight = {} /\ s.destinationAsset = asset
  BY DEF Starting, SenderState
<1>. HIDE DEF s
<1>. QED  BY <1>1 DEF SenderOK, InFlightOK, CompletingOK, ResultOK, s

\* Nothing is asked of a sender that is not completing in the phases without one.
LEMMA QuietPhase ==
  ASSUME NEW s, SenderOK(setup.phase, s),
         setup.phase \notin {"assetProbe", "rateProbe", "closing"}
  PROVE  \A phase \in {"start", "fetching", "failed"} : SenderOK(phase, s)
BY DEF SenderOK, InFlightOK, CompletingOK, ResultOK

LEMMA SetupPhase ==
  ASSUME setup \in SetupState,
         NEW phase \in {"start", "fetching", "assetProbe", "resolved", "rateProbe", "quoted",
                        "closing", "closed", "failed"}
  PROVE  LET st == [setup EXCEPT !.phase = phase]
         IN  st \in SetupState /\ st.phase = phase
BY DEF SetupState

\* What ends(), yields(), sends() and replied() do to a sender.
LEMMA EndsSender ==
  ASSUME NEW s \in SenderState, NEW value \in ErrorResult \cup DoneResult
  PROVE  LET q == ends(s, value)
         IN  /\ q \in SenderState /\ q.loop = "completing" /\ q.result = value
             /\ q.inFlight = s.inFlight /\ q.destinationAsset = s.destinationAsset
BY DEF ends, SenderState

LEMMA YieldsSender ==
  ASSUME NEW s \in SenderState, s.attempts > 0
  PROVE  LET q == yields(s)
         IN  /\ q \in SenderState /\ q.loop = s.loop /\ q.result = s.result
             /\ q.inFlight = s.inFlight /\ q.destinationAsset = s.destinationAsset
<1>. DEFINE n == s.attempts - 1
            q == [s EXCEPT !.attempts = n]
<1>1. n \in Nat /\ yields(s) = q
  BY DEF SenderState, yields
<1>. HIDE DEF n
<1>2. /\ q \in SenderState /\ q.loop = s.loop /\ q.result = s.result
      /\ q.inFlight = s.inFlight /\ q.destinationAsset = s.destinationAsset
  BY <1>1 DEF SenderState
<1>. QED  BY <1>1, <1>2

LEMMA SendsSender ==
  ASSUME NEW s \in SenderState, NEW r \in QuoteRequest
  PROVE  LET q == sends(s, r)
         IN  /\ q \in SenderState /\ q.loop = s.loop /\ q.result = s.result
             /\ q.inFlight = s.inFlight \cup {r} /\ q.destinationAsset = s.destinationAsset
             /\ q.requestCount = s.requestCount
BY DEF sends, SenderState

LEMMA RepliedSender ==
  ASSUME NEW s \in SenderState, NEW r
  PROVE  LET q == replied(s, r)
         IN  /\ q \in SenderState /\ q.loop = s.loop /\ q.result = s.result
             /\ q.inFlight = s.inFlight \ {r} /\ q.destinationAsset = s.destinationAsset
             /\ q.remaining = s.remaining /\ q.attempts = s.attempts
             /\ q.replyCount = s.replyCount /\ q.didConnect = s.didConnect
BY DEF replied, SenderState

LEMMA ResultTypes ==
  /\ \A e \in {"DestinationAssetConflict", "EstablishmentFailed", "UnknownDestinationAsset",
               "RateProbeFailed", "ClosedByReceiver", "ConnectorError"} :
        errorResult(e) \in ErrorResult /\ errorResult(e).error # "none"
  /\ \A v : doneResult(v).error = "none" /\ doneResult(v).value = v
  /\ \A v \in {undefined, theAsset} \cup ProbeResult : doneResult(v) \in DoneResult
BY DEF errorResult, ErrorResult, doneResult, DoneResult

-----------------------------------------------------------------------------
(* The steps *)

\* What the steps use of the invariant.
LEMMA QuoteFacts ==
  ASSUME QuoteInv
  PROVE  /\ setup \in SetupState /\ PathOK /\ sender \in SenderState
         /\ SenderOK(setup.phase, sender) /\ ProbedOK(probedRate, probedMax)
         /\ sender.destinationAsset \in {undefined, theAsset} /\ sender.attempts \in Nat
BY DEF QuoteInv, SenderOK, SenderState

LEMMA InitQuoteInv == QuoteInit => QuoteInv
<1>. SUFFICES ASSUME QuoteInit PROVE QuoteInv
  OBVIOUS
<1>1. PICK p \in Paths, options \in ConnectionOptions :
         /\ generateCredentials(options).sealed
         /\ path = [rate |-> p.rate, maximum |-> p.maximum, metadata |-> p.metadata,
                    token |-> generateCredentials(options)]
  BY DEF QuoteInit
<1>2. PathOK
  <2>1. generateCredentials(options).sealed = TRUE
    BY <1>1 DEF generateCredentials, NoToken
  <2>. QED  BY <1>1, <2>1, QuoteAssumption DEF PathOK
<1>3. setup \in SetupState /\ setup.phase = "start"
  BY QuoteAssumption DEF QuoteInit, SetupState
<1>4. SenderOK("start", sender)
  <2>1. sender \in SenderState /\ sender.loop = "idle"
    BY DEF QuoteInit, NoSender, SenderState
  <2>. QED  BY <2>1 DEF SenderOK, InFlightOK, CompletingOK, ResultOK
<1>5. RateOK(probedRate)
  <2>1. /\ probedRate.lowerBoundRate = RatioOf(0, 1) /\ probedRate.upperBoundRate = RatioOf(MaxU64, 1)
        /\ probedRate \in RateBounds
    BY MaxU64Assumption DEF QuoteInit, RateBounds, RatioOf, Ratio, PositiveRatio, PositiveInt
  <2>2. isLessThanOrEqualTo(RatioOf(0, 1), path.rate)
    BY <1>2 DEF isLessThanOrEqualTo, RatioOf, PathOK, PositiveRatio, PositiveInt
  <2>. QED  BY <2>1, <2>2 DEF RateOK
<1>6. MaxOK(probedMax) /\ probedMax.verifiedPathCapacity = 0
  <2>1. /\ probedMax.type = "UnknownMax" /\ probedMax.maxPacketAmount = undefined
        /\ probedMax.verifiedPathCapacity = 0 /\ probedMax \in MaxPacketState
    BY DEF QuoteInit, NewMaxPacket, MaxPacketState, OptionalAmount
  <2>2. fits(0)
    BY <1>2, QuoteAssumption DEF fits, multiplyFloor, PathOK, PositiveRatio, PositiveInt
  <2>3. getMaxPacketAmountLimit(probedMax) = MaxU64 /\ 0 <= MaxU64
    BY <2>1, MaxU64Assumption DEF getMaxPacketAmountLimit
  <2>. QED  BY <2>1, <2>2, <2>3, UndefinedAssumption DEF MaxOK
<1>. QED  BY <1>2, <1>3, <1>4, <1>5, <1>6 DEF QuoteInv, ProbedOK

\* The queries before the probes.
LEMMA FetchStep ==
  ASSUME QuoteInv,
         fetchPaymentDetails \/ fetchRetries \/ fetchFails \/ fetchesLink \/ fetchSucceeds
  PROVE  QuoteInv'
<1>1. path' = path /\ probedRate' = probedRate /\ probedMax' = probedMax
  BY DEF fetchPaymentDetails, fetchRetries, fetchFails, fetchesLink, fetchSucceeds
<1>2. setup.phase \in {"start", "fetching"} /\ setup \in SetupState /\ FetchRetries \in Nat
  BY QuoteAssumption DEF QuoteInv, fetchPaymentDetails, fetchRetries, fetchFails, fetchesLink, fetchSucceeds
<1>3. CASE \E asset \in {undefined, theAsset} : resolvesTo(asset)
  <2>1. PICK asset \in {undefined, theAsset} : resolvesTo(asset)
    BY <1>3
  <2>2. setup' \in SetupState /\ setup'.phase = "assetProbe"
    BY <1>2, <2>1, SetupPhase DEF resolvesTo
  <2>3. sender' = Starting(asset, <<>>)
    BY <2>1 DEF resolvesTo, started, NoSender, Starting
  <2>4. SenderOK("assetProbe", sender')
    <3>1. <<>> \in Seq(Nat)
      OBVIOUS
    <3>. QED  BY <2>3, <3>1, StartedSender
  <2>. QED  BY <1>1, <2>2, <2>4, PathStays, QuoteFacts
<1>4. CASE sender' = sender /\ setup' \in SetupState /\ setup'.phase \in {"fetching", "failed"}
  <2>1. SenderOK(setup'.phase, sender)
    BY <1>2, <1>4, QuietPhase, QuoteFacts
  <2>. QED  BY <1>1, <1>4, <2>1, PathStays, QuoteFacts
<1>5. \/ \E asset \in {undefined, theAsset} : resolvesTo(asset)
      \/ sender' = sender /\ setup' \in SetupState /\ setup'.phase \in {"fetching", "failed"}
  <2>1. Failed \in SetupState /\ Failed.phase = "failed"
    BY <1>2, SetupPhase DEF Failed
  <2>2. CASE fetchPaymentDetails
    <3>1. ASSUME NEW source \in {"payment", "connection", "account"},
                 setup' = [phase |-> "fetching", source |-> source, retries |-> FetchRetries,
                           linked |-> FALSE]
          PROVE  setup' \in SetupState /\ setup'.phase \in {"fetching", "failed"}
      BY <1>2, <3>1 DEF SetupState
    <3>. QED  BY <2>1, <2>2, <3>1 DEF fetchPaymentDetails
  <2>3. CASE fetchRetries
    <3>1. CASE setup.retries > 0
      <4>. DEFINE n == setup.retries - 1
      <4>1. n \in 0 .. FetchRetries
        BY <1>2, <3>1 DEF SetupState
      <4>2. setup' = [setup EXCEPT !.retries = n] /\ setup.phase = "fetching" /\ sender' = sender
        BY <2>3, <3>1 DEF fetchRetries
      <4>. HIDE DEF n
      <4>. QED  BY <1>2, <4>1, <4>2 DEF SetupState
    <3>2. CASE ~(setup.retries > 0)
      BY <2>1, <2>3, <3>2 DEF fetchRetries
    <3>. QED  BY <3>1, <3>2
  <2>4. CASE fetchFails
    BY <2>1, <2>4 DEF fetchFails
  <2>5. CASE fetchesLink
    <3>1. /\ setup' = [setup EXCEPT !.linked = TRUE, !.retries = FetchRetries]
          /\ setup.phase = "fetching" /\ sender' = sender
      BY <2>5 DEF fetchesLink
    <3>2. FetchRetries \in 0 .. FetchRetries
      BY <1>2
    <3>. QED  BY <1>2, <3>1, <3>2 DEF SetupState
  <2>6. CASE fetchSucceeds
    BY <2>6 DEF fetchSucceeds
  <2>. QED  BY <2>2, <2>3, <2>4, <2>5, <2>6
<1>. QED  BY <1>3, <1>4, <1>5

\* Fewer requests in flight.
LEMMA FewerInFlight ==
  ASSUME NEW phase, NEW s, NEW q, InFlightOK(phase, s), q.inFlight \subseteq s.inFlight
  PROVE  InFlightOK(phase, q)
BY DEF InFlightOK

LEMMA AssetAttemptStep ==
  ASSUME QuoteInv, AssetProbeAttempt
  PROVE  QuoteInv'
<1>1. /\ setup.phase = "assetProbe" /\ sender.loop = "running" /\ sender.attempts > 0
      /\ UNCHANGED <<setup, path, probedRate, probedMax>>
  BY DEF AssetProbeAttempt, running
<1>2. /\ sender \in SenderState /\ sender.destinationAsset \in {undefined, theAsset}
      /\ InFlightOK("assetProbe", sender) /\ sender.requestCount \in Nat
  BY <1>1, QuoteFacts DEF SenderOK, SenderState
<1>3. CASE sender.destinationAsset # undefined
  <2>. DEFINE v == doneResult(sender.destinationAsset)
              q == ends(sender, v)
  <2>1. v \in DoneResult /\ sender' = q
    BY <1>2, <1>3, ResultTypes DEF AssetProbeAttempt
  <2>. HIDE DEF v
  <2>2. /\ q \in SenderState /\ q.loop = "completing" /\ q.inFlight = sender.inFlight
        /\ q.destinationAsset = theAsset
    BY <1>2, <1>3, <2>1, EndsSender
  <2>. HIDE DEF q
  <2>3. SenderOK("assetProbe", q)
    BY <1>2, <2>2, FewerInFlight DEF SenderOK, CompletingOK, ResultOK
  <2>. QED  BY <1>1, <2>1, <2>3, PathStays, QuoteFacts
<1>4. CASE sender.destinationAsset = undefined /\ sender.requestCount <= 1
  <2>. DEFINE r == assetRequest(sender.requestCount)
              t == sends(sender, r)
              n == t.requestCount + 1
              q == [t EXCEPT !.requestCount = n]
  <2>1. r \in QuoteRequest /\ r \in {assetRequest(0), assetRequest(1)}
    <3>1. sender.requestCount \in {0, 1}
      BY <1>2, <1>4
    <3>. QED  BY <3>1 DEF assetRequest, streamRequest, QuoteRequest
  <2>2. sender' = q
    BY <1>4 DEF AssetProbeAttempt
  <2>. HIDE DEF r
  <2>3. /\ t \in SenderState /\ t.loop = "running" /\ t.inFlight = sender.inFlight \cup {r}
        /\ t.requestCount \in Nat
    BY <1>1, <1>2, <2>1, SendsSender
  <2>. HIDE DEF t
  <2>4. n \in Nat
    BY <2>3
  <2>. HIDE DEF n
  <2>5. q \in SenderState /\ q.loop = "running" /\ q.inFlight = sender.inFlight \cup {r}
    BY <2>3, <2>4 DEF SenderState
  <2>. HIDE DEF q
  <2>6. InFlightOK("assetProbe", q)
    BY <1>2, <2>1, <2>5 DEF InFlightOK
  <2>7. SenderOK("assetProbe", q)
    BY <2>5, <2>6 DEF SenderOK, CompletingOK, ResultOK
  <2>. QED  BY <1>1, <2>2, <2>7, PathStays, QuoteFacts
<1>5. CASE sender.destinationAsset = undefined /\ ~(sender.requestCount <= 1)
  <2>. DEFINE q == yields(sender)
  <2>1. sender' = q
    BY <1>5 DEF AssetProbeAttempt
  <2>2. q \in SenderState /\ q.loop = "running" /\ q.inFlight = sender.inFlight
    BY <1>1, <1>2, YieldsSender
  <2>. HIDE DEF q
  <2>3. SenderOK("assetProbe", q)
    BY <1>2, <2>2, FewerInFlight DEF SenderOK, CompletingOK, ResultOK
  <2>. QED  BY <1>1, <2>1, <2>3, PathStays, QuoteFacts
<1>. QED  BY <1>3, <1>4, <1>5

\* The asset that is learnt is the one in the credentials.
LEMMA LearntAsset ==
  ASSUME NEW asset \in {undefined, theAsset}, NEW reply, assetsIn(reply) \subseteq {theAsset}
  PROVE  /\ learntAsset(asset, reply) \in {undefined, theAsset}
         /\ asset = theAsset => learntAsset(asset, reply) = theAsset
<1>1. assetsIn(reply) # {} => (CHOOSE a \in assetsIn(reply) : TRUE) = theAsset
  OBVIOUS
<1>. QED  BY <1>1 DEF learntAsset

LEMMA AssetRepliedStep ==
  ASSUME QuoteInv, AssetProbeReplied
  PROVE  QuoteInv'
<1>1. /\ setup.phase = "assetProbe" /\ sender.loop = "running"
      /\ UNCHANGED <<setup, path, probedRate, probedMax>>
  BY DEF AssetProbeReplied, running
<1>2. PICK r \in sender.inFlight : \E reply \in repliesTo(r) : AssetProbeReply(r, reply)
  BY DEF AssetProbeReplied
<1>3. PICK reply \in repliesTo(r) : AssetProbeReply(r, reply)
  BY <1>2
<1>4. /\ sender \in SenderState /\ sender.destinationAsset \in {undefined, theAsset}
      /\ InFlightOK("assetProbe", sender) /\ PathOK
  BY <1>1, QuoteFacts DEF SenderOK
<1>5. r \in {assetRequest(0), assetRequest(1)}
  BY <1>2, <1>4 DEF InFlightOK
<1>6. learntAsset(sender.destinationAsset, reply) \in {undefined, theAsset}
  BY <1>3, <1>4, <1>5, AssetReplies, LearntAsset
<1>. DEFINE t == replied(sender, r)
            n == t.replyCount + 1
            c == t.didConnect \/ isAuthenticReply(reply)
            a == learntAsset(t.destinationAsset, reply)
            s == [t EXCEPT !.replyCount = n, !.didConnect = c, !.destinationAsset = a]
<1>7. /\ t \in SenderState /\ t.loop = "running" /\ t.inFlight = sender.inFlight \ {r}
      /\ t.destinationAsset = sender.destinationAsset
  BY <1>1, <1>4, RepliedSender
<1>8. \/ sender' = s
      \/ \E e \in {"DestinationAssetConflict", "EstablishmentFailed", "UnknownDestinationAsset"} :
            sender' = ends(s, errorResult(e))
      \/ s.destinationAsset # undefined /\ sender' = ends(s, doneResult(s.destinationAsset))
  BY <1>3 DEF AssetProbeReply
<1>. HIDE DEF t
<1>9. n \in Nat /\ c \in BOOLEAN /\ a \in {undefined, theAsset}
  BY <1>6, <1>7 DEF SenderState
<1>. HIDE DEF n, c, a
<1>10. /\ s \in SenderState /\ s.loop = "running" /\ s.inFlight = sender.inFlight \ {r}
       /\ s.destinationAsset = a
  BY <1>7, <1>9 DEF SenderState
<1>. HIDE DEF s
<1>11. SenderOK("assetProbe", sender')
  <2>1. CASE sender' = s
    BY <1>4, <1>10, <2>1, FewerInFlight DEF SenderOK, CompletingOK, ResultOK
  <2>2. CASE \E e \in {"DestinationAssetConflict", "EstablishmentFailed", "UnknownDestinationAsset"} :
                sender' = ends(s, errorResult(e))
    <3>1. PICK e \in {"DestinationAssetConflict", "EstablishmentFailed", "UnknownDestinationAsset"} :
                sender' = ends(s, errorResult(e))
      BY <2>2
    <3>2. errorResult(e) \in ErrorResult /\ errorResult(e).error # "none"
      BY ResultTypes
    <3>3. /\ sender' \in SenderState /\ sender'.loop = "completing"
          /\ sender'.result = errorResult(e) /\ sender'.inFlight = s.inFlight
      BY <1>10, <3>1, <3>2, EndsSender
    <3>. QED  BY <1>4, <1>10, <3>2, <3>3, FewerInFlight DEF SenderOK, CompletingOK, ResultOK
  <2>3. CASE s.destinationAsset # undefined /\ sender' = ends(s, doneResult(s.destinationAsset))
    <3>1. s.destinationAsset = theAsset /\ doneResult(s.destinationAsset) \in DoneResult
      BY <1>9, <1>10, <2>3, ResultTypes
    <3>2. /\ sender' \in SenderState /\ sender'.loop = "completing"
          /\ sender'.destinationAsset = theAsset /\ sender'.inFlight = s.inFlight
      BY <1>10, <2>3, <3>1, EndsSender
    <3>. QED  BY <1>4, <1>10, <3>2, FewerInFlight DEF SenderOK, CompletingOK, ResultOK
  <2>. QED  BY <1>8, <2>1, <2>2, <2>3
<1>. QED  BY <1>1, <1>11, PathStays, QuoteFacts

LEMMA StartQuoteStep ==
  ASSUME QuoteInv, startQuote
  PROVE  QuoteInv'
<1>1. setup.phase = "resolved" /\ UNCHANGED <<path, probedRate, probedMax>>
  BY DEF startQuote
<1>2. sender.destinationAsset = theAsset
  BY <1>1, QuoteFacts DEF SenderOK, ResultOK
<1>3. CASE setup' = Failed /\ sender' = sender
  <2>1. setup' \in SetupState /\ setup'.phase = "failed"
    BY <1>3, SetupPhase, QuoteFacts DEF Failed
  <2>2. SenderOK("failed", sender)
    BY <1>1, QuietPhase, QuoteFacts
  <2>. QED  BY <1>1, <1>3, <2>1, <2>2, PathStays, QuoteFacts
<1>4. CASE /\ setup' = [setup EXCEPT !.phase = "rateProbe"]
           /\ sender' = [started EXCEPT !.destinationAsset = sender.destinationAsset,
                                        !.remaining = TestAmounts]
  <2>1. setup' \in SetupState /\ setup'.phase = "rateProbe"
    BY <1>4, SetupPhase, QuoteFacts
  <2>2. sender' = Starting(theAsset, TestAmounts)
    BY <1>2, <1>4 DEF started, NoSender, Starting
  <2>3. TestAmounts \in Seq(Nat)
    BY QuoteAssumption DEF PositiveInt
  <2>4. SenderOK("rateProbe", sender')
    BY <2>2, <2>3, StartedSender
  <2>. QED  BY <1>1, <2>1, <2>4, PathStays, QuoteFacts
<1>. QED  BY <1>3, <1>4 DEF startQuote

LEMMA DeadlineStep ==
  ASSUME QuoteInv, DeadlinePasses
  PROVE  QuoteInv'
<1>. DEFINE q == [sender EXCEPT !.deadline = "passed"]
<1>1. /\ sender' = q /\ UNCHANGED <<setup, path, probedRate, probedMax>>
      /\ setup.phase = "rateProbe" /\ sender.loop = "running"
  BY DEF DeadlinePasses, running
<1>2. /\ q \in SenderState /\ q.loop = "running" /\ q.inFlight = sender.inFlight
      /\ q.destinationAsset = sender.destinationAsset
  BY <1>1, QuoteFacts DEF SenderState
<1>. HIDE DEF q
<1>3. SenderOK("rateProbe", q)
  BY <1>1, <1>2, QuoteFacts, FewerInFlight DEF SenderOK, CompletingOK, ResultOK
<1>. QED  BY <1>1, <1>3, PathStays, QuoteFacts

LEMMA RateAttemptStep ==
  ASSUME QuoteInv, RateProbeAttempt
  PROVE  QuoteInv'
<1>. DEFINE left == IF sender.remaining = <<>> THEN sender.remaining ELSE Tail(sender.remaining)
            s == [sender EXCEPT !.deadline = "pending", !.remaining = left]
            r == streamRequest(Head(sender.remaining), {}, <<path.token>>)
<1>1. /\ setup.phase = "rateProbe" /\ sender.loop = "running" /\ sender.attempts > 0
      /\ UNCHANGED <<setup, path, probedRate, probedMax>>
      /\ \/ sender' = ends(sender, errorResult("RateProbeFailed"))
         \/ sender' = yields(s)
         \/ sender.remaining # <<>> /\ sender' = sends(s, r)
  BY DEF RateProbeAttempt, running
<1>2. /\ sender \in SenderState /\ sender.destinationAsset = theAsset /\ sender.remaining \in Seq(Nat)
      /\ InFlightOK("rateProbe", sender)
  BY <1>1, QuoteFacts DEF SenderOK, ResultOK, SenderState
<1>3. left \in Seq(Nat)
  BY <1>2
<1>. HIDE DEF left
<1>4. /\ s \in SenderState /\ s.loop = "running" /\ s.inFlight = sender.inFlight
      /\ s.destinationAsset = theAsset /\ s.attempts > 0
  BY <1>1, <1>2, <1>3 DEF SenderState
<1>. HIDE DEF s
<1>5. SenderOK("rateProbe", sender')
  <2>1. CASE sender' = ends(sender, errorResult("RateProbeFailed"))
    <3>1. errorResult("RateProbeFailed") \in ErrorResult /\ errorResult("RateProbeFailed").error # "none"
      BY ResultTypes
    <3>2. /\ sender' \in SenderState /\ sender'.loop = "completing"
          /\ sender'.result = errorResult("RateProbeFailed") /\ sender'.inFlight = sender.inFlight
          /\ sender'.destinationAsset = theAsset
      BY <1>2, <2>1, <3>1, EndsSender
    <3>. QED  BY <1>2, <3>1, <3>2, FewerInFlight DEF SenderOK, CompletingOK, ResultOK
  <2>2. CASE sender' = yields(s)
    <3>1. /\ sender' \in SenderState /\ sender'.loop = "running" /\ sender'.inFlight = sender.inFlight
          /\ sender'.destinationAsset = theAsset
      BY <1>4, <2>2, YieldsSender
    <3>. QED  BY <1>2, <3>1, FewerInFlight DEF SenderOK, CompletingOK, ResultOK
  <2>3. CASE sender.remaining # <<>> /\ sender' = sends(s, r)
    <3>1. Head(sender.remaining) \in Nat
      BY <1>2, <2>3
    <3>2. /\ r \in QuoteRequest /\ r = streamRequest(r.amount, {}, <<path.token>>)
      BY <3>1 DEF streamRequest, QuoteRequest
    <3>. HIDE DEF r
    <3>3. /\ sender' \in SenderState /\ sender'.loop = "running"
          /\ sender'.inFlight = sender.inFlight \cup {r} /\ sender'.destinationAsset = theAsset
      BY <1>4, <2>3, <3>2, SendsSender
    <3>4. InFlightOK("rateProbe", sender')
      BY <1>2, <3>2, <3>3 DEF InFlightOK
    <3>. QED  BY <3>3, <3>4 DEF SenderOK, CompletingOK, ResultOK
  <2>. QED  BY <1>1, <2>1, <2>2, <2>3
<1>. QED  BY <1>1, <1>5, PathStays, QuoteFacts

\* The controllers of the probe after a reply.
LEMMA ProbedReply ==
  ASSUME QuoteInv, NEW n \in Nat, NEW r, r = streamRequest(n, {}, <<path.token>>),
         NEW reply \in repliesTo(r)
  PROVE  ProbedOK(observeRate(probedRate, n, reply.destinationAmount), maxAfter(r, reply))
<1>. DEFINE rate == observeRate(probedRate, n, reply.destinationAmount)
            mp == maxAfter(r, reply)
            d == multiplyFloor(n, path.rate)
<1>1. PathOK /\ RateOK(probedRate) /\ MaxOK(probedMax) /\ ProbedOK(probedRate, probedMax)
  BY QuoteFacts DEF ProbedOK
<1>2. r.amount = n /\ d \in Nat
  BY <1>1, ConvertedBounds DEF streamRequest, PathOK
<1>. HIDE DEF d
<1>3. \/ reply.code # "F08" /\ ~isAuthenticReply(reply) /\ reply.destinationAmount = undefined
      \/ /\ reply.code = "F08" /\ ~fits(n) /\ reply.destinationAmount = undefined
         /\ reply.metadata = IF path.metadata THEN [received |-> d, maximum |-> path.maximum]
                             ELSE undefined
      \/ reply.code # "F08" /\ fits(n) /\ reply.destinationAmount = d
  BY <1>1, RateReplies DEF d
<1>4. CASE reply.code # "F08" /\ ~isAuthenticReply(reply) /\ reply.destinationAmount = undefined
  <2>1. rate = probedRate /\ mp = probedMax
    BY <1>4 DEF observeRate, maxAfter
  <2>. QED  BY <1>1, <2>1
<1>5. CASE /\ reply.code = "F08" /\ ~fits(n) /\ reply.destinationAmount = undefined
           /\ reply.metadata = IF path.metadata THEN [received |-> d, maximum |-> path.maximum]
                               ELSE undefined
  <2>1. rate = probedRate /\ mp = reduceMaxPacketAmount(probedMax, reply.metadata, n)
    BY <1>2, <1>5 DEF observeRate, maxAfter
  <2>2. MaxOK(mp) /\ (mp.verifiedPathCapacity > 0 => probedMax.verifiedPathCapacity > 0)
    BY <1>1, <1>5, <2>1, ReducedMax DEF d
  <2>. HIDE DEF rate, mp
  <2>3. ProbedOK(rate, mp)
    BY <1>1, <2>1, <2>2 DEF ProbedOK
  <2>. QED  BY <2>3 DEF rate, mp
<1>6. CASE reply.code # "F08" /\ fits(n) /\ reply.destinationAmount = d
  <2>1. mp = adjustPathCapacity(probedMax, n)
    BY <1>2, <1>6, UndefinedAssumption DEF maxAfter, isAuthenticReply
  <2>2. MaxOK(mp) /\ (mp.verifiedPathCapacity > 0 => probedMax.verifiedPathCapacity > 0 \/ n > 0)
    BY <1>1, <1>6, <2>1, MaxOKKnown, AdjustedMax
  <2>3. CASE n = 0
    <3>1. rate = probedRate
      BY <2>3 DEF observeRate
    <3>. HIDE DEF rate, mp
    <3>2. ProbedOK(rate, mp)
      BY <1>1, <2>2, <2>3, <3>1 DEF ProbedOK
    <3>. QED  BY <3>2 DEF rate, mp
  <2>4. CASE n # 0
    <3>1. RateOK(rate) /\ isLessThan(path.rate, rate.upperBoundRate)
      BY <1>1, <1>6, <2>4, ObservedRate DEF d
    <3>. HIDE DEF rate, mp
    <3>2. ProbedOK(rate, mp)
      BY <2>2, <3>1 DEF ProbedOK
    <3>. QED  BY <3>2 DEF rate, mp
  <2>. QED  BY <2>3, <2>4
<1>. QED  BY <1>3, <1>4, <1>5, <1>6

\* What a probe that is complete reports.
LEMMA CompleteIsSound ==
  ASSUME PathOK, NEW rate, NEW mp, ProbedOK(rate, mp), isProbeComplete(mp)
  PROVE  /\ probeResult(rate, mp) \in DoneResult /\ probeResult(rate, mp).error = "none"
         /\ SoundResult(probeResult(rate, mp).value)
<1>. DEFINE limit == getMaxPacketAmountLimit(mp)
            v == mp.verifiedPathCapacity
            q == [lowEstimatedExchangeRate |-> rate.lowerBoundRate,
                  highEstimatedExchangeRate |-> rate.upperBoundRate, maxPacketAmount |-> limit]
<1>1. MaxKnown(mp) /\ MaxOK(mp) /\ RateOK(rate)
  BY MaxOKKnown DEF ProbedOK
<1>2. /\ v \in Nat /\ limit \in Nat /\ limit > 0 /\ fits(v)
      /\ mp.type # "UnknownMax" => mp.maxPacketAmount \in Nat /\ limit = mp.maxPacketAmount
      /\ mp.type # "UnknownMax" /\ ~path.metadata => ~fits(mp.maxPacketAmount + 1)
  BY <1>1, LimitType DEF MaxOK
<1>3. MaxProbeAmount \in Nat /\ MaxProbeAmount > 0
  BY QuoteAssumption DEF PositiveInt
<1>4. /\ v > 0
      /\ \/ limit = MaxU64 /\ fits(MaxProbeAmount)
         \/ fits(limit) /\ (path.metadata \/ ~fits(limit + 1))
  <2>1. CASE mp.type = "PreciseMax" /\ v = mp.maxPacketAmount
    BY <1>2, <2>1
  <2>2. CASE mp.type = "UnknownMax" /\ v >= MaxProbeAmount
    <3>1. limit = MaxU64
      BY <2>2 DEF getMaxPacketAmountLimit
    <3>2. fits(MaxProbeAmount) /\ v > 0
      <4>. HIDE DEF v
      <4>. QED  BY <1>2, <1>3, <2>2, FitsLess
    <3>. QED  BY <3>1, <3>2
  <2>. QED  BY <2>1, <2>2 DEF isProbeComplete
<1>5. /\ isLessThanOrEqualTo(rate.lowerBoundRate, path.rate)
      /\ isLessThan(path.rate, rate.upperBoundRate)
      /\ rate.lowerBoundRate \in Ratio /\ rate.upperBoundRate \in PositiveRatio
  BY <1>4 DEF ProbedOK, RateOK, RateBounds
<1>6. probeResult(rate, mp) = doneResult(q)
  BY DEF probeResult
<1>. HIDE DEF limit, v
<1>7. q \in ProbeResult /\ SoundResult(q)
  BY <1>2, <1>4, <1>5 DEF ProbeResult, SoundResult
<1>. HIDE DEF q
<1>. QED  BY <1>6, <1>7, ResultTypes

\* The amounts that are left to try are amounts.
LEMMA NextProbeAmounts ==
  ASSUME NEW mp, MaxOK(mp), NEW n \in Nat, NEW remaining \in Seq(Nat)
  PROVE  nextProbeAmounts(mp, n, remaining) \in Seq(Nat)
<1>. DEFINE next == IF getNextMaxPacketAmount(mp) = undefined THEN n ELSE getNextMaxPacketAmount(mp)
<1>1. next \in Nat
  <2>1. CASE mp.type = "UnknownMax"
    <3>1. getNextMaxPacketAmount(mp) = undefined
      BY <2>1 DEF MaxOK, getNextMaxPacketAmount
    <3>. QED  BY <3>1
  <2>2. CASE mp.type # "UnknownMax"
    BY <2>2, NextAmount
  <2>. QED  BY <2>1, <2>2
<1>2. nextProbeAmounts(mp, n, remaining) \in {remaining, Append(remaining, next)}
  BY DEF nextProbeAmounts
<1>. HIDE DEF next
<1>. QED  BY <1>1, <1>2

LEMMA RateRepliedStep ==
  ASSUME QuoteInv, RateProbeReplied
  PROVE  QuoteInv'
<1>1. setup.phase = "rateProbe" /\ sender.loop = "running" /\ UNCHANGED <<setup, path>>
  BY DEF RateProbeReplied, running
<1>2. PICK r \in sender.inFlight : \E reply \in repliesTo(r) : RateProbeReply(r, reply)
  BY DEF RateProbeReplied
<1>3. PICK reply \in repliesTo(r) : RateProbeReply(r, reply)
  BY <1>2
<1>4. /\ sender \in SenderState /\ sender.destinationAsset = theAsset /\ sender.remaining \in Seq(Nat)
      /\ InFlightOK("rateProbe", sender) /\ PathOK /\ sender.inFlight \subseteq QuoteRequest
  BY <1>1, QuoteFacts DEF SenderOK, ResultOK, SenderState
<1>5. r.amount \in Nat /\ r = streamRequest(r.amount, {}, <<path.token>>)
  BY <1>2, <1>4 DEF InFlightOK, QuoteRequest
<1>. DEFINE mp == maxAfter(r, reply)
            rate == observeRate(probedRate, r.amount, reply.destinationAmount)
            t == replied(sender, r)
            left == nextProbeAmounts(mp, r.amount, t.remaining)
            a == learntAsset(t.destinationAsset, reply)
            s == [t EXCEPT !.remaining = left, !.destinationAsset = a]
            n == s.attempts + 1
<1>6. ProbedOK(rate, mp)
  BY <1>3, <1>5, ProbedReply
<1>7. probedMax' = mp /\ probedRate' = rate
  BY <1>3 DEF RateProbeReply
<1>8. \/ \E e \in {"ClosedByReceiver", "ConnectorError", "DestinationAssetConflict"} :
            sender' = ends(s, errorResult(e))
      \/ isProbeComplete(mp) /\ sender' = ends(s, probeResult(rate, mp))
      \/ sender' = [s EXCEPT !.attempts = n]
  BY <1>3 DEF RateProbeReply, probeError
<1>. HIDE DEF mp, rate
<1>9. /\ t \in SenderState /\ t.loop = "running" /\ t.inFlight = sender.inFlight \ {r}
      /\ t.destinationAsset = theAsset /\ t.remaining \in Seq(Nat)
  BY <1>1, <1>4, RepliedSender
<1>10. left \in Seq(Nat)
  BY <1>5, <1>6, <1>9, NextProbeAmounts DEF ProbedOK
<1>11. a = theAsset
  <2>1. reply \in repliesTo(streamRequest(r.amount, {}, <<path.token>>))
    BY <1>3, <1>5
  <2>2. assetsIn(reply) = {}
    BY <1>4, <1>5, <2>1, RateReplies
  <2>. QED  BY <1>9, <2>2, LearntAsset
<1>. HIDE DEF t, left, a
<1>12. /\ s \in SenderState /\ s.loop = "running" /\ s.inFlight = sender.inFlight \ {r}
       /\ s.destinationAsset = theAsset /\ s.attempts \in Nat
  BY <1>9, <1>10, <1>11 DEF SenderState
<1>. HIDE DEF s
<1>13. SenderOK("rateProbe", sender')
  <2>1. CASE \E e \in {"ClosedByReceiver", "ConnectorError", "DestinationAssetConflict"} :
                sender' = ends(s, errorResult(e))
    <3>1. PICK e \in {"ClosedByReceiver", "ConnectorError", "DestinationAssetConflict"} :
                sender' = ends(s, errorResult(e))
      BY <2>1
    <3>2. errorResult(e) \in ErrorResult /\ errorResult(e).error # "none"
      BY ResultTypes
    <3>3. /\ sender' \in SenderState /\ sender'.loop = "completing" /\ sender'.result = errorResult(e)
          /\ sender'.inFlight = s.inFlight /\ sender'.destinationAsset = theAsset
      BY <1>12, <3>1, <3>2, EndsSender
    <3>. QED  BY <1>4, <1>12, <3>2, <3>3, FewerInFlight DEF SenderOK, CompletingOK, ResultOK
  <2>2. CASE isProbeComplete(mp) /\ sender' = ends(s, probeResult(rate, mp))
    <3>. DEFINE v == probeResult(rate, mp)
    <3>1. v \in DoneResult /\ SoundResult(v.value)
      BY <1>4, <1>6, <2>2, CompleteIsSound
    <3>. HIDE DEF v
    <3>2. sender' = ends(s, v)
      BY <2>2 DEF v
    <3>3. /\ sender' \in SenderState /\ sender'.loop = "completing" /\ sender'.result = v
          /\ sender'.inFlight = s.inFlight /\ sender'.destinationAsset = theAsset
      BY <1>12, <3>1, <3>2, EndsSender
    <3>. QED  BY <1>4, <1>12, <3>1, <3>3, FewerInFlight DEF SenderOK, CompletingOK, ResultOK
  <2>3. CASE sender' = [s EXCEPT !.attempts = n]
    <3>1. n \in Nat
      BY <1>12
    <3>. HIDE DEF n
    <3>2. /\ sender' \in SenderState /\ sender'.loop = "running" /\ sender'.inFlight = s.inFlight
          /\ sender'.destinationAsset = theAsset
      BY <1>12, <2>3, <3>1 DEF SenderState
    <3>. QED  BY <1>4, <1>12, <3>2, FewerInFlight DEF SenderOK, CompletingOK, ResultOK
  <2>. QED  BY <1>8, <2>1, <2>2, <2>3
<1>14. setup' \in SetupState /\ setup'.phase = "rateProbe"
  BY <1>1, QuoteFacts
<1>. QED  BY <1>1, <1>4, <1>6, <1>7, <1>13, <1>14, PathStays

\* closeConnection and its sender.
LEMMA CloseStep ==
  ASSUME QuoteInv, closeConnection \/ CloserAttempt \/ CloserReplied
  PROVE  QuoteInv'
<1>1. UNCHANGED <<path, probedRate, probedMax>>
  BY DEF closeConnection, CloserAttempt, CloserReplied
<1>2. sender \in SenderState
  BY QuoteFacts
<1>3. CASE closeConnection
  <2>1. setup' \in SetupState /\ setup'.phase = "closing"
    BY <1>3, SetupPhase, QuoteFacts DEF closeConnection
  <2>2. sender' = Starting(undefined, <<>>)
    BY <1>3 DEF closeConnection, started, NoSender, Starting
  <2>3. SenderOK("closing", sender')
    <3>1. <<>> \in Seq(Nat)
      OBVIOUS
    <3>. QED  BY <2>2, <3>1, StartedSender
  <2>. QED  BY <1>1, <2>1, <2>3, PathStays, QuoteFacts
<1>4. CASE CloserAttempt
  <2>. DEFINE r == streamRequest(0, {"ConnectionClose"}, <<path.token>>)
  <2>1. /\ setup.phase = "closing" /\ sender.loop = "running" /\ sender.attempts > 0 /\ setup' = setup
        /\ sender' = [sends(sender, r) EXCEPT !.requestCount = 1] \/ sender' = yields(sender)
    BY <1>4 DEF CloserAttempt, running
  <2>2. r \in QuoteRequest
    BY DEF streamRequest, QuoteRequest
  <2>. HIDE DEF r
  <2>3. sends(sender, r) \in SenderState /\ sends(sender, r).loop = "running"
    BY <1>2, <2>1, <2>2, SendsSender
  <2>4. yields(sender) \in SenderState /\ yields(sender).loop = "running"
    BY <1>2, <2>1, YieldsSender
  <2>5. sender' \in SenderState /\ sender'.loop = "running"
    <3>. DEFINE q == sends(sender, r)
    <3>. HIDE DEF q
    <3>1. q \in SenderState /\ q.loop = "running" =>
              [q EXCEPT !.requestCount = 1] \in SenderState /\ [q EXCEPT !.requestCount = 1].loop = "running"
      BY DEF SenderState
    <3>. QED  BY <2>1, <2>3, <2>4, <3>1 DEF q
  <2>6. SenderOK("closing", sender')
    BY <2>5 DEF SenderOK, InFlightOK, CompletingOK, ResultOK
  <2>. QED  BY <1>1, <2>1, <2>6, PathStays, QuoteFacts
<1>5. CASE CloserReplied
  <2>1. PICK r \in sender.inFlight : sender' = ends(replied(sender, r), doneResult(undefined))
    BY <1>5 DEF CloserReplied
  <2>2. setup.phase = "closing" /\ setup' = setup
    BY <1>5 DEF CloserReplied, running
  <2>3. replied(sender, r) \in SenderState
    BY <1>2, RepliedSender
  <2>4. doneResult(undefined) \in DoneResult
    BY ResultTypes
  <2>5. sender' \in SenderState
    BY <2>1, <2>3, <2>4, EndsSender
  <2>6. SenderOK("closing", sender')
    BY <2>5 DEF SenderOK, InFlightOK, CompletingOK, ResultOK
  <2>. QED  BY <1>1, <2>2, <2>6, PathStays, QuoteFacts
<1>. QED  BY <1>3, <1>4, <1>5

\* A loop that waits for its last replies, and its end.
LEMMA CompleteStep ==
  ASSUME QuoteInv, CompleteReply \/ StartResolves
  PROVE  QuoteInv'
<1>1. UNCHANGED <<path, probedRate, probedMax>> /\ sender.loop = "completing"
  BY DEF CompleteReply, StartResolves
<1>2. /\ sender \in SenderState /\ SenderOK(setup.phase, sender)
      /\ setup.phase \in {"assetProbe", "rateProbe", "closing"}
  BY <1>1, QuoteFacts DEF SenderOK, CompletingOK
<1>3. CASE CompleteReply
  <2>1. PICK r \in sender.inFlight : sender' = replied(sender, r)
    BY <1>3 DEF CompleteReply
  <2>2. /\ sender' \in SenderState /\ sender'.loop = sender.loop /\ sender'.result = sender.result
        /\ sender'.inFlight \subseteq sender.inFlight
        /\ sender'.destinationAsset = sender.destinationAsset
    BY <1>2, <2>1, RepliedSender
  <2>3. SenderOK(setup.phase, sender')
    BY <1>2, <2>2, FewerInFlight DEF SenderOK, CompletingOK, ResultOK
  <2>4. setup' = setup
    BY <1>3 DEF CompleteReply
  <2>. QED  BY <1>1, <2>3, <2>4, PathStays, QuoteFacts
<1>4. CASE StartResolves
  <2>. DEFINE q == [sender EXCEPT !.loop = "ended"]
              phase == IF sender.result.error # "none" THEN "failed"
                       ELSE CASE setup.phase = "assetProbe" -> "resolved"
                              [] setup.phase = "rateProbe" -> "quoted"
                              [] setup.phase = "closing" -> "closed"
  <2>1. sender' = q /\ setup' = [setup EXCEPT !.phase = phase]
    BY <1>4 DEF StartResolves
  <2>2. /\ q \in SenderState /\ q.loop = "ended" /\ q.result = sender.result
        /\ q.destinationAsset = sender.destinationAsset
    BY <1>2 DEF SenderState
  <2>3. \/ phase \in {"failed", "closed"}
        \/ phase = "resolved" /\ setup.phase = "assetProbe" /\ sender.result.error = "none"
        \/ phase = "quoted" /\ setup.phase = "rateProbe" /\ sender.result.error = "none"
    BY <1>2
  <2>. HIDE DEF q, phase
  <2>4. SenderOK(phase, q)
    BY <1>1, <1>2, <2>2, <2>3 DEF SenderOK, InFlightOK, CompletingOK, ResultOK
  <2>5. setup' \in SetupState /\ setup'.phase = phase
    BY <2>1, <2>3, SetupPhase, QuoteFacts
  <2>. QED  BY <1>1, <2>1, <2>4, <2>5, PathStays, QuoteFacts
<1>. QED  BY <1>3, <1>4

LEMMA NextQuoteInv == QuoteInv /\ [QuoteNext]_quoteVars => QuoteInv'
<1>. SUFFICES ASSUME QuoteInv, [QuoteNext]_quoteVars PROVE QuoteInv'
  OBVIOUS
<1>1. CASE UNCHANGED quoteVars
  BY <1>1, PathStays, QuoteFacts DEF quoteVars
<1>2. CASE fetchPaymentDetails \/ fetchRetries \/ fetchFails \/ fetchesLink \/ fetchSucceeds
  BY <1>2, FetchStep
<1>3. CASE AssetProbeAttempt
  BY <1>3, AssetAttemptStep
<1>4. CASE AssetProbeReplied
  BY <1>4, AssetRepliedStep
<1>5. CASE startQuote
  BY <1>5, StartQuoteStep
<1>6. CASE DeadlinePasses
  BY <1>6, DeadlineStep
<1>7. CASE RateProbeAttempt
  BY <1>7, RateAttemptStep
<1>8. CASE RateProbeReplied
  BY <1>8, RateRepliedStep
<1>9. CASE closeConnection \/ CloserAttempt \/ CloserReplied
  BY <1>9, CloseStep
<1>10. CASE CompleteReply \/ StartResolves
  BY <1>10, CompleteStep
<1>. QED  BY <1>1, <1>2, <1>3, <1>4, <1>5, <1>6, <1>7, <1>8, <1>9, <1>10 DEF QuoteNext

(* A RateProbe that ends well has told the truth about the path, on every path and     *)
(* with any test amounts: the maximum packet amount it reports passes and is the       *)
(* largest that does where the search had to find it, the real rate lies between the   *)
(* bounds of ExchangeRateController, and the asset is the receiver's own.              *)
THEOREM QuotesAreSound == QuoteSpec => []QuoteSound
<1>1. QuoteInit => QuoteInv
  BY InitQuoteInv
<1>2. QuoteInv /\ [QuoteNext]_quoteVars => QuoteInv'
  BY NextQuoteInv
<1>3. QuoteInv => QuoteSound
  BY DEF QuoteInv, SenderOK, ResultOK, SoundResult, QuoteSound
<1>. QED  BY <1>1, <1>2, <1>3, PTL DEF QuoteSpec

=============================================================================
