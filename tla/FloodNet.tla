------------------------------ MODULE FloodNet ------------------------------
(***************************************************************************)
(* Floods through a network of nodes (MeshCore/src/Mesh.cpp): every node   *)
(* marks and, if it is a repeater, sends on a packet it has not seen.      *)
(*                                                                         *)
(* The Dispatcher is abstracted to sets: received packets may be delayed   *)
(* by their score and queued ones by priority, back-off and budget, so     *)
(* either may be taken in any order. A send is heard by any of the nodes   *)
(* in range, the others lose it to collisions or noise.                    *)
(***************************************************************************)
EXTENDS Mesh

CONSTANTS
  Traffic,       \* bound: the <<node, payload, hash size>> to be sent, once each
  Lossy          \* FALSE iff every node in range hears every send

ASSUME FloodAssumption == Traffic \subseteq Node \X Payload \X (1..3) /\ Lossy \in BOOLEAN

VARIABLES
  tables,        \* the node's SimpleMeshTables
  send_queue,    \* packets the Dispatcher is to send
  arriving,      \* packets received, onRecvPacket() not yet called
  originated,    \* the part of Traffic that was sent
  since          \* history: marks at a node since it last marked a payload

vars == <<tables, send_queue, arriving, originated, since>>

Init ==
  /\ tables = [n \in Node |-> NewTable]
  /\ send_queue = [n \in Node |-> {}]
  /\ arriving = [n \in Node |-> {}]
  /\ originated = {}
  /\ since = [n \in Node |-> [p \in Payload |-> TableSize]]

Mark(n, p) ==
  /\ tables' = [tables EXCEPT ![n] = markSeen(@, p)]
  /\ since' = [since EXCEPT ![n] = [q \in Payload |->
                IF q = p THEN 0 ELSE IF @[q] = TableSize THEN TableSize ELSE @[q] + 1]]

\* sendFlood() marks the node's own packet, in case it is sent back to it.
sendFlood(n, p, size) ==
  /\ <<n, p, size>> \in Traffic \ originated
  /\ originated' = originated \union {<<n, p, size>>}
  /\ Mark(n, p)
  /\ send_queue' = [send_queue EXCEPT ![n] = @ \union
       {[payload |-> p, size |-> size, path |-> <<>>, hops |-> <<>>]}]
  /\ UNCHANGED arriving

\* The Dispatcher sends a queued packet.
Transmit(n) ==
  \E pkt \in send_queue[n] :
    /\ send_queue' = [send_queue EXCEPT ![n] = @ \ {pkt}]
    /\ \E heard \in (IF Lossy THEN SUBSET inRange(n) ELSE {inRange(n)}) :
         arriving' = [r \in Node |-> IF r \in heard THEN arriving[r] \union {pkt} ELSE arriving[r]]
    /\ UNCHANGED <<tables, originated, since>>

\* A packet that was seen is released, or in a slip is not.
DropSeenKept(n) ==
  \E pkt \in arriving[n] : wasSeen(tables[n], pkt.payload) /\ UNCHANGED vars

DropSeen(n) ==
  \E pkt \in arriving[n] :
    /\ wasSeen(tables[n], pkt.payload)
    /\ arriving' = [arriving EXCEPT ![n] = @ \ {pkt}]
    /\ UNCHANGED <<tables, send_queue, originated, since>>

\* onRecvPacket() of a packet that was not.
onRecvPacket(n) ==
  \E pkt \in arriving[n] :
    /\ ~wasSeen(tables[n], pkt.payload)
    /\ arriving' = [arriving EXCEPT ![n] = @ \ {pkt}]
    /\ Mark(n, pkt.payload)
    /\ send_queue' = [send_queue EXCEPT ![n] = @ \union routeRecvPacket(n, pkt)]
    /\ UNCHANGED originated

loop(n) == Transmit(n) \/ DropSeen(n) \/ onRecvPacket(n)

Next == \E n \in Node :
  loop(n) \/ \E p \in Payload, size \in 1..3 : sendFlood(n, p, size)

\* Every node's loop() runs for ever.
Spec == Init /\ [][Next]_vars /\ \A n \in Node : WF_vars(loop(n))

-----------------------------------------------------------------------------
(***************************************************************************)
(* Properties.                                                             *)
(***************************************************************************)

TypeOK ==
  /\ tables \in [Node -> Table]
  /\ send_queue \in [Node -> SUBSET Packet]
  /\ arriving \in [Node -> SUBSET Packet]
  /\ originated \subseteq Traffic
  /\ since \in [Node -> [Payload -> 0..TableSize]]

InFlight == UNION {send_queue[n] \union arriving[n] : n \in Node}

\* A path never outgrows Packet::path, and it lists exactly the nodes that have
\* sent the packet on, each in range of the next: it can be sent back as a route.
PathIsRoute ==
  \A pkt \in InFlight :
    /\ pkt.size * getPathHashCount(pkt) <= MaxPathSize
    /\ pkt.path = [i \in DOMAIN pkt.hops |-> hashOf(pkt.hops[i], pkt.size)]
    /\ \A i \in 1..Len(pkt.hops) - 1 : <<pkt.hops[i], pkt.hops[i + 1]>> \in Links

\* A node sends nothing on that is among the last TableSize packets it has
\* marked, its own included, however often and by however many it is sent back.
NoEcho ==
  [][\A n \in Node : \A pkt \in send_queue'[n] \ send_queue[n] :
       since[n][pkt.payload] = TableSize]_vars

\* Loop detection caps how often one packet passes through a node, even when
\* its table has forgotten the packet.
LoopsAreCut ==
  \A pkt \in InFlight : \A n \in Node :
    Cardinality({i \in DOMAIN pkt.hops : pkt.hops[i] = n}) <= LoopMax[n][pkt.size]

\* Every flood dies out: a table too small for the traffic may let a packet
\* come round again, but not for ever.
FloodsDie == \A p \in Payload : p \in {pkt.payload : pkt \in InFlight} ~>
                                p \notin {pkt.payload : pkt \in InFlight}

\* The nodes a flood from a node can get to.
Reach ==
  LET within[n \in Node, k \in 1..Cardinality(Node)] ==
        IF k = 1 THEN inRange(n)
        ELSE within[n, k - 1] \union UNION {inRange(r) : r \in within[n, k - 1] \intersect Repeater}
  IN [n \in Node |-> within[n, Cardinality(Node)]]

\* Without losses a flood gets to every node that repeaters connect to its
\* sender, whatever order the copies arrive in.
FloodReaches ==
  \A t \in Traffic :
    t \in originated ~> \A r \in Reach[t[1]] : wasSeen(tables[r], t[2])

\* As a flood propagates outwards it is given lower and lower priority.
LowerPriorityOutwards ==
  \A n \in Node : \A pkt \in send_queue[n] :
    pkt.hops # <<>> => priority(pkt) = Len(pkt.hops)
=============================================================================
