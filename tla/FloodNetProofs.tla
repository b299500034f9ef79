--------------------------- MODULE FloodNetProofs ---------------------------
(***************************************************************************)
(* Floods keep their paths, never echo and are cut in loops, in every      *)
(* network, with every table size and any number of floods.                *)
(***************************************************************************)
EXTENDS FloodNet, FiniteSetTheorems, TLAPS

\* A flood of 64 hops would carry its count into the hash size.
CountFits == FloodMax < CountLimit

\* Every flood has a payload of its own.
DistinctPayloads == \A t, u \in Traffic : t[2] = u[2] => t = u

NodesInv ==
  /\ tables \in [Node -> Table]
  /\ send_queue = [n \in Node |-> send_queue[n]]
  /\ arriving = [n \in Node |-> arriving[n]]
  /\ originated \subseteq Traffic
  /\ since \in [Node -> [Payload -> 0..TableSize]]

Held(n) == send_queue[n] \union arriving[n]

-----------------------------------------------------------------------------
(***************************************************************************)
(* What every packet is like. A property of packets that holds for a flood *)
(* when it is sent, and for what a node makes of a packet for which it     *)
(* holds, holds for all packets; where it says something of the node that  *)
(* has the packet, what is sent must be so for the receiver as well.       *)
(***************************************************************************)

\* The packet as sendFlood() makes it.
Fresh(p, size) == [payload |-> p, size |-> size, path |-> <<>>, hops |-> <<>>]

\* A packet that is sent leaves its queue and may be heard within range.
LEMMA TransmitEffect ==
  ASSUME NEW s \in Node, Transmit(s)
  PROVE  \E sent \in send_queue[s], heard \in SUBSET inRange(s) :
           /\ send_queue' = [send_queue EXCEPT ![s] = @ \ {sent}]
           /\ arriving' = [r \in Node |-> IF r \in heard THEN arriving[r] \union {sent} ELSE arriving[r]]
           /\ UNCHANGED <<tables, originated, since>>
<1>1. PICK sent \in send_queue[s] :
        /\ send_queue' = [send_queue EXCEPT ![s] = @ \ {sent}]
        /\ \E heard \in (IF Lossy THEN SUBSET inRange(s) ELSE {inRange(s)}) :
             arriving' = [r \in Node |-> IF r \in heard THEN arriving[r] \union {sent} ELSE arriving[r]]
        /\ UNCHANGED <<tables, originated, since>>
    BY Zenon DEF Transmit
<1>2. (IF Lossy THEN SUBSET inRange(s) ELSE {inRange(s)}) \subseteq SUBSET inRange(s)
  <2>1. CASE Lossy
      BY <2>1
  <2>2. CASE ~Lossy
      BY <2>2
  <2> QED BY <2>1, <2>2
<1>3. PICK heard \in SUBSET inRange(s) :
        arriving' = [r \in Node |-> IF r \in heard THEN arriving[r] \union {sent} ELSE arriving[r]]
    BY <1>1, <1>2, Zenon
<1> QED BY <1>1, <1>3, Zenon

\* What a step adds to the packets a node holds.
LEMMA HeldStep ==
  ASSUME NodesInv, [Next]_vars, NEW n \in Node, NEW pkt
  PROVE  /\ pkt \in send_queue'[n] =>
              \/ pkt \in send_queue[n]
              \/ \E p \in Payload, size \in 1..3 :
                   <<n, p, size>> \in Traffic \ originated /\ pkt = Fresh(p, size)
                     /\ sendFlood(n, p, size)
              \/ \E old \in arriving[n] :
                   ~wasSeen(tables[n], old.payload) /\ pkt \in routeRecvPacket(n, old)
         /\ pkt \in arriving'[n] =>
              pkt \in arriving[n] \/ \E s \in Node : <<s, n>> \in Links /\ pkt \in send_queue[s]
<1>1. CASE UNCHANGED vars
    BY <1>1 DEF vars
<1>2. ASSUME NEW s \in Node, NEW p \in Payload, NEW size \in 1..3, sendFlood(s, p, size)
      PROVE  /\ arriving' = arriving
             /\ pkt \in send_queue'[n] =>
                  \/ pkt \in send_queue[n]
                  \/ s = n /\ <<n, p, size>> \in Traffic \ originated /\ pkt = Fresh(p, size)
  <2>1. /\ arriving' = arriving /\ <<s, p, size>> \in Traffic \ originated
        /\ send_queue' = [send_queue EXCEPT ![s] = @ \union {Fresh(p, size)}]
      BY <1>2 DEF sendFlood, Fresh
  <2>2. s # n => send_queue'[n] = send_queue[n]
      BY <2>1, Zenon DEF NodesInv
  <2>3. s = n => send_queue'[n] = send_queue[n] \union {Fresh(p, size)}
      BY <2>1, Zenon DEF NodesInv
  <2> QED BY <2>1, <2>2, <2>3
<1>3. ASSUME NEW s \in Node, Transmit(s)
      PROVE  /\ send_queue'[n] \subseteq send_queue[n]
             /\ pkt \in arriving'[n] => pkt \in arriving[n] \/ (<<s, n>> \in Links /\ pkt \in send_queue[s])
  <2>1. PICK sent \in send_queue[s], heard \in SUBSET inRange(s) :
          /\ send_queue' = [send_queue EXCEPT ![s] = @ \ {sent}]
          /\ arriving' = [r \in Node |-> IF r \in heard THEN arriving[r] \union {sent} ELSE arriving[r]]
      BY <1>3, TransmitEffect, ZenonT(30)
  <2>2. send_queue'[n] \subseteq send_queue[n]
      BY <2>1, Zenon DEF NodesInv
  <2>3. pkt \in arriving'[n] => pkt \in arriving[n] \/ (n \in heard /\ pkt = sent)
      BY <2>1, Zenon
  <2>4. n \in heard => <<s, n>> \in Links
      BY <2>1, Zenon DEF inRange
  <2> QED BY <2>1, <2>2, <2>3, <2>4
<1>4. ASSUME NEW s \in Node, DropSeen(s)
      PROVE  send_queue' = send_queue /\ arriving'[n] \subseteq arriving[n]
    BY <1>4, Zenon DEF DropSeen, NodesInv
<1>5. ASSUME NEW s \in Node, onRecvPacket(s)
      PROVE  /\ arriving'[n] \subseteq arriving[n]
             /\ pkt \in send_queue'[n] =>
                  \/ pkt \in send_queue[n]
                  \/ \E old \in arriving[n] :
                       ~wasSeen(tables[n], old.payload) /\ pkt \in routeRecvPacket(n, old)
  <2>1. PICK old \in arriving[s] :
          /\ ~wasSeen(tables[s], old.payload)
          /\ arriving' = [arriving EXCEPT ![s] = @ \ {old}]
          /\ send_queue' = [send_queue EXCEPT ![s] = @ \union routeRecvPacket(s, old)]
      BY <1>5, Zenon DEF onRecvPacket
  <2>2. arriving'[n] \subseteq arriving[n]
      BY <2>1, Zenon DEF NodesInv
  <2>3. s # n => send_queue'[n] = send_queue[n]
      BY <2>1, Zenon DEF NodesInv
  <2>4. s = n => send_queue'[n] = send_queue[n] \union routeRecvPacket(n, old)
      BY <2>1, Zenon DEF NodesInv
  <2> QED BY <2>1, <2>2, <2>3, <2>4
<1>6. CASE Next
    BY <1>2, <1>3, <1>4, <1>5, <1>6, Zenon DEF Next, loop
<1> QED BY <1>1, <1>6

\* What a node passes on: one more hop, and if the count fits one more hash, for
\* which there is room.
LEMMA Forwarded ==
  ASSUME NEW n \in Node, NEW old \in Packet, NEW pkt \in routeRecvPacket(n, old)
  PROVE  /\ pkt \in Packet /\ ~isLooped(n, old)
         /\ pkt.payload = old.payload /\ pkt.hops = Append(old.hops, n)
         /\ CountFits =>
              /\ pkt.size = old.size /\ pkt.path = Append(old.path, hashOf(n, old.size))
              /\ pkt.size * Len(pkt.path) <= MaxPathSize
<1> DEFINE path == Append(old.path, hashOf(n, old.size))
           hops == Append(old.hops, n)
<1> USE SizeAssumption, PrefsAssumption
<1>1. /\ PathHasRoom(old) /\ Len(old.path) < FloodMax /\ ~isLooped(n, old)
      /\ pkt = withPath([old EXCEPT !.hops = hops], path)
    BY Zenon DEF routeRecvPacket, allowPacketForward, getPathHashCount, withSelf
<1>2. /\ old.payload \in Payload /\ old.size \in 1..3 /\ old.path \in Seq(Hash) /\ old.hops \in Seq(Node)
      /\ old = [payload |-> old.payload, size |-> old.size, path |-> old.path, hops |-> old.hops]
    BY DEF Packet
<1>3. hashOf(n, old.size) \in Hash
    BY <1>2 DEF Hash
<1>4. path \in Seq(Hash) /\ hops \in Seq(Node) /\ Len(path) = Len(old.path) + 1 /\ Len(old.path) \in Nat
    BY <1>2, <1>3
<1>5. (Len(old.path) + 1) * old.size <= MaxPathSize
    BY <1>1 DEF PathHasRoom, getPathHashCount
<1> HIDE DEF path, hops
<1>6. CASE Len(path) < CountLimit
  <2>1. pkt = [payload |-> old.payload, size |-> old.size, path |-> path, hops |-> hops]
      BY <1>1, <1>2, <1>6 DEF withPath
  <2>2. pkt.size * Len(pkt.path) <= MaxPathSize
      BY <1>2, <1>4, <1>5, <2>1
  <2>3. pkt.payload = old.payload /\ pkt.size = old.size /\ pkt.path = path /\ pkt.hops = hops
      BY <2>1
  <2>4. pkt \in Packet
      BY <1>2, <1>4, <2>1 DEF Packet
  <2> QED BY <1>1, <2>2, <2>3, <2>4 DEF path, hops
<1>7. CASE ~(Len(path) < CountLimit)
  <2>1. pkt = [payload |-> old.payload, size |-> old.size + 1, path |-> <<>>, hops |-> hops]
      BY <1>1, <1>2, <1>7 DEF withPath
  <2>2. old.size = 1
    <3>1. Len(old.path) + 1 >= MaxPathSize /\ MaxPathSize \in Nat /\ old.size \in 1..3
        BY <1>2, <1>4, <1>7, SizeAssumption
    <3>2. CASE old.size = 2
        BY <1>4, <1>5, <3>1, <3>2
    <3>3. CASE old.size = 3
        BY <1>4, <1>5, <3>1, <3>3
    <3> QED BY <3>1, <3>2, <3>3
  <2>3. ~CountFits
      BY <1>1, <1>4, <1>7 DEF CountFits
  <2>4. <<>> \in Seq(Hash)
      OBVIOUS
  <2>5. pkt.payload = old.payload /\ pkt.hops = hops
      BY <2>1
  <2>6. pkt \in Packet
      BY <1>2, <1>4, <2>1, <2>2, <2>4 DEF Packet
  <2> QED BY <1>1, <2>3, <2>5, <2>6 DEF hops
<1> QED BY <1>6, <1>7

LEMMA FreshType == \A p \in Payload, size \in 1..3 : Fresh(p, size) \in Packet
  BY DEF Fresh, Packet

-----------------------------------------------------------------------------
(***************************************************************************)
(* Types.                                                                  *)
(***************************************************************************)

PacketsInv == \A n \in Node : \A pkt \in Held(n) : pkt \in Packet

TypeInv == NodesInv /\ PacketsInv

LEMMA MarkType ==
  ASSUME NodesInv, NEW n \in Node, NEW p \in Payload, Mark(n, p)
  PROVE  tables' \in [Node -> Table] /\ since' \in [Node -> [Payload -> 0..TableSize]]
<1> USE SizeAssumption
<1>1. markSeen(tables[n], p) \in Table
  <2> DEFINE t == tables[n]
  <2>1. t.hashes \in [0..TableSize - 1 -> Payload \union {Nothing}] /\ t.next_idx \in 0..TableSize - 1
      BY DEF NodesInv, Table
  <2>2. (t.next_idx + 1) % TableSize \in 0..TableSize - 1
      BY <2>1
  <2>3. [t.hashes EXCEPT ![t.next_idx] = p] \in [0..TableSize - 1 -> Payload \union {Nothing}]
      BY <2>1
  <2> QED BY <2>2, <2>3 DEF markSeen, Table
<1>2. tables' \in [Node -> Table]
    BY <1>1 DEF Mark, NodesInv
<1>3. \A q \in Payload : since[n][q] \in 0..TableSize
    BY DEF NodesInv
<1>4. [q \in Payload |-> IF q = p THEN 0 ELSE IF since[n][q] = TableSize THEN TableSize
                         ELSE since[n][q] + 1] \in [Payload -> 0..TableSize]
    BY <1>3
<1>5. since' \in [Node -> [Payload -> 0..TableSize]]
    BY <1>4, Zenon DEF Mark, NodesInv
<1> QED BY <1>2, <1>5

LEMMA NodesStep == ASSUME TypeInv, [Next]_vars PROVE NodesInv'
<1>1. CASE UNCHANGED vars
    BY <1>1 DEF vars, TypeInv, NodesInv
<1>2. ASSUME NEW n \in Node, NEW p \in Payload, NEW size \in 1..3, sendFlood(n, p, size)
      PROVE  NodesInv'
  <2>1. Mark(n, p) /\ originated' \subseteq Traffic /\ arriving' = arriving
        /\ send_queue' = [send_queue EXCEPT ![n] = @ \union {Fresh(p, size)}]
      BY <1>2 DEF sendFlood, TypeInv, NodesInv, Fresh
  <2>2. send_queue' = [m \in Node |-> send_queue'[m]]
      BY <2>1, Zenon DEF TypeInv, NodesInv
  <2> QED BY <2>1, <2>2, MarkType, Zenon DEF TypeInv, NodesInv
<1>3. ASSUME NEW n \in Node, Transmit(n) PROVE NodesInv'
  <2>1. PICK sent \in send_queue[n], heard \in SUBSET inRange(n) :
          /\ send_queue' = [send_queue EXCEPT ![n] = @ \ {sent}]
          /\ arriving' = [r \in Node |-> IF r \in heard THEN arriving[r] \union {sent} ELSE arriving[r]]
          /\ UNCHANGED <<tables, originated, since>>
      BY <1>3, TransmitEffect, Zenon
  <2>2. arriving' = [m \in Node |-> arriving'[m]] /\ send_queue' = [m \in Node |-> send_queue'[m]]
      BY <2>1, Zenon DEF TypeInv, NodesInv
  <2> QED BY <2>1, <2>2, Zenon DEF TypeInv, NodesInv
<1>4. ASSUME NEW n \in Node, DropSeen(n) PROVE NodesInv'
  <2>1. UNCHANGED <<tables, send_queue, originated, since>>
        /\ \E pkt \in arriving[n] : arriving' = [arriving EXCEPT ![n] = @ \ {pkt}]
      BY <1>4, Zenon DEF DropSeen
  <2>2. arriving' = [m \in Node |-> arriving'[m]]
      BY <2>1, Zenon DEF TypeInv, NodesInv
  <2> QED BY <2>1, <2>2, Zenon DEF TypeInv, NodesInv
<1>5. ASSUME NEW n \in Node, onRecvPacket(n) PROVE NodesInv'
  <2>1. PICK old \in arriving[n] :
          /\ Mark(n, old.payload) /\ UNCHANGED originated
          /\ arriving' = [arriving EXCEPT ![n] = @ \ {old}]
          /\ send_queue' = [send_queue EXCEPT ![n] = @ \union routeRecvPacket(n, old)]
      BY <1>5, Zenon DEF onRecvPacket
  <2>2. old.payload \in Payload
      BY DEF TypeInv, PacketsInv, Held, Packet
  <2>3. tables' \in [Node -> Table] /\ since' \in [Node -> [Payload -> 0..TableSize]]
      BY <2>1, <2>2, MarkType DEF TypeInv
  <2>4. arriving' = [m \in Node |-> arriving'[m]] /\ send_queue' = [m \in Node |-> send_queue'[m]]
      BY <2>1, Zenon DEF TypeInv, NodesInv
  <2> QED BY <2>1, <2>3, <2>4, Zenon DEF TypeInv, NodesInv
<1> QED BY <1>1, <1>2, <1>3, <1>4, <1>5, Zenon DEF Next, loop

LEMMA PacketsStep == ASSUME TypeInv, [Next]_vars PROVE PacketsInv'
<1> SUFFICES ASSUME NEW n \in Node, NEW pkt, pkt \in send_queue'[n] \/ pkt \in arriving'[n]
             PROVE  pkt \in Packet
    BY DEF PacketsInv, Held
<1>1. \A m \in Node : \A q : q \in send_queue[m] \/ q \in arriving[m] => q \in Packet
    BY DEF TypeInv, PacketsInv, Held
<1>2. \A old \in arriving[n] : pkt \in routeRecvPacket(n, old) => pkt \in Packet
    BY <1>1, Forwarded
<1>3. NodesInv
    BY DEF TypeInv
<1>4. CASE pkt \in send_queue'[n]
  <2>1. \/ pkt \in send_queue[n]
        \/ \E p \in Payload, size \in 1..3 : pkt = Fresh(p, size)
        \/ \E old \in arriving[n] : pkt \in routeRecvPacket(n, old)
      BY <1>3, <1>4, HeldStep, Zenon
  <2> QED BY <1>1, <1>2, <2>1, FreshType, Zenon
<1>5. CASE pkt \in arriving'[n]
    BY <1>1, <1>3, <1>5, HeldStep, Zenon
<1> QED BY <1>4, <1>5

LEMMA TypeStep == TypeInv /\ [Next]_vars => TypeInv'
  BY NodesStep, PacketsStep DEF TypeInv

LEMMA InitType == Init => TypeInv
<1> SUFFICES ASSUME Init PROVE TypeInv
    OBVIOUS
<1>1. NewTable \in Table
    BY SizeAssumption DEF NewTable, Table
<1>2. tables \in [Node -> Table] /\ since \in [Node -> [Payload -> 0..TableSize]]
    BY <1>1, SizeAssumption DEF Init
<1>3. NodesInv
    BY <1>2 DEF Init, NodesInv
<1>4. PacketsInv
    BY DEF Init, PacketsInv, Held
<1> QED BY <1>3, <1>4 DEF TypeInv

\* Tables are well-formed, packets too, however long their paths grow: a count
\* that carries into the hash size leaves a packet that is one as well.
THEOREM TypeCorrect == Spec => []TypeOK
<1>1. TypeInv => TypeOK
  <2> SUFFICES ASSUME TypeInv PROVE TypeOK
      OBVIOUS
  <2>1. /\ send_queue = [n \in Node |-> send_queue[n]] /\ arriving = [n \in Node |-> arriving[n]]
        /\ \A n \in Node : send_queue[n] \subseteq Packet /\ arriving[n] \subseteq Packet
      BY Zenon DEF TypeInv, NodesInv, PacketsInv, Held
  <2> QED BY <2>1 DEF TypeInv, NodesInv, TypeOK
<1> QED BY InitType, TypeStep, <1>1, PTL DEF Spec

-----------------------------------------------------------------------------
(***************************************************************************)
(* Paths.                                                                  *)
(***************************************************************************)

RouteSoFar(pkt) ==
  /\ pkt.size * Len(pkt.path) <= MaxPathSize
  /\ pkt.path = [i \in DOMAIN pkt.hops |-> hashOf(pkt.hops[i], pkt.size)]
  /\ \A i \in 1..Len(pkt.hops) - 1 : <<pkt.hops[i], pkt.hops[i + 1]>> \in Links

LastHop(pkt) == pkt.hops[Len(pkt.hops)]

\* The last node that sent a packet on has it in its queue, or is in range of
\* the node at which it has arrived.
PathInv ==
  \A n \in Node :
    /\ \A pkt \in Held(n) : RouteSoFar(pkt)
    /\ \A pkt \in send_queue[n] : pkt.hops # <<>> => LastHop(pkt) = n
    /\ \A pkt \in arriving[n] : pkt.hops # <<>> => <<LastHop(pkt), n>> \in Links

LEMMA PacketParts ==
  ASSUME NEW pkt \in Packet
  PROVE  /\ pkt.payload \in Payload /\ pkt.size \in 1..3
         /\ pkt.path \in Seq(Hash) /\ DOMAIN pkt.path = 1..Len(pkt.path) /\ Len(pkt.path) \in Nat
         /\ pkt.hops \in Seq(Node) /\ DOMAIN pkt.hops = 1..Len(pkt.hops) /\ Len(pkt.hops) \in Nat
         /\ pkt.hops # <<>> => Len(pkt.hops) # 0
<1>1. /\ pkt.payload \in Payload /\ pkt.size \in 1..3
      /\ pkt.path \in Seq(Hash) /\ pkt.hops \in Seq(Node)
    BY DEF Packet
<1> QED BY <1>1

LEMMA Extended ==
  ASSUME NEW S, NEW s \in Seq(S), NEW e \in S
  PROVE  /\ Append(s, e) \in Seq(S) /\ Append(s, e) # <<>>
         /\ Len(Append(s, e)) = Len(s) + 1 /\ DOMAIN Append(s, e) = 1..Len(s) + 1
         /\ Len(s) \in Nat /\ DOMAIN s = 1..Len(s)
         /\ \A i \in 1..Len(s) : Append(s, e)[i] = s[i]
         /\ Append(s, e)[Len(s) + 1] = e
  OBVIOUS

\* The hops and the path grow together.
LEMMA RouteGrows ==
  ASSUME CountFits, NEW n \in Node, NEW old \in Packet, NEW pkt \in routeRecvPacket(n, old),
         RouteSoFar(old), old.hops # <<>> => <<LastHop(old), n>> \in Links
  PROVE  RouteSoFar(pkt) /\ pkt.hops # <<>> /\ LastHop(pkt) = n
<1> DEFINE k == Len(old.hops)  h == hashOf(n, old.size)
<1>1. /\ pkt.size = old.size /\ pkt.path = Append(old.path, h) /\ pkt.hops = Append(old.hops, n)
      /\ pkt.size * Len(pkt.path) <= MaxPathSize
    BY Forwarded
<1>2. /\ old.hops \in Seq(Node) /\ old.path \in Seq(Hash) /\ old.size \in 1..3
      /\ DOMAIN old.hops = 1..k /\ k \in Nat /\ DOMAIN old.path = 1..Len(old.path) /\ Len(old.path) \in Nat
      /\ old.hops # <<>> => k # 0
    BY PacketParts
<1>3. Len(old.path) = k /\ \A i \in 1..k : old.path[i] = hashOf(old.hops[i], old.size)
  <2>1. old.path = [i \in 1..k |-> hashOf(old.hops[i], old.size)]
      BY <1>2 DEF RouteSoFar
  <2>2. 1..Len(old.path) = 1..k
      BY <1>2, <2>1, Zenon
  <2>3. Len(old.path) = k
      BY <1>2, <2>2
  <2> QED BY <2>1, <2>3, Zenon
<1>4. h \in Hash
    BY <1>2 DEF Hash
<1>5. /\ pkt.hops # <<>> /\ Len(pkt.hops) = k + 1 /\ DOMAIN pkt.hops = 1..k + 1
      /\ \A i \in 1..k : pkt.hops[i] = old.hops[i]
      /\ pkt.hops[k + 1] = n
    BY <1>1, <1>2, Extended
<1>6. /\ pkt.path \in Seq(Hash) /\ Len(pkt.path) = k + 1 /\ DOMAIN pkt.path = 1..k + 1
      /\ \A i \in 1..k : pkt.path[i] = old.path[i]
      /\ pkt.path[k + 1] = h
    BY <1>1, <1>2, <1>3, <1>4, Extended
<1> HIDE DEF h
<1>7. \A i \in 1..k + 1 : pkt.path[i] = hashOf(pkt.hops[i], pkt.size)
  <2> TAKE i \in 1..k + 1
  <2>1. CASE i \in 1..k
      BY <1>1, <1>3, <1>5, <1>6, <2>1
  <2>2. CASE i = k + 1
      BY <1>1, <1>5, <1>6, <2>2 DEF h
  <2> QED BY <1>2, <2>1, <2>2
<1>8. pkt.path = [i \in 1..k + 1 |-> hashOf(pkt.hops[i], pkt.size)]
  <2>1. pkt.path = [i \in 1..k + 1 |-> pkt.path[i]]
      BY <1>6
  <2> QED BY <1>7, <2>1, Zenon
<1>9. \A i \in 1..k : <<pkt.hops[i], pkt.hops[i + 1]>> \in Links
  <2> TAKE i \in 1..k
  <2>1. CASE i = k
    <3>1. <<old.hops[k], n>> \in Links
        BY <1>2, <2>1 DEF LastHop
    <3> QED BY <1>5, <2>1, <3>1
  <2>2. CASE i # k
    <3>1. i \in 1..k - 1 /\ i + 1 \in 1..k
        BY <1>2, <2>2
    <3>2. <<old.hops[i], old.hops[i + 1]>> \in Links
        BY <3>1 DEF RouteSoFar
    <3> QED BY <1>5, <3>1, <3>2
  <2> QED BY <2>1, <2>2
<1>10. Len(pkt.hops) - 1 = k
    BY <1>2, <1>5
<1> QED BY <1>1, <1>5, <1>8, <1>9, <1>10, Zenon DEF RouteSoFar, LastHop

LEMMA FreshRoute == \A p \in Payload, size \in 1..3 :
  RouteSoFar(Fresh(p, size)) /\ Fresh(p, size).hops = <<>>
  BY SizeAssumption DEF RouteSoFar, Fresh

LEMMA PathStep == ASSUME CountFits, TypeInv, PathInv, [Next]_vars PROVE PathInv'
<1> SUFFICES ASSUME NEW n \in Node, NEW pkt
             PROVE  /\ pkt \in send_queue'[n] => RouteSoFar(pkt) /\ (pkt.hops # <<>> => LastHop(pkt) = n)
                    /\ pkt \in arriving'[n] =>
                         RouteSoFar(pkt) /\ (pkt.hops # <<>> => <<LastHop(pkt), n>> \in Links)
    BY Zenon DEF PathInv, Held
<1>1. NodesInv
    BY DEF TypeInv
<1>2. \A old \in arriving[n] : pkt \in routeRecvPacket(n, old) =>
        RouteSoFar(pkt) /\ LastHop(pkt) = n
  <2> SUFFICES ASSUME NEW old \in arriving[n], pkt \in routeRecvPacket(n, old)
               PROVE  RouteSoFar(pkt) /\ LastHop(pkt) = n
      OBVIOUS
  <2>1. old \in Packet
      BY DEF TypeInv, PacketsInv, Held
  <2>2. RouteSoFar(old) /\ (old.hops # <<>> => <<LastHop(old), n>> \in Links)
      BY DEF PathInv, Held
  <2> QED BY <2>1, <2>2, RouteGrows
<1>3. ASSUME pkt \in send_queue'[n]
      PROVE  RouteSoFar(pkt) /\ (pkt.hops # <<>> => LastHop(pkt) = n)
  <2>1. \/ pkt \in send_queue[n]
        \/ \E p \in Payload, size \in 1..3 : pkt = Fresh(p, size)
        \/ \E old \in arriving[n] : pkt \in routeRecvPacket(n, old)
      BY <1>1, <1>3, HeldStep, Zenon
  <2>2. CASE pkt \in send_queue[n]
      BY <2>2, Zenon DEF PathInv, Held
  <2>3. CASE \E p \in Payload, size \in 1..3 : pkt = Fresh(p, size)
      BY <2>3, FreshRoute, Zenon
  <2> QED BY <1>2, <2>1, <2>2, <2>3
<1>4. ASSUME pkt \in arriving'[n]
      PROVE  RouteSoFar(pkt) /\ (pkt.hops # <<>> => <<LastHop(pkt), n>> \in Links)
  <2>1. pkt \in arriving[n] \/ \E s \in Node : <<s, n>> \in Links /\ pkt \in send_queue[s]
      BY <1>1, <1>4, HeldStep, Zenon
  <2>2. CASE pkt \in arriving[n]
      BY <2>2, Zenon DEF PathInv, Held
  <2>3. CASE \E s \in Node : <<s, n>> \in Links /\ pkt \in send_queue[s]
      BY <2>3, Zenon DEF PathInv, Held
  <2> QED BY <2>1, <2>2, <2>3
<1> QED BY <1>3, <1>4

\* A path can be sent back as a route: it fits, and it lists the nodes that have
\* sent the packet on, each in range of the next.
THEOREM PathsAreRoutes == ASSUME CountFits PROVE Spec => []PathIsRoute
<1>1. Init => TypeInv /\ PathInv
  <2>1. Init => PathInv
      BY DEF Init, PathInv, Held
  <2> QED BY <2>1, InitType
<1>2. (TypeInv /\ PathInv) /\ [Next]_vars => (TypeInv /\ PathInv)'
    BY TypeStep, PathStep
<1>3. TypeInv /\ PathInv => PathIsRoute
    BY Zenon DEF PathInv, Held, RouteSoFar, PathIsRoute, InFlight, getPathHashCount
<1> QED BY <1>1, <1>2, <1>3, PTL DEF Spec

-----------------------------------------------------------------------------
(***************************************************************************)
(* Loops.                                                                  *)
(***************************************************************************)

Visits(n, pkt) == {i \in DOMAIN pkt.hops : pkt.hops[i] = n}

LoopInv == \A n \in Node : \A pkt \in Held(n) : \A m \in Node :
             Cardinality(Visits(m, pkt)) <= LoopMax[m][pkt.size]

\* A node's hash is in the path at least as often as the node has sent the packet
\* on: other nodes may share the hash.
LEMMA VisitsInPath ==
  ASSUME NEW pkt \in Packet, RouteSoFar(pkt), NEW n \in Node
  PROVE  /\ IsFiniteSet(Visits(n, pkt)) /\ Cardinality(Visits(n, pkt)) \in Nat
         /\ TimesInPath(n, pkt) \in Nat /\ Cardinality(Visits(n, pkt)) <= TimesInPath(n, pkt)
<1> DEFINE k == Len(pkt.hops)
           inPath == {i \in DOMAIN pkt.path : pkt.path[i] = hashOf(n, pkt.size)}
<1>1. DOMAIN pkt.hops = 1..k /\ k \in Nat
    BY PacketParts
<1>2. DOMAIN pkt.path = DOMAIN pkt.hops /\ \A i \in DOMAIN pkt.hops : pkt.path[i] = hashOf(pkt.hops[i], pkt.size)
    BY Zenon DEF RouteSoFar
<1>3. IsFiniteSet(DOMAIN pkt.hops)
    BY <1>1, FS_Interval
<1>4. inPath \subseteq DOMAIN pkt.hops
    BY <1>2, Zenon
<1>5. Visits(n, pkt) \subseteq inPath
    BY <1>2, Zenon DEF Visits
<1>6. IsFiniteSet(inPath)
    BY <1>3, <1>4, FS_Subset
<1>7. IsFiniteSet(Visits(n, pkt)) /\ Cardinality(Visits(n, pkt)) <= Cardinality(inPath)
    BY <1>5, <1>6, FS_Subset
<1> QED BY <1>6, <1>7, FS_CardinalityType DEF TimesInPath

LEMMA LoopGrows ==
  ASSUME CountFits, NEW n \in Node, NEW old \in Packet, NEW pkt \in routeRecvPacket(n, old),
         RouteSoFar(old), NEW m \in Node, Cardinality(Visits(m, old)) <= LoopMax[m][old.size]
  PROVE  Cardinality(Visits(m, pkt)) <= LoopMax[m][pkt.size]
<1> DEFINE k == Len(old.hops)
<1>1. pkt.size = old.size /\ pkt.hops = Append(old.hops, n) /\ ~isLooped(n, old)
    BY Forwarded
<1>2. /\ DOMAIN old.hops = 1..k /\ k \in Nat /\ DOMAIN pkt.hops = 1..k + 1
      /\ \A i \in 1..k : pkt.hops[i] = old.hops[i]
      /\ pkt.hops[k + 1] = n
    BY <1>1, PacketParts, Extended
<1>3. 1..k + 1 = (1..k) \union {k + 1}
    BY <1>2
<1> HIDE DEF k
<1>4. CASE m # n
  <2>1. Visits(m, pkt) = Visits(m, old)
      BY <1>2, <1>3, <1>4, Zenon DEF Visits
  <2> QED BY <1>1, <2>1
<1>5. CASE m = n
  <2>1. Visits(n, pkt) = Visits(n, old) \union {k + 1}
    <3>1. ASSUME NEW i \in Visits(n, pkt) PROVE i \in Visits(n, old) \union {k + 1}
        BY <1>2, <1>3, <3>1 DEF Visits
    <3>2. ASSUME NEW i \in Visits(n, old) PROVE i \in Visits(n, pkt)
        BY <1>2, <1>3, <3>2, Zenon DEF Visits
    <3>3. k + 1 \in Visits(n, pkt)
        BY <1>2, <1>3, Zenon DEF Visits
    <3> QED BY <3>1, <3>2, <3>3, Zenon
  <2>2. /\ IsFiniteSet(Visits(n, old)) /\ Cardinality(Visits(n, old)) \in Nat
        /\ TimesInPath(n, old) \in Nat /\ Cardinality(Visits(n, old)) <= TimesInPath(n, old)
      BY VisitsInPath
  <2>3. Cardinality(Visits(n, pkt)) <= Cardinality(Visits(n, old)) + 1
    <3>1. Cardinality(Visits(n, old) \union {k + 1}) =
            IF k + 1 \in Visits(n, old) THEN Cardinality(Visits(n, old)) ELSE Cardinality(Visits(n, old)) + 1
        BY <2>2, FS_AddElement
    <3> QED BY <2>1, <2>2, <3>1
  <2>4. ~(TimesInPath(n, old) >= LoopMax[n][old.size]) /\ LoopMax[n][old.size] \in Nat
    <3>1. old.size \in 1..3
        BY PacketParts
    <3> QED BY <1>1, <3>1, PrefsAssumption DEF isLooped
  <2>5. Cardinality(Visits(n, pkt)) \in Nat
    <3>1. IsFiniteSet(Visits(n, old) \union {k + 1})
        BY <2>2, FS_AddElement
    <3> QED BY <2>1, <3>1, FS_CardinalityType
  <2> QED BY <1>1, <1>5, <2>2, <2>3, <2>4, <2>5
<1> QED BY <1>4, <1>5

LEMMA FreshLoop == \A p \in Payload, size \in 1..3, m \in Node :
  Cardinality(Visits(m, Fresh(p, size))) <= LoopMax[m][Fresh(p, size).size]
<1> SUFFICES ASSUME NEW p \in Payload, NEW size \in 1..3, NEW m \in Node
             PROVE  Cardinality(Visits(m, Fresh(p, size))) <= LoopMax[m][Fresh(p, size).size]
    OBVIOUS
<1>1. Visits(m, Fresh(p, size)) = {} /\ Fresh(p, size).size = size
    BY DEF Visits, Fresh
<1>2. LoopMax[m][size] \in Nat
    BY PrefsAssumption
<1> QED BY <1>1, <1>2, FS_EmptySet

LEMMA LoopStep == ASSUME CountFits, TypeInv, PathInv, LoopInv, [Next]_vars PROVE LoopInv'
<1> SUFFICES ASSUME NEW n \in Node, NEW pkt, pkt \in send_queue'[n] \/ pkt \in arriving'[n], NEW m \in Node
             PROVE  Cardinality(Visits(m, pkt)) <= LoopMax[m][pkt.size]
    BY Zenon DEF LoopInv, Held, Visits
<1>1. NodesInv
    BY DEF TypeInv
<1>2. \A s \in Node : pkt \in send_queue[s] \/ pkt \in arriving[s] =>
        Cardinality(Visits(m, pkt)) <= LoopMax[m][pkt.size]
    BY Zenon DEF LoopInv, Held
<1>3. \A old \in arriving[n] : pkt \in routeRecvPacket(n, old) =>
        Cardinality(Visits(m, pkt)) <= LoopMax[m][pkt.size]
  <2> SUFFICES ASSUME NEW old \in arriving[n], pkt \in routeRecvPacket(n, old)
               PROVE  Cardinality(Visits(m, pkt)) <= LoopMax[m][pkt.size]
      OBVIOUS
  <2>1. old \in Packet /\ RouteSoFar(old) /\ Cardinality(Visits(m, old)) <= LoopMax[m][old.size]
      BY Zenon DEF TypeInv, PacketsInv, PathInv, LoopInv, Held
  <2> QED BY <2>1, LoopGrows
<1>4. CASE pkt \in send_queue'[n]
  <2>1. \/ pkt \in send_queue[n]
        \/ \E p \in Payload, size \in 1..3 : pkt = Fresh(p, size)
        \/ \E old \in arriving[n] : pkt \in routeRecvPacket(n, old)
      BY <1>1, <1>4, HeldStep, Zenon
  <2> QED BY <1>2, <1>3, <2>1, FreshLoop, Zenon
<1>5. CASE pkt \in arriving'[n]
  <2>1. pkt \in arriving[n] \/ \E s \in Node : pkt \in send_queue[s]
      BY <1>1, <1>5, HeldStep, Zenon
  <2> QED BY <1>2, <2>1, Zenon
<1> QED BY <1>4, <1>5

\* No node sends a packet on more often than its loop detection allows, even if
\* its table has forgotten the packet.
THEOREM LoopsCut == ASSUME CountFits PROVE Spec => []LoopsAreCut
<1> DEFINE IInv == TypeInv /\ PathInv /\ LoopInv
<1>1. Init => IInv
  <2>1. Init => PathInv /\ LoopInv
      BY DEF Init, PathInv, LoopInv, Held
  <2> QED BY <2>1, InitType
<1>2. IInv /\ [Next]_vars => IInv'
    BY TypeStep, PathStep, LoopStep
<1>3. IInv => LoopsAreCut
    BY Zenon DEF LoopInv, Held, Visits, LoopsAreCut, InFlight
<1> QED BY <1>1, <1>2, <1>3, PTL DEF Spec

-----------------------------------------------------------------------------
(***************************************************************************)
(* Echoes. The payload marked s marks ago is s entries before the last one *)
(* of the ring buffer.                                                     *)
(***************************************************************************)

Entry(table, s) ==
  IF s < table.next_idx THEN table.next_idx - 1 - s ELSE table.next_idx - 1 - s + TableSize

RingInv ==
  \A n \in Node, p \in Payload :
    since[n][p] < TableSize => tables[n].hashes[Entry(tables[n], since[n][p])] = p

\* A payload that was not sent yet is nowhere.
UnsentInv ==
  \A t \in Traffic \ originated, n \in Node :
    since[n][t[2]] = TableSize /\ \A pkt \in Held(n) : pkt.payload # t[2]

\* The index goes round.
LEMMA NextIndex ==
  \A T \in Nat \ {0} : \A i \in 1..T : i % T = IF i = T THEN 0 ELSE i
<1> SUFFICES ASSUME NEW T \in Nat \ {0}, NEW i \in 1..T
             PROVE  i % T = IF i = T THEN 0 ELSE i
    OBVIOUS
<1>1. CASE i = T
    BY <1>1
<1>2. CASE i < T
    BY <1>2
<1> QED BY <1>1, <1>2

LEMMA MarkRing ==
  ASSUME NodesInv, RingInv, NEW n \in Node, NEW p \in Payload, Mark(n, p)
  PROVE  RingInv'
<1> USE SizeAssumption
<1> SUFFICES ASSUME NEW m \in Node, NEW q \in Payload, since'[m][q] < TableSize
             PROVE  tables'[m].hashes[Entry(tables'[m], since'[m][q])] = q
    BY Zenon DEF RingInv, Entry
<1>1. /\ tables' = [tables EXCEPT ![n] = markSeen(@, p)]
      /\ since' = [since EXCEPT ![n] = [r \in Payload |->
                IF r = p THEN 0 ELSE IF @[r] = TableSize THEN TableSize ELSE @[r] + 1]]
      /\ tables \in [Node -> Table] /\ since \in [Node -> [Payload -> 0..TableSize]]
    BY DEF Mark, NodesInv
<1>2. CASE m # n
  <2>1. tables'[m] = tables[m] /\ since'[m] = since[m]
      BY <1>1, <1>2, Zenon
  <2> QED BY <2>1, Zenon DEF RingInv
<1>3. CASE m = n
  <2> DEFINE t == tables[n]  next == (t.next_idx + 1) % TableSize  s == since[n][q]
  <2>1. /\ t.hashes \in [0..TableSize - 1 -> Payload \union {Nothing}] /\ t.next_idx \in 0..TableSize - 1
        /\ s \in 0..TableSize
      BY <1>1 DEF Table
  <2>2. tables'[n] = [hashes |-> [t.hashes EXCEPT ![t.next_idx] = p], next_idx |-> next]
      BY <1>1, Zenon DEF markSeen
  <2>3. tables'[n].hashes = [t.hashes EXCEPT ![t.next_idx] = p] /\ tables'[n].next_idx = next
      BY <2>2
  <2>4. next = IF t.next_idx + 1 = TableSize THEN 0 ELSE t.next_idx + 1
    <3>1. t.next_idx + 1 \in 1..TableSize
        BY <2>1
    <3> QED BY <3>1, NextIndex
  <2>5. since'[n][q] = IF q = p THEN 0 ELSE IF s = TableSize THEN TableSize ELSE s + 1
      BY <1>1, Zenon
  <2> HIDE DEF t, next, s
  <2>6. CASE q = p
    <3>1. Entry(tables'[n], 0) = t.next_idx
        BY <2>1, <2>3, <2>4 DEF Entry
    <3> QED BY <1>3, <2>1, <2>3, <2>5, <2>6, <3>1
  <2>7. CASE q # p
    <3>1. s < TableSize - 1 /\ since'[n][q] = s + 1
        BY <1>3, <2>1, <2>5, <2>7
    <3>2. t.hashes[Entry(t, s)] = q
      <4>1. s < TableSize
          BY <2>1, <3>1
      <4> QED BY <4>1, Zenon DEF RingInv, t, s
    <3>3. Entry(tables'[n], s + 1) = Entry(t, s)
      <4>1. t.next_idx \in 0..TableSize - 1 /\ s \in 0..TableSize /\ s < TableSize - 1
            /\ tables'[n].next_idx = next
          BY <2>1, <2>3, <3>1
      <4>2. CASE t.next_idx + 1 = TableSize
          BY <2>4, <4>1, <4>2 DEF Entry
      <4>3. CASE t.next_idx + 1 # TableSize
          BY <2>4, <4>1, <4>3 DEF Entry
      <4> QED BY <4>2, <4>3
    <3>4. Entry(t, s) \in 0..TableSize - 1 /\ Entry(t, s) # t.next_idx
        BY <2>1, <3>1 DEF Entry
    <3>5. tables'[n].hashes[Entry(t, s)] = t.hashes[Entry(t, s)]
        BY <2>1, <2>3, <3>4, Zenon
    <3> QED BY <1>3, <3>1, <3>2, <3>3, <3>5
  <2> QED BY <2>6, <2>7
<1> QED BY <1>2, <1>3

\* While the ring buffer is right, a packet that was not seen was not marked for
\* as many marks as the table has entries.
LEMMA Forgotten ==
  ASSUME TypeInv, RingInv, NEW n \in Node, NEW p \in Payload, ~wasSeen(tables[n], p)
  PROVE  since[n][p] = TableSize
<1> USE SizeAssumption
<1>1. /\ tables[n].next_idx \in 0..TableSize - 1 /\ since[n][p] \in 0..TableSize
    BY DEF TypeInv, NodesInv, Table
<1>2. ASSUME since[n][p] < TableSize PROVE FALSE
  <2>1. Entry(tables[n], since[n][p]) \in 0..TableSize - 1
      BY <1>1, <1>2 DEF Entry
  <2>2. tables[n].hashes[Entry(tables[n], since[n][p])] = p
      BY <1>2, Zenon DEF RingInv
  <2> QED BY <2>1, <2>2, Zenon DEF wasSeen
<1> QED BY <1>1, <1>2

LEMMA RingStep == ASSUME TypeInv, RingInv, [Next]_vars PROVE RingInv'
<1>1. CASE UNCHANGED <<tables, since>>
    BY <1>1, Zenon DEF RingInv, Entry
<1>2. ASSUME NEW n \in Node, NEW p \in Payload, Mark(n, p) PROVE RingInv'
    BY <1>2, MarkRing DEF TypeInv
<1>3. ASSUME NEW n \in Node, onRecvPacket(n) PROVE \E p \in Payload : Mark(n, p)
  <2>1. PICK old \in arriving[n] : Mark(n, old.payload)
      BY <1>3, Zenon DEF onRecvPacket
  <2>2. old.payload \in Payload
      BY PacketParts DEF TypeInv, PacketsInv, Held
  <2> QED BY <2>1, <2>2
<1>4. ASSUME NEW n \in Node, Transmit(n) \/ DropSeen(n) PROVE UNCHANGED <<tables, since>>
    BY <1>4, Zenon DEF Transmit, DropSeen
<1>5. ASSUME NEW n \in Node, NEW p \in Payload, NEW size \in 1..3, sendFlood(n, p, size) PROVE Mark(n, p)
    BY <1>5 DEF sendFlood
<1>6. UNCHANGED vars => UNCHANGED <<tables, since>>
    BY DEF vars
<1> QED BY <1>1, <1>2, <1>3, <1>4, <1>5, <1>6, Zenon DEF Next, loop

\* What a mark leaves unmarked.
LEMMA MarkOthers ==
  ASSUME NodesInv, NEW n \in Node, NEW p \in Payload, Mark(n, p),
         NEW m \in Node, NEW q \in Payload, q # p, since[m][q] = TableSize
  PROVE  since'[m][q] = TableSize
  BY Zenon DEF Mark, NodesInv

LEMMA UnsentStep == ASSUME DistinctPayloads, TypeInv, UnsentInv, [Next]_vars PROVE UnsentInv'
<1> SUFFICES ASSUME NEW t \in Traffic \ originated', NEW n \in Node
             PROVE  /\ since'[n][t[2]] = TableSize
                    /\ \A pkt : pkt \in send_queue'[n] \/ pkt \in arriving'[n] => pkt.payload # t[2]
    BY Zenon DEF UnsentInv, Held
<1>1. t \in Traffic /\ t[2] \in Payload
    BY FloodAssumption
<1>2. t \notin originated /\ originated \subseteq originated'
  <2>1. originated \subseteq originated'
      BY Zenon DEF Next, loop, vars, Transmit, DropSeen, onRecvPacket, sendFlood
  <2> QED BY <2>1
<1>3. /\ \A m \in Node : since[m][t[2]] = TableSize
      /\ \A m \in Node : \A pkt : pkt \in send_queue[m] \/ pkt \in arriving[m] => pkt.payload # t[2]
    BY <1>1, <1>2, Zenon DEF UnsentInv, Held
<1>4. \A m \in Node, p \in Payload, size \in 1..3 : sendFlood(m, p, size) => p # t[2]
  <2> SUFFICES ASSUME NEW m \in Node, NEW p \in Payload, NEW size \in 1..3, sendFlood(m, p, size), p = t[2]
               PROVE  FALSE
      OBVIOUS
  <2>1. <<m, p, size>> \in Traffic /\ <<m, p, size>> \in originated'
      BY DEF sendFlood
  <2>2. <<m, p, size>> = t
      BY <1>1, <2>1 DEF DistinctPayloads
  <2> QED BY <2>1, <2>2
<1>5. since'[n][t[2]] = TableSize
  <2>1. CASE UNCHANGED since
      BY <1>3, <2>1
  <2>2. ASSUME NEW m \in Node, NEW p \in Payload, Mark(m, p), p # t[2] PROVE since'[n][t[2]] = TableSize
      BY <1>1, <1>3, <2>2, MarkOthers DEF TypeInv
  <2>3. ASSUME NEW m \in Node, onRecvPacket(m) PROVE \E p \in Payload : Mark(m, p) /\ p # t[2]
    <3>1. PICK old \in arriving[m] : Mark(m, old.payload)
        BY <2>3, Zenon DEF onRecvPacket
    <3>2. old.payload \in Payload /\ old.payload # t[2]
      <4>1. old \in Packet
          BY DEF TypeInv, PacketsInv, Held
      <4> QED BY <1>3, <4>1, PacketParts
    <3> QED BY <3>1, <3>2
  <2>4. ASSUME NEW m \in Node, NEW p \in Payload, NEW size \in 1..3, sendFlood(m, p, size)
        PROVE  Mark(m, p) /\ p # t[2]
      BY <1>4, <2>4 DEF sendFlood
  <2>5. \A m \in Node : Transmit(m) \/ DropSeen(m) => UNCHANGED since
      BY Zenon DEF Transmit, DropSeen
  <2>6. UNCHANGED vars => UNCHANGED since
      BY DEF vars
  <2> QED BY <2>1, <2>2, <2>3, <2>4, <2>5, <2>6, Zenon DEF Next, loop
<1>6. ASSUME NEW pkt, pkt \in send_queue'[n] PROVE pkt.payload # t[2]
  <2>1. \/ pkt \in send_queue[n]
        \/ \E p \in Payload, size \in 1..3 : pkt = Fresh(p, size) /\ sendFlood(n, p, size)
        \/ \E old \in arriving[n] : pkt \in routeRecvPacket(n, old)
      BY <1>6, HeldStep, Zenon DEF TypeInv
  <2>2. ASSUME NEW p \in Payload, NEW size \in 1..3, pkt = Fresh(p, size), sendFlood(n, p, size)
        PROVE  pkt.payload # t[2]
      BY <1>4, <2>2 DEF Fresh
  <2>3. ASSUME NEW old \in arriving[n], pkt \in routeRecvPacket(n, old) PROVE pkt.payload # t[2]
    <3>1. old \in Packet
        BY DEF TypeInv, PacketsInv, Held
    <3> QED BY <1>3, <2>3, <3>1, Forwarded
  <2> QED BY <1>3, <2>1, <2>2, <2>3
<1>7. ASSUME NEW pkt, pkt \in arriving'[n] PROVE pkt.payload # t[2]
  <2>1. pkt \in arriving[n] \/ \E s \in Node : pkt \in send_queue[s]
      BY <1>7, HeldStep, Zenon DEF TypeInv
  <2> QED BY <1>3, <2>1
<1> QED BY <1>5, <1>6, <1>7

EchoInv == TypeInv /\ RingInv /\ UnsentInv

\* What is added to a queue was not marked lately.
LEMMA NothingEchoed ==
  ASSUME EchoInv, [Next]_vars, NEW n \in Node, NEW pkt \in send_queue'[n] \ send_queue[n]
  PROVE  since[n][pkt.payload] = TableSize
<1>1. \/ \E p \in Payload, size \in 1..3 : <<n, p, size>> \in Traffic \ originated /\ pkt = Fresh(p, size)
      \/ \E old \in arriving[n] : ~wasSeen(tables[n], old.payload) /\ pkt \in routeRecvPacket(n, old)
    BY HeldStep, Zenon DEF EchoInv, TypeInv
<1>2. ASSUME NEW p \in Payload, NEW size \in 1..3, <<n, p, size>> \in Traffic \ originated, pkt = Fresh(p, size)
      PROVE  since[n][pkt.payload] = TableSize
  <2>1. pkt.payload = <<n, p, size>>[2]
      BY <1>2 DEF Fresh
  <2>2. since[n][<<n, p, size>>[2]] = TableSize
      BY <1>2, Zenon DEF EchoInv, UnsentInv
  <2> QED BY <2>1, <2>2
<1>3. ASSUME NEW old \in arriving[n], ~wasSeen(tables[n], old.payload), pkt \in routeRecvPacket(n, old)
      PROVE  since[n][pkt.payload] = TableSize
  <2>1. old \in Packet
      BY DEF EchoInv, TypeInv, PacketsInv, Held
  <2>2. pkt.payload = old.payload /\ old.payload \in Payload
      BY <1>3, <2>1, Forwarded, PacketParts
  <2> QED BY <1>3, <2>2, Forgotten DEF EchoInv
<1> QED BY <1>1, <1>2, <1>3

\* A node sends nothing on that is among the last TableSize packets it marked,
\* its own included.
THEOREM NeverEchoes == ASSUME DistinctPayloads PROVE Spec => NoEcho
<1>1. Init => EchoInv
  <2> SUFFICES ASSUME Init PROVE EchoInv
      OBVIOUS
  <2>1. \A n \in Node, p \in Payload : since[n][p] = TableSize
      BY DEF Init
  <2>2. RingInv
      BY <2>1, SizeAssumption DEF RingInv
  <2>3. \A t \in Traffic : t[2] \in Payload
      BY FloodAssumption
  <2>4. UnsentInv
      BY <2>1, <2>3, Zenon DEF Init, UnsentInv, Held
  <2> QED BY <2>2, <2>4, InitType DEF EchoInv
<1>2. EchoInv /\ [Next]_vars => EchoInv'
    BY TypeStep, RingStep, UnsentStep DEF EchoInv
<1>3. EchoInv /\ [Next]_vars =>
        [\A n \in Node : \A pkt \in send_queue'[n] \ send_queue[n] : since[n][pkt.payload] = TableSize]_vars
    BY NothingEchoed
<1> QED BY <1>1, <1>2, <1>3, PTL DEF Spec, NoEcho
=============================================================================
