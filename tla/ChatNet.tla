------------------------------ MODULE ChatNet ------------------------------
(***************************************************************************)
(* Text messages between companions (MeshCore/src/helpers/BaseChatMesh.cpp *)
(* and MeshCore/examples/companion_radio/MyMesh.cpp) over a network of     *)
(* repeaters: the first message goes by flood, its reply carries the path  *)
(* back together with the ACK, and from then on messages and ACKs go       *)
(* directly, along that path (MeshCore/src/Mesh.cpp).                      *)
(*                                                                         *)
(* As in FloodNet the Dispatcher is abstracted to sets, so packets may be  *)
(* sent and handled in any order. Up to MaxLoss receptions are lost. A     *)
(* payload stands for its packet hash, its encryption is left out: only    *)
(* the addressee can read it. Identical packets in a queue are one. No     *)
(* payload is forgotten: a table holds 160, many more than a run makes.    *)
(***************************************************************************)
EXTENDS Mesh

LOCAL Seqs == INSTANCE SequencesExt

CONSTANTS
  Message, Sender, Recipient,  \* Sender, Recipient: Message -> Node
  AttemptValues, \* 4: the attempt has two bits in what the ACK is computed from
  AckTableSize,  \* EXPECTED_ACK_TABLE_SIZE
  HashSize,      \* path_hash_mode + 1
  ExtraAcks,     \* Node -> getExtraAckTransmitCount()
  MaxAttempts,   \* bound: Message -> how often it is sent
  MaxLoss        \* bound: how many receptions are lost

ChatNode == {Sender[m] : m \in Message} \union {Recipient[m] : m \in Message}

\* The hashes that acknowledge attempts.
Acks == [msg : Message, attempt : 0..AttemptValues - 1]

ASSUME ChatAssumption ==
  /\ Sender \in [Message -> Node] /\ Recipient \in [Message -> Node]
  /\ \A m \in Message : Sender[m] # Recipient[m]
  /\ ChatNode \intersect Repeater = {}      \* setRepeatEn(false)
  /\ AttemptValues \in Nat \ {0} /\ AckTableSize \in Nat \ {0} /\ HashSize \in 1..3
  /\ ExtraAcks \in [Node -> Nat] /\ MaxAttempts \in [Message -> Nat] /\ MaxLoss \in Nat
  /\ Nothing \notin Acks

VARIABLES
  seen,          \* payloads marked in the node's table of seen packets
  send_queue, arriving,          \* as in FloodNet
  out_path,      \* the route a node knows to a contact, or Nothing
  expected_ack, next_ack_idx,    \* the companion's expected_ack_table
  created,       \* payloads that a node has made unique by a random part
  lost,          \* receptions lost so far
  attempts, delivered, confirmed \* as in Mailbox

mailbox == <<attempts, delivered, confirmed>>
contacts == <<out_path, expected_ack, next_ack_idx, created>>
vars == <<seen, send_queue, arriving, contacts, lost, mailbox>>

Init ==
  /\ seen = [n \in Node |-> {}]
  /\ send_queue = [n \in Node |-> {}]
  /\ arriving = [n \in Node |-> {}]
  /\ out_path = [n \in ChatNode |-> [c \in ChatNode |-> Nothing]]
  /\ expected_ack = [n \in ChatNode |-> [i \in 0..AckTableSize - 1 |-> Nothing]]
  /\ next_ack_idx = [n \in ChatNode |-> 0]
  /\ created = [n \in ChatNode |-> 0]
  /\ lost = 0
  /\ attempts = [m \in Message |-> 0]
  /\ delivered = [m \in Message |-> 0]
  /\ confirmed = [m \in Message |-> 0]

-----------------------------------------------------------------------------
(***************************************************************************)
(* Payloads and packets.                                                   *)
(***************************************************************************)

\* The hash that acknowledges an attempt.
ackHash(m, attempt) == [msg |-> m, attempt |-> attempt % AttemptValues]

\* Slip: the attempt is not part of the message.
composeMsgSame(m, attempt) == [type |-> "TXT_MSG", msg |-> m, attempt |-> 0]

composeMsgPacket(m, attempt) == [type |-> "TXT_MSG", msg |-> m, attempt |-> attempt]

createAck(ack, unique) == [type |-> "ACK", ack |-> ack, unique |-> unique]

createMultiAck(ack, unique, remaining) ==
  [type |-> "MULTIPART", ack |-> ack, unique |-> unique, remaining |-> remaining]

\* Slip: the route in the order of the way back.
createPathBack(from, to, route, ack, unique) ==
  [type |-> "PATH", from |-> from, to |-> to, ack |-> ack, unique |-> unique,
   route |-> [route EXCEPT !.path = Seqs!Reverse(@)]]

\* route tells the addressee how to get to the node that makes it; ack is an
\* extra that it may carry.
createPathReturn(from, to, route, ack, unique) ==
  [type |-> "PATH", from |-> from, to |-> to, route |-> route, ack |-> ack, unique |-> unique]

\* The random part of the next payload a node makes.
Unique(n) == <<n, created[n]>>

\* What is looked up in the table: for a multipart ACK the packet inside.
SeenAs(p) == IF p.type = "MULTIPART" THEN [type |-> p.type, ack |-> p.ack, unique |-> p.unique] ELSE p

Addressee(p) == IF p.type = "TXT_MSG" THEN Recipient[p.msg] ELSE p.to

flooded(p) == [payload |-> p, flood |-> TRUE, size |-> HashSize, path |-> <<>>, hops |-> <<>>]

direct(p, route) ==
  [payload |-> p, flood |-> FALSE, size |-> route.size, path |-> route.path, hops |-> <<>>]

RouteOf(pkt) == [size |-> pkt.size, path |-> pkt.path]

\* A message or reply goes by the route to the contact if there is one.
addressed(n, contact, p) ==
  IF out_path[n][contact] = Nothing THEN flooded(p) ELSE direct(p, out_path[n][contact])

sendAckTo(n, contact, ack, unique) ==
  LET plain == addressed(n, contact, createAck(ack, unique))
  IN IF plain.flood \/ ExtraAcks[n] = 0 THEN {plain}
     ELSE {direct(createMultiAck(ack, unique, 1), out_path[n][contact]), plain}

-----------------------------------------------------------------------------
(***************************************************************************)
(* The steps of a node.                                                    *)
(***************************************************************************)

\* pkt is handled: marked is what the node marks of it, made the packets it makes,
\* which sendFlood() and sendDirect() mark, and forwarded those it passes on.
Handled(n, pkt, marked, made, forwarded) ==
  /\ arriving' = [arriving EXCEPT ![n] = @ \ {pkt}]
  /\ seen' = [seen EXCEPT ![n] = @ \union marked \union {p.payload : p \in made}]
  /\ send_queue' = [send_queue EXCEPT ![n] = @ \union made \union forwarded]
  /\ UNCHANGED <<lost, attempts>>

\* The table's next entry; in a slip it does not wrap.
nextEntryUnwrapped(i) == i + 1
nextEntry(i) == (i + 1) % AckTableSize

\* The entries of the table that an ACK matches; a repeater has no table.
Expecting(n, ack) ==
  IF n \in ChatNode THEN {i \in 0..AckTableSize - 1 : expected_ack[n][i] = ack} ELSE {}

\* The first entry is cleared and the application is told. In a slip it is not
\* cleared.
processAckKept(n, ack) ==
  IF Expecting(n, ack) = {} THEN UNCHANGED <<expected_ack, confirmed>>
  ELSE /\ confirmed' = [confirmed EXCEPT ![ack.msg] = @ + 1]
       /\ UNCHANGED expected_ack

processAck(n, ack) ==
  IF Expecting(n, ack) = {} THEN UNCHANGED <<expected_ack, confirmed>>
  ELSE \E i \in Expecting(n, ack) :
         /\ \A j \in Expecting(n, ack) : i <= j
         /\ expected_ack' = [expected_ack EXCEPT ![n][i] = Nothing]
         /\ confirmed' = [confirmed EXCEPT ![ack.msg] = @ + 1]

\* The application sends a message, or sends it again.
sendMessage(m) ==
  LET n == Sender[m]
      p == composeMsgPacket(m, attempts[m])
      pkt == addressed(n, Recipient[m], p)
  IN /\ attempts[m] < MaxAttempts[m]
     /\ attempts' = [attempts EXCEPT ![m] = @ + 1]
     /\ seen' = [seen EXCEPT ![n] = @ \union {p}]
     /\ send_queue' = [send_queue EXCEPT ![n] = @ \union {pkt}]
     /\ expected_ack' = [expected_ack EXCEPT ![n][next_ack_idx[n]] = ackHash(m, attempts[m])]
     /\ next_ack_idx' = [next_ack_idx EXCEPT ![n] = nextEntry(@)]
     /\ UNCHANGED <<arriving, out_path, created, lost, delivered, confirmed>>

\* CMD_RESET_PATH: the application gives up a route.
resetPath(n) ==
  \E c \in ChatNode :
    /\ out_path[n][c] # Nothing
    /\ out_path' = [out_path EXCEPT ![n][c] = Nothing]
    /\ UNCHANGED <<seen, send_queue, arriving, expected_ack, next_ack_idx, created, lost, mailbox>>

\* onRecvPacket() of a direct packet that has hops to go.
Underway(pkt) == ~pkt.flood /\ pkt.path # <<>>

Seen(n, pkt) == SeenAs(pkt.payload) \in seen[n]

removeSelfFromPath(n, pkt) == [pkt EXCEPT !.path = Tail(@), !.hops = Append(@, n)]

\* ACKs are made anew at each hop, with as many multipart ACKs as the node adds.
routeDirectRecvAcks(n, pkt) ==
  LET again(p) == [removeSelfFromPath(n, pkt) EXCEPT !.payload = p]
      ack == pkt.payload.ack
      unique == pkt.payload.unique
  IN {again(createAck(ack, unique))} \union
     {again(createMultiAck(ack, unique, extra)) : extra \in 1..ExtraAcks[n]}

\* The next hop is a node with the hash at the head of the path that has not passed
\* the packet on already.
isNextHop(n, pkt) == n \in Repeater /\ Head(pkt.path) = hashOf(n, pkt.size) /\ ~Seen(n, pkt)

\* The Dispatcher sends a queued packet. It is lost by up to MaxLoss of the nodes
\* in range; those it makes no difference to need not be told apart.
MattersTo(n, pkt) ==
  IF Underway(pkt) THEN isNextHop(n, pkt) \/ (pkt.payload.type = "ACK" /\ n \in ChatNode)
  ELSE ~Seen(n, pkt)

Transmit(n) ==
  \E pkt \in send_queue[n] :
    LET inReach == {r \in inRange(n) : MattersTo(r, pkt)}
    IN \E heard \in SUBSET inReach :
         /\ lost' = lost + Cardinality(inReach \ heard)
         /\ lost' <= MaxLoss
         /\ send_queue' = [send_queue EXCEPT ![n] = @ \ {pkt}]
         /\ arriving' = [r \in Node |-> IF r \in heard THEN arriving[r] \union {pkt} ELSE arriving[r]]
         /\ UNCHANGED <<seen, contacts, mailbox>>

forwardDirect(n, pkt) ==
  /\ Underway(pkt) /\ isNextHop(n, pkt)
  /\ Handled(n, pkt, {SeenAs(pkt.payload)}, {},
       IF pkt.payload.type \in {"ACK", "MULTIPART"} THEN routeDirectRecvAcks(n, pkt)
       ELSE {removeSelfFromPath(n, pkt)})
  /\ UNCHANGED <<contacts, delivered, confirmed>>

\* Any other node that overhears the packet drops it, after a look at an ACK.
overhearDirect(n, pkt) ==
  /\ Underway(pkt) /\ ~isNextHop(n, pkt)
  /\ Handled(n, pkt, {}, {}, {})
  /\ IF pkt.payload.type = "ACK" THEN processAck(n, pkt.payload.ack)
     ELSE UNCHANGED <<expected_ack, confirmed>>
  /\ UNCHANGED <<out_path, next_ack_idx, created, delivered>>

\* onRecvPacket() of a flood, or of a direct packet after its last hop.
DropSeen(n, pkt) ==
  /\ ~Underway(pkt) /\ Seen(n, pkt)
  /\ Handled(n, pkt, {}, {}, {})
  /\ UNCHANGED <<contacts, delivered, confirmed>>

Arrives(n, pkt, type) == ~Underway(pkt) /\ ~Seen(n, pkt) /\ pkt.payload.type = type

routed(n, pkt) == IF pkt.flood THEN routeRecvPacket(n, pkt) ELSE {}

\* A message or path for another node.
routeAddressed(n, pkt) ==
  /\ \E type \in {"TXT_MSG", "PATH"} : Arrives(n, pkt, type)
  /\ Addressee(pkt.payload) # n
  /\ Handled(n, pkt, {pkt.payload}, {}, routed(n, pkt))
  /\ UNCHANGED <<contacts, delivered, confirmed>>

\* A message is given to the application and acknowledged: one that came by
\* flood together with the path that it took.
onPeerDataRecv(n, pkt) ==
  LET m == pkt.payload.msg
      ack == ackHash(m, pkt.payload.attempt)
      path == createPathReturn(n, Sender[m], RouteOf(pkt), ack, Unique(n))
  IN /\ Arrives(n, pkt, "TXT_MSG") /\ Recipient[m] = n
     /\ delivered' = [delivered EXCEPT ![m] = @ + 1]
     /\ Handled(n, pkt, {pkt.payload},
          IF pkt.flood THEN {flooded(path)} ELSE sendAckTo(n, Sender[m], ack, Unique(n)), {})
     /\ created' = [created EXCEPT ![n] = @ + 1]
     /\ UNCHANGED <<out_path, expected_ack, next_ack_idx, confirmed>>

\* A path replaces the one known, and is answered, if it came by flood, with the
\* path that it took.
onPeerPathRecv(n, pkt) ==
  LET p == pkt.payload
      back == createPathReturn(n, p.from, RouteOf(pkt), Nothing, Unique(n))
  IN /\ Arrives(n, pkt, "PATH") /\ p.to = n
     /\ out_path' = [out_path EXCEPT ![n][p.from] = p.route]
     /\ IF p.ack = Nothing THEN UNCHANGED <<expected_ack, confirmed>> ELSE processAck(n, p.ack)
     /\ Handled(n, pkt, {p}, IF pkt.flood THEN {direct(back, p.route)} ELSE {}, {})
     /\ created' = [created EXCEPT ![n] = IF pkt.flood THEN @ + 1 ELSE @]
     /\ UNCHANGED <<next_ack_idx, delivered>>

\* An ACK that is not expected here is sent on. (The path is not sent again to a
\* node that still floods its ACKs: markDoNotRetransmit() comes first, and it
\* overwrites the route type.)
onAckRecv(n, pkt) ==
  /\ Arrives(n, pkt, "ACK")
  /\ processAck(n, pkt.payload.ack)
  /\ Handled(n, pkt, {pkt.payload}, {},
       IF Expecting(n, pkt.payload.ack) = {} THEN routed(n, pkt) ELSE {})
  /\ UNCHANGED <<out_path, next_ack_idx, created, delivered>>

onMultipartRecv(n, pkt) ==
  /\ Arrives(n, pkt, "MULTIPART")
  /\ processAck(n, pkt.payload.ack)
  /\ Handled(n, pkt, {SeenAs(pkt.payload)}, {}, {})
  /\ UNCHANGED <<out_path, next_ack_idx, created, delivered>>

onRecvPacket(n) ==
  \E pkt \in arriving[n] :
    \/ forwardDirect(n, pkt) \/ overhearDirect(n, pkt)
    \/ DropSeen(n, pkt) \/ routeAddressed(n, pkt)
    \/ onPeerDataRecv(n, pkt) \/ onPeerPathRecv(n, pkt)
    \/ onAckRecv(n, pkt) \/ onMultipartRecv(n, pkt)

loop(n) == Transmit(n) \/ onRecvPacket(n)

Next ==
  \/ \E n \in Node : loop(n)
  \/ \E m \in Message : sendMessage(m)
  \/ \E n \in ChatNode : resetPath(n)

\* Every node's loop() runs for ever.
Spec == Init /\ [][Next]_vars /\ \A n \in Node : WF_vars(loop(n))

-----------------------------------------------------------------------------
(***************************************************************************)
(* Properties.                                                             *)
(***************************************************************************)

Routes == [size : 1..3, path : Seq(Hash)]

TypeOK ==
  /\ seen \in [Node -> SUBSET Payload]
  /\ \A n \in Node : \A pkt \in send_queue[n] \union arriving[n] :
       /\ SeenAs(pkt.payload) \in Payload
       /\ pkt.flood \in BOOLEAN
       /\ RouteOf(pkt) \in Routes
  /\ out_path \in [ChatNode -> [ChatNode -> Routes \union {Nothing}]]
  /\ expected_ack \in [ChatNode -> [0..AckTableSize - 1 -> Acks \union {Nothing}]]
  /\ next_ack_idx \in [ChatNode -> 0..AckTableSize - 1]
  /\ created \in [ChatNode -> Nat]
  /\ lost \in 0..MaxLoss

\* What the applications see is what a Mailbox promises: no attempt is delivered
\* twice, whichever ways its copies come, and an ACK confirms only a message that
\* was delivered, once per attempt however many copies of the ACK arrive.
MailboxSpec == INSTANCE Mailbox
Implements == MailboxSpec!Spec

\* Some repeaters with the hashes of the path lead from the node to the contact.
Leads(n, route, c) ==
  \E hops \in [DOMAIN route.path -> Repeater] :
    /\ \A i \in DOMAIN hops : hashOf(hops[i], route.size) = route.path[i]
    /\ \A i \in 0..Len(route.path) :
         <<IF i = 0 THEN n ELSE hops[i], IF i = Len(route.path) THEN c ELSE hops[i + 1]>> \in Links

\* Every path a node ever holds to a contact leads there, whatever order the
\* paths came in and however the floods that found them crossed, and so does
\* what is left of it in a direct packet on its way.
RoutesLead ==
  /\ \A n, c \in ChatNode : out_path[n][c] # Nothing => Leads(n, out_path[n][c], c)
  /\ \A n \in Node : \A pkt \in send_queue[n] :
       ~pkt.flood /\ pkt.payload.type \in {"TXT_MSG", "PATH"} =>
         Leads(n, RouteOf(pkt), Addressee(pkt.payload))

\* A message sent again more often than packets are lost is confirmed: a loss
\* costs one attempt and no other, although a direct packet that is lost has
\* marked the nodes it passed.
RetriesGetThrough == \A m \in Message : attempts[m] > MaxLoss ~> confirmed[m] > 0
=============================================================================
