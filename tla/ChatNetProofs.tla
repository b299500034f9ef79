--------------------------- MODULE ChatNetProofs ---------------------------
(***************************************************************************)
(* Theorem about module ChatNet: it implements Mailbox, for every network, *)
(* every number of messages, attempts and losses, and every order in which *)
(* packets are sent and handled.                                           *)
(***************************************************************************)
EXTENDS ChatNet, FiniteSetTheorems, TLAPS

TableIndex == 0..AckTableSize - 1

Held(n) == send_queue[n] \union arriving[n]

\* What a payload that is under way says of the applications: a message was
\* sent, and an ACK, also one inside a path return, is of a delivered message.
Truthful(p, sent, got) ==
  /\ p.type = "TXT_MSG" =>
       /\ p.msg \in Message /\ p.attempt \in 0..sent[p.msg] - 1
       /\ p = composeMsgPacket(p.msg, p.attempt)
  /\ p.type \in {"ACK", "MULTIPART"} => p.ack \in Acks /\ got[p.ack.msg] > 0
  /\ p.type = "PATH" /\ p.ack # Nothing => p.ack \in Acks /\ got[p.ack.msg] > 0

Sound(pkt, sent, got) == "payload" \in DOMAIN pkt /\ Truthful(pkt.payload, sent, got)

\* The attempts that the recipient has marked seen: those given to its application.
Got(m) == {k \in Nat : composeMsgPacket(m, k) \in seen[Recipient[m]]}

\* The entries of the sender's table that wait for an ACK of the message.
Waiting(m) == {i \in TableIndex : expected_ack[Sender[m]][i] \in Acks
                                  /\ expected_ack[Sender[m]][i].msg = m}

TypeInv ==
  /\ seen = [n \in Node |-> seen[n]]
  /\ send_queue = [n \in Node |-> send_queue[n]]
  /\ arriving = [n \in Node |-> arriving[n]]
  /\ expected_ack \in [ChatNode -> [TableIndex -> Acks \union {Nothing}]]
  /\ next_ack_idx \in [ChatNode -> TableIndex]
  /\ attempts \in [Message -> Nat]
  /\ delivered \in [Message -> Nat]
  /\ confirmed \in [Message -> Nat]

HeldInv == \A n \in Node : \A pkt \in Held(n) : Sound(pkt, attempts, delivered)

GotInv == \A m \in Message : /\ Got(m) \subseteq 0..attempts[m] - 1
                             /\ delivered[m] = Cardinality(Got(m))

EntryInv == \A n \in ChatNode, i \in TableIndex :
              expected_ack[n][i] \in Acks => Sender[expected_ack[n][i].msg] = n

\* Every attempt has at most one entry to be confirmed by, and loses it then.
WaitingInv == \A m \in Message : confirmed[m] + Cardinality(Waiting(m)) <= attempts[m]

IInv == TypeInv /\ HeldInv /\ GotInv /\ EntryInv /\ WaitingInv

-----------------------------------------------------------------------------
(***************************************************************************)
(* Lemmas.                                                                 *)
(***************************************************************************)

\* The table of expected ACKs is finite, and a part of it is too.
LEMMA WaitingFinite ==
  \A S : S \subseteq TableIndex => IsFiniteSet(S) /\ Cardinality(S) \in Nat
<1>1. AckTableSize - 1 \in Int
  BY ChatAssumption
<1>2. IsFiniteSet(TableIndex)
  BY <1>1, FS_Interval DEF TableIndex
<1> QED
  BY <1>2, FS_Subset, FS_CardinalityType

\* A set grows by at most one when an element is added.
LEMMA OneMore ==
  ASSUME NEW S, NEW x, IsFiniteSet(S)
  PROVE  /\ IsFiniteSet(S \union {x})
         /\ Cardinality(S \union {x}) \in Nat /\ Cardinality(S) \in Nat
         /\ Cardinality(S \union {x}) <= Cardinality(S) + 1
<1>1. /\ IsFiniteSet(S \union {x})
      /\ Cardinality(S \union {x}) = IF x \in S THEN Cardinality(S) ELSE Cardinality(S) + 1
  BY FS_AddElement
<1>2. Cardinality(S) \in Nat
  BY FS_CardinalityType
<1> QED
  BY <1>1, <1>2

\* As many attempts as were made.
LEMMA AttemptsFinite ==
  ASSUME NEW k \in Nat
  PROVE  IsFiniteSet(0..k - 1) /\ Cardinality(0..k - 1) = k
<1>1. 0 \in Int /\ k - 1 \in Int
  OBVIOUS
<1>2. /\ IsFiniteSet(0..k - 1)
      /\ Cardinality(0..k - 1) = IF 0 > k - 1 THEN 0 ELSE (k - 1) - 0 + 1
  BY <1>1, FS_Interval
<1>3. (IF 0 > k - 1 THEN 0 ELSE (k - 1) - 0 + 1) = k
  OBVIOUS
<1> QED
  BY <1>2, <1>3

\* Senders and recipients are companions, and companions are not repeaters.
LEMMA Companions ==
  /\ \A m \in Message : /\ Sender[m] \in ChatNode /\ Recipient[m] \in ChatNode
                        /\ Sender[m] \in Node /\ Recipient[m] \in Node
                        /\ Sender[m] # Recipient[m]
  /\ ChatNode \intersect Repeater = {}
  /\ AckTableSize \in Nat \ {0} /\ AttemptValues \in Nat \ {0}
  /\ Nothing \notin Acks
  BY ChatAssumption DEF ChatNode

\* The hash of an attempt is one of the message's.
LEMMA AckHashOfMessage ==
  ASSUME NEW m \in Message, NEW attempt \in Nat
  PROVE  ackHash(m, attempt) \in Acks /\ ackHash(m, attempt).msg = m
<1>1. attempt % AttemptValues \in 0..AttemptValues - 1
  BY ChatAssumption
<1> QED
  BY <1>1 DEF ackHash, Acks

\* What is said of a payload stays true when more is sent and delivered.
LEMMA SoundStays ==
  ASSUME attempts \in [Message -> Nat], delivered \in [Message -> Nat],
         attempts' \in [Message -> Nat], delivered' \in [Message -> Nat],
         \A m \in Message : attempts'[m] >= attempts[m] /\ delivered'[m] >= delivered[m],
         NEW pkt, Sound(pkt, attempts, delivered)
  PROVE  Sound(pkt, attempts', delivered')
<1> DEFINE p == pkt.payload
<1>1. Truthful(p, attempts, delivered)
  BY DEF Sound
<1>2. ASSUME p.type = "TXT_MSG"
      PROVE  /\ p.msg \in Message /\ p.attempt \in 0..attempts'[p.msg] - 1
             /\ p = composeMsgPacket(p.msg, p.attempt)
  BY <1>1, <1>2 DEF Truthful
<1>3. \A ack \in Acks : delivered[ack.msg] > 0 => delivered'[ack.msg] > 0
  BY DEF Acks
<1> QED
  BY <1>1, <1>2, <1>3 DEF Sound, Truthful

\* A step that keeps the queues but for packets of which the same can be said.
LEMMA HeldStays ==
  ASSUME HeldInv,
         attempts \in [Message -> Nat], delivered \in [Message -> Nat],
         attempts' \in [Message -> Nat], delivered' \in [Message -> Nat],
         \A m \in Message : attempts'[m] >= attempts[m] /\ delivered'[m] >= delivered[m],
         \A n \in Node : \A pkt \in Held(n)' :
           \/ \E k \in Node : pkt \in Held(k)
           \/ Sound(pkt, attempts', delivered')
  PROVE  HeldInv'
<1> SUFFICES ASSUME NEW n \in Node, NEW pkt \in Held(n)'
             PROVE  Sound(pkt, attempts', delivered')
  BY DEF HeldInv
<1>1. CASE Sound(pkt, attempts', delivered')
  BY <1>1
<1>2. ASSUME NEW k \in Node, pkt \in Held(k)
      PROVE  Sound(pkt, attempts', delivered')
  <2>1. Sound(pkt, attempts, delivered)
    BY <1>2 DEF HeldInv
  <2> QED
    BY <2>1, SoundStays
<1> QED
  BY <1>1, <1>2

\* A node sends a packet on with its payload.
LEMMA RoutedPayload ==
  ASSUME NEW n, NEW pkt, "payload" \in DOMAIN pkt, NEW f \in routed(n, pkt)
  PROVE  "payload" \in DOMAIN f /\ f.payload = pkt.payload
  BY DEF routed, routeRecvPacket, withSelf, withPath

\* The packets that stand for an ACK say the same as what they stand for.
LEMMA AckSound ==
  ASSUME NEW sent, NEW got, NEW ack \in Acks, got[ack.msg] > 0, NEW unique
  PROVE  /\ Truthful(createAck(ack, unique), sent, got)
         /\ \A remaining : Truthful(createMultiAck(ack, unique, remaining), sent, got)
         /\ \A from, to, route : Truthful(createPathReturn(from, to, route, ack, unique), sent, got)
  BY DEF Truthful, createAck, createMultiAck, createPathReturn

\* An expected ACK confirms its message and clears an entry; any other changes nothing.
LEMMA AckCounted ==
  ASSUME IInv, NEW n \in Node, NEW ack \in Acks, delivered[ack.msg] > 0,
         processAck(n, ack), UNCHANGED attempts
  PROVE  /\ expected_ack' \in [ChatNode -> [TableIndex -> Acks \union {Nothing}]]
         /\ confirmed' \in [Message -> Nat]
         /\ EntryInv' /\ WaitingInv'
         /\ UNCHANGED confirmed \/
              \E m \in Message : /\ delivered[m] > 0 /\ confirmed[m] < attempts[m]
                                 /\ confirmed' = [confirmed EXCEPT ![m] = @ + 1]
<1> USE DEF IInv
<1>1. CASE Expecting(n, ack) = {}
  <2>1. UNCHANGED <<expected_ack, confirmed>>
    BY <1>1 DEF processAck
  <2>2. \A m : Waiting(m)' = Waiting(m)
    BY <2>1 DEF Waiting
  <2> QED
    BY <2>1, <2>2 DEF TypeInv, EntryInv, WaitingInv
<1>2. CASE Expecting(n, ack) # {}
  <2>1. n \in ChatNode
    BY <1>2 DEF Expecting
  <2>2. PICK i \in Expecting(n, ack) :
          /\ expected_ack' = [expected_ack EXCEPT ![n][i] = Nothing]
          /\ confirmed' = [confirmed EXCEPT ![ack.msg] = @ + 1]
    BY <1>2 DEF processAck
  <2>3. i \in TableIndex /\ expected_ack[n][i] = ack
    BY <2>1 DEF Expecting, TableIndex
  <2> DEFINE m == ack.msg
  <2>4. m \in Message /\ Sender[m] = n
    BY <2>1, <2>3 DEF EntryInv, Acks
  <2>5. /\ expected_ack' \in [ChatNode -> [TableIndex -> Acks \union {Nothing}]]
        /\ confirmed' \in [Message -> Nat]
    BY <2>1, <2>2, <2>3, <2>4 DEF TypeInv
  <2>6. \A k \in ChatNode, j \in TableIndex :
          expected_ack'[k][j] = IF k = n /\ j = i THEN Nothing ELSE expected_ack[k][j]
    BY <2>1, <2>2, <2>3 DEF TypeInv
  <2>7. EntryInv'
    BY <2>6, Companions DEF EntryInv
  <2>8. Waiting(m)' = Waiting(m) \ {i} /\ i \in Waiting(m)
    BY <2>1, <2>3, <2>4, <2>6, Companions DEF Waiting
  <2>9. \A x \in Message \ {m} : Waiting(x)' = Waiting(x)
    <3> SUFFICES ASSUME NEW x \in Message \ {m}, NEW j \in TableIndex
                 PROVE  j \in Waiting(x)' <=> j \in Waiting(x)
      BY DEF Waiting
    <3> QED
      BY <2>3, <2>4, <2>6, Companions DEF Waiting
  <2>10. /\ Cardinality(Waiting(m)') = Cardinality(Waiting(m)) - 1
         /\ Cardinality(Waiting(m)) \in Nat /\ Cardinality(Waiting(m)') \in Nat
    <3>1. IsFiniteSet(Waiting(m)) /\ Cardinality(Waiting(m)) \in Nat
      BY WaitingFinite DEF Waiting
    <3>2. Cardinality(Waiting(m) \ {i}) \in Nat
      BY <2>8, WaitingFinite DEF Waiting
    <3> QED
      BY <2>8, <3>1, <3>2, FS_RemoveElement
  <2>11. confirmed[m] < attempts[m] /\ confirmed[m] \in Nat /\ attempts[m] \in Nat
    BY <2>4, <2>10 DEF TypeInv, WaitingInv
  <2>12. WaitingInv'
    <3> SUFFICES ASSUME NEW x \in Message
                 PROVE  confirmed'[x] + Cardinality(Waiting(x)') <= attempts[x]
      BY DEF WaitingInv
    <3>1. CASE x = m
      BY <3>1, <2>2, <2>4, <2>10, <2>11 DEF WaitingInv, TypeInv
    <3>2. CASE x # m
      BY <3>2, <2>2, <2>9 DEF WaitingInv, TypeInv
    <3> QED
      BY <3>1, <3>2
  <2> QED
    BY <2>2, <2>4, <2>5, <2>7, <2>11, <2>12
<1> QED
  BY <1>1, <1>2

\* What handling a packet does to the queues and the tables.
LEMMA HandledEffect ==
  ASSUME TypeInv, NEW n \in Node, NEW pkt, NEW marked, NEW made, NEW forwarded,
         Handled(n, pkt, marked, made, forwarded)
  PROVE  /\ seen' = [k \in Node |-> seen'[k]]
         /\ send_queue' = [k \in Node |-> send_queue'[k]]
         /\ arriving' = [k \in Node |-> arriving'[k]]
         /\ \A k \in Node : seen'[k] = IF k = n THEN seen[n] \union marked \union {p.payload : p \in made}
                                                ELSE seen[k]
         /\ \A k \in Node : Held(k)' \subseteq Held(k) \union made \union forwarded
         /\ UNCHANGED attempts
<1>1. seen' = [seen EXCEPT ![n] = @ \union marked \union {p.payload : p \in made}]
  BY DEF Handled
<1>2. send_queue' = [send_queue EXCEPT ![n] = @ \union made \union forwarded]
  BY DEF Handled
<1>3. arriving' = [arriving EXCEPT ![n] = @ \ {pkt}]
  BY DEF Handled
<1>4. /\ seen' = [k \in Node |-> seen'[k]]
      /\ \A k \in Node : seen'[k] = IF k = n THEN seen[n] \union marked \union {p.payload : p \in made}
                                             ELSE seen[k]
  BY <1>1 DEF TypeInv
<1>5. /\ send_queue' = [k \in Node |-> send_queue'[k]]
      /\ \A k \in Node : send_queue'[k] \subseteq send_queue[k] \union made \union forwarded
  BY <1>2 DEF TypeInv
<1>6. /\ arriving' = [k \in Node |-> arriving'[k]]
      /\ \A k \in Node : arriving'[k] \subseteq arriving[k]
  BY <1>3 DEF TypeInv
<1> QED
  BY <1>4, <1>5, <1>6 DEF Held, Handled

\* A step that marks no message at its recipient and delivers none.
LEMMA GotStays ==
  ASSUME GotInv, UNCHANGED <<attempts, delivered>>,
         \A m \in Message, k \in Nat :
           composeMsgPacket(m, k) \in seen'[Recipient[m]] <=> composeMsgPacket(m, k) \in seen[Recipient[m]]
  PROVE  GotInv'
<1>1. \A m \in Message : Got(m)' = Got(m)
  BY DEF Got
<1> QED
  BY <1>1 DEF GotInv

\* A node handles a packet, delivers nothing, marks nothing that is a message for
\* it, and sends on only what is sound: an ACK it finds in it may confirm.
LEMMA HandledStep ==
  ASSUME IInv, NEW n \in Node, NEW pkt, NEW marked, NEW made, NEW forwarded,
         Handled(n, pkt, marked, made, forwarded),
         UNCHANGED <<next_ack_idx, delivered>>,
         \A f \in made \union forwarded : Sound(f, attempts, delivered),
         \A m \in Message, k \in Nat :
           Recipient[m] = n => composeMsgPacket(m, k) \notin marked \union {p.payload : p \in made},
         \/ UNCHANGED <<expected_ack, confirmed>>
         \/ \E ack \in Acks : delivered[ack.msg] > 0 /\ processAck(n, ack)
  PROVE  /\ IInv'
         /\ UNCHANGED mailbox \/ \E m \in Message : MailboxSpec!Confirm(m)
<1> USE DEF IInv
<1>1. /\ seen' = [k \in Node |-> seen'[k]]
      /\ send_queue' = [k \in Node |-> send_queue'[k]]
      /\ arriving' = [k \in Node |-> arriving'[k]]
      /\ \A k \in Node : seen'[k] = IF k = n THEN seen[n] \union marked \union {p.payload : p \in made}
                                             ELSE seen[k]
      /\ \A k \in Node : Held(k)' \subseteq Held(k) \union made \union forwarded
      /\ UNCHANGED attempts
  BY HandledEffect
<1>2. /\ expected_ack' \in [ChatNode -> [TableIndex -> Acks \union {Nothing}]]
      /\ confirmed' \in [Message -> Nat]
      /\ EntryInv' /\ WaitingInv'
      /\ UNCHANGED confirmed \/ \E m \in Message : MailboxSpec!Confirm(m)
  <2>1. CASE UNCHANGED <<expected_ack, confirmed>>
    <3>1. \A m : Waiting(m)' = Waiting(m)
      BY <2>1 DEF Waiting
    <3> QED
      BY <1>1, <2>1, <3>1 DEF TypeInv, EntryInv, WaitingInv
  <2>2. ASSUME NEW ack \in Acks, delivered[ack.msg] > 0, processAck(n, ack)
        PROVE  <1>2
    BY <1>1, <2>2, AckCounted DEF MailboxSpec!Confirm
  <2> QED
    BY <2>1, <2>2
<1>3. TypeInv'
  BY <1>1, <1>2 DEF TypeInv
<1>4. HeldInv'
  <2>1. \A k \in Node : \A f \in Held(k)' : f \in Held(k) \/ Sound(f, attempts', delivered')
    BY <1>1
  <2>2. \A m \in Message : attempts'[m] >= attempts[m] /\ delivered'[m] >= delivered[m]
    BY <1>1 DEF TypeInv
  <2> QED
    BY <1>3, <2>1, <2>2, HeldStays DEF TypeInv
<1>5. GotInv'
  <2>1. ASSUME NEW m \in Message, NEW k \in Nat
        PROVE  composeMsgPacket(m, k) \in seen'[Recipient[m]]
                 <=> composeMsgPacket(m, k) \in seen[Recipient[m]]
    BY <1>1, Companions
  <2> QED
    BY <1>1, <2>1, GotStays
<1> QED
  BY <1>1, <1>2, <1>3, <1>4, <1>5 DEF mailbox

\* A packet that waits to be handled is sound.
LEMMA ArrivingSound ==
  ASSUME HeldInv, NEW n \in Node, NEW pkt \in arriving[n]
  PROVE  Sound(pkt, attempts, delivered)
  BY DEF HeldInv, Held

\* The packets of other types are not messages.
LEMMA OtherTypes ==
  /\ \A m, k, ack, u : composeMsgPacket(m, k) # createAck(ack, u)
  /\ \A m, k, ack, u, x : composeMsgPacket(m, k) # createMultiAck(ack, u, x)
  /\ \A m, k, from, to, route, ack, u :
       composeMsgPacket(m, k) # createPathReturn(from, to, route, ack, u)
  /\ \A m, k, p : p.type # "TXT_MSG" => composeMsgPacket(m, k) # SeenAs(p)
  BY DEF composeMsgPacket, createAck, createMultiAck, createPathReturn, SeenAs

-----------------------------------------------------------------------------
(***************************************************************************)
(* The steps.                                                              *)
(***************************************************************************)

\* What a step of the network is to the two applications.
AsMailbox == UNCHANGED mailbox \/ MailboxSpec!Next

LEMMA InitInv == Init => IInv
<1> SUFFICES ASSUME Init
             PROVE  IInv
  OBVIOUS
<1>1. TypeInv
  BY Companions DEF Init, TypeInv, TableIndex
<1>2. HeldInv
  BY DEF Init, HeldInv, Held
<1>3. GotInv
  <2>1. \A m \in Message : Got(m) = {}
    BY Companions DEF Init, Got
  <2> QED
    BY <2>1, FS_EmptySet DEF Init, GotInv
<1>4. EntryInv
  BY Companions DEF Init, EntryInv, TableIndex
<1>5. WaitingInv
  <2>1. \A m \in Message : Waiting(m) = {}
    BY Companions DEF Init, Waiting, TableIndex
  <2>2. \A m \in Message : Cardinality(Waiting(m)) = 0
    BY <2>1, FS_EmptySet
  <2>3. \A m \in Message : confirmed[m] = 0 /\ attempts[m] = 0
    BY DEF Init
  <2> QED
    BY <2>2, <2>3 DEF WaitingInv
<1> QED
  BY <1>1, <1>2, <1>3, <1>4, <1>5 DEF IInv

LEMMA TransmitStep ==
  ASSUME IInv, NEW n \in Node, Transmit(n)
  PROVE  IInv' /\ UNCHANGED mailbox
<1> USE DEF IInv
<1>1. PICK pkt \in send_queue[n], heard \in SUBSET Node :
        /\ send_queue' = [send_queue EXCEPT ![n] = @ \ {pkt}]
        /\ arriving' = [r \in Node |-> IF r \in heard THEN arriving[r] \union {pkt} ELSE arriving[r]]
        /\ UNCHANGED <<seen, contacts, mailbox>>
  BY DEF Transmit, inRange
<1>2. UNCHANGED <<seen, expected_ack, next_ack_idx, attempts, delivered, confirmed>>
  BY <1>1 DEF contacts, mailbox
<1>3. TypeInv'
  BY <1>1, <1>2 DEF TypeInv
<1>4. HeldInv'
  <2>1. \A k \in Node : \A f \in Held(k)' : f \in Held(k) \/ f \in Held(n)
    BY <1>1 DEF Held, TypeInv
  <2>2. \A m \in Message : attempts'[m] >= attempts[m] /\ delivered'[m] >= delivered[m]
    BY <1>2 DEF TypeInv
  <2> QED
    BY <1>3, <2>1, <2>2, HeldStays DEF TypeInv
<1>5. GotInv'
  BY <1>2, GotStays
<1>6. EntryInv' /\ WaitingInv'
  <2>1. \A m : Waiting(m)' = Waiting(m)
    BY <1>2 DEF Waiting
  <2> QED
    BY <1>2, <2>1 DEF EntryInv, WaitingInv
<1> QED
  BY <1>1, <1>3, <1>4, <1>5, <1>6

LEMMA ForwardDirectStep ==
  ASSUME IInv, NEW n \in Node, NEW pkt \in arriving[n], forwardDirect(n, pkt)
  PROVE  IInv' /\ AsMailbox
<1> DEFINE fwd == IF pkt.payload.type \in {"ACK", "MULTIPART"} THEN routeDirectRecvAcks(n, pkt)
                  ELSE {removeSelfFromPath(n, pkt)}
           p == pkt.payload
<1>1. Sound(pkt, attempts, delivered)
  BY ArrivingSound DEF IInv
<1>2. Handled(n, pkt, {SeenAs(p)}, {}, fwd) /\ UNCHANGED <<next_ack_idx, delivered, expected_ack, confirmed>>
  BY DEF forwardDirect, contacts
<1>3. \A f \in {} \union fwd : Sound(f, attempts, delivered)
  <2>1. CASE p.type \in {"ACK", "MULTIPART"}
    <3>1. p.ack \in Acks /\ delivered[p.ack.msg] > 0
      BY <1>1, <2>1 DEF Sound, Truthful
    <3>2. ASSUME NEW q
          PROVE  LET f == [removeSelfFromPath(n, pkt) EXCEPT !.payload = q]
                 IN  "payload" \in DOMAIN f /\ f.payload = q
      BY <1>1 DEF Sound, removeSelfFromPath
    <3> QED
      BY <2>1, <3>1, <3>2, AckSound DEF routeDirectRecvAcks, Sound
  <2>2. CASE p.type \notin {"ACK", "MULTIPART"}
    BY <1>1, <2>2 DEF Sound, removeSelfFromPath
  <2> QED
    BY <2>1, <2>2
<1>4. \A m \in Message : Recipient[m] # n
  BY Companions DEF forwardDirect, isNextHop
<1> HIDE DEF fwd, p
<1> QED
  BY <1>2, <1>3, <1>4, HandledStep DEF AsMailbox, MailboxSpec!Next

LEMMA OverhearDirectStep ==
  ASSUME IInv, NEW n \in Node, NEW pkt \in arriving[n], overhearDirect(n, pkt)
  PROVE  IInv' /\ AsMailbox
<1>1. Sound(pkt, attempts, delivered)
  BY ArrivingSound DEF IInv
<1>2. Handled(n, pkt, {}, {}, {}) /\ UNCHANGED <<next_ack_idx, delivered>>
  BY DEF overhearDirect
<1>3. \/ UNCHANGED <<expected_ack, confirmed>>
      \/ \E ack \in Acks : delivered[ack.msg] > 0 /\ processAck(n, ack)
  BY <1>1 DEF overhearDirect, Sound, Truthful
<1> QED
  BY <1>2, <1>3, HandledStep DEF AsMailbox, MailboxSpec!Next

LEMMA DropSeenStep ==
  ASSUME IInv, NEW n \in Node, NEW pkt \in arriving[n], DropSeen(n, pkt)
  PROVE  IInv' /\ AsMailbox
<1>1. Handled(n, pkt, {}, {}, {}) /\ UNCHANGED <<next_ack_idx, delivered, expected_ack, confirmed>>
  BY DEF DropSeen, contacts
<1> QED
  BY <1>1, HandledStep DEF AsMailbox, MailboxSpec!Next

\* What a node routes on is as sound as what it received.
LEMMA RoutedSound ==
  ASSUME NEW n, NEW pkt, Sound(pkt, attempts, delivered), NEW f \in routed(n, pkt)
  PROVE  Sound(f, attempts, delivered)
  BY RoutedPayload DEF Sound

LEMMA RouteAddressedStep ==
  ASSUME IInv, NEW n \in Node, NEW pkt \in arriving[n], routeAddressed(n, pkt)
  PROVE  IInv' /\ AsMailbox
<1>1. Sound(pkt, attempts, delivered)
  BY ArrivingSound DEF IInv
<1>2. /\ Handled(n, pkt, {pkt.payload}, {}, routed(n, pkt))
      /\ UNCHANGED <<next_ack_idx, delivered, expected_ack, confirmed>>
  BY DEF routeAddressed, contacts
<1>3. \A f \in {} \union routed(n, pkt) : Sound(f, attempts, delivered)
  BY <1>1, RoutedSound
<1>4. ASSUME NEW m \in Message, NEW k \in Nat, Recipient[m] = n
      PROVE  composeMsgPacket(m, k) # pkt.payload
  BY <1>4 DEF routeAddressed, Addressee, composeMsgPacket
<1> QED
  BY <1>2, <1>3, <1>4, HandledStep DEF AsMailbox, MailboxSpec!Next

LEMMA OnPeerPathRecvStep ==
  ASSUME IInv, NEW n \in Node, NEW pkt \in arriving[n], onPeerPathRecv(n, pkt)
  PROVE  IInv' /\ AsMailbox
<1> DEFINE p == pkt.payload
           back == createPathReturn(n, p.from, RouteOf(pkt), Nothing, Unique(n))
           made == IF pkt.flood THEN {direct(back, p.route)} ELSE {}
<1>1. Sound(pkt, attempts, delivered) /\ p.type = "PATH"
  BY ArrivingSound DEF IInv, onPeerPathRecv, Arrives
<1>2. Handled(n, pkt, {p}, made, {}) /\ UNCHANGED <<next_ack_idx, delivered>>
  BY DEF onPeerPathRecv
<1>3. \/ UNCHANGED <<expected_ack, confirmed>>
      \/ \E ack \in Acks : delivered[ack.msg] > 0 /\ processAck(n, ack)
  BY <1>1 DEF onPeerPathRecv, Sound, Truthful
<1>4. \A f \in made \union {} : f.payload = back /\ Sound(f, attempts, delivered)
  BY DEF direct, Sound, Truthful, createPathReturn
<1>5. \A m \in Message, k \in Nat : composeMsgPacket(m, k) \notin {p} \union {f.payload : f \in made}
  BY <1>1, <1>4, OtherTypes DEF composeMsgPacket
<1> HIDE DEF p, back, made
<1> QED
  BY <1>2, <1>3, <1>4, <1>5, HandledStep DEF AsMailbox, MailboxSpec!Next

LEMMA OnAckRecvStep ==
  ASSUME IInv, NEW n \in Node, NEW pkt \in arriving[n], onAckRecv(n, pkt)
  PROVE  IInv' /\ AsMailbox
<1> DEFINE p == pkt.payload
           fwd == IF Expecting(n, p.ack) = {} THEN routed(n, pkt) ELSE {}
<1>1. Sound(pkt, attempts, delivered) /\ p.type = "ACK"
  BY ArrivingSound DEF IInv, onAckRecv, Arrives
<1>2. Handled(n, pkt, {p}, {}, fwd) /\ UNCHANGED <<next_ack_idx, delivered>>
  BY DEF onAckRecv
<1>3. \E ack \in Acks : delivered[ack.msg] > 0 /\ processAck(n, ack)
  BY <1>1 DEF onAckRecv, Sound, Truthful
<1>4. \A f \in {} \union fwd : Sound(f, attempts, delivered)
  BY <1>1, RoutedSound
<1>5. \A m \in Message, k \in Nat : composeMsgPacket(m, k) # p
  BY <1>1 DEF composeMsgPacket
<1> HIDE DEF p, fwd
<1> QED
  BY <1>2, <1>3, <1>4, <1>5, HandledStep DEF AsMailbox, MailboxSpec!Next

LEMMA OnMultipartRecvStep ==
  ASSUME IInv, NEW n \in Node, NEW pkt \in arriving[n], onMultipartRecv(n, pkt)
  PROVE  IInv' /\ AsMailbox
<1> DEFINE p == pkt.payload
<1>1. Sound(pkt, attempts, delivered) /\ p.type = "MULTIPART"
  BY ArrivingSound DEF IInv, onMultipartRecv, Arrives
<1>2. Handled(n, pkt, {SeenAs(p)}, {}, {}) /\ UNCHANGED <<next_ack_idx, delivered>>
  BY DEF onMultipartRecv
<1>3. \E ack \in Acks : delivered[ack.msg] > 0 /\ processAck(n, ack)
  BY <1>1 DEF onMultipartRecv, Sound, Truthful
<1>4. \A m \in Message, k \in Nat : composeMsgPacket(m, k) # SeenAs(p)
  BY <1>1, OtherTypes
<1> HIDE DEF p
<1> QED
  BY <1>2, <1>3, <1>4, HandledStep DEF AsMailbox, MailboxSpec!Next

\* A message that is delivered was sent, and had not been delivered in this attempt.
LEMMA OnPeerDataRecvStep ==
  ASSUME IInv, NEW n \in Node, NEW pkt \in arriving[n], onPeerDataRecv(n, pkt)
  PROVE  IInv' /\ AsMailbox
<1> DEFINE p == pkt.payload
           m == p.msg
           k == p.attempt
           ack == ackHash(m, k)
           path == createPathReturn(n, Sender[m], RouteOf(pkt), ack, Unique(n))
           made == IF pkt.flood THEN {flooded(path)} ELSE sendAckTo(n, Sender[m], ack, Unique(n))
<1> USE DEF IInv
<1>1. Sound(pkt, attempts, delivered) /\ p.type = "TXT_MSG" /\ p \notin seen[n] /\ Recipient[m] = n
  BY ArrivingSound DEF onPeerDataRecv, Arrives, Seen, SeenAs
<1>2. m \in Message /\ k \in 0..attempts[m] - 1 /\ p = composeMsgPacket(m, k) /\ attempts[m] \in Nat
  BY <1>1 DEF Sound, Truthful, TypeInv
<1>3. /\ Handled(n, pkt, {p}, made, {})
      /\ delivered' = [delivered EXCEPT ![m] = @ + 1]
      /\ UNCHANGED <<next_ack_idx, expected_ack, confirmed>>
  BY DEF onPeerDataRecv
<1>4. ack \in Acks /\ ack.msg = m
  BY <1>2, AckHashOfMessage
<1>5. delivered' \in [Message -> Nat] /\ delivered'[m] = delivered[m] + 1 /\ delivered[m] \in Nat
  BY <1>2, <1>3 DEF TypeInv
<1>6. \A f \in made : /\ Sound(f, attempts, delivered')
                       /\ \/ \E u : f.payload = createAck(ack, u)
                          \/ \E u, x : f.payload = createMultiAck(ack, u, x)
                          \/ \E to, route, u : f.payload = createPathReturn(n, to, route, ack, u)
  <2>1. /\ \A q : "payload" \in DOMAIN flooded(q) /\ flooded(q).payload = q
        /\ \A q, route : "payload" \in DOMAIN direct(q, route) /\ direct(q, route).payload = q
    BY DEF flooded, direct
  <2>2. delivered'[ack.msg] > 0
    BY <1>4, <1>5
  <2>3. \A f \in made : /\ "payload" \in DOMAIN f
                         /\ \/ f.payload = createAck(ack, Unique(n))
                            \/ f.payload = createMultiAck(ack, Unique(n), 1)
                            \/ f.payload = path
    BY <2>1 DEF sendAckTo, addressed
  <2> HIDE DEF made, ack
  <2> QED
    BY <1>4, <2>2, <2>3, AckSound DEF Sound
<1>7. \A f \in made, x \in Message, j \in Nat : composeMsgPacket(x, j) # f.payload
  <2> HIDE DEF made, ack
  <2> QED
    BY <1>6, OtherTypes
<1> HIDE DEF made, ack
<1>8. /\ seen' = [i \in Node |-> seen'[i]]
      /\ send_queue' = [i \in Node |-> send_queue'[i]]
      /\ arriving' = [i \in Node |-> arriving'[i]]
      /\ \A i \in Node : seen'[i] = IF i = n THEN seen[n] \union {p} \union {f.payload : f \in made}
                                             ELSE seen[i]
      /\ \A i \in Node : Held(i)' \subseteq Held(i) \union made \union {}
      /\ UNCHANGED attempts
  BY <1>3, HandledEffect
<1>9. TypeInv'
  BY <1>3, <1>5, <1>8 DEF TypeInv
<1>10. HeldInv'
  <2>1. \A i \in Node : \A f \in Held(i)' : f \in Held(i) \/ Sound(f, attempts', delivered')
    BY <1>6, <1>8
  <2>2. \A x \in Message : attempts'[x] >= attempts[x] /\ delivered'[x] >= delivered[x]
    BY <1>2, <1>3, <1>8 DEF TypeInv
  <2> QED
    BY <1>9, <2>1, <2>2, HeldStays DEF TypeInv
<1>11. /\ \A x \in Message \ {m} : Got(x)' = Got(x)
       /\ Got(m)' = Got(m) \union {k}
       /\ k \notin Got(m)
  <2>1. \A x \in Message, j \in Nat :
          composeMsgPacket(x, j) \in seen'[Recipient[x]]
            <=> composeMsgPacket(x, j) \in seen[Recipient[x]] \/ (x = m /\ j = k)
    <3>1. \A x, j : composeMsgPacket(x, j) = p <=> x = m /\ j = k
      BY <1>2 DEF composeMsgPacket
    <3> HIDE DEF p, m, k
    <3> QED
      BY <1>1, <1>7, <1>8, <3>1, Companions
  <2>2. k \in Nat
    BY <1>2
  <2> HIDE DEF p, m, k
  <2> QED
    BY <1>1, <1>2, <2>1, <2>2 DEF Got
<1>12. /\ IsFiniteSet(Got(m)) /\ Cardinality(Got(m)') = Cardinality(Got(m)) + 1
       /\ Got(m)' \subseteq 0..attempts[m] - 1
       /\ Cardinality(Got(m)') <= attempts[m] /\ Cardinality(Got(m)) \in Nat
  <2>2. IsFiniteSet(0..attempts[m] - 1) /\ Cardinality(0..attempts[m] - 1) = attempts[m]
    BY <1>2, AttemptsFinite
  <2>3. Got(m) \subseteq 0..attempts[m] - 1
    BY <1>2 DEF GotInv
  <2>4. Got(m)' \subseteq 0..attempts[m] - 1
    BY <1>2, <1>11, <2>3
  <2>5. IsFiniteSet(Got(m)) /\ IsFiniteSet(Got(m)')
    BY <2>2, <2>3, <2>4, FS_Subset
  <2>6. Cardinality(Got(m)') = Cardinality(Got(m)) + 1
    BY <1>11, <2>5, FS_AddElement
  <2> QED
    BY <2>2, <2>4, <2>5, <2>6, FS_Subset, FS_CardinalityType
<1>13. delivered[m] = Cardinality(Got(m))
  BY <1>2 DEF GotInv
<1>14. MailboxSpec!Deliver(m)
  <2>1. delivered[m] < attempts[m]
    BY <1>2, <1>12, <1>13
  <2> QED
    BY <1>3, <1>8, <2>1 DEF MailboxSpec!Deliver
<1>15. GotInv'
  <2> SUFFICES ASSUME NEW x \in Message
               PROVE  /\ Got(x)' \subseteq 0..attempts'[x] - 1
                      /\ delivered'[x] = Cardinality(Got(x)')
    BY DEF GotInv
  <2>1. CASE x = m
    BY <2>1, <1>5, <1>8, <1>12, <1>13
  <2>2. CASE x # m
    <3>1. delivered'[x] = delivered[x] /\ Got(x)' = Got(x)
      BY <2>2, <1>2, <1>3, <1>11 DEF TypeInv
    <3> QED
      BY <3>1, <1>8 DEF GotInv
  <2> QED
    BY <2>1, <2>2
<1>16. EntryInv' /\ WaitingInv'
  <2>1. \A x : Waiting(x)' = Waiting(x)
    BY <1>3 DEF Waiting
  <2> QED
    BY <1>3, <1>8, <2>1 DEF EntryInv, WaitingInv
<1> QED
  BY <1>2, <1>9, <1>10, <1>14, <1>15, <1>16 DEF AsMailbox, MailboxSpec!Next

\* A new attempt gets an entry of its own, at most.
LEMMA SendMessageStep ==
  ASSUME IInv, NEW m \in Message, sendMessage(m)
  PROVE  IInv' /\ MailboxSpec!Send(m)
<1> DEFINE n == Sender[m]
           p == composeMsgPacket(m, attempts[m])
           pkt == addressed(n, Recipient[m], p)
           e == next_ack_idx[n]
<1> USE DEF IInv
<1>1. /\ attempts' = [attempts EXCEPT ![m] = @ + 1]
      /\ seen' = [seen EXCEPT ![n] = @ \union {p}]
      /\ send_queue' = [send_queue EXCEPT ![n] = @ \union {pkt}]
      /\ expected_ack' = [expected_ack EXCEPT ![n][e] = ackHash(m, attempts[m])]
      /\ next_ack_idx' = [next_ack_idx EXCEPT ![n] = nextEntry(@)]
      /\ UNCHANGED <<arriving, delivered, confirmed>>
  BY DEF sendMessage
<1>2. /\ n \in Node /\ n \in ChatNode /\ n # Recipient[m] /\ e \in TableIndex
      /\ attempts[m] \in Nat
  BY Companions DEF TypeInv
<1>3. ackHash(m, attempts[m]) \in Acks /\ ackHash(m, attempts[m]).msg = m
  BY <1>2, AckHashOfMessage
<1>4. nextEntry(e) \in TableIndex
  BY <1>2, Companions DEF nextEntry, TableIndex
<1>5. attempts' \in [Message -> Nat] /\ attempts'[m] = attempts[m] + 1
  BY <1>1 DEF TypeInv
<1>6. expected_ack' \in [ChatNode -> [TableIndex -> Acks \union {Nothing}]]
  BY <1>1, <1>2, <1>3 DEF TypeInv
<1>7. next_ack_idx' \in [ChatNode -> TableIndex]
  BY <1>1, <1>2, <1>4 DEF TypeInv
<1>8. TypeInv'
  <2>1. seen' = [k \in Node |-> seen'[k]] /\ send_queue' = [k \in Node |-> send_queue'[k]]
    BY <1>1, <1>2 DEF TypeInv
  <2> QED
    BY <1>1, <1>5, <1>6, <1>7, <2>1 DEF TypeInv
<1>9. HeldInv'
  <2>1. Sound(pkt, attempts', delivered')
    <3>1. Truthful(p, attempts', delivered')
      BY <1>2, <1>5 DEF Truthful, composeMsgPacket
    <3>2. "payload" \in DOMAIN pkt /\ pkt.payload = p
      BY DEF addressed, flooded, direct
    <3> QED
      BY <3>1, <3>2 DEF Sound
  <2>2. \A k \in Node : \A f \in Held(k)' : f \in Held(k) \/ f = pkt
    BY <1>1, <1>2 DEF Held, TypeInv
  <2>3. \A x \in Message : attempts'[x] >= attempts[x] /\ delivered'[x] >= delivered[x]
    BY <1>1, <1>2 DEF TypeInv
  <2> QED
    BY <1>8, <2>1, <2>2, <2>3, HeldStays DEF TypeInv
<1>10. GotInv'
  <2>1. \A x \in Message : Got(x)' = Got(x)
    <3> SUFFICES ASSUME NEW x \in Message, NEW k \in Nat
                 PROVE  composeMsgPacket(x, k) \in seen'[Recipient[x]]
                          <=> composeMsgPacket(x, k) \in seen[Recipient[x]]
      BY DEF Got
    <3>1. CASE x = m
      BY <3>1, <1>1, <1>2, Companions DEF TypeInv
    <3>2. CASE x # m
      <4>1. composeMsgPacket(x, k) # p
        BY <3>2 DEF composeMsgPacket
      <4> QED
        BY <4>1, <1>1, <1>2, Companions DEF TypeInv
    <3> QED
      BY <3>1, <3>2
  <2>2. \A x \in Message : attempts[x] \in Nat /\ attempts'[x] \in Nat /\ attempts[x] <= attempts'[x]
    BY <1>1, <1>5 DEF TypeInv
  <2>3. \A x \in Message : 0..attempts[x] - 1 \subseteq 0..attempts'[x] - 1
    BY <2>2
  <2> QED
    BY <1>1, <2>1, <2>3 DEF GotInv
<1>11. \A k \in ChatNode, j \in TableIndex :
         expected_ack'[k][j] = IF k = n /\ j = e THEN ackHash(m, attempts[m]) ELSE expected_ack[k][j]
  BY <1>1, <1>2 DEF TypeInv
<1>12. EntryInv'
  BY <1>3, <1>11 DEF EntryInv
<1>13. WaitingInv'
  <2> SUFFICES ASSUME NEW x \in Message
               PROVE  confirmed'[x] + Cardinality(Waiting(x)') <= attempts'[x]
    BY DEF WaitingInv
  <2>1. /\ IsFiniteSet(Waiting(x)) /\ Cardinality(Waiting(x)) \in Nat
        /\ IsFiniteSet(Waiting(x)') /\ Cardinality(Waiting(x)') \in Nat
    BY WaitingFinite DEF Waiting
  <2>2. /\ confirmed[x] \in Nat /\ attempts[x] \in Nat /\ confirmed'[x] = confirmed[x]
        /\ confirmed[x] + Cardinality(Waiting(x)) <= attempts[x]
    BY <1>1 DEF TypeInv, WaitingInv
  <2>3. CASE x = m
    <3>1. Waiting(m)' \subseteq Waiting(m) \union {e}
      BY <1>2, <1>11 DEF Waiting
    <3>2. /\ IsFiniteSet(Waiting(m) \union {e})
          /\ Cardinality(Waiting(m) \union {e}) <= Cardinality(Waiting(m)) + 1
          /\ Cardinality(Waiting(m) \union {e}) \in Nat
      BY <2>1, <2>3, OneMore
    <3>3. Cardinality(Waiting(m)') <= Cardinality(Waiting(m) \union {e})
      BY <3>1, <3>2, FS_Subset
    <3>4. Cardinality(Waiting(m)') <= Cardinality(Waiting(m)) + 1
      BY <2>1, <2>3, <3>2, <3>3
    <3> QED
      BY <1>5, <2>1, <2>2, <2>3, <3>4
  <2>4. CASE x # m
    <3>1. Waiting(x)' \subseteq Waiting(x)
      BY <1>2, <1>3, <1>11, <2>4, Companions DEF Waiting
    <3>2. Cardinality(Waiting(x)') <= Cardinality(Waiting(x))
      BY <2>1, <3>1, FS_Subset
    <3>3. attempts'[x] = attempts[x]
      BY <1>1, <2>4 DEF TypeInv
    <3> QED
      BY <2>1, <2>2, <3>2, <3>3
  <2> QED
    BY <2>3, <2>4
<1> QED
  BY <1>1, <1>8, <1>9, <1>10, <1>12, <1>13 DEF MailboxSpec!Send

LEMMA ResetPathStep ==
  ASSUME IInv, NEW n \in ChatNode, resetPath(n)
  PROVE  IInv' /\ UNCHANGED mailbox
<1>1. UNCHANGED <<seen, send_queue, arriving, expected_ack, next_ack_idx, mailbox>>
  BY DEF resetPath
<1>2. UNCHANGED <<attempts, delivered, confirmed>>
  BY <1>1 DEF mailbox
<1>3. /\ \A m : Waiting(m)' = Waiting(m)
      /\ \A m : Got(m)' = Got(m)
      /\ \A k : Held(k)' = Held(k)
  BY <1>1 DEF Waiting, Got, Held
<1> QED
  BY <1>1, <1>2, <1>3 DEF IInv, TypeInv, HeldInv, GotInv, EntryInv, WaitingInv

LEMMA StutterStep ==
  ASSUME IInv, UNCHANGED vars
  PROVE  IInv' /\ UNCHANGED mailbox
<1>1. /\ UNCHANGED <<seen, send_queue, arriving, expected_ack, next_ack_idx, mailbox>>
      /\ UNCHANGED <<attempts, delivered, confirmed>>
  BY DEF vars, contacts, mailbox
<1>2. /\ \A m : Waiting(m)' = Waiting(m)
      /\ \A m : Got(m)' = Got(m)
      /\ \A k : Held(k)' = Held(k)
  BY <1>1 DEF Waiting, Got, Held
<1> QED
  BY <1>1, <1>2 DEF IInv, TypeInv, HeldInv, GotInv, EntryInv, WaitingInv

\* Every step keeps the invariant, and is a step of Mailbox or none.
LEMMA NextStep ==
  ASSUME IInv, [Next]_vars
  PROVE  IInv' /\ AsMailbox
<1>1. ASSUME NEW n \in Node, loop(n)
      PROVE  IInv' /\ AsMailbox
  <2>1. CASE Transmit(n)
    BY <2>1, TransmitStep DEF AsMailbox
  <2>2. ASSUME NEW pkt \in arriving[n], forwardDirect(n, pkt)
        PROVE  IInv' /\ AsMailbox
    BY <2>2, ForwardDirectStep
  <2>3. ASSUME NEW pkt \in arriving[n], overhearDirect(n, pkt)
        PROVE  IInv' /\ AsMailbox
    BY <2>3, OverhearDirectStep
  <2>4. ASSUME NEW pkt \in arriving[n], DropSeen(n, pkt)
        PROVE  IInv' /\ AsMailbox
    BY <2>4, DropSeenStep
  <2>5. ASSUME NEW pkt \in arriving[n], routeAddressed(n, pkt)
        PROVE  IInv' /\ AsMailbox
    BY <2>5, RouteAddressedStep
  <2>6. ASSUME NEW pkt \in arriving[n], onPeerDataRecv(n, pkt)
        PROVE  IInv' /\ AsMailbox
    BY <2>6, OnPeerDataRecvStep
  <2>7. ASSUME NEW pkt \in arriving[n], onPeerPathRecv(n, pkt)
        PROVE  IInv' /\ AsMailbox
    BY <2>7, OnPeerPathRecvStep
  <2>8. ASSUME NEW pkt \in arriving[n], onAckRecv(n, pkt)
        PROVE  IInv' /\ AsMailbox
    BY <2>8, OnAckRecvStep
  <2>9. ASSUME NEW pkt \in arriving[n], onMultipartRecv(n, pkt)
        PROVE  IInv' /\ AsMailbox
    BY <2>9, OnMultipartRecvStep
  <2> QED
    BY <1>1, <2>1, <2>2, <2>3, <2>4, <2>5, <2>6, <2>7, <2>8, <2>9 DEF loop, onRecvPacket
<1>2. ASSUME NEW m \in Message, sendMessage(m)
      PROVE  IInv' /\ AsMailbox
  BY <1>2, SendMessageStep DEF AsMailbox, MailboxSpec!Next
<1>3. ASSUME NEW n \in ChatNode, resetPath(n)
      PROVE  IInv' /\ AsMailbox
  BY <1>3, ResetPathStep DEF AsMailbox
<1>4. CASE UNCHANGED vars
  BY <1>4, StutterStep DEF AsMailbox
<1> QED
  BY <1>1, <1>2, <1>3, <1>4 DEF Next

\* The network keeps the promise of a Mailbox: what the applications see of any
\* behaviour of the nodes is a behaviour of Mailbox.
THEOREM ImplementsMailbox == Spec => Implements
<1>1. Init => IInv
  BY InitInv
<1>2. Init => MailboxSpec!Init
  BY DEF Init, MailboxSpec!Init
<1>3. IInv /\ [Next]_vars => IInv'
  BY NextStep
<1>4. IInv /\ [Next]_vars => [MailboxSpec!Next]_MailboxSpec!vars
  BY NextStep DEF AsMailbox, mailbox, MailboxSpec!vars
<1> QED
  BY <1>1, <1>2, <1>3, <1>4, PTL DEF Spec, Implements, MailboxSpec!Spec

-----------------------------------------------------------------------------
(***************************************************************************)
(* Types. The constant Payload is left open by Mesh: here it is said which *)
(* payloads the nodes make.                                                *)
(***************************************************************************)

Uniques == ChatNode \X Nat

ChatPayload ==
  [type : {"TXT_MSG"}, msg : Message, attempt : Nat] \union
  [type : {"ACK", "MULTIPART"}, ack : Acks, unique : Uniques] \union
  [type : {"MULTIPART"}, ack : Acks, unique : Uniques, remaining : Nat] \union
  [type : {"PATH"}, from : ChatNode, to : ChatNode, route : Routes,
   ack : Acks \union {Nothing}, unique : Uniques]

ChatPacket ==
  [payload : ChatPayload, flood : BOOLEAN, size : 1..3, path : Seq(Hash), hops : Seq(Node)]

PacketsInv == \A n \in Node : Held(n) \subseteq ChatPacket /\ seen[n] \subseteq ChatPayload

ContactsInv ==
  /\ out_path \in [ChatNode -> [ChatNode -> Routes \union {Nothing}]]
  /\ created \in [ChatNode -> Nat]
  /\ lost \in 0..MaxLoss

\* What a node reads out of a payload.
LEMMA PayloadParts ==
  ASSUME NEW p \in ChatPayload
  PROVE  /\ p.type \in {"TXT_MSG", "ACK", "MULTIPART", "PATH"}
         /\ p.type = "TXT_MSG" => p.msg \in Message /\ p.attempt \in Nat
         /\ p.type \in {"ACK", "MULTIPART"} => p.ack \in Acks /\ p.unique \in Uniques
         /\ p.type = "PATH" => /\ p.from \in ChatNode /\ p.to \in ChatNode /\ p.route \in Routes
                               /\ p.ack \in Acks \union {Nothing}
         /\ SeenAs(p) \in ChatPayload
  BY DEF ChatPayload, SeenAs

\* What a node makes is a payload.
LEMMA PayloadMade ==
  ASSUME NEW u \in Uniques, NEW ack \in Acks \union {Nothing}
  PROVE  /\ \A m \in Message, k \in Nat : composeMsgPacket(m, k) \in ChatPayload
         /\ ack \in Acks => /\ createAck(ack, u) \in ChatPayload
                            /\ \A k \in Nat : createMultiAck(ack, u, k) \in ChatPayload
         /\ \A from, to \in ChatNode, route \in Routes :
              createPathReturn(from, to, route, ack, u) \in ChatPayload
  BY DEF ChatPayload, composeMsgPacket, createAck, createMultiAck, createPathReturn

\* A packet's route, and the packets that are made of a payload and a route.
LEMMA PacketParts ==
  /\ \A pkt \in ChatPacket : RouteOf(pkt) \in Routes
  /\ \A p \in ChatPayload : flooded(p) \in ChatPacket
  /\ \A p \in ChatPayload, route \in Routes : direct(p, route) \in ChatPacket
<1>1. <<>> \in Seq(Hash) /\ <<>> \in Seq(Node) /\ HashSize \in 1..3
  BY ChatAssumption
<1>2. \A pkt \in ChatPacket : RouteOf(pkt) \in Routes
  BY DEF ChatPacket, RouteOf, Routes
<1>3. \A p \in ChatPayload : flooded(p) \in ChatPacket
  BY <1>1 DEF flooded, ChatPacket
<1>4. \A p \in ChatPayload, route \in Routes : direct(p, route) \in ChatPacket
  BY <1>1 DEF direct, ChatPacket, Routes
<1> QED
  BY <1>2, <1>3, <1>4

\* A hop that makes a path too long for its count starts it anew with hashes one
\* byte longer, which only happens to hashes of one byte.
LEMMA RoutedPacket ==
  ASSUME NEW n \in Node, NEW pkt \in ChatPacket, NEW f \in routed(n, pkt)
  PROVE  f \in ChatPacket
<1> DEFINE path == Append(pkt.path, hashOf(n, pkt.size))
           on == [pkt EXCEPT !.hops = Append(@, n)]
<1>1. /\ pkt.flood /\ PathHasRoom(pkt) /\ f = withPath(on, path)
  BY DEF routed, routeRecvPacket, withSelf
<1>2. /\ pkt.payload \in ChatPayload /\ pkt.flood \in BOOLEAN /\ pkt.size \in 1..3
      /\ pkt.path \in Seq(Hash) /\ pkt.hops \in Seq(Node)
  BY DEF ChatPacket
<1>3. path \in Seq(Hash) /\ Len(path) = Len(pkt.path) + 1
  <2>1. hashOf(n, pkt.size) \in Hash
    BY <1>2 DEF Hash
  <2> QED
    BY <1>2, <2>1
<1>4. on \in ChatPacket /\ on.size = pkt.size
  <2>1. Append(pkt.hops, n) \in Seq(Node)
    BY <1>2
  <2> QED
    BY <1>2, <2>1 DEF ChatPacket
<1> HIDE DEF path, on
<1>5. CASE Len(path) < CountLimit
  <2>1. f = [on EXCEPT !.path = path]
    BY <1>1, <1>5 DEF withPath
  <2> QED
    BY <1>3, <1>4, <2>1 DEF ChatPacket
<1>6. CASE ~(Len(path) < CountLimit)
  <2>1. f = [on EXCEPT !.path = <<>>, !.size = @ + 1]
    BY <1>1, <1>6 DEF withPath
  <2>2. /\ (Len(pkt.path) + 1) * pkt.size <= MaxPathSize /\ Len(pkt.path) \in Nat
        /\ MaxPathSize \in Nat /\ CountLimit \in Nat \ {0} /\ MaxPathSize <= CountLimit
    BY <1>1, <1>2, SizeAssumption DEF PathHasRoom, getPathHashCount
  <2>3. ASSUME NEW k \in Nat, NEW s \in {2, 3}, k + 1 >= CountLimit PROVE ~((k + 1) * s <= MaxPathSize)
    <3>1. CASE s = 2
      BY <2>2, <2>3, <3>1
    <3>2. CASE s = 3
      BY <2>2, <2>3, <3>2
    <3> QED
      BY <3>1, <3>2
  <2>4. Len(pkt.path) + 1 >= CountLimit
    BY <1>3, <1>6, <2>2
  <2>5. pkt.size + 1 \in 1..3
    BY <1>2, <2>2, <2>3, <2>4
  <2>6. <<>> \in Seq(Hash)
    OBVIOUS
  <2> QED
    BY <1>4, <2>1, <2>5, <2>6 DEF ChatPacket
<1> QED
  BY <1>5, <1>6

\* A direct packet on its next hop, with its own payload or another.
LEMMA PassedOn ==
  ASSUME NEW n \in Node, NEW pkt \in ChatPacket, pkt.path # <<>>
  PROVE  /\ removeSelfFromPath(n, pkt) \in ChatPacket
         /\ \A p \in ChatPayload : [removeSelfFromPath(n, pkt) EXCEPT !.payload = p] \in ChatPacket
<1>1. Tail(pkt.path) \in Seq(Hash) /\ Append(pkt.hops, n) \in Seq(Node)
  <2>1. pkt.path \in Seq(Hash) /\ pkt.hops \in Seq(Node)
    BY DEF ChatPacket
  <2> QED
    BY <2>1
<1>2. removeSelfFromPath(n, pkt) \in ChatPacket
  BY <1>1 DEF removeSelfFromPath, ChatPacket
<1>3. \A g \in ChatPacket, p \in ChatPayload : [g EXCEPT !.payload = p] \in ChatPacket
  BY DEF ChatPacket
<1> QED
  BY <1>2, <1>3

\* The random part of what a node makes.
LEMMA UniqueTypes == ContactsInv => \A n \in ChatNode : Unique(n) \in Uniques
  BY DEF ContactsInv, Unique, Uniques

\* A message goes as a packet, by flood or by a route that is one.
LEMMA AddressedPacket ==
  ASSUME ContactsInv, NEW n \in ChatNode, NEW c \in ChatNode, NEW p \in ChatPayload
  PROVE  /\ addressed(n, c, p) \in ChatPacket
         /\ out_path[n][c] # Nothing => out_path[n][c] \in Routes
<1>1. out_path[n][c] \in Routes \union {Nothing}
  BY DEF ContactsInv
<1> QED
  BY <1>1, PacketParts DEF addressed

LEMMA AcksSent ==
  ASSUME ContactsInv, NEW n \in ChatNode, NEW c \in ChatNode, NEW ack \in Acks
  PROVE  sendAckTo(n, c, ack, Unique(n)) \subseteq ChatPacket
<1>1. /\ createAck(ack, Unique(n)) \in ChatPayload
      /\ createMultiAck(ack, Unique(n), 1) \in ChatPayload
  BY UniqueTypes, PayloadMade
<1>2. addressed(n, c, createAck(ack, Unique(n))) \in ChatPacket
  BY <1>1, AddressedPacket
<1>3. ~addressed(n, c, createAck(ack, Unique(n))).flood => out_path[n][c] \in Routes
  <2>1. out_path[n][c] = Nothing => addressed(n, c, createAck(ack, Unique(n))).flood
    BY DEF addressed, flooded
  <2> QED
    BY <1>1, <2>1, AddressedPacket
<1> QED
  BY <1>1, <1>2, <1>3, PacketParts DEF sendAckTo

-----------------------------------------------------------------------------

\* A node handles a packet and sends on only packets.
LEMMA HandledPackets ==
  ASSUME TypeInv, PacketsInv, NEW n \in Node, NEW pkt, NEW marked, NEW made, NEW forwarded,
         Handled(n, pkt, marked, made, forwarded),
         marked \subseteq ChatPayload, made \union forwarded \subseteq ChatPacket
  PROVE  PacketsInv'
<1>1. /\ \A k \in Node : seen'[k] = IF k = n THEN seen[n] \union marked \union {p.payload : p \in made}
                                             ELSE seen[k]
      /\ \A k \in Node : Held(k)' \subseteq Held(k) \union made \union forwarded
  BY HandledEffect
<1>2. {p.payload : p \in made} \subseteq ChatPayload
  BY DEF ChatPacket
<1> QED
  BY <1>1, <1>2 DEF PacketsInv

\* What a node handles is a packet.
LEMMA ArrivingPacket ==
  ASSUME PacketsInv, NEW n \in Node, NEW pkt \in arriving[n]
  PROVE  pkt \in ChatPacket /\ pkt.payload \in ChatPayload /\ RouteOf(pkt) \in Routes
<1>1. pkt \in ChatPacket
  BY DEF PacketsInv, Held
<1> QED
  BY <1>1, PacketParts DEF ChatPacket

\* A node is a companion if it sends or is sent to.
LEMMA TypesHandled ==
  ASSUME TypeInv, PacketsInv, ContactsInv, NEW n \in Node, onRecvPacket(n)
  PROVE  PacketsInv' /\ ContactsInv'
<1>1. PICK pkt \in arriving[n] :
        \/ forwardDirect(n, pkt) \/ overhearDirect(n, pkt)
        \/ DropSeen(n, pkt) \/ routeAddressed(n, pkt)
        \/ onPeerDataRecv(n, pkt) \/ onPeerPathRecv(n, pkt)
        \/ onAckRecv(n, pkt) \/ onMultipartRecv(n, pkt)
  BY Zenon DEF onRecvPacket
<1> DEFINE p == pkt.payload
<1>2. pkt \in ChatPacket /\ p \in ChatPayload /\ RouteOf(pkt) \in Routes /\ SeenAs(p) \in ChatPayload
  BY ArrivingPacket, PayloadParts
<1>3. ASSUME UNCHANGED <<out_path, created, lost>> PROVE ContactsInv'
  BY <1>3 DEF ContactsInv
<1>4. \A f \in routed(n, pkt) : f \in ChatPacket
  BY <1>2, RoutedPacket
<1>5. CASE forwardDirect(n, pkt)
  <2> DEFINE fwd == IF p.type \in {"ACK", "MULTIPART"} THEN routeDirectRecvAcks(n, pkt)
                    ELSE {removeSelfFromPath(n, pkt)}
  <2>1. Handled(n, pkt, {SeenAs(p)}, {}, fwd) /\ UNCHANGED contacts /\ pkt.path # <<>>
    BY <1>5 DEF forwardDirect, Underway
  <2>2. /\ removeSelfFromPath(n, pkt) \in ChatPacket
        /\ \A x \in ChatPayload : [removeSelfFromPath(n, pkt) EXCEPT !.payload = x] \in ChatPacket
    BY <1>2, <2>1, PassedOn
  <2>3. fwd \subseteq ChatPacket
    <3>1. CASE p.type \in {"ACK", "MULTIPART"}
      <4>1. p.ack \in Acks /\ p.unique \in Uniques
        BY <1>2, <3>1, PayloadParts
      <4>2. /\ createAck(p.ack, p.unique) \in ChatPayload
            /\ \A k \in Nat : createMultiAck(p.ack, p.unique, k) \in ChatPayload
        BY <4>1, PayloadMade
      <4>3. ExtraAcks[n] \in Nat
        BY ChatAssumption
      <4>4. routeDirectRecvAcks(n, pkt) \subseteq ChatPacket
        BY <2>2, <4>2, <4>3 DEF routeDirectRecvAcks
      <4> QED
        BY <3>1, <4>4
    <3>2. CASE p.type \notin {"ACK", "MULTIPART"}
      BY <2>2, <3>2
    <3> QED
      BY <3>1, <3>2
  <2>4. UNCHANGED <<out_path, created, lost>>
    BY <2>1 DEF contacts, Handled
  <2> HIDE DEF fwd
  <2> QED
    BY <1>2, <1>3, <2>1, <2>3, <2>4, HandledPackets
<1>6. CASE overhearDirect(n, pkt)
  <2>1. Handled(n, pkt, {}, {}, {}) /\ UNCHANGED <<out_path, created, lost>>
    BY <1>6 DEF overhearDirect, Handled
  <2> QED
    BY <1>3, <2>1, HandledPackets
<1>7. CASE DropSeen(n, pkt)
  <2>1. Handled(n, pkt, {}, {}, {}) /\ UNCHANGED <<out_path, created, lost>>
    BY <1>7 DEF DropSeen, contacts, Handled
  <2> QED
    BY <1>3, <2>1, HandledPackets
<1>8. CASE routeAddressed(n, pkt)
  <2>1. Handled(n, pkt, {p}, {}, routed(n, pkt)) /\ UNCHANGED <<out_path, created, lost>>
    BY <1>8 DEF routeAddressed, contacts, Handled
  <2> QED
    BY <1>2, <1>3, <1>4, <2>1, HandledPackets
<1>9. CASE onPeerDataRecv(n, pkt)
  <2> DEFINE m == p.msg
             ack == ackHash(m, p.attempt)
             path == createPathReturn(n, Sender[m], RouteOf(pkt), ack, Unique(n))
             made == IF pkt.flood THEN {flooded(path)} ELSE sendAckTo(n, Sender[m], ack, Unique(n))
  <2>1. /\ Handled(n, pkt, {p}, made, {}) /\ UNCHANGED <<out_path, lost>>
        /\ created' = [created EXCEPT ![n] = @ + 1] /\ p.type = "TXT_MSG" /\ Recipient[m] = n
    BY <1>9 DEF onPeerDataRecv, Arrives, Handled
  <2>2. m \in Message /\ p.attempt \in Nat
    BY <1>2, <2>1, PayloadParts
  <2>3. n \in ChatNode /\ Sender[m] \in ChatNode /\ ack \in Acks
    BY <2>1, <2>2, Companions, AckHashOfMessage
  <2> HIDE DEF m, ack
  <2>4. path \in ChatPayload
    BY <1>2, <2>3, UniqueTypes, PayloadMade
  <2>5. sendAckTo(n, Sender[m], ack, Unique(n)) \subseteq ChatPacket
    BY <2>3, AcksSent
  <2>6. made \subseteq ChatPacket
    BY <2>4, <2>5, PacketParts
  <2>7. ContactsInv'
    BY <2>1, <2>3 DEF ContactsInv
  <2> HIDE DEF made
  <2> QED
    BY <1>2, <2>1, <2>6, <2>7, HandledPackets
<1>10. CASE onPeerPathRecv(n, pkt)
  <2> DEFINE back == createPathReturn(n, p.from, RouteOf(pkt), Nothing, Unique(n))
             made == IF pkt.flood THEN {direct(back, p.route)} ELSE {}
  <2>1. /\ Handled(n, pkt, {p}, made, {}) /\ UNCHANGED lost /\ p.type = "PATH" /\ p.to = n
        /\ out_path' = [out_path EXCEPT ![n][p.from] = p.route]
        /\ created' = [created EXCEPT ![n] = IF pkt.flood THEN @ + 1 ELSE @]
    BY <1>10 DEF onPeerPathRecv, Arrives, Handled
  <2>2. p.from \in ChatNode /\ n \in ChatNode /\ p.route \in Routes
    BY <1>2, <2>1, PayloadParts
  <2>3. back \in ChatPayload
    BY <1>2, <2>2, UniqueTypes, PayloadMade
  <2>4. made \subseteq ChatPacket
    BY <2>2, <2>3, PacketParts
  <2>5. ContactsInv'
    BY <2>1, <2>2 DEF ContactsInv
  <2> HIDE DEF made
  <2> QED
    BY <1>2, <2>1, <2>4, <2>5, HandledPackets
<1>11. CASE onAckRecv(n, pkt)
  <2> DEFINE fwd == IF Expecting(n, p.ack) = {} THEN routed(n, pkt) ELSE {}
  <2>1. Handled(n, pkt, {p}, {}, fwd) /\ UNCHANGED <<out_path, created, lost>>
    BY <1>11 DEF onAckRecv, Handled
  <2>2. fwd \subseteq ChatPacket
    BY <1>4
  <2> HIDE DEF fwd
  <2> QED
    BY <1>2, <1>3, <2>1, <2>2, HandledPackets
<1>12. CASE onMultipartRecv(n, pkt)
  <2>1. Handled(n, pkt, {SeenAs(p)}, {}, {}) /\ UNCHANGED <<out_path, created, lost>>
    BY <1>12 DEF onMultipartRecv, Handled
  <2> QED
    BY <1>2, <1>3, <2>1, HandledPackets
<1> QED
  BY <1>1, <1>5, <1>6, <1>7, <1>8, <1>9, <1>10, <1>11, <1>12

\* Losses are counted up to their bound.
LEMMA TypesTransmitted ==
  ASSUME TypeInv, PacketsInv, ContactsInv, NEW n \in Node, Transmit(n)
  PROVE  PacketsInv' /\ ContactsInv'
<1>1. PICK pkt \in send_queue[n] :
        \E heard \in SUBSET {r \in inRange(n) : MattersTo(r, pkt)} :
          /\ lost' = lost + Cardinality({r \in inRange(n) : MattersTo(r, pkt)} \ heard)
          /\ lost' <= MaxLoss
          /\ send_queue' = [send_queue EXCEPT ![n] = @ \ {pkt}]
          /\ arriving' = [r \in Node |-> IF r \in heard THEN arriving[r] \union {pkt} ELSE arriving[r]]
          /\ UNCHANGED <<seen, out_path, created>>
  BY Zenon DEF Transmit, contacts
<1> DEFINE inReach == {r \in inRange(n) : MattersTo(r, pkt)}
<1>2. PICK heard \in SUBSET inReach :
        /\ lost' = lost + Cardinality(inReach \ heard)
        /\ lost' <= MaxLoss
        /\ send_queue' = [send_queue EXCEPT ![n] = @ \ {pkt}]
        /\ arriving' = [r \in Node |-> IF r \in heard THEN arriving[r] \union {pkt} ELSE arriving[r]]
        /\ UNCHANGED <<seen, out_path, created>>
  BY <1>1, Zenon
<1> DEFINE missed == inReach \ heard
<1>3. PacketsInv'
  <2>1. \A k \in Node : Held(k)' \subseteq Held(k) \union Held(n)
    BY <1>2 DEF Held, TypeInv
  <2> QED
    BY <1>2, <2>1 DEF PacketsInv
<1>4. Cardinality(missed) \in Nat
  <2>1. missed \in SUBSET Node
    BY DEF inRange
  <2>2. IsFiniteSet(Node)
    BY TopologyAssumption
  <2> HIDE DEF missed
  <2>3. IsFiniteSet(missed)
    BY <2>1, <2>2, FS_Subset, Zenon
  <2> QED
    BY <2>3, FS_CardinalityType
<1>5. lost \in 0..MaxLoss /\ MaxLoss \in Nat
  BY ChatAssumption DEF ContactsInv
<1> HIDE DEF missed
<1>6. lost' \in 0..MaxLoss
  <2>1. lost' = lost + Cardinality(missed) /\ lost' <= MaxLoss
    BY <1>2 DEF missed
  <2> QED
    BY <1>4, <1>5, <2>1
<1> QED
  BY <1>2, <1>3, <1>6 DEF ContactsInv

LEMMA TypesStep ==
  ASSUME TypeInv, PacketsInv, ContactsInv, [Next]_vars
  PROVE  PacketsInv' /\ ContactsInv'
<1>1. ASSUME NEW n \in Node, loop(n) PROVE PacketsInv' /\ ContactsInv'
  BY <1>1, TypesHandled, TypesTransmitted DEF loop
<1>2. ASSUME NEW m \in Message, sendMessage(m) PROVE PacketsInv' /\ ContactsInv'
  <2> DEFINE n == Sender[m]
             p == composeMsgPacket(m, attempts[m])
             pkt == addressed(n, Recipient[m], p)
  <2>1. /\ seen' = [seen EXCEPT ![n] = @ \union {p}]
        /\ send_queue' = [send_queue EXCEPT ![n] = @ \union {pkt}]
        /\ UNCHANGED <<arriving, out_path, created, lost>>
    BY <1>2 DEF sendMessage
  <2>2. /\ n \in Node /\ n \in ChatNode /\ Recipient[m] \in ChatNode /\ attempts[m] \in Nat
        /\ created[n] \in Nat
    BY Companions DEF TypeInv, ContactsInv
  <2>3. p \in ChatPayload
    BY <2>2 DEF composeMsgPacket, ChatPayload
  <2>4. pkt \in ChatPacket
    BY <2>2, <2>3, AddressedPacket
  <2> HIDE DEF n, p, pkt
  <2>5. /\ \A k \in Node : Held(k)' \subseteq Held(k) \union {pkt}
        /\ \A k \in Node : seen'[k] \subseteq seen[k] \union {p}
    BY <2>1, <2>2 DEF Held, TypeInv
  <2> QED
    BY <2>1, <2>3, <2>4, <2>5 DEF PacketsInv, ContactsInv
<1>3. ASSUME NEW n \in ChatNode, resetPath(n) PROVE PacketsInv' /\ ContactsInv'
  <2>1. PICK c \in ChatNode : /\ out_path' = [out_path EXCEPT ![n][c] = Nothing]
                              /\ UNCHANGED <<seen, send_queue, arriving, created, lost>>
    BY <1>3 DEF resetPath
  <2>2. ContactsInv'
    BY <2>1 DEF ContactsInv
  <2> QED
    BY <2>1, <2>2 DEF PacketsInv, Held
<1>4. CASE UNCHANGED vars
  BY <1>4 DEF vars, contacts, PacketsInv, Held, ContactsInv
<1> QED
  BY <1>1, <1>2, <1>3, <1>4 DEF Next

LEMMA InitTypes == Init => PacketsInv /\ ContactsInv
  BY ChatAssumption DEF Init, PacketsInv, Held, ContactsInv

\* Type correctness, whatever payloads there are besides those the nodes make: an
\* ACK found inside a multipart one, a path returned or a packet made anew at a hop
\* is a well-formed packet, the hashes of a path have one to three bytes also after
\* a count that ran over, and no more receptions are lost than the bound.
THEOREM TypeCorrect == ASSUME ChatPayload \subseteq Payload PROVE Spec => []TypeOK
<1>1. Init => IInv /\ PacketsInv /\ ContactsInv
  BY InitInv, InitTypes
<1>2. IInv /\ PacketsInv /\ ContactsInv /\ [Next]_vars => IInv' /\ PacketsInv' /\ ContactsInv'
  BY NextStep, TypesStep DEF IInv
<1>3. IInv /\ PacketsInv /\ ContactsInv => TypeOK
  <2> SUFFICES ASSUME IInv, PacketsInv, ContactsInv PROVE TypeOK
    OBVIOUS
  <2>1. seen \in [Node -> SUBSET Payload]
    BY DEF IInv, TypeInv, PacketsInv
  <2>2. ASSUME NEW n \in Node, NEW pkt \in send_queue[n] \union arriving[n]
        PROVE  SeenAs(pkt.payload) \in Payload /\ pkt.flood \in BOOLEAN /\ RouteOf(pkt) \in Routes
    <3>1. pkt \in ChatPacket
      BY DEF PacketsInv, Held
    <3>2. pkt.payload \in ChatPayload /\ pkt.flood \in BOOLEAN
      BY <3>1 DEF ChatPacket
    <3> QED
      BY <3>1, <3>2, PayloadParts, PacketParts
  <2>3. /\ expected_ack \in [ChatNode -> [0..AckTableSize - 1 -> Acks \union {Nothing}]]
        /\ next_ack_idx \in [ChatNode -> 0..AckTableSize - 1]
    BY DEF IInv, TypeInv, TableIndex
  <2> QED
    BY <2>1, <2>2, <2>3 DEF TypeOK, ContactsInv
<1> QED
  BY <1>1, <1>2, <1>3, PTL DEF Spec

-----------------------------------------------------------------------------
(***************************************************************************)
(* Routes.                                                                 *)
(***************************************************************************)

\* No path gets so long that its count runs over: only hashes of one byte could.
CountFits == FloodMax < CountLimit \/ HashSize > 1

\* No two repeaters have the same hash, of the size that floods are sent with.
HashesDiffer ==
  \A r, q \in Repeater : hashOf(r, HashSize) = hashOf(q, HashSize) => r = q

Routable(pkt) == pkt.payload.type \in {"TXT_MSG", "PATH"}

Origin(p) == IF p.type = "TXT_MSG" THEN Sender[p.msg] ELSE p.from

Known(n, route, c) == route.size = HashSize /\ Leads(n, route, c)

\* A path that is returned leads its addressee to the node that made it. The path of
\* a flood about to be sent leads from its origin to every node in range, that of
\* one that arrives to the node it arrives at.
Returned(p) == p.type = "PATH" => Known(p.to, p.route, p.from)

Flooding(n, pkt) ==
  pkt.flood /\ Routable(pkt) =>
    pkt.size = HashSize /\ \A r \in inRange(n) : Leads(Origin(pkt.payload), RouteOf(pkt), r)

FoundInv ==
  /\ \A n \in Node : \A pkt \in send_queue[n] : Returned(pkt.payload) /\ Flooding(n, pkt)
  /\ \A n \in Node : \A pkt \in arriving[n] :
       /\ Returned(pkt.payload)
       /\ pkt.flood /\ Routable(pkt) => Known(Origin(pkt.payload), RouteOf(pkt), n)
  /\ \A n, c \in ChatNode : out_path[n][c] # Nothing => Known(n, out_path[n][c], c)

\* The path of a direct packet leads on from the node that sends it.
Directed(n, pkt) == ~pkt.flood /\ Routable(pkt) => Known(n, RouteOf(pkt), Addressee(pkt.payload))

DirectInv ==
  /\ \A n \in Node : \A pkt \in send_queue[n] : Directed(n, pkt)
  /\ \A n \in Node : \A pkt \in arriving[n] : \E k \in Node : Directed(k, pkt)

\* A path is one hop longer behind a repeater.
LEMMA LeadsOn ==
  ASSUME NEW o \in Node, NEW route \in Routes, NEW n \in Repeater, NEW r \in Node,
         Leads(o, route, n), <<n, r>> \in Links
  PROVE  Leads(o, [size |-> route.size, path |-> Append(route.path, hashOf(n, route.size))], r)
<1> DEFINE len == Len(route.path)
           h == hashOf(n, route.size)
           path == Append(route.path, h)
           on == [size |-> route.size, path |-> path]
<1>1. PICK hops \in [DOMAIN route.path -> Repeater] :
        /\ \A i \in DOMAIN hops : hashOf(hops[i], route.size) = route.path[i]
        /\ \A i \in 0..len :
             <<IF i = 0 THEN o ELSE hops[i], IF i = len THEN n ELSE hops[i + 1]>> \in Links
  BY DEF Leads
<1>2. /\ len \in Nat /\ DOMAIN route.path = 1..len /\ DOMAIN path = 1..len + 1 /\ Len(path) = len + 1
      /\ \A i \in 1..len : path[i] = route.path[i]
      /\ path[len + 1] = h
  BY DEF Routes
<1> DEFINE more == [i \in 1..len + 1 |-> IF i = len + 1 THEN n ELSE hops[i]]
<1> HIDE DEF len, h, path
<1>3. more \in [1..len + 1 -> Repeater]
  BY <1>1, <1>2
<1>4. ASSUME NEW i \in 1..len + 1 PROVE hashOf(more[i], route.size) = path[i]
  <2>1. CASE i = len + 1
    BY <1>2, <2>1 DEF h
  <2>2. CASE i # len + 1
    <3>1. i \in 1..len
      BY <1>2, <2>2
    <3> QED
      BY <1>1, <1>2, <2>2, <3>1
  <2> QED
    BY <2>1, <2>2
<1>5. ASSUME NEW i \in 0..len + 1
      PROVE  <<IF i = 0 THEN o ELSE more[i], IF i = len + 1 THEN r ELSE more[i + 1]>> \in Links
  <2>1. CASE i = len + 1
    <3>1. i # 0 /\ more[i] = n
      BY <1>2, <2>1
    <3> HIDE DEF more
    <3> QED
      BY <2>1, <3>1
  <2>2. CASE i # len + 1
    <3>1. i \in 0..len /\ (i = len <=> i + 1 = len + 1) /\ (i # 0 => i \in 1..len + 1)
          /\ i + 1 \in 1..len + 1
      BY <1>2, <2>2
    <3>2. <<IF i = 0 THEN o ELSE hops[i], IF i = len THEN n ELSE hops[i + 1]>> \in Links
      BY <1>1, <3>1
    <3> QED
      BY <2>2, <3>1, <3>2
  <2> QED
    BY <2>1, <2>2
<1> HIDE DEF more
<1>6. DOMAIN more = 1..len + 1
  BY <1>3
<1>7. Leads(o, on, r)
  BY <1>2, <1>3, <1>4, <1>5, <1>6 DEF Leads
<1> QED
  BY <1>7 DEF path, h

\* What is left of a path leads on from the node that it names first.
LEMMA LeadsOff ==
  ASSUME HashesDiffer, NEW k \in Node, NEW route \in Routes, NEW n \in Repeater, NEW c,
         Known(k, route, c), route.path # <<>>, Head(route.path) = hashOf(n, route.size)
  PROVE  Known(n, [size |-> route.size, path |-> Tail(route.path)], c)
<1> DEFINE len == Len(route.path)
           path == Tail(route.path)
           off == [size |-> route.size, path |-> path]
<1>1. PICK hops \in [DOMAIN route.path -> Repeater] :
        /\ \A i \in DOMAIN hops : hashOf(hops[i], route.size) = route.path[i]
        /\ \A i \in 0..len :
             <<IF i = 0 THEN k ELSE hops[i], IF i = len THEN c ELSE hops[i + 1]>> \in Links
  BY DEF Leads, Known
<1>2. /\ len \in Nat \ {0} /\ DOMAIN route.path = 1..len /\ DOMAIN path = 1..len - 1 /\ Len(path) = len - 1
      /\ \A i \in 1..len - 1 : path[i] = route.path[i + 1]
      /\ Head(route.path) = route.path[1]
  BY DEF Routes
<1> HIDE DEF len, path
<1>3. hops[1] = n
  <2>1. 1 \in DOMAIN hops
    BY <1>1, <1>2
  <2>2. hashOf(hops[1], HashSize) = hashOf(n, HashSize) /\ hops[1] \in Repeater
    BY <1>1, <1>2, <2>1 DEF Known
  <2> QED
    BY <2>2 DEF HashesDiffer
<1> DEFINE less == [i \in 1..len - 1 |-> hops[i + 1]]
<1>4. less \in [1..len - 1 -> Repeater]
  <2>1. \A i \in 1..len - 1 : i + 1 \in 1..len
    BY <1>2
  <2> QED
    BY <1>1, <1>2, <2>1
<1>5. \A i \in 1..len - 1 : hashOf(less[i], route.size) = path[i]
  <2>1. \A i \in 1..len - 1 : i + 1 \in 1..len
    BY <1>2
  <2> QED
    BY <1>1, <1>2, <2>1
<1>6. ASSUME NEW i \in 0..len - 1
      PROVE  <<IF i = 0 THEN n ELSE less[i], IF i = len - 1 THEN c ELSE less[i + 1]>> \in Links
  <2>1. i + 1 \in 0..len /\ i + 1 # 0 /\ (i + 1 = len <=> i = len - 1)
    BY <1>2
  <2>2. <<hops[i + 1], IF i = len - 1 THEN c ELSE hops[(i + 1) + 1]>> \in Links
    BY <1>1, <2>1
  <2>3. (IF i = 0 THEN n ELSE less[i]) = hops[i + 1]
    BY <1>2, <1>3
  <2>4. i # len - 1 => less[i + 1] = hops[(i + 1) + 1]
    BY <1>2
  <2> HIDE DEF less
  <2> QED
    BY <2>2, <2>3, <2>4
<1> HIDE DEF less
<1>7. DOMAIN less = 1..len - 1
  BY <1>4
<1>8. Leads(n, off, c)
  BY <1>2, <1>4, <1>5, <1>6, <1>7 DEF Leads
<1>9. off.size = HashSize
  BY DEF Known
<1> QED
  BY <1>8, <1>9 DEF Known, path

\* A path without hops leads to the nodes in range.
LEMMA LeadsNext ==
  ASSUME NEW n \in Node, NEW r \in inRange(n), NEW size
  PROVE  Leads(n, [size |-> size, path |-> <<>>], r)
<1> DEFINE none == [i \in {} |-> n]
<1>1. <<n, r>> \in Links
  BY DEF inRange
<1>2. /\ DOMAIN (<<>>) = {} /\ Len(<<>>) = 0
      /\ none \in [{} -> Repeater] /\ DOMAIN none = {}
  OBVIOUS
<1>3. \A i \in 0..0 : i = 0
  OBVIOUS
<1> HIDE DEF none
<1> QED
  BY <1>1, <1>2, <1>3 DEF Leads

-----------------------------------------------------------------------------

\* The routes of the packets that a node makes.
LEMMA RoutesMade ==
  /\ \A p : /\ flooded(p).payload = p /\ flooded(p).flood = TRUE /\ flooded(p).size = HashSize
            /\ RouteOf(flooded(p)) = [size |-> HashSize, path |-> <<>>]
  /\ \A p : \A route \in Routes :
       /\ direct(p, route).payload = p /\ direct(p, route).flood = FALSE
       /\ RouteOf(direct(p, route)) = route
<1>1. \A p : /\ flooded(p).payload = p /\ flooded(p).flood = TRUE /\ flooded(p).size = HashSize
             /\ RouteOf(flooded(p)) = [size |-> HashSize, path |-> <<>>]
  BY DEF flooded, RouteOf
<1>2. \A p : \A route \in Routes :
        /\ direct(p, route).payload = p /\ direct(p, route).flood = FALSE
        /\ RouteOf(direct(p, route)) = route
  BY DEF direct, RouteOf, Routes
<1> QED
  BY <1>1, <1>2

\* The node that makes a payload starts its flood.
LEMMA FloodStarts ==
  ASSUME NEW n \in Node, NEW p, p.type \in {"TXT_MSG", "PATH"} => Origin(p) = n
  PROVE  Flooding(n, flooded(p)) /\ Directed(n, flooded(p))
<1>1. \A r \in inRange(n) : Leads(n, [size |-> HashSize, path |-> <<>>], r)
  BY LeadsNext
<1> QED
  BY <1>1, RoutesMade DEF Flooding, Directed, Routable

\* A packet of a type that no path is taken from.
LEMMA OtherPacket ==
  ASSUME NEW n, NEW pkt, pkt.payload.type \in {"ACK", "MULTIPART"}
  PROVE  Returned(pkt.payload) /\ Flooding(n, pkt) /\ Directed(n, pkt)
  BY DEF Returned, Flooding, Directed, Routable

LEMMA AcksOther ==
  ASSUME NEW n, NEW c, NEW ack, NEW u, NEW f \in sendAckTo(n, c, ack, u)
  PROVE  f.payload.type \in {"ACK", "MULTIPART"}
<1>1. /\ \A q : flooded(q).payload = q
      /\ \A q, route : direct(q, route).payload = q
  BY DEF flooded, direct
<1>2. f.payload = createAck(ack, u) \/ f.payload = createMultiAck(ack, u, 1)
  BY <1>1 DEF sendAckTo, addressed
<1> QED
  BY <1>2 DEF createAck, createMultiAck

\* A repeater that sends a flood on adds itself to a path that led to it.
LEMMA RoutedOn ==
  ASSUME CountFits, NEW n \in Node, NEW pkt \in ChatPacket, NEW f \in routed(n, pkt),
         Returned(pkt.payload),
         pkt.flood /\ Routable(pkt) => Known(Origin(pkt.payload), RouteOf(pkt), n),
         Routable(pkt) => Origin(pkt.payload) \in Node
  PROVE  Returned(f.payload) /\ Flooding(n, f) /\ Directed(n, f)
<1> DEFINE path == Append(pkt.path, hashOf(n, pkt.size))
           on == [pkt EXCEPT !.hops = Append(@, n)]
<1>1. pkt.flood /\ PathHasRoom(pkt) /\ allowPacketForward(n, pkt) /\ f = withPath(on, path)
  BY DEF routed, routeRecvPacket, withSelf
<1>2. pkt.size \in 1..3 /\ pkt.path \in Seq(Hash)
  BY DEF ChatPacket
<1>3. Len(path) = Len(pkt.path) + 1 /\ Len(pkt.path) \in Nat
  <2>1. hashOf(n, pkt.size) \in Hash
    BY <1>2 DEF Hash
  <2> QED
    BY <1>2, <2>1
<1>4. on.payload = pkt.payload /\ on.flood = TRUE /\ on.size = pkt.size
  BY <1>1 DEF ChatPacket
<1>5. CASE ~Routable(pkt)
  <2>1. f.payload = pkt.payload
    BY <1>1 DEF withPath, ChatPacket
  <2> QED
    BY <1>5, <2>1 DEF Routable, Returned, Flooding, Directed
<1>6. CASE Routable(pkt)
  <2>1. pkt.size = HashSize /\ Leads(Origin(pkt.payload), RouteOf(pkt), n) /\ Origin(pkt.payload) \in Node
    BY <1>1, <1>6 DEF Known, RouteOf
  <2>2. Len(path) < CountLimit
    <3>1. /\ (Len(pkt.path) + 1) * pkt.size <= MaxPathSize /\ Len(pkt.path) < FloodMax
          /\ MaxPathSize \in Nat /\ CountLimit \in Nat \ {0} /\ MaxPathSize <= CountLimit /\ FloodMax \in Nat
      BY <1>1, SizeAssumption, PrefsAssumption DEF PathHasRoom, allowPacketForward, getPathHashCount
    <3>2. CASE FloodMax < CountLimit
      BY <1>3, <3>1, <3>2
    <3>3. CASE pkt.size = 2
      BY <1>3, <3>1, <3>3
    <3>4. CASE pkt.size = 3
      BY <1>3, <3>1, <3>4
    <3> QED
      BY <1>2, <2>1, <3>2, <3>3, <3>4 DEF CountFits
  <2>3. f = [on EXCEPT !.path = path]
    BY <1>1, <2>2 DEF withPath
  <2>4. /\ f.payload = pkt.payload /\ f.flood = TRUE /\ f.size = pkt.size
        /\ RouteOf(f) = [size |-> RouteOf(pkt).size, path |-> Append(RouteOf(pkt).path, hashOf(n, RouteOf(pkt).size))]
    BY <2>3, <1>1 DEF RouteOf, ChatPacket
  <2>5. n \in Repeater
    BY <1>1 DEF allowPacketForward
  <2>6. ASSUME NEW r \in inRange(n) PROVE Leads(Origin(pkt.payload), RouteOf(f), r)
    <3>1. r \in Node /\ <<n, r>> \in Links /\ RouteOf(pkt) \in Routes
      BY PacketParts DEF inRange
    <3> QED
      BY <2>1, <2>4, <2>5, <3>1, LeadsOn
  <2> QED
    BY <2>1, <2>4, <2>6 DEF Returned, Flooding, Directed
<1> QED
  BY <1>5, <1>6

\* The origin of a message or path is a node.
LEMMA OriginNode ==
  ASSUME NEW pkt \in ChatPacket, Routable(pkt)
  PROVE  Origin(pkt.payload) \in Node
<1>1. pkt.payload \in ChatPayload
  BY DEF ChatPacket
<1>2. CASE pkt.payload.type = "TXT_MSG"
  BY <1>1, <1>2, PayloadParts, Companions DEF Origin
<1>3. CASE pkt.payload.type = "PATH"
  <2>1. pkt.payload.from \in ChatNode
    BY <1>1, <1>3, PayloadParts
  <2>2. ChatNode \subseteq Node
    BY Companions DEF ChatNode
  <2> QED
    BY <1>3, <2>1, <2>2 DEF Origin
<1> QED
  BY <1>2, <1>3 DEF Routable

\* A direct packet that moves on by a hop, as itself or with an ACK made anew.
LEMMA DirectOn ==
  ASSUME NEW n \in Repeater, NEW pkt \in ChatPacket, Underway(pkt), isNextHop(n, pkt),
         Returned(pkt.payload)
  PROVE  /\ Returned(removeSelfFromPath(n, pkt).payload)
         /\ Flooding(n, removeSelfFromPath(n, pkt))
         /\ HashesDiffer /\ (\E k \in Node : Directed(k, pkt)) => Directed(n, removeSelfFromPath(n, pkt))
<1> DEFINE f == removeSelfFromPath(n, pkt)
<1>1. /\ f.payload = pkt.payload /\ f.flood = FALSE /\ pkt.flood = FALSE
      /\ RouteOf(f) = [size |-> RouteOf(pkt).size, path |-> Tail(RouteOf(pkt).path)]
  BY DEF removeSelfFromPath, Underway, RouteOf, ChatPacket
<1>2. /\ RouteOf(pkt).path # <<>> /\ Head(RouteOf(pkt).path) = hashOf(n, RouteOf(pkt).size)
  BY DEF Underway, isNextHop, RouteOf
<1>3. ASSUME HashesDiffer, NEW k \in Node, Directed(k, pkt), Routable(pkt)
      PROVE  Known(n, RouteOf(f), Addressee(f.payload))
  <2>1. Known(k, RouteOf(pkt), Addressee(pkt.payload)) /\ RouteOf(pkt) \in Routes
    BY <1>1, <1>3, PacketParts DEF Directed
  <2>2. Known(n, [size |-> RouteOf(pkt).size, path |-> Tail(RouteOf(pkt).path)], Addressee(pkt.payload))
    BY <1>2, <1>3, <2>1, LeadsOff
  <2> QED
    BY <1>1, <2>2
<1> HIDE DEF f
<1>4. HashesDiffer /\ (\E k \in Node : Directed(k, pkt)) => Directed(n, f)
  BY <1>1, <1>3 DEF Directed, Routable
<1> QED
  BY <1>1, <1>4 DEF Returned, Flooding, f

-----------------------------------------------------------------------------

\* A node handles a packet, and what it sends on may be sent.
LEMMA HandledRoutes ==
  ASSUME TypeInv, FoundInv, NEW n \in Node, NEW pkt, NEW marked, NEW made, NEW forwarded,
         Handled(n, pkt, marked, made, forwarded),
         \A f \in made \union forwarded : Returned(f.payload) /\ Flooding(n, f),
         \A k, c \in ChatNode : out_path'[k][c] # Nothing => Known(k, out_path'[k][c], c)
  PROVE  /\ FoundInv'
         /\ DirectInv /\ (\A f \in made \union forwarded : Directed(n, f)) => DirectInv'
<1>1. \A k \in Node : /\ \A f \in send_queue'[k] : f \in send_queue[k] \/ (k = n /\ f \in made \union forwarded)
                      /\ arriving'[k] \subseteq arriving[k]
  BY DEF Handled, TypeInv
<1>2. FoundInv'
  <2>1. ASSUME NEW k \in Node, NEW f \in send_queue'[k] PROVE Returned(f.payload) /\ Flooding(k, f)
    BY <1>1, Zenon DEF FoundInv
  <2>2. ASSUME NEW k \in Node, NEW f \in arriving'[k]
        PROVE  /\ Returned(f.payload)
               /\ f.flood /\ Routable(f) => Known(Origin(f.payload), RouteOf(f), k)
    BY <1>1, Zenon DEF FoundInv
  <2> QED
    BY <2>1, <2>2, Zenon DEF FoundInv
<1>3. ASSUME DirectInv, \A f \in made \union forwarded : Directed(n, f) PROVE DirectInv'
  <2>1. ASSUME NEW k \in Node, NEW f \in send_queue'[k] PROVE Directed(k, f)
    BY <1>1, <1>3, Zenon DEF DirectInv
  <2>2. ASSUME NEW k \in Node, NEW f \in arriving'[k] PROVE \E j \in Node : Directed(j, f)
    BY <1>1, <1>3, Zenon DEF DirectInv
  <2> QED
    BY <2>1, <2>2, Zenon DEF DirectInv
<1> QED
  BY <1>2, <1>3

\* What handling a packet does to the routes: those that a node learns and sends
\* lead, and so do the packets that it sends by them.
LEMMA RoutesHandled ==
  ASSUME CountFits, TypeInv, PacketsInv, ContactsInv, FoundInv, NEW n \in Node, onRecvPacket(n)
  PROVE  /\ FoundInv'
         /\ HashesDiffer /\ DirectInv => DirectInv'
<1>1. PICK pkt \in arriving[n] :
        \/ forwardDirect(n, pkt) \/ overhearDirect(n, pkt)
        \/ DropSeen(n, pkt) \/ routeAddressed(n, pkt)
        \/ onPeerDataRecv(n, pkt) \/ onPeerPathRecv(n, pkt)
        \/ onAckRecv(n, pkt) \/ onMultipartRecv(n, pkt)
  BY Zenon DEF onRecvPacket
<1> DEFINE p == pkt.payload
<1>2. pkt \in ChatPacket /\ p \in ChatPayload /\ RouteOf(pkt) \in Routes
  BY ArrivingPacket
<1>3. /\ Returned(p)
      /\ pkt.flood /\ Routable(pkt) => Known(Origin(p), RouteOf(pkt), n)
  BY DEF FoundInv
<1>4. DirectInv => \E k \in Node : Directed(k, pkt)
  BY DEF DirectInv
<1>5. \A f \in routed(n, pkt) : Returned(f.payload) /\ Flooding(n, f) /\ Directed(n, f)
  BY <1>2, <1>3, OriginNode, RoutedOn
<1>6. \A k, c \in ChatNode : out_path[k][c] # Nothing => Known(k, out_path[k][c], c)
  BY DEF FoundInv
<1>7. CASE forwardDirect(n, pkt)
  <2> DEFINE fwd == IF p.type \in {"ACK", "MULTIPART"} THEN routeDirectRecvAcks(n, pkt)
                    ELSE {removeSelfFromPath(n, pkt)}
  <2>1. /\ Handled(n, pkt, {SeenAs(p)}, {}, fwd) /\ UNCHANGED out_path
        /\ Underway(pkt) /\ isNextHop(n, pkt) /\ n \in Repeater
    BY <1>7 DEF forwardDirect, contacts, isNextHop
  <2>2. CASE p.type \in {"ACK", "MULTIPART"}
    <3>1. \A g, q : g \in ChatPacket => [g EXCEPT !.payload = q].payload = q
      BY DEF ChatPacket
    <3>2. removeSelfFromPath(n, pkt) \in ChatPacket
      BY <1>2, <2>1, PassedOn DEF Underway
    <3>3. \A f \in routeDirectRecvAcks(n, pkt) : f.payload.type \in {"ACK", "MULTIPART"}
      <4>1. /\ \A ack, u : createAck(ack, u).type = "ACK"
            /\ \A ack, u, k : createMultiAck(ack, u, k).type = "MULTIPART"
        BY DEF createAck, createMultiAck
      <4>2. \A q : [removeSelfFromPath(n, pkt) EXCEPT !.payload = q].payload = q
        BY <3>1, <3>2
      <4>3. \A f \in routeDirectRecvAcks(n, pkt) :
              \/ f.payload = createAck(p.ack, p.unique)
              \/ \E k : f.payload = createMultiAck(p.ack, p.unique, k)
        BY <4>2 DEF routeDirectRecvAcks
      <4> QED
        BY <4>1, <4>3
    <3>4. \A f \in fwd : Returned(f.payload) /\ Flooding(n, f) /\ Directed(n, f)
      BY <2>2, <3>3, OtherPacket
    <3> HIDE DEF fwd
    <3> QED
      BY <1>6, <2>1, <3>4, HandledRoutes
  <2>3. CASE p.type \notin {"ACK", "MULTIPART"}
    <3>1. \A f \in fwd : /\ Returned(f.payload) /\ Flooding(n, f)
                         /\ HashesDiffer /\ DirectInv => Directed(n, f)
      BY <1>2, <1>3, <1>4, <2>1, <2>3, DirectOn
    <3> HIDE DEF fwd
    <3> QED
      BY <1>6, <2>1, <3>1, HandledRoutes
  <2> QED
    BY <2>2, <2>3
<1>8. CASE overhearDirect(n, pkt)
  <2>1. Handled(n, pkt, {}, {}, {}) /\ UNCHANGED out_path
    BY <1>8 DEF overhearDirect
  <2> QED
    BY <1>6, <2>1, HandledRoutes
<1>9. CASE DropSeen(n, pkt)
  <2>1. Handled(n, pkt, {}, {}, {}) /\ UNCHANGED out_path
    BY <1>9 DEF DropSeen, contacts
  <2> QED
    BY <1>6, <2>1, HandledRoutes
<1>10. CASE routeAddressed(n, pkt)
  <2>1. Handled(n, pkt, {p}, {}, routed(n, pkt)) /\ UNCHANGED out_path
    BY <1>10 DEF routeAddressed, contacts
  <2> QED
    BY <1>5, <1>6, <2>1, HandledRoutes
<1>11. CASE onPeerDataRecv(n, pkt)
  <2> DEFINE m == p.msg
             ack == ackHash(m, p.attempt)
             path == createPathReturn(n, Sender[m], RouteOf(pkt), ack, Unique(n))
             made == IF pkt.flood THEN {flooded(path)} ELSE sendAckTo(n, Sender[m], ack, Unique(n))
  <2>1. /\ Handled(n, pkt, {p}, made, {}) /\ UNCHANGED out_path
        /\ p.type = "TXT_MSG" /\ Recipient[m] = n
    BY <1>11 DEF onPeerDataRecv, Arrives
  <2>2. CASE pkt.flood
    <3>1. Known(Sender[m], RouteOf(pkt), n)
      BY <1>3, <2>1, <2>2 DEF Routable, Origin
    <3>2. /\ path.type = "PATH" /\ path.to = Sender[m] /\ path.from = n /\ path.route = RouteOf(pkt)
          /\ Origin(path) = n
      BY DEF createPathReturn, Origin
    <3> HIDE DEF path
    <3>3. /\ Returned(flooded(path).payload)
          /\ Flooding(n, flooded(path)) /\ Directed(n, flooded(path))
      BY <3>1, <3>2, FloodStarts, RoutesMade DEF Returned
    <3>4. \A f \in made : Returned(f.payload) /\ Flooding(n, f) /\ Directed(n, f)
      BY <2>2, <3>3
    <3> HIDE DEF made
    <3> QED
      BY <1>6, <2>1, <3>4, HandledRoutes
  <2>3. CASE ~pkt.flood
    <3>1. \A f \in made : Returned(f.payload) /\ Flooding(n, f) /\ Directed(n, f)
      BY <2>3, AcksOther, OtherPacket
    <3> HIDE DEF made
    <3> QED
      BY <1>6, <2>1, <3>1, HandledRoutes
  <2> QED
    BY <2>2, <2>3
<1>12. CASE onPeerPathRecv(n, pkt)
  <2> DEFINE back == createPathReturn(n, p.from, RouteOf(pkt), Nothing, Unique(n))
             made == IF pkt.flood THEN {direct(back, p.route)} ELSE {}
  <2>1. /\ Handled(n, pkt, {p}, made, {}) /\ p.type = "PATH" /\ p.to = n
        /\ out_path' = [out_path EXCEPT ![n][p.from] = p.route]
    BY <1>12 DEF onPeerPathRecv, Arrives
  <2>2. /\ p.from \in ChatNode /\ n \in ChatNode /\ p.route \in Routes
        /\ Known(n, p.route, p.from)
    BY <1>2, <1>3, <2>1, PayloadParts DEF Returned
  <2>3. \A k, c \in ChatNode : out_path'[k][c] # Nothing => Known(k, out_path'[k][c], c)
    <3>1. \A k, c \in ChatNode :
            out_path'[k][c] = IF k = n /\ c = p.from THEN p.route ELSE out_path[k][c]
      BY <2>1, <2>2 DEF ContactsInv
    <3> QED
      BY <1>6, <2>2, <3>1
  <2>4. ASSUME NEW f \in made PROVE Returned(f.payload) /\ Flooding(n, f) /\ Directed(n, f)
    <3>1. pkt.flood /\ f = direct(back, p.route)
      BY <2>4
    <3>2. f.payload = back /\ f.flood = FALSE /\ RouteOf(f) = p.route
      BY <2>2, <3>1, RoutesMade
    <3>3. /\ back.type = "PATH" /\ back.to = p.from /\ back.from = n /\ back.route = RouteOf(pkt)
          /\ Addressee(back) = p.from
      BY DEF createPathReturn, Addressee
    <3>4. Known(p.from, RouteOf(pkt), n)
      BY <1>3, <2>1, <3>1 DEF Routable, Origin
    <3> HIDE DEF back
    <3> QED
      BY <2>2, <3>2, <3>3, <3>4 DEF Returned, Flooding, Directed
  <2> HIDE DEF made
  <2> QED
    BY <2>1, <2>3, <2>4, HandledRoutes
<1>13. CASE onAckRecv(n, pkt)
  <2> DEFINE fwd == IF Expecting(n, p.ack) = {} THEN routed(n, pkt) ELSE {}
  <2>1. Handled(n, pkt, {p}, {}, fwd) /\ UNCHANGED out_path
    BY <1>13 DEF onAckRecv
  <2>2. \A f \in fwd : Returned(f.payload) /\ Flooding(n, f) /\ Directed(n, f)
    BY <1>5
  <2> HIDE DEF fwd
  <2> QED
    BY <1>6, <2>1, <2>2, HandledRoutes
<1>14. CASE onMultipartRecv(n, pkt)
  <2>1. Handled(n, pkt, {SeenAs(p)}, {}, {}) /\ UNCHANGED out_path
    BY <1>14 DEF onMultipartRecv
  <2> QED
    BY <1>6, <2>1, HandledRoutes
<1> QED
  BY <1>1, <1>7, <1>8, <1>9, <1>10, <1>11, <1>12, <1>13, <1>14

\* A packet arrives where its path leads: at nodes in range of the one that sent it.
LEMMA RoutesTransmitted ==
  ASSUME TypeInv, FoundInv, NEW n \in Node, Transmit(n)
  PROVE  FoundInv' /\ (DirectInv => DirectInv')
<1>1. PICK pkt \in send_queue[n], heard \in SUBSET inRange(n) :
        /\ send_queue' = [send_queue EXCEPT ![n] = @ \ {pkt}]
        /\ arriving' = [r \in Node |-> IF r \in heard THEN arriving[r] \union {pkt} ELSE arriving[r]]
        /\ UNCHANGED out_path
  BY DEF Transmit, contacts
<1>2. \A k \in Node : /\ send_queue'[k] \subseteq send_queue[k]
                      /\ \A f \in arriving'[k] : f \in arriving[k] \/ (f = pkt /\ k \in inRange(n))
  BY <1>1 DEF TypeInv
<1>3. Returned(pkt.payload) /\ Flooding(n, pkt) /\ (DirectInv => Directed(n, pkt))
  BY <1>1 DEF FoundInv, DirectInv
<1>4. FoundInv'
  <2>1. ASSUME NEW k \in Node, NEW f \in arriving'[k]
        PROVE  /\ Returned(f.payload)
               /\ f.flood /\ Routable(f) => Known(Origin(f.payload), RouteOf(f), k)
    <3>1. CASE f \in arriving[k]
      BY <3>1 DEF FoundInv
    <3>2. CASE f = pkt /\ k \in inRange(n)
      BY <1>3, <3>2 DEF Flooding, Known, RouteOf
    <3> QED
      BY <1>2, <3>1, <3>2
  <2>2. \A k \in Node : \A f \in send_queue'[k] : Returned(f.payload) /\ Flooding(k, f)
    BY <1>2 DEF FoundInv
  <2> QED
    BY <1>1, <2>1, <2>2, Zenon DEF FoundInv
<1>5. ASSUME DirectInv PROVE DirectInv'
  BY <1>2, <1>3, <1>5 DEF DirectInv
<1> QED
  BY <1>4, <1>5

LEMMA RoutesStep ==
  ASSUME CountFits, TypeInv, PacketsInv, ContactsInv, FoundInv, [Next]_vars
  PROVE  FoundInv' /\ (HashesDiffer /\ DirectInv => DirectInv')
<1>1. ASSUME NEW n \in Node, loop(n) PROVE FoundInv' /\ (HashesDiffer /\ DirectInv => DirectInv')
  BY <1>1, RoutesHandled, RoutesTransmitted DEF loop
<1>2. ASSUME NEW m \in Message, sendMessage(m)
      PROVE  FoundInv' /\ (HashesDiffer /\ DirectInv => DirectInv')
  <2> DEFINE n == Sender[m]
             c == Recipient[m]
             p == composeMsgPacket(m, attempts[m])
             pkt == addressed(n, c, p)
  <2>1. /\ send_queue' = [send_queue EXCEPT ![n] = @ \union {pkt}]
        /\ UNCHANGED <<arriving, out_path>>
    BY <1>2 DEF sendMessage
  <2>2. n \in Node /\ n \in ChatNode /\ c \in ChatNode
    BY Companions
  <2>3. p.type = "TXT_MSG" /\ Origin(p) = n /\ Addressee(p) = c
    BY DEF composeMsgPacket, Origin, Addressee
  <2>4. Returned(pkt.payload) /\ Flooding(n, pkt) /\ Directed(n, pkt)
    <3> HIDE DEF p, n, c
    <3>1. CASE out_path[n][c] = Nothing
      <4>1. pkt = flooded(p)
        BY <3>1 DEF addressed
      <4> QED
        BY <2>2, <2>3, <4>1, FloodStarts, RoutesMade DEF Returned
    <3>2. CASE out_path[n][c] # Nothing
      <4>1. pkt = direct(p, out_path[n][c]) /\ out_path[n][c] \in Routes
        BY <2>2, <3>2 DEF addressed, ContactsInv
      <4>2. pkt.payload = p /\ pkt.flood = FALSE /\ RouteOf(pkt) = out_path[n][c]
        BY <4>1, RoutesMade
      <4>3. Known(n, out_path[n][c], c)
        BY <2>2, <3>2 DEF FoundInv
      <4> QED
        BY <2>3, <4>2, <4>3 DEF Returned, Flooding, Directed
    <3> QED
      BY <3>1, <3>2
  <2> HIDE DEF n, c, p, pkt
  <2>5. \A k \in Node : \A f \in send_queue'[k] : f \in send_queue[k] \/ (k = n /\ f = pkt)
    BY <2>1, <2>2 DEF TypeInv
  <2>6. FoundInv'
    <3>1. \A k \in Node : \A f \in send_queue'[k] : Returned(f.payload) /\ Flooding(k, f)
      BY <2>4, <2>5 DEF FoundInv
    <3> QED
      BY <2>1, <3>1, Zenon DEF FoundInv
  <2>7. ASSUME DirectInv PROVE DirectInv'
    <3>1. \A k \in Node : \A f \in send_queue'[k] : Directed(k, f)
      BY <2>4, <2>5, <2>7 DEF DirectInv
    <3> QED
      BY <2>1, <2>7, <3>1 DEF DirectInv
  <2> QED
    BY <2>6, <2>7
<1>3. ASSUME NEW n \in ChatNode, resetPath(n)
      PROVE  FoundInv' /\ (HashesDiffer /\ DirectInv => DirectInv')
  <2>1. PICK b \in ChatNode : /\ out_path' = [out_path EXCEPT ![n][b] = Nothing]
                              /\ UNCHANGED <<send_queue, arriving>>
    BY <1>3 DEF resetPath
  <2>2. \A k, c \in ChatNode : out_path'[k][c] = Nothing \/ out_path'[k][c] = out_path[k][c]
    BY <2>1 DEF ContactsInv
  <2>3. \A k, c \in ChatNode : out_path'[k][c] # Nothing => Known(k, out_path'[k][c], c)
    BY <2>2 DEF FoundInv
  <2> QED
    BY <2>1, <2>3 DEF FoundInv, DirectInv
<1>4. CASE UNCHANGED vars
  BY <1>4 DEF vars, contacts, FoundInv, DirectInv
<1> QED
  BY <1>1, <1>2, <1>3, <1>4 DEF Next

LEMMA InitRoutes == Init => FoundInv /\ DirectInv
  BY DEF Init, FoundInv, DirectInv

\* Every path a node ever holds to a contact leads to it, in any network, whatever
\* is lost and in whatever order floods, replies and messages cross, also where
\* repeaters have the same hash.
THEOREM PathsLead ==
  ASSUME CountFits
  PROVE  Spec => [](\A n, c \in ChatNode : out_path[n][c] # Nothing => Leads(n, out_path[n][c], c))
<1>1. Init => IInv /\ PacketsInv /\ ContactsInv /\ FoundInv
  BY InitInv, InitTypes, InitRoutes
<1>2. IInv /\ PacketsInv /\ ContactsInv /\ FoundInv /\ [Next]_vars
        => IInv' /\ PacketsInv' /\ ContactsInv' /\ FoundInv'
  BY NextStep, TypesStep, RoutesStep DEF IInv
<1>3. FoundInv => \A n, c \in ChatNode : out_path[n][c] # Nothing => Leads(n, out_path[n][c], c)
  BY DEF FoundInv, Known
<1> QED
  BY <1>1, <1>2, <1>3, PTL DEF Spec

\* What is left of the path in a direct packet leads on from every node that it
\* comes to, if a repeater can tell its hash from the others': of two with the
\* same hash, in range of the same node, both would send the packet on.
THEOREM AlwaysLead == ASSUME CountFits, HashesDiffer PROVE Spec => []RoutesLead
<1>1. Init => IInv /\ PacketsInv /\ ContactsInv /\ FoundInv /\ DirectInv
  BY InitInv, InitTypes, InitRoutes
<1>2. IInv /\ PacketsInv /\ ContactsInv /\ FoundInv /\ DirectInv /\ [Next]_vars
        => IInv' /\ PacketsInv' /\ ContactsInv' /\ FoundInv' /\ DirectInv'
  BY NextStep, TypesStep, RoutesStep DEF IInv
<1>3. FoundInv /\ DirectInv => RoutesLead
  BY DEF FoundInv, DirectInv, Directed, Routable, Known, RoutesLead
<1> QED
  BY <1>1, <1>2, <1>3, PTL DEF Spec
=============================================================================
