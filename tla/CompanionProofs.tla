--------------------------- MODULE CompanionProofs ---------------------------
(***************************************************************************)
(* The app gets messages in the order in which they arrived, for every     *)
(* number of connections and messages and every size of the queue.         *)
(***************************************************************************)
EXTENDS Companion, TLAPS

LEMMA AppendItem ==
  ASSUME NEW S, NEW s \in Seq(S), NEW e \in S
  PROVE  /\ Append(s, e) \in Seq(S) /\ DOMAIN Append(s, e) = 1..Len(s) + 1
         /\ DOMAIN s = 1..Len(s) /\ Len(s) \in Nat
         /\ \A i \in 1..Len(s) : Append(s, e)[i] = s[i] /\ s[i] \in S
         /\ Append(s, e)[Len(s) + 1] = e
  BY SMT

LEMMA TakeItem ==
  ASSUME NEW S, NEW s \in Seq(S), s # <<>>
  PROVE  /\ Tail(s) \in Seq(S) /\ DOMAIN Tail(s) = 1..Len(s) - 1
         /\ DOMAIN s = 1..Len(s) /\ Len(s) \in Nat \ {0}
         /\ \A i \in 1..Len(s) - 1 : Tail(s)[i] = s[i + 1] /\ s[i + 1] \in S
         /\ Head(s) = s[1] /\ s[1] \in S
  BY SMT

LEMMA EmptyItem == \A S : <<>> \in Seq(S) /\ Len(<<>>) = 0
  BY SMT

LEMMA WithoutItem ==
  ASSUME NEW S, NEW s \in Seq(S), NEW i \in 1..Len(s)
  PROVE  /\ Without(s, i) \in Seq(S) /\ Len(Without(s, i)) = Len(s) - 1
         /\ \A j \in 1..Len(s) - 1 : Without(s, i)[j] = s[IF j < i THEN j ELSE j + 1]
<1> DEFINE before == SubSeq(s, 1, i - 1)
           after == SubSeq(s, i + 1, Len(s))
<1>1. /\ before \in Seq(S) /\ Len(before) = i - 1
      /\ \A j \in 1..i - 1 : before[j] = s[j]
    BY SMT
<1>2. /\ after \in Seq(S) /\ Len(after) = Len(s) - i
      /\ \A j \in 1..Len(s) - i : after[j] = s[i + j]
    BY SMT
<1>3. Without(s, i) = before \o after
    BY DEF Without
<1> HIDE DEF before, after
<1>4. /\ Without(s, i) \in Seq(S) /\ Len(Without(s, i)) = Len(before) + Len(after)
      /\ \A j \in 1..Len(before) + Len(after) :
           Without(s, i)[j] = IF j <= Len(before) THEN before[j] ELSE after[j - Len(before)]
    BY <1>1, <1>2, <1>3, SMT
<1>5. Len(s) \in Nat /\ i \in Nat /\ Len(before) + Len(after) = Len(s) - 1
    BY <1>1, <1>2, SMT
<1>6. ASSUME NEW j \in 1..Len(s) - 1
      PROVE  Without(s, i)[j] = s[IF j < i THEN j ELSE j + 1]
  <2>1. CASE j < i
    <3>1. j \in 1..i - 1 /\ j <= Len(before)
        BY <1>1, <1>5, <2>1, SMT
    <3> QED BY <1>1, <1>4, <1>5, <2>1, <3>1
  <2>2. CASE ~(j < i)
    <3>1. ~(j <= Len(before)) /\ j - Len(before) = j - i + 1 /\ j - i + 1 \in 1..Len(s) - i
        BY <1>1, <1>5, <2>2, SMT
    <3>2. i + (j - i + 1) = j + 1
        BY <1>5, SMT
    <3>3. Without(s, i)[j] = after[j - i + 1]
        BY <1>4, <1>5, <3>1
    <3>4. after[j - i + 1] = s[i + (j - i + 1)]
        BY <1>2, <3>1
    <3> QED BY <2>2, <3>2, <3>3, <3>4
  <2> QED BY <2>1, <2>2
<1> QED BY <1>4, <1>5, <1>6

-----------------------------------------------------------------------------
(***************************************************************************)
(* Types.                                                                  *)
(***************************************************************************)

\* What the wires, the server thread, its queues, the firmware and the app hold.
WiresType ==
  /\ connections \in 0..MaxConnections /\ open \in BOOLEAN
  /\ to_node \in [Connections -> Seq(Commands)] /\ to_app \in Seq(Frames)
ThreadType ==
  /\ server \in {"accepting", "accepted", "serving", "leaving", "left"}
  /\ client \in 0..connections /\ connected \in BOOLEAN /\ output \in Seq(Frames)
  /\ server \in {"accepted", "serving"} => client # 0
QueuesType == input_queue \in Seq(Commands) /\ output_queue \in Seq(Frames)
MessagesType ==
  /\ offline_queue \in Seq(Messages) /\ Len(offline_queue) <= QueueSize
  /\ arrived \in Seq(Messages) /\ Len(arrived) <= MaxMessages
  /\ refused \in Nat /\ refused <= Len(arrived) /\ tickling \in BOOLEAN
ListType ==
  /\ iterator \in -1..NumContacts /\ asked_by \in 0..MaxConnections
  /\ cmd_frame \in Commands \union {None, NoFrame}
  /\ iterator # Stopped => asked_by # 0
  /\ cmd_frame = NoFrame => iterator # Stopped
AppType ==
  /\ app \in {"closed", "starting", "listing", "syncing", "idle"}
  /\ app # "closed" => connections # 0
  /\ listed \in Seq(1..NumContacts) /\ got \in Seq(Messages)

TypeInv == WiresType /\ ThreadType /\ QueuesType /\ MessagesType /\ ListType /\ AppType

LEMMA Constants ==
  /\ MaxConnections \in Nat /\ QueueSize \in Nat \ {0} /\ NumContacts \in Nat
  /\ MaxMessages \in Nat
  BY ConnectionsAssumption, CompanionAssumption

LEMMA FrameTypes ==
  /\ Frame("MSG_WAITING", 0) \in Frames
  /\ \A conn \in Connections :
       /\ \A code \in {"SELF_INFO", "CONTACTS_START", "END_OF_CONTACTS", "ERR", "NO_MORE_MESSAGES"} :
            Frame(code, conn) \in Frames
       /\ \A n \in 1..NumContacts : FrameOf("CONTACT", conn, n) \in Frames
       /\ \A m \in Messages : FrameOf("MSG", conn, m) \in Frames
  BY SMT DEF Frames, Frame, FrameOf

\* What the queue of messages may become: the message is added to it or to the
\* queue without one of its messages, or nothing changes.
LEMMA QueueTypes ==
  ASSUME NEW queue \in Seq(Messages), Len(queue) <= QueueSize, NEW msg \in Messages,
         NEW new \in addToOfflineQueue(queue, msg)
  PROVE  /\ new \in Seq(Messages) /\ Len(new) <= QueueSize
         /\ \/ new = queue
            \/ new = Append(queue, msg)
            \/ \E i \in 1..Len(queue) : new = Append(Without(queue, i), msg)
<1> USE Constants
<1>1. CASE Len(queue) < QueueSize
    BY <1>1, SMT DEF addToOfflineQueue
<1>2. ASSUME ~(Len(queue) < QueueSize), new # queue
      PROVE  \E i \in 1..Len(queue) : new = Append(Without(queue, i), msg)
  <2> DEFINE channel == {i \in DOMAIN queue : isChannelMsg(queue[i])}
             oldest == {j \in channel : \A k \in channel : j <= k}
  <2>1. new \in (IF channel = {} THEN {queue} ELSE {Append(Without(queue, i), msg) : i \in oldest})
      BY <1>2, Zenon DEF addToOfflineQueue
  <2>2. oldest \subseteq 1..Len(queue)
      BY SMT
  <2> HIDE DEF channel, oldest
  <2> QED BY <1>2, <2>1, <2>2, Zenon
<1>3. ASSUME ~(Len(queue) < QueueSize), NEW i \in 1..Len(queue), new = Append(Without(queue, i), msg)
      PROVE  new \in Seq(Messages) /\ Len(new) <= QueueSize
  <2>1. Without(queue, i) \in Seq(Messages) /\ Len(Without(queue, i)) = Len(queue) - 1
      BY WithoutItem
  <2> QED BY <1>3, <2>1, SMT
<1> QED BY <1>1, <1>2, <1>3

LEMMA CommandTypes ==
  /\ \A c \in Commands \union {None, NoFrame} :
       c.cmd \in {"APP_START", "GET_CONTACTS", "SYNC_NEXT_MESSAGE"} => c \in Commands
  /\ \A c \in Commands : c.conn \in Connections /\ c # None /\ c # NoFrame
  /\ \A conn \in Connections : \A cmd \in {"APP_START", "GET_CONTACTS", "SYNC_NEXT_MESSAGE"} :
       [cmd |-> cmd, conn |-> conn] \in Commands
  /\ None # NoFrame
  BY SMT DEF Commands, Connections, None, NoFrame

LEMMA MessageTypes ==
  \A n \in 1..MaxMessages : \A kind \in {"contact", "channel"} :
    [id |-> n, kind |-> kind] \in Messages
  BY SMT DEF Messages

\* What the app is given is a message or a contact.
LEMMA FrameArgs ==
  \A f \in Frames : /\ f.code = "MSG" => f.arg \in Messages
                    /\ f.code = "CONTACT" => f.arg \in 1..NumContacts
  BY SMT DEF Frames

LEMMA NoneIsNoFrame == None # NoFrame
  BY CommandTypes

LEMMA InitType == Init => TypeInv
<1> SUFFICES ASSUME Init PROVE TypeInv
    OBVIOUS
<1> USE Constants
<1>1. WiresType
  <2>1. to_node \in [Connections -> Seq(Commands)]
      BY EmptyItem, Zenon DEF Init, SerialInit, Connections
  <2>2. connections \in 0..MaxConnections
      BY SMT DEF Init, SerialInit
  <2> QED BY <2>1, <2>2, EmptyItem DEF Init, SerialInit, WiresType
<1>2. ThreadType
  <2>1. client \in 0..connections
      BY SMT DEF Init, SerialInit
  <2> QED BY <2>1, EmptyItem, Zenon DEF Init, SerialInit, ThreadType
<1>3. QueuesType
    BY EmptyItem DEF Init, SerialInit, QueuesType
<1>4. MessagesType
  <2>1. Len(offline_queue) <= QueueSize /\ Len(arrived) <= MaxMessages /\ refused \in Nat /\ refused <= Len(arrived)
      BY EmptyItem, SMT DEF Init
  <2> QED BY <2>1, EmptyItem DEF Init, MessagesType
<1>5. ListType
    BY NoneIsNoFrame, SMT DEF Init, ListType, Stopped
<1>6. AppType
    BY EmptyItem DEF Init, AppType
<1> QED BY <1>1, <1>2, <1>3, <1>4, <1>5, <1>6 DEF TypeInv

\* What a step leaves alone keeps its type.
LEMMA Kept ==
  /\ WiresType /\ UNCHANGED wires => WiresType'
  /\ ThreadType /\ UNCHANGED <<connections, thread>> => ThreadType'
  /\ QueuesType /\ UNCHANGED queues => QueuesType'
  /\ MessagesType /\ UNCHANGED <<offline_queue, arrived, refused, tickling>> => MessagesType'
  /\ ListType /\ UNCHANGED <<iterator, asked_by, cmd_frame>> => ListType'
  /\ AppType /\ UNCHANGED <<connections, client_app>> => AppType'
<1>1. WiresType /\ UNCHANGED wires => WiresType'
    BY DEF WiresType, wires
<1>2. ThreadType /\ UNCHANGED <<connections, thread>> => ThreadType'
    BY DEF ThreadType, thread
<1>3. QueuesType /\ UNCHANGED queues => QueuesType'
    BY DEF QueuesType, queues
<1>4. MessagesType /\ UNCHANGED <<offline_queue, arrived, refused, tickling>> => MessagesType'
    BY DEF MessagesType
<1>5. ListType /\ UNCHANGED <<iterator, asked_by, cmd_frame>> => ListType'
    BY DEF ListType
<1>6. AppType /\ UNCHANGED <<connections, client_app>> => AppType'
    BY DEF AppType, client_app
<1> QED BY <1>1, <1>2, <1>3, <1>4, <1>5, <1>6

-----------------------------------------------------------------------------
\* The steps of the server thread.
LEMMA ServerTypes == ASSUME TypeInv, ServerStep PROVE TypeInv'
<1> USE Constants
<1>1. UNCHANGED <<connections, firmware, client_app>> /\ UNCHANGED open
    BY DEF ServerStep, runServer, Accept, StartServing, TakeOutput, SendFrame, ReceiveFrame,
           ReceiveEnd, StopServing, CloseClient, wires
<1>2. MessagesType' /\ ListType' /\ AppType'
    BY <1>1, Kept DEF TypeInv, firmware
<1>3. to_app \in Seq(Frames) /\ output \in Seq(Frames) /\ output_queue \in Seq(Frames)
    BY DEF TypeInv, WiresType, ThreadType, QueuesType
<1>4. CASE Accept
  <2>1. ThreadType'
      BY <1>4, <1>1, SMT DEF Accept, TypeInv, ThreadType, WiresType
  <2>2. QueuesType'
      BY <1>4, SMT DEF Accept, clearQueues, QueuesType
  <2> QED BY <1>2, <1>4, <2>1, <2>2, Kept DEF Accept, TypeInv
<1>5. CASE StartServing
  <2>1. ThreadType'
      BY <1>5, <1>1, SMT DEF StartServing, TypeInv, ThreadType
  <2> QED BY <1>2, <1>5, <2>1, Kept DEF StartServing, TypeInv
<1>6. CASE TakeOutput
  <2>1. ThreadType'
      BY <1>6, <1>1, <1>3, SMT DEF TakeOutput, TypeInv, ThreadType
  <2>2. QueuesType'
      BY <1>6, SMT DEF TakeOutput, TypeInv, QueuesType
  <2> QED BY <1>2, <1>6, <2>1, <2>2, Kept DEF TakeOutput, TypeInv
<1>7. CASE SendFrame
  <2>1. output # <<>> /\ output' \in {Tail(output), <<>>} /\ to_app' \in {to_app, Append(to_app, Head(output))}
      BY <1>7, Zenon DEF SendFrame
  <2>2. server' \in {server, "leaving"} /\ UNCHANGED <<to_node, client, connected, queues>>
      BY <1>7, Zenon DEF SendFrame
  <2>3. Tail(output) \in Seq(Frames) /\ <<>> \in Seq(Frames) /\ Head(output) \in Frames
    <3> QED BY <1>3, <2>1, EmptyItem, TakeItem
  <2>4. output' \in Seq(Frames) /\ to_app' \in Seq(Frames)
    <3>1. Append(to_app, Head(output)) \in Seq(Frames)
        BY <1>3, <2>3, AppendItem
    <3> QED BY <1>3, <2>1, <2>3, <3>1
  <2>5. ThreadType'
      BY <1>1, <2>2, <2>4, SMT DEF TypeInv, ThreadType
  <2>6. WiresType'
      BY <1>1, <2>2, <2>4 DEF TypeInv, WiresType
  <2> QED BY <1>2, <2>2, <2>5, <2>6, Kept DEF TypeInv
<1>8. CASE ReceiveFrame
  <2>1. client \in Connections
      BY <1>8, SMT DEF ReceiveFrame, TypeInv, ThreadType, WiresType, Connections
  <2>2. to_node[client] \in Seq(Commands) /\ to_node[client] # <<>> /\ input_queue \in Seq(Commands)
      BY <1>8, <2>1 DEF ReceiveFrame, TypeInv, WiresType, QueuesType
  <2>3. /\ Tail(to_node[client]) \in Seq(Commands)
        /\ Append(input_queue, Head(to_node[client])) \in Seq(Commands)
      BY <2>2, TakeItem, AppendItem
  <2>4. WiresType'
      BY <1>1, <1>8, <2>1, <2>3, SMT DEF ReceiveFrame, TypeInv, WiresType
  <2>5. QueuesType'
      BY <1>8, <2>3 DEF ReceiveFrame, TypeInv, QueuesType
  <2>6. ThreadType'
      BY <1>1, <1>8, Kept DEF ReceiveFrame, TypeInv
  <2> QED BY <1>2, <2>4, <2>5, <2>6 DEF TypeInv
<1>9. CASE ReceiveEnd
  <2>1. ThreadType'
      BY <1>9, <1>1, SMT DEF ReceiveEnd, TypeInv, ThreadType
  <2> QED BY <1>2, <1>9, <2>1, Kept DEF ReceiveEnd, TypeInv
<1>10. CASE StopServing
  <2>1. ThreadType'
      BY <1>10, <1>1, Zenon DEF StopServing, TypeInv, ThreadType
  <2> QED BY <1>2, <1>10, <2>1, Kept DEF StopServing, TypeInv
<1>11. CASE CloseClient
  <2>1. ThreadType'
      BY <1>11, <1>1, SMT DEF CloseClient, TypeInv, ThreadType
  <2>2. QueuesType'
      BY <1>11, SMT DEF CloseClient, clearQueues, QueuesType
  <2> QED BY <1>2, <1>11, <2>1, <2>2, Kept DEF CloseClient, TypeInv
<1> QED BY <1>4, <1>5, <1>6, <1>7, <1>8, <1>9, <1>10, <1>11 DEF ServerStep, runServer

\* A frame is written to the output queue, and nothing else of the connection changes.
LEMMA WriteType ==
  ASSUME TypeInv, NEW f \in Frames, writeFrame(f), UNCHANGED <<wires, thread, input_queue, client_app>>
  PROVE  WiresType' /\ ThreadType' /\ QueuesType' /\ AppType'
<1>1. output_queue' \in Seq(Frames)
    BY AppendItem DEF writeFrame, TypeInv, QueuesType
<1>2. UNCHANGED connections
    BY DEF wires
<1>3. QueuesType'
    BY <1>1 DEF TypeInv, QueuesType
<1> QED BY <1>2, <1>3, Kept DEF TypeInv

\* The commands.
LEMMA CommandStep ==
  ASSUME TypeInv, handleCmdFrame
  PROVE  TypeInv'
<1> USE Constants
<1>1. PICK conn \in Connections :
        \/ handleAppStart(conn) \/ handleGetContacts(conn) \/ handleSyncNextMessage(conn)
    BY CommandTypes, Zenon DEF handleCmdFrame, TypeInv, ListType
<1>2. /\ cmd_frame' = None
      /\ UNCHANGED <<wires, thread, input_queue, tickling, arrived, refused, client_app>>
    BY DEF handleCmdFrame
<1>3. conn # 0 /\ conn \in 0..MaxConnections
    BY SMT DEF Connections
<1>4. CASE handleAppStart(conn)
  <2>1. Frame("SELF_INFO", conn) \in Frames
      BY FrameTypes
  <2>2. ListType'
      BY <1>2, <1>4, NoneIsNoFrame, SMT DEF handleAppStart, iteratorAfterStart, Stopped, TypeInv, ListType
  <2> QED BY <1>2, <1>4, <2>1, <2>2, WriteType, Kept DEF handleAppStart, TypeInv
<1>5. CASE handleGetContacts(conn)
  <2>1. Frame("ERR", conn) \in Frames /\ Frame("CONTACTS_START", conn) \in Frames
      BY FrameTypes
  <2>2. ListType'
      BY <1>2, <1>3, <1>5, NoneIsNoFrame, SMT DEF handleGetContacts, Stopped, TypeInv, ListType
  <2>3. \E f \in Frames : writeFrame(f)
      BY <1>5, <2>1, Zenon DEF handleGetContacts
  <2>4. UNCHANGED offline_queue
      BY <1>5 DEF handleGetContacts
  <2> QED BY <1>2, <2>2, <2>3, <2>4, WriteType, Kept DEF TypeInv
<1>6. CASE handleSyncNextMessage(conn)
  <2>1. ListType'
      BY <1>2, <1>6, NoneIsNoFrame DEF handleSyncNextMessage, TypeInv, ListType
  <2>2. CASE hasMessage(offline_queue)
    <3>1. offline_queue \in Seq(Messages) /\ offline_queue # <<>>
        BY <2>2, SMT DEF hasMessage, TypeInv, MessagesType
    <3>2. Head(offline_queue) \in Messages /\ Tail(offline_queue) \in Seq(Messages)
        BY <3>1, TakeItem
    <3>3. Len(Tail(offline_queue)) <= QueueSize
        BY <3>1, SMT DEF TypeInv, MessagesType
    <3>4. FrameOf("MSG", conn, Head(offline_queue)) \in Frames
        BY <3>2, FrameTypes
    <3>5. offline_queue' = Tail(offline_queue) /\ writeFrame(FrameOf("MSG", conn, Head(offline_queue)))
        BY <1>6, <2>2, Zenon DEF handleSyncNextMessage
    <3>6. MessagesType'
        BY <1>2, <3>2, <3>3, <3>5 DEF TypeInv, MessagesType
    <3> QED BY <1>2, <2>1, <3>4, <3>5, <3>6, WriteType DEF TypeInv
  <2>3. CASE ~hasMessage(offline_queue)
    <3>1. Frame("NO_MORE_MESSAGES", conn) \in Frames
        BY FrameTypes
    <3>2. writeFrame(Frame("NO_MORE_MESSAGES", conn)) /\ UNCHANGED offline_queue
        BY <1>6, <2>3, Zenon DEF handleSyncNextMessage
    <3> QED BY <1>2, <2>1, <3>1, <3>2, WriteType, Kept DEF TypeInv
  <2> QED BY <2>2, <2>3
<1> QED BY <1>1, <1>4, <1>5, <1>6

\* The steps of the run loop.
LEMMA LoopTypes == ASSUME TypeInv, loop PROVE TypeInv'
<1> USE Constants
<1>1. CASE writeTickle
  <2>1. MessagesType'
      BY <1>1 DEF writeTickle, TypeInv, MessagesType
  <2> QED BY <1>1, <2>1, FrameTypes, WriteType, Kept DEF writeTickle, TypeInv
<1>2. CASE checkRecvFrame
  <2>1. /\ cmd_frame' \in Commands \union {NoFrame} /\ input_queue' \in Seq(Commands)
        /\ cmd_frame' = NoFrame => iterator # Stopped
        /\ UNCHANGED <<wires, thread, output_queue, offline_queue, iterator, asked_by, tickling,
                       arrived, refused, client_app>>
    <3>1. input_queue # <<>> => Head(input_queue) \in Commands /\ Tail(input_queue) \in Seq(Commands)
        BY TakeItem DEF TypeInv, QueuesType
    <3>2. \A c \in Commands : c # NoFrame
        BY CommandTypes
    <3> QED BY <1>2, <3>1, <3>2, Zenon DEF checkRecvFrame, TypeInv, QueuesType
  <2>2. QueuesType' /\ ListType' /\ UNCHANGED connections
      BY <2>1 DEF TypeInv, QueuesType, ListType, wires
  <2> QED BY <2>1, <2>2, Kept DEF TypeInv
<1>3. CASE handleCmdFrame
    BY <1>3, CommandStep
<1>4. CASE listContacts
  <2>1. /\ cmd_frame' = None
        /\ UNCHANGED <<wires, thread, input_queue, offline_queue, asked_by, tickling,
                       arrived, refused, client_app>>
      BY <1>4 DEF listContacts
  <2>2. UNCHANGED connections /\ MessagesType'
      BY <2>1, Kept DEF TypeInv, wires
  <2>3. CASE isWriteBusy /\ UNCHANGED <<output_queue, iterator>>
    <3>1. ListType'
        BY <2>1, <2>3, NoneIsNoFrame DEF TypeInv, ListType
    <3> QED BY <2>1, <2>2, <2>3, <3>1, Kept DEF TypeInv, queues
  <2>4. CASE /\ iterator < NumContacts /\ writeFrame(FrameOf("CONTACT", asked_by, iterator + 1))
             /\ iterator' = iterator + 1 /\ iterator # Stopped
    <3>1. iterator + 1 \in 1..NumContacts /\ asked_by \in Connections
        BY <2>4, SMT DEF TypeInv, ListType, Stopped, Connections
    <3>2. FrameOf("CONTACT", asked_by, iterator + 1) \in Frames
        BY <3>1, FrameTypes
    <3>3. ListType'
        BY <2>1, <2>4, <3>1, NoneIsNoFrame, SMT DEF TypeInv, ListType, Connections
    <3> QED BY <2>1, <2>2, <2>4, <3>2, <3>3, WriteType DEF TypeInv
  <2>5. CASE /\ iterator # Stopped /\ writeFrame(Frame("END_OF_CONTACTS", asked_by))
             /\ iterator' = Stopped
    <3>1. asked_by \in Connections
        BY <2>5, SMT DEF TypeInv, ListType, Connections
    <3>2. Frame("END_OF_CONTACTS", asked_by) \in Frames
        BY <3>1, FrameTypes
    <3>3. ListType'
        BY <2>1, <2>5, NoneIsNoFrame, SMT DEF TypeInv, ListType, Stopped
    <3> QED BY <2>1, <2>2, <2>5, <3>2, <3>3, WriteType DEF TypeInv
  <2>6. iterator # Stopped
      BY <1>4 DEF listContacts, TypeInv, ListType
  <2> QED BY <1>4, <2>3, <2>4, <2>5, <2>6 DEF listContacts
<1> QED BY <1>1, <1>2, <1>3, <1>4 DEF loop

\* A message arrives at the radio.
LEMMA Arrival ==
  ASSUME queueMessage
  PROVE  \E kind \in {"contact", "channel"} :
           /\ Len(arrived) < MaxMessages
           /\ arrived' = Append(arrived, [id |-> Len(arrived) + 1, kind |-> kind])
           /\ offline_queue' \in addToOfflineQueue(offline_queue, [id |-> Len(arrived) + 1, kind |-> kind])
           /\ refused' \in {refused, refused + 1}
           /\ tickling' = connected
           /\ UNCHANGED <<serialVars, iterator, asked_by, cmd_frame, client_app>>
  BY Zenon DEF queueMessage

LEMMA ArrivalTypes == ASSUME TypeInv, queueMessage PROVE TypeInv'
<1> USE Constants
<1>1. PICK kind \in {"contact", "channel"} :
        /\ Len(arrived) < MaxMessages
        /\ arrived' = Append(arrived, [id |-> Len(arrived) + 1, kind |-> kind])
        /\ offline_queue' \in addToOfflineQueue(offline_queue, [id |-> Len(arrived) + 1, kind |-> kind])
        /\ refused' \in {refused, refused + 1}
        /\ tickling' = connected
        /\ UNCHANGED <<serialVars, iterator, asked_by, cmd_frame, client_app>>
    BY Arrival
<1> DEFINE msg == [id |-> Len(arrived) + 1, kind |-> kind]
<1>2. msg \in Messages
  <2>1. Len(arrived) + 1 \in 1..MaxMessages
      BY <1>1, SMT DEF TypeInv, MessagesType
  <2> QED BY <2>1, MessageTypes
<1>3. arrived' = Append(arrived, msg) /\ offline_queue' \in addToOfflineQueue(offline_queue, msg)
    BY <1>1
<1> HIDE DEF msg
<1>4. offline_queue' \in Seq(Messages) /\ Len(offline_queue') <= QueueSize
    BY <1>2, <1>3, QueueTypes DEF TypeInv, MessagesType
<1>5. arrived' \in Seq(Messages) /\ Len(arrived') = Len(arrived) + 1 /\ Len(arrived) \in Nat
    BY <1>2, <1>3, SMT DEF TypeInv, MessagesType
<1>6. refused' \in Nat /\ refused' <= Len(arrived') /\ Len(arrived') <= MaxMessages
    BY <1>1, <1>5, SMT DEF TypeInv, MessagesType
<1>7. tickling' \in BOOLEAN
    BY <1>1 DEF TypeInv, ThreadType
<1>8. MessagesType'
    BY <1>4, <1>5, <1>6, <1>7 DEF MessagesType
<1>9. UNCHANGED <<connections, wires, thread, queues>>
    BY <1>1 DEF serialVars, wires
<1> QED BY <1>1, <1>8, <1>9, Kept DEF TypeInv

\* What the app may ask for is a command of its connection.
LEMMA AskType ==
  ASSUME TypeInv, NEW conn \in Connections, Ask("APP_START", conn) \/ Ask("GET_CONTACTS", conn)
                                              \/ Ask("SYNC_NEXT_MESSAGE", conn)
  PROVE  to_node' \in [Connections -> Seq(Commands)]
<1>1. PICK cmd \in {"APP_START", "GET_CONTACTS", "SYNC_NEXT_MESSAGE"} :
        to_node' = [to_node EXCEPT ![conn] = Append(@, [cmd |-> cmd, conn |-> conn])]
    BY Zenon DEF Ask
<1>2. to_node \in [Connections -> Seq(Commands)]
    BY DEF TypeInv, WiresType
<1>3. Append(to_node[conn], [cmd |-> cmd, conn |-> conn]) \in Seq(Commands)
    BY <1>2, CommandTypes, AppendItem
<1> QED BY <1>1, <1>2, <1>3, SMT

\* What reading a frame may change.
LEMMA ReadEffect ==
  ASSUME readFrame
  PROVE  /\ app # "closed" /\ to_app # <<>> /\ to_app' = Tail(to_app)
         /\ got' = IF Head(to_app).code = "MSG" THEN Append(got, Head(to_app).arg) ELSE got
         /\ \/ listed' = <<>>
            \/ listed' = listed
            \/ Head(to_app).code = "CONTACT" /\ listed' = Append(listed, Head(to_app).arg)
         /\ app' \in {"listing", "syncing", "idle", app}
         /\ \/ Ask("GET_CONTACTS", connections)
            \/ Ask("SYNC_NEXT_MESSAGE", connections)
            \/ UNCHANGED to_node
         /\ UNCHANGED <<connections, open, queues, thread, firmware>>
<1> DEFINE f == Head(to_app)
<1>1. /\ app # "closed" /\ to_app # <<>> /\ to_app' = Tail(to_app)
      /\ got' = IF f.code = "MSG" THEN Append(got, f.arg) ELSE got
      /\ listed' = CASE f.code = "CONTACTS_START" -> <<>>
                     [] f.code = "CONTACT" -> Append(listed, f.arg)
                     [] OTHER -> listed
      /\ CASE app = "starting" /\ f.code = "SELF_INFO" ->
                \/ Ask("GET_CONTACTS", connections) /\ app' = "listing"
                \/ Ask("SYNC_NEXT_MESSAGE", connections) /\ app' = "syncing"
           [] app = "listing" /\ f.code \in {"END_OF_CONTACTS", "ERR"} ->
                Ask("SYNC_NEXT_MESSAGE", connections) /\ app' = "syncing"
           [] app = "syncing" /\ f.code = "MSG" ->
                Ask("SYNC_NEXT_MESSAGE", connections) /\ app' = "syncing"
           [] app = "syncing" /\ f.code = "NO_MORE_MESSAGES" -> app' = "idle" /\ UNCHANGED to_node
           [] app = "idle" /\ f.code = "MSG_WAITING" ->
                Ask("SYNC_NEXT_MESSAGE", connections) /\ app' = "syncing"
           [] OTHER -> UNCHANGED <<app, to_node>>
      /\ UNCHANGED <<connections, open, queues, thread, firmware>>
    BY DEF readFrame
<1> HIDE DEF f
<1>2. \/ listed' = <<>>
      \/ listed' = listed
      \/ f.code = "CONTACT" /\ listed' = Append(listed, f.arg)
    BY <1>1, Zenon
<1>3. /\ app' \in {"listing", "syncing", "idle", app}
      /\ \/ Ask("GET_CONTACTS", connections)
         \/ Ask("SYNC_NEXT_MESSAGE", connections)
         \/ UNCHANGED to_node
    BY <1>1, Zenon
<1> QED BY <1>1, <1>2, <1>3 DEF f

\* The steps of the app.
LEMMA AppTypes == ASSUME TypeInv, connect \/ disconnect \/ readFrame PROVE TypeInv'
<1> USE Constants
<1>1. UNCHANGED <<queues, thread, firmware>>
    BY ReadEffect DEF connect, disconnect
<1>2. QueuesType' /\ MessagesType' /\ ListType'
    BY <1>1, Kept DEF TypeInv, firmware
<1>3. CASE connect
  <2>1. connections + 1 \in Connections /\ connections' = connections + 1 /\ open' = TRUE
      BY <1>3, SMT DEF connect, TypeInv, WiresType, Connections
  <2>2. to_node' \in [Connections -> Seq(Commands)]
      BY <1>3, <2>1, AskType DEF connect
  <2>3. WiresType'
      BY <1>3, <2>1, <2>2, SMT DEF connect, TypeInv, WiresType, Connections
  <2>4. ThreadType'
      BY <1>1, <2>1, SMT DEF TypeInv, ThreadType, WiresType, thread
  <2>5. AppType'
      BY <1>3, <2>1, SMT DEF connect, TypeInv, AppType, Connections
  <2> QED BY <1>2, <2>3, <2>4, <2>5 DEF TypeInv
<1>4. CASE disconnect
  <2>1. WiresType' /\ UNCHANGED connections
      BY <1>4, EmptyItem, Zenon DEF disconnect, TypeInv, WiresType
  <2>2. AppType'
      BY <1>4, SMT DEF disconnect, TypeInv, AppType
  <2> QED BY <1>1, <1>2, <2>1, <2>2, Kept DEF TypeInv
<1>5. CASE readFrame
  <2>1. to_app \in Seq(Frames) /\ to_app # <<>> /\ app # "closed"
      BY <1>5 DEF readFrame, TypeInv, WiresType
  <2>2. Head(to_app) \in Frames /\ Tail(to_app) \in Seq(Frames)
      BY <2>1, TakeItem
  <2>3. connections \in Connections
      BY <2>1, SMT DEF TypeInv, WiresType, AppType, Connections
  <2>4. to_node' \in [Connections -> Seq(Commands)]
      BY <1>5, <2>3, ReadEffect, AskType DEF TypeInv, WiresType
  <2>5. got' \in Seq(Messages)
    <3>1. got \in Seq(Messages)
        BY DEF TypeInv, AppType
    <3>2. Head(to_app).code = "MSG" => Append(got, Head(to_app).arg) \in Seq(Messages)
        BY <2>2, <3>1, FrameArgs, AppendItem
    <3> QED BY <1>5, <3>1, <3>2, ReadEffect
  <2>6. listed' \in Seq(1..NumContacts)
    <3>1. listed \in Seq(1..NumContacts)
        BY DEF TypeInv, AppType
    <3>2. Head(to_app).code = "CONTACT" => Append(listed, Head(to_app).arg) \in Seq(1..NumContacts)
        BY <2>2, <3>1, FrameArgs, AppendItem
    <3> QED BY <1>5, <3>1, <3>2, EmptyItem, ReadEffect
  <2>7. /\ app' \in {"listing", "syncing", "idle", app} /\ to_app' = Tail(to_app)
        /\ UNCHANGED <<connections, open>>
      BY <1>5, ReadEffect
  <2>8. WiresType'
      BY <2>2, <2>4, <2>7 DEF TypeInv, WiresType
  <2>9. AppType'
      BY <2>1, <2>5, <2>6, <2>7, SMT DEF TypeInv, AppType
  <2> QED BY <1>1, <1>2, <2>7, <2>8, <2>9, Kept DEF TypeInv
<1> QED BY <1>3, <1>4, <1>5

LEMMA StutterTypes == ASSUME TypeInv, UNCHANGED vars PROVE TypeInv'
<1>1. UNCHANGED <<connections, wires, queues, thread, firmware, client_app>>
    BY DEF vars, serialVars, wires
<1> QED BY <1>1, Kept DEF TypeInv, firmware

LEMMA TypeStep == TypeInv /\ [Next]_vars => TypeInv'
  BY ServerTypes, LoopTypes, ArrivalTypes, AppTypes, StutterTypes DEF Next

\* Every frame, command and message is of its kind, the queue of messages keeps
\* to its size, and lists and commands are of connections that were made.
THEOREM TypeCorrect == Spec => []TypeOK
<1>1. TypeInv => TypeOK
  <2> SUFFICES ASSUME TypeInv PROVE TypeOK
      OBVIOUS
  <2>1. refused \in 0..MaxMessages
      BY Constants, SMT DEF TypeInv, MessagesType
  <2> QED BY <2>1 DEF TypeInv, TypeOK, WiresType, ThreadType, QueuesType, MessagesType, ListType, AppType
<1> QED BY InitType, TypeStep, <1>1, PTL DEF Spec

-----------------------------------------------------------------------------
(***************************************************************************)
(* Order. A message goes from the queue of messages to the output queue,   *)
(* to the frames the thread holds, to the wire and to the app, and is in   *)
(* one of these places; each is in order, and behind the next one.         *)
(***************************************************************************)

IsMessage(s, i) == s[i].code = "MSG"
FrameIds(s) == {s[i].arg.id : i \in {k \in DOMAIN s : IsMessage(s, k)}}
MsgIds(s) == {s[i].id : i \in DOMAIN s}
FramesUp(s) ==
  \A i, j \in DOMAIN s : i < j /\ IsMessage(s, i) /\ IsMessage(s, j) => s[i].arg.id < s[j].arg.id
MsgsUp(s) == \A i, j \in DOMAIN s : i < j => s[i].id < s[j].id

Below(A, B) == \A a \in A, b \in B : a < b

Chain(G, T, O, Q, F, n) ==
  /\ n \in Nat
  /\ \A k \in G \union T \union O \union Q \union F : k \in Nat /\ k <= n
  /\ Below(G, T) /\ Below(G, O) /\ Below(G, Q) /\ Below(G, F)
  /\ Below(T, O) /\ Below(T, Q) /\ Below(T, F)
  /\ Below(O, Q) /\ Below(O, F) /\ Below(Q, F)

InPlace ==
  Chain(MsgIds(got), FrameIds(to_app), FrameIds(output), FrameIds(output_queue),
        MsgIds(offline_queue), Len(arrived))

AllUp == MsgsUp(got) /\ FramesUp(to_app) /\ FramesUp(output) /\ FramesUp(output_queue) /\ MsgsUp(offline_queue)

OrderInv == InPlace /\ AllUp

LEMMA ChainSub ==
  ASSUME NEW G, NEW T, NEW O, NEW Q, NEW F, NEW n, Chain(G, T, O, Q, F, n),
         NEW G1, NEW T1, NEW O1, NEW Q1, NEW F1,
         G1 \subseteq G, T1 \subseteq T, O1 \subseteq O, Q1 \subseteq Q, F1 \subseteq F
  PROVE  Chain(G1, T1, O1, Q1, F1, n)
  BY Zenon DEF Chain, Below

\* The first of a place moves to the end of the next one.
LEMMA ChainMove ==
  ASSUME NEW G, NEW T, NEW O, NEW Q, NEW F, NEW n, Chain(G, T, O, Q, F, n), NEW x
  PROVE  /\ \A T1 \in SUBSET T : x \in T /\ Below({x}, T1) => Chain(G \union {x}, T1, O, Q, F, n)
         /\ \A O1 \in SUBSET O : x \in O /\ Below({x}, O1) => Chain(G, T \union {x}, O1, Q, F, n)
         /\ \A F1 \in SUBSET F : x \in F /\ Below({x}, F1) => Chain(G, T, O, Q \union {x}, F1, n)
<1>1. ASSUME NEW T1 \in SUBSET T, x \in T, Below({x}, T1)
      PROVE  Chain(G \union {x}, T1, O, Q, F, n)
    BY <1>1, SMT DEF Chain, Below
<1>2. ASSUME NEW O1 \in SUBSET O, x \in O, Below({x}, O1)
      PROVE  Chain(G, T \union {x}, O1, Q, F, n)
    BY <1>2, SMT DEF Chain, Below
<1>3. ASSUME NEW F1 \in SUBSET F, x \in F, Below({x}, F1)
      PROVE  Chain(G, T, O, Q \union {x}, F1, n)
    BY <1>3, SMT DEF Chain, Below
<1> QED BY <1>1, <1>2, <1>3

\* A message that arrives is behind all others.
LEMMA ChainGrow ==
  ASSUME NEW G, NEW T, NEW O, NEW Q, NEW F, NEW n, Chain(G, T, O, Q, F, n)
  PROVE  Chain(G, T, O, Q, F \union {n + 1}, n + 1)
  BY SMT DEF Chain, Below

LEMMA FrameTake ==
  ASSUME NEW s \in Seq(Frames), s # <<>>
  PROVE  /\ FrameIds(Tail(s)) \subseteq FrameIds(s)
         /\ FramesUp(s) => FramesUp(Tail(s))
         /\ Head(s).code = "MSG" =>
              /\ Head(s).arg.id \in FrameIds(s)
              /\ FramesUp(s) => Below({Head(s).arg.id}, FrameIds(Tail(s)))
<1> DEFINE n == Len(s)  t == Tail(s)
<1>1. /\ DOMAIN t = 1..n - 1 /\ DOMAIN s = 1..n /\ n \in Nat \ {0}
      /\ \A i \in 1..n - 1 : t[i] = s[i + 1] /\ i + 1 \in 1..n /\ 1 < i + 1
      /\ Head(s) = s[1] /\ 1 \in 1..n
    BY TakeItem, SMT
<1> HIDE DEF n, t
<1>2. ASSUME NEW x \in FrameIds(t)
      PROVE  \E i \in 1..n - 1 : x = s[i + 1].arg.id /\ IsMessage(s, i + 1)
  <2>1. PICK i \in 1..n - 1 : x = t[i].arg.id /\ IsMessage(t, i)
      BY <1>1, <1>2, Zenon DEF FrameIds
  <2> QED BY <1>1, <2>1, Zenon DEF IsMessage
<1>5. FrameIds(t) \subseteq FrameIds(s)
    BY <1>1, <1>2, Zenon DEF FrameIds
<1>3. ASSUME FramesUp(s) PROVE FramesUp(t)
  <2> SUFFICES ASSUME NEW i \in 1..n - 1, NEW j \in 1..n - 1, i < j, IsMessage(t, i), IsMessage(t, j)
               PROVE  t[i].arg.id < t[j].arg.id
      BY <1>1 DEF FramesUp
  <2>1. i + 1 < j + 1
      BY <1>1, SMT
  <2>2. t[i] = s[i + 1] /\ t[j] = s[j + 1] /\ i + 1 \in DOMAIN s /\ j + 1 \in DOMAIN s
      BY <1>1, Zenon
  <2>3. IsMessage(s, i + 1) /\ IsMessage(s, j + 1)
      BY <2>2, Zenon DEF IsMessage
  <2> QED BY <1>3, <2>1, <2>2, <2>3, Zenon DEF FramesUp
<1>4. ASSUME Head(s).code = "MSG"
      PROVE  Head(s).arg.id \in FrameIds(s) /\ (FramesUp(s) => Below({Head(s).arg.id}, FrameIds(t)))
  <2>1. IsMessage(s, 1) /\ Head(s).arg.id \in FrameIds(s)
      BY <1>1, <1>4, Zenon DEF FrameIds, IsMessage
  <2>2. ASSUME FramesUp(s), NEW x \in FrameIds(t) PROVE Head(s).arg.id < x
    <3>1. PICK i \in 1..n - 1 : x = s[i + 1].arg.id /\ IsMessage(s, i + 1)
        BY <1>2, <2>2
    <3> QED BY <1>1, <2>1, <2>2, <3>1, Zenon DEF FramesUp
  <2> QED BY <2>1, <2>2 DEF Below
<1> QED BY <1>3, <1>4, <1>5 DEF t

LEMMA FrameAppend ==
  ASSUME NEW s \in Seq(Frames), NEW f \in Frames
  PROVE  /\ FrameIds(Append(s, f)) = FrameIds(s) \union (IF f.code = "MSG" THEN {f.arg.id} ELSE {})
         /\ FramesUp(s) /\ (f.code = "MSG" => Below(FrameIds(s), {f.arg.id})) => FramesUp(Append(s, f))
<1> DEFINE n == Len(s)  t == Append(s, f)
<1>1. /\ DOMAIN t = 1..n + 1 /\ DOMAIN s = 1..n /\ n \in Nat
      /\ \A i \in 1..n : t[i] = s[i]
      /\ t[n + 1] = f
    BY AppendItem
<1>2. /\ \A i \in 1..n + 1 : i \in 1..n \/ i = n + 1
      /\ \A i \in 1..n : i \in 1..n + 1 /\ ~(n + 1 < i)
      /\ n + 1 \in 1..n + 1 /\ ~(n + 1 < n + 1)
    BY <1>1, SMT
<1> HIDE DEF n, t
<1>3. FrameIds(t) = FrameIds(s) \union (IF f.code = "MSG" THEN {f.arg.id} ELSE {})
  <2>1. ASSUME NEW x \in FrameIds(t)
        PROVE  x \in FrameIds(s) \union (IF f.code = "MSG" THEN {f.arg.id} ELSE {})
    <3>1. PICK i \in 1..n + 1 : IsMessage(t, i) /\ x = t[i].arg.id
        BY <1>1, <2>1, Zenon DEF FrameIds
    <3>2. CASE i \in 1..n
        BY <1>1, <3>1, <3>2, Zenon DEF FrameIds, IsMessage
    <3>3. CASE i = n + 1
        BY <1>1, <3>1, <3>3, Zenon DEF IsMessage
    <3> QED BY <1>2, <3>2, <3>3
  <2>2. FrameIds(s) \subseteq FrameIds(t)
      BY <1>1, <1>2, Zenon DEF FrameIds, IsMessage
  <2>3. f.code = "MSG" => f.arg.id \in FrameIds(t)
      BY <1>1, <1>2, Zenon DEF FrameIds, IsMessage
  <2> QED BY <2>1, <2>2, <2>3, Zenon
<1>4. ASSUME FramesUp(s), f.code = "MSG" => Below(FrameIds(s), {f.arg.id}) PROVE FramesUp(t)
  <2> SUFFICES ASSUME NEW i \in 1..n + 1, NEW j \in 1..n + 1, i < j, IsMessage(t, i), IsMessage(t, j)
               PROVE  t[i].arg.id < t[j].arg.id
      BY <1>1 DEF FramesUp
  <2>1. i \in 1..n
      BY <1>1, SMT
  <2>2. CASE j \in 1..n
      BY <1>1, <1>4, <2>1, <2>2, Zenon DEF FramesUp, IsMessage
  <2>3. CASE j = n + 1
    <3>1. f.code = "MSG" /\ t[j] = f
        BY <1>1, <2>3 DEF IsMessage
    <3>2. s[i].arg.id \in FrameIds(s) /\ t[i] = s[i]
        BY <1>1, <2>1, Zenon DEF FrameIds, IsMessage
    <3> QED BY <1>4, <3>1, <3>2 DEF Below
  <2> QED BY <1>2, <2>2, <2>3
<1> QED BY <1>3, <1>4 DEF t

LEMMA FrameEmpty == FrameIds(<<>>) = {} /\ FramesUp(<<>>)
  BY SMT DEF FrameIds, FramesUp

LEMMA MsgEmpty == MsgIds(<<>>) = {} /\ MsgsUp(<<>>)
  BY SMT DEF MsgIds, MsgsUp

LEMMA MsgTake ==
  ASSUME NEW s \in Seq(Messages), s # <<>>
  PROVE  /\ MsgIds(Tail(s)) \subseteq MsgIds(s) /\ Head(s).id \in MsgIds(s)
         /\ MsgsUp(s) => MsgsUp(Tail(s)) /\ Below({Head(s).id}, MsgIds(Tail(s)))
<1> DEFINE n == Len(s)  t == Tail(s)
<1>1. /\ DOMAIN t = 1..n - 1 /\ DOMAIN s = 1..n /\ n \in Nat \ {0}
      /\ \A i \in 1..n - 1 : t[i] = s[i + 1] /\ i + 1 \in 1..n /\ 1 < i + 1
      /\ Head(s) = s[1] /\ 1 \in 1..n
    BY TakeItem, SMT
<1> HIDE DEF n, t
<1>2. ASSUME NEW x \in MsgIds(t)
      PROVE  \E i \in 1..n - 1 : x = s[i + 1].id
  <2>1. PICK i \in 1..n - 1 : x = t[i].id
      BY <1>1, <1>2, Zenon DEF MsgIds
  <2> QED BY <1>1, <2>1
<1>3. MsgIds(t) \subseteq MsgIds(s) /\ Head(s).id \in MsgIds(s)
    BY <1>1, <1>2, Zenon DEF MsgIds
<1>4. ASSUME MsgsUp(s) PROVE MsgsUp(t)
  <2> SUFFICES ASSUME NEW i \in 1..n - 1, NEW j \in 1..n - 1, i < j PROVE t[i].id < t[j].id
      BY <1>1 DEF MsgsUp
  <2>1. i + 1 < j + 1
      BY <1>1, SMT
  <2> QED BY <1>1, <1>4, <2>1, Zenon DEF MsgsUp
<1>5. ASSUME MsgsUp(s), NEW x \in MsgIds(t) PROVE Head(s).id < x
  <2>1. PICK i \in 1..n - 1 : x = s[i + 1].id
      BY <1>2, <1>5
  <2> QED BY <1>1, <1>5, <2>1, Zenon DEF MsgsUp
<1> QED BY <1>3, <1>4, <1>5 DEF t, Below

LEMMA MsgAppend ==
  ASSUME NEW s \in Seq(Messages), NEW m \in Messages
  PROVE  /\ MsgIds(Append(s, m)) = MsgIds(s) \union {m.id}
         /\ MsgsUp(s) /\ Below(MsgIds(s), {m.id}) => MsgsUp(Append(s, m))
<1> DEFINE n == Len(s)  t == Append(s, m)
<1>1. /\ DOMAIN t = 1..n + 1 /\ DOMAIN s = 1..n /\ n \in Nat
      /\ \A i \in 1..n : t[i] = s[i]
      /\ t[n + 1] = m
    BY AppendItem
<1>2. /\ \A i \in 1..n + 1 : i \in 1..n \/ i = n + 1
      /\ \A i \in 1..n : i \in 1..n + 1 /\ ~(n + 1 < i)
      /\ n + 1 \in 1..n + 1 /\ ~(n + 1 < n + 1)
    BY <1>1, SMT
<1> HIDE DEF n, t
<1>3. MsgIds(t) = MsgIds(s) \union {m.id}
  <2>1. ASSUME NEW x \in MsgIds(t) PROVE x \in MsgIds(s) \union {m.id}
    <3>1. PICK i \in 1..n + 1 : x = t[i].id
        BY <1>1, <2>1, Zenon DEF MsgIds
    <3>2. CASE i \in 1..n
        BY <1>1, <3>1, <3>2, Zenon DEF MsgIds
    <3> QED BY <1>1, <1>2, <3>1, <3>2, Zenon
  <2>2. MsgIds(s) \subseteq MsgIds(t) /\ m.id \in MsgIds(t)
      BY <1>1, <1>2, Zenon DEF MsgIds
  <2> QED BY <2>1, <2>2, Zenon
<1>4. ASSUME MsgsUp(s), Below(MsgIds(s), {m.id}) PROVE MsgsUp(t)
  <2> SUFFICES ASSUME NEW i \in 1..n + 1, NEW j \in 1..n + 1, i < j PROVE t[i].id < t[j].id
      BY <1>1 DEF MsgsUp
  <2>1. i \in 1..n
      BY <1>1, SMT
  <2>2. CASE j \in 1..n
      BY <1>1, <1>4, <2>1, <2>2, Zenon DEF MsgsUp
  <2>3. CASE j = n + 1
    <3>1. s[i].id \in MsgIds(s) /\ t[i] = s[i] /\ t[j] = m
        BY <1>1, <2>1, <2>3, Zenon DEF MsgIds
    <3> QED BY <1>4, <3>1 DEF Below
  <2> QED BY <1>2, <2>2, <2>3
<1> QED BY <1>3, <1>4 DEF t

LEMMA MsgWithout ==
  ASSUME NEW s \in Seq(Messages), NEW k \in 1..Len(s)
  PROVE  /\ Without(s, k) \in Seq(Messages)
         /\ MsgIds(Without(s, k)) \subseteq MsgIds(s)
         /\ MsgsUp(s) => MsgsUp(Without(s, k))
<1> DEFINE n == Len(s)  t == Without(s, k)  at(j) == IF j < k THEN j ELSE j + 1
<1>1. /\ t \in Seq(Messages) /\ DOMAIN t = 1..n - 1 /\ DOMAIN s = 1..n /\ n \in Nat
      /\ \A j \in 1..n - 1 : t[j] = s[at(j)]
  <2>1. t \in Seq(Messages) /\ Len(t) = n - 1 /\ \A j \in 1..n - 1 : t[j] = s[at(j)]
      BY WithoutItem
  <2> HIDE DEF t, at
  <2> QED BY <2>1, SMT
<1>2. /\ \A j \in 1..n - 1 : at(j) \in 1..n
      /\ \A i, j \in 1..n - 1 : i < j => at(i) < at(j)
    BY <1>1, SMT
<1> HIDE DEF n, t, at
<1>3. ASSUME NEW x \in MsgIds(t) PROVE x \in MsgIds(s)
  <2>1. PICK j \in 1..n - 1 : x = t[j].id
      BY <1>1, <1>3, Zenon DEF MsgIds
  <2> QED BY <1>1, <1>2, <2>1, Zenon DEF MsgIds
<1>4. ASSUME MsgsUp(s) PROVE MsgsUp(t)
  <2> SUFFICES ASSUME NEW i \in 1..n - 1, NEW j \in 1..n - 1, i < j PROVE t[i].id < t[j].id
      BY <1>1 DEF MsgsUp
  <2> QED BY <1>1, <1>2, <1>4, Zenon DEF MsgsUp
<1> QED BY <1>1, <1>3, <1>4 DEF t

-----------------------------------------------------------------------------
(***************************************************************************)
(* The places and what a step does to them.                                *)
(***************************************************************************)

places == <<got, to_app, output, output_queue, offline_queue, arrived>>

LEMMA PlacesKept == ASSUME OrderInv, UNCHANGED places PROVE OrderInv'
  BY Zenon DEF OrderInv, InPlace, AllUp, places, FrameIds, MsgIds, FramesUp, MsgsUp, IsMessage

\* Frames are lost, or read, that carry no message to the app's list.
LEMMA FramesLost ==
  ASSUME OrderInv, UNCHANGED <<got, offline_queue, arrived>>,
         FrameIds(to_app') \subseteq FrameIds(to_app), FramesUp(to_app'),
         FrameIds(output') \subseteq FrameIds(output), FramesUp(output'),
         FrameIds(output_queue') \subseteq FrameIds(output_queue), FramesUp(output_queue')
  PROVE  OrderInv'
<1>1. InPlace'
  <2>1. Chain(MsgIds(got), FrameIds(to_app'), FrameIds(output'), FrameIds(output_queue'),
              MsgIds(offline_queue), Len(arrived))
    <3>1. Chain(MsgIds(got), FrameIds(to_app), FrameIds(output), FrameIds(output_queue),
                MsgIds(offline_queue), Len(arrived))
        BY DEF OrderInv, InPlace
    <3>2. MsgIds(got) \subseteq MsgIds(got) /\ MsgIds(offline_queue) \subseteq MsgIds(offline_queue)
        OBVIOUS
    <3> QED BY <3>1, <3>2, ChainSub
  <2> QED BY <2>1, Zenon DEF InPlace, FrameIds, MsgIds, IsMessage
<1>2. AllUp'
    BY Zenon DEF OrderInv, AllUp, FramesUp, MsgsUp, IsMessage
<1> QED BY <1>1, <1>2 DEF OrderInv

\* A frame is written that is not a message.
LEMMA OtherWritten ==
  ASSUME OrderInv, TypeInv, UNCHANGED <<got, to_app, output, offline_queue, arrived>>,
         NEW f \in Frames, f.code # "MSG", writeFrame(f)
  PROVE  OrderInv'
<1>1. output_queue \in Seq(Frames) /\ output_queue' = Append(output_queue, f)
    BY DEF TypeInv, QueuesType, writeFrame
<1>2. FrameIds(output_queue') = FrameIds(output_queue) /\ FramesUp(output_queue')
    BY <1>1, FrameAppend, Zenon DEF OrderInv, AllUp
<1>3. /\ FrameIds(to_app') = FrameIds(to_app) /\ FrameIds(output') = FrameIds(output)
      /\ FramesUp(to_app') /\ FramesUp(output')
    BY Zenon DEF OrderInv, AllUp
<1> QED BY <1>2, <1>3, FramesLost, Zenon

\* The oldest message is taken from the queue and written.
LEMMA MessageWritten ==
  ASSUME OrderInv, TypeInv, UNCHANGED <<got, to_app, output, arrived>>,
         offline_queue # <<>>, offline_queue' = Tail(offline_queue),
         NEW c \in Connections, writeFrame(FrameOf("MSG", c, Head(offline_queue)))
  PROVE  OrderInv'
<1> DEFINE x == Head(offline_queue).id  f == FrameOf("MSG", c, Head(offline_queue))
<1>1. /\ offline_queue \in Seq(Messages) /\ output_queue \in Seq(Frames)
      /\ output_queue' = Append(output_queue, f)
    BY DEF TypeInv, QueuesType, MessagesType, writeFrame
<1>2. f \in Frames /\ f.code = "MSG" /\ f.arg.id = x
    BY <1>1, TakeItem, FrameTypes DEF FrameOf
<1>3. /\ MsgIds(Tail(offline_queue)) \subseteq MsgIds(offline_queue) /\ x \in MsgIds(offline_queue)
      /\ MsgsUp(Tail(offline_queue)) /\ Below({x}, MsgIds(Tail(offline_queue)))
    BY <1>1, MsgTake DEF OrderInv, AllUp
<1>4. /\ FrameIds(output_queue') = FrameIds(output_queue) \union {x}
      /\ Below(FrameIds(output_queue), {x}) => FramesUp(output_queue')
  <2> HIDE DEF f, x
  <2> QED BY <1>1, <1>2, FrameAppend, Zenon DEF OrderInv, AllUp
<1> HIDE DEF x, f
<1>5. Below(FrameIds(output_queue), {x})
    BY <1>3, Zenon DEF OrderInv, InPlace, Chain, Below
<1>6. Chain(MsgIds(got), FrameIds(to_app), FrameIds(output), FrameIds(output_queue) \union {x},
            MsgIds(Tail(offline_queue)), Len(arrived))
    BY <1>3, ChainMove, Zenon DEF OrderInv, InPlace
<1>7. InPlace'
    BY <1>4, <1>6, Zenon DEF InPlace, FrameIds, MsgIds, IsMessage
<1>8. AllUp'
    BY <1>3, <1>4, <1>5, Zenon DEF OrderInv, AllUp, FramesUp, MsgsUp, IsMessage
<1> QED BY <1>7, <1>8 DEF OrderInv

\* The thread takes the output queue when it has sent what it took before.
LEMMA OutputTaken ==
  ASSUME OrderInv, UNCHANGED <<got, to_app, offline_queue, arrived>>,
         output = <<>>, output' = output_queue, output_queue' = <<>>
  PROVE  OrderInv'
<1>1. /\ FrameIds(output_queue') = {} /\ FramesUp(output_queue') /\ FrameIds(output) = {}
    BY FrameEmpty
<1>2. FrameIds(output') = FrameIds(output_queue) /\ FramesUp(output')
    BY DEF OrderInv, AllUp
<1>3. Chain(MsgIds(got), FrameIds(to_app), FrameIds(output'), FrameIds(output_queue'),
            MsgIds(offline_queue), Len(arrived))
    BY <1>1, <1>2, Zenon DEF OrderInv, InPlace, Chain, Below
<1>4. InPlace'
    BY <1>3, Zenon DEF InPlace, FrameIds, MsgIds, IsMessage
<1>5. AllUp'
    BY <1>1, <1>2, Zenon DEF OrderInv, AllUp, FramesUp, MsgsUp, IsMessage
<1> QED BY <1>4, <1>5 DEF OrderInv

\* A frame is sent to the app.
LEMMA FrameSent ==
  ASSUME OrderInv, TypeInv, UNCHANGED <<got, output_queue, offline_queue, arrived>>,
         output # <<>>, output' = Tail(output), to_app' = Append(to_app, Head(output))
  PROVE  OrderInv'
<1> DEFINE f == Head(output)
<1>1. /\ output \in Seq(Frames) /\ to_app \in Seq(Frames) /\ f \in Frames
      /\ FramesUp(output) /\ FramesUp(to_app) /\ FramesUp(output_queue)
    BY TakeItem DEF TypeInv, ThreadType, WiresType, OrderInv, AllUp
<1>2. FrameIds(output') \subseteq FrameIds(output) /\ FramesUp(output')
    BY <1>1, FrameTake
<1>3. CASE f.code # "MSG"
  <2>1. FrameIds(to_app') = FrameIds(to_app) /\ FramesUp(to_app')
    <3> HIDE DEF f
    <3>1. to_app' = Append(to_app, f)
        BY DEF f
    <3> QED BY <1>1, <1>3, <3>1, FrameAppend, Zenon
  <2> QED BY <1>1, <1>2, <2>1, FramesLost, Zenon
<1>4. CASE f.code = "MSG"
  <2> DEFINE x == f.arg.id
  <2>1. x \in FrameIds(output) /\ Below({x}, FrameIds(output'))
      BY <1>1, <1>4, FrameTake
  <2>2. Below(FrameIds(to_app), {x})
    <3> HIDE DEF x
    <3> QED BY <2>1, Zenon DEF OrderInv, InPlace, Chain, Below
  <2>3. FrameIds(to_app') = FrameIds(to_app) \union {x} /\ FramesUp(to_app')
    <3>1. to_app' = Append(to_app, f)
        OBVIOUS
    <3> HIDE DEF f
    <3> QED BY <1>1, <1>4, <2>2, <3>1, FrameAppend, Zenon DEF x
  <2>4. Chain(MsgIds(got), FrameIds(to_app) \union {x}, FrameIds(output'), FrameIds(output_queue),
              MsgIds(offline_queue), Len(arrived))
    <3> HIDE DEF x
    <3> QED BY <1>2, <2>1, ChainMove, Zenon DEF OrderInv, InPlace
  <2> HIDE DEF x
  <2>5. InPlace'
      BY <2>3, <2>4, Zenon DEF InPlace, FrameIds, MsgIds, IsMessage
  <2>6. AllUp'
      BY <1>2, <2>3, Zenon DEF OrderInv, AllUp, FramesUp, MsgsUp, IsMessage
  <2> QED BY <2>5, <2>6 DEF OrderInv
<1> QED BY <1>3, <1>4

\* The app reads a frame.
LEMMA FrameRead == ASSUME OrderInv, TypeInv, readFrame PROVE OrderInv'
<1> DEFINE f == Head(to_app)
<1>1. /\ to_app # <<>> /\ to_app' = Tail(to_app)
      /\ got' = IF f.code = "MSG" THEN Append(got, f.arg) ELSE got
      /\ UNCHANGED <<output_queue, output, offline_queue, arrived>>
    BY ReadEffect DEF queues, thread, firmware
<1>2. /\ to_app \in Seq(Frames) /\ f \in Frames /\ got \in Seq(Messages)
      /\ FramesUp(to_app) /\ MsgsUp(got) /\ FramesUp(output) /\ FramesUp(output_queue)
    BY <1>1, TakeItem DEF TypeInv, WiresType, AppType, OrderInv, AllUp
<1>3. FrameIds(to_app') \subseteq FrameIds(to_app) /\ FramesUp(to_app')
    BY <1>1, <1>2, FrameTake
<1>4. CASE f.code # "MSG"
    BY <1>1, <1>2, <1>3, <1>4, FramesLost, Zenon
<1>5. CASE f.code = "MSG"
  <2> DEFINE x == f.arg.id
  <2>1. x \in FrameIds(to_app) /\ Below({x}, FrameIds(to_app'))
      BY <1>1, <1>2, <1>5, FrameTake
  <2>2. Below(MsgIds(got), {x})
    <3> HIDE DEF x
    <3> QED BY <2>1, Zenon DEF OrderInv, InPlace, Chain, Below
  <2>3. MsgIds(got') = MsgIds(got) \union {x} /\ MsgsUp(got')
    <3>1. got' = Append(got, f.arg) /\ f.arg \in Messages
        BY <1>1, <1>2, <1>5, FrameArgs
    <3> HIDE DEF f
    <3> QED BY <1>2, <2>2, <3>1, MsgAppend, Zenon DEF x
  <2>4. Chain(MsgIds(got) \union {x}, FrameIds(to_app'), FrameIds(output), FrameIds(output_queue),
              MsgIds(offline_queue), Len(arrived))
    <3> HIDE DEF x
    <3> QED BY <1>3, <2>1, ChainMove, Zenon DEF OrderInv, InPlace
  <2> HIDE DEF x
  <2>5. InPlace'
      BY <1>1, <2>3, <2>4, Zenon DEF InPlace, FrameIds, MsgIds, IsMessage
  <2>6. AllUp'
      BY <1>1, <1>3, <2>3, Zenon DEF OrderInv, AllUp, FramesUp, MsgsUp, IsMessage
  <2> QED BY <2>5, <2>6 DEF OrderInv
<1> QED BY <1>4, <1>5

\* A message is put behind those that are kept, if it is kept, and one of them
\* may go: the others stay in order.
LEMMA MessageArrived == ASSUME OrderInv, TypeInv, queueMessage PROVE OrderInv'
<1> USE Constants
<1>1. PICK kind \in {"contact", "channel"} :
        /\ Len(arrived) < MaxMessages
        /\ arrived' = Append(arrived, [id |-> Len(arrived) + 1, kind |-> kind])
        /\ offline_queue' \in addToOfflineQueue(offline_queue, [id |-> Len(arrived) + 1, kind |-> kind])
        /\ UNCHANGED <<serialVars, client_app>>
    BY Arrival
<1> DEFINE n == Len(arrived)  msg == [id |-> n + 1, kind |-> kind]
<1>2. /\ msg \in Messages /\ msg.id = n + 1
      /\ arrived' = Append(arrived, msg) /\ offline_queue' \in addToOfflineQueue(offline_queue, msg)
  <2>1. n + 1 \in 1..MaxMessages
      BY <1>1, SMT DEF TypeInv, MessagesType
  <2> QED BY <1>1, <2>1, MessageTypes
<1> HIDE DEF msg
<1>3. /\ Len(arrived') = n + 1 /\ offline_queue \in Seq(Messages) /\ Len(offline_queue) <= QueueSize
      /\ MsgsUp(offline_queue)
    BY <1>2, SMT DEF TypeInv, MessagesType, OrderInv, AllUp
<1>4. UNCHANGED <<got, to_app, output, output_queue>>
    BY <1>1 DEF serialVars, wires, thread, queues, client_app
<1>5. Below(MsgIds(offline_queue), {n + 1})
    BY SMT DEF OrderInv, InPlace, Chain, Below
<1>6. /\ MsgIds(offline_queue') \subseteq MsgIds(offline_queue) \union {n + 1}
      /\ MsgsUp(offline_queue')
  <2>1. \/ offline_queue' = offline_queue
        \/ offline_queue' = Append(offline_queue, msg)
        \/ \E i \in 1..Len(offline_queue) : offline_queue' = Append(Without(offline_queue, i), msg)
      BY <1>2, <1>3, QueueTypes
  <2>2. CASE offline_queue' = offline_queue
      BY <1>3, <2>2
  <2>3. CASE offline_queue' = Append(offline_queue, msg)
      BY <1>2, <1>3, <1>5, <2>3, MsgAppend
  <2>4. ASSUME NEW i \in 1..Len(offline_queue), offline_queue' = Append(Without(offline_queue, i), msg)
        PROVE  /\ MsgIds(offline_queue') \subseteq MsgIds(offline_queue) \union {n + 1}
               /\ MsgsUp(offline_queue')
    <3> DEFINE rest == Without(offline_queue, i)
    <3>1. rest \in Seq(Messages) /\ MsgIds(rest) \subseteq MsgIds(offline_queue) /\ MsgsUp(rest)
        BY <1>3, MsgWithout
    <3>2. offline_queue' = Append(rest, msg)
        BY <2>4
    <3> HIDE DEF rest, n
    <3>3. Below(MsgIds(rest), {n + 1})
        BY <1>5, <3>1, Zenon DEF Below
    <3>4. MsgIds(offline_queue') = MsgIds(rest) \union {n + 1} /\ MsgsUp(offline_queue')
        BY <1>2, <3>1, <3>2, <3>3, MsgAppend
    <3> QED BY <3>1, <3>4, Zenon
  <2> QED BY <2>1, <2>2, <2>3, <2>4
<1>7. Chain(MsgIds(got), FrameIds(to_app), FrameIds(output), FrameIds(output_queue),
            MsgIds(offline_queue'), Len(arrived'))
  <2> DEFINE more == MsgIds(offline_queue) \union {n + 1}
  <2>1. Chain(MsgIds(got), FrameIds(to_app), FrameIds(output), FrameIds(output_queue), more, n + 1)
      BY ChainGrow DEF OrderInv, InPlace
  <2>2. /\ MsgIds(got) \subseteq MsgIds(got) /\ FrameIds(to_app) \subseteq FrameIds(to_app)
        /\ FrameIds(output) \subseteq FrameIds(output)
        /\ FrameIds(output_queue) \subseteq FrameIds(output_queue)
        /\ MsgIds(offline_queue') \subseteq more
      BY <1>6
  <2> HIDE DEF more
  <2> QED BY <1>3, <2>1, <2>2, ChainSub
<1>8. InPlace'
    BY <1>4, <1>7, Zenon DEF InPlace, FrameIds, MsgIds, IsMessage
<1>9. AllUp'
    BY <1>4, <1>6, Zenon DEF OrderInv, AllUp, FramesUp, MsgsUp, IsMessage
<1> QED BY <1>8, <1>9 DEF OrderInv

\* The steps of the server thread.
LEMMA ServerOrder == ASSUME OrderInv, TypeInv, ServerStep PROVE OrderInv'
<1>1. UNCHANGED <<got, offline_queue, arrived>>
    BY DEF ServerStep, firmware, client_app
<1>2. FramesUp(to_app) /\ FramesUp(output) /\ FramesUp(output_queue)
    BY DEF OrderInv, AllUp
<1>3. CASE Accept \/ CloseClient
  <2>1. UNCHANGED <<to_app, output>> /\ output_queue' = <<>>
      BY <1>3 DEF Accept, CloseClient, wires, clearQueues
  <2>2. FrameIds(output_queue') \subseteq FrameIds(output_queue) /\ FramesUp(output_queue')
      BY <2>1, FrameEmpty
  <2> QED BY <1>1, <1>2, <2>1, <2>2, FramesLost, Zenon
<1>4. CASE StartServing \/ ReceiveFrame \/ ReceiveEnd \/ StopServing
  <2>1. UNCHANGED <<to_app, output, output_queue>>
      BY <1>4, Zenon DEF StartServing, ReceiveFrame, ReceiveEnd, StopServing, wires, queues, thread
  <2> QED BY <1>1, <2>1, PlacesKept DEF places
<1>5. CASE TakeOutput
    BY <1>1, <1>5, OutputTaken DEF TakeOutput, wires
<1>6. CASE SendFrame
  <2>1. /\ output # <<>> /\ UNCHANGED output_queue
        /\ \/ output' = Tail(output) /\ to_app' = Append(to_app, Head(output))
           \/ output' \in {Tail(output), <<>>} /\ UNCHANGED to_app
      BY <1>6, Zenon DEF SendFrame, queues
  <2>2. CASE output' = Tail(output) /\ to_app' = Append(to_app, Head(output))
      BY <1>1, <2>1, <2>2, FrameSent
  <2>3. CASE output' \in {Tail(output), <<>>} /\ UNCHANGED to_app
    <3>1. output \in Seq(Frames)
        BY DEF TypeInv, ThreadType
    <3>2. FrameIds(output') \subseteq FrameIds(output) /\ FramesUp(output')
        BY <1>2, <2>1, <2>3, <3>1, FrameTake, FrameEmpty
    <3> QED BY <1>1, <1>2, <2>1, <2>3, <3>2, FramesLost, Zenon
  <2> QED BY <2>1, <2>2, <2>3
<1> QED BY <1>3, <1>4, <1>5, <1>6 DEF ServerStep, runServer

\* The steps of the run loop: the only message written is the oldest one.
LEMMA LoopOrder == ASSUME OrderInv, TypeInv, loop PROVE OrderInv'
<1>1. UNCHANGED <<got, to_app, output, arrived>>
    BY Zenon DEF loop, writeTickle, checkRecvFrame, handleCmdFrame, listContacts, wires, thread, client_app
<1>2. CASE writeTickle
  <2>1. Frame("MSG_WAITING", 0) \in Frames /\ Frame("MSG_WAITING", 0).code # "MSG"
      BY FrameTypes DEF Frame
  <2> QED BY <1>1, <1>2, <2>1, OtherWritten DEF writeTickle
<1>3. CASE checkRecvFrame
    BY <1>1, <1>3, PlacesKept DEF checkRecvFrame, places
<1>4. CASE handleCmdFrame
  <2>1. PICK conn \in Connections :
          \/ handleAppStart(conn) \/ handleGetContacts(conn) \/ handleSyncNextMessage(conn)
      BY <1>4, CommandTypes, Zenon DEF handleCmdFrame, TypeInv, ListType
  <2>2. CASE handleAppStart(conn) \/ handleGetContacts(conn)
    <3>1. /\ UNCHANGED offline_queue
          /\ \E code \in {"SELF_INFO", "CONTACTS_START", "ERR"} : writeFrame(Frame(code, conn))
        BY <2>2, Zenon DEF handleAppStart, handleGetContacts
    <3>2. \A code \in {"SELF_INFO", "CONTACTS_START", "ERR"} :
            Frame(code, conn) \in Frames /\ Frame(code, conn).code # "MSG"
        BY FrameTypes DEF Frame
    <3> QED BY <1>1, <3>1, <3>2, OtherWritten
  <2>3. CASE handleSyncNextMessage(conn) /\ hasMessage(offline_queue)
    <3>1. offline_queue # <<>>
        BY <2>3, SMT DEF hasMessage, TypeInv, MessagesType
    <3>2. offline_queue' = Tail(offline_queue) /\ writeFrame(FrameOf("MSG", conn, Head(offline_queue)))
        BY <2>3, Zenon DEF handleSyncNextMessage
    <3> QED BY <1>1, <3>1, <3>2, MessageWritten
  <2>4. CASE handleSyncNextMessage(conn) /\ ~hasMessage(offline_queue)
    <3>1. Frame("NO_MORE_MESSAGES", conn) \in Frames /\ Frame("NO_MORE_MESSAGES", conn).code # "MSG"
        BY FrameTypes DEF Frame
    <3>2. writeFrame(Frame("NO_MORE_MESSAGES", conn)) /\ UNCHANGED offline_queue
        BY <2>4, Zenon DEF handleSyncNextMessage
    <3> QED BY <1>1, <3>1, <3>2, OtherWritten
  <2> QED BY <2>1, <2>2, <2>3, <2>4
<1>5. CASE listContacts
  <2>1. CASE UNCHANGED output_queue
      BY <1>1, <1>5, <2>1, PlacesKept DEF listContacts, places
  <2>2. CASE ~UNCHANGED output_queue
    <3>1. asked_by \in Connections /\ (iterator < NumContacts => iterator + 1 \in 1..NumContacts)
        BY <1>5, Constants, SMT DEF listContacts, TypeInv, ListType, Connections, Stopped
    <3>2. \/ iterator < NumContacts /\ writeFrame(FrameOf("CONTACT", asked_by, iterator + 1))
          \/ writeFrame(Frame("END_OF_CONTACTS", asked_by))
        BY <1>5, <2>2, Zenon DEF listContacts
    <3>3. /\ iterator < NumContacts =>
               /\ FrameOf("CONTACT", asked_by, iterator + 1) \in Frames
               /\ FrameOf("CONTACT", asked_by, iterator + 1).code # "MSG"
          /\ Frame("END_OF_CONTACTS", asked_by) \in Frames
          /\ Frame("END_OF_CONTACTS", asked_by).code # "MSG"
        BY <3>1, FrameTypes DEF Frame, FrameOf
    <3>4. UNCHANGED offline_queue
        BY <1>5 DEF listContacts
    <3> QED BY <1>1, <3>2, <3>3, <3>4, OtherWritten
  <2> QED BY <2>1, <2>2
<1> QED BY <1>2, <1>3, <1>4, <1>5 DEF loop

LEMMA OrderStep == TypeInv /\ OrderInv /\ [Next]_vars => OrderInv'
<1> SUFFICES ASSUME TypeInv, OrderInv, [Next]_vars PROVE OrderInv'
    OBVIOUS
<1>1. CASE connect
  <2>1. UNCHANGED places
      BY <1>1 DEF connect, places, queues, thread, firmware
  <2> QED BY <2>1, PlacesKept
<1>2. CASE disconnect
  <2>1. UNCHANGED <<got, output, output_queue, offline_queue, arrived>> /\ to_app' = <<>>
      BY <1>2 DEF disconnect, queues, thread, firmware
  <2>2. FrameIds(to_app') \subseteq FrameIds(to_app) /\ FramesUp(to_app')
      BY <2>1, FrameEmpty
  <2> QED BY <2>1, <2>2, FramesLost, Zenon DEF OrderInv, AllUp
<1>3. CASE UNCHANGED vars
  <2>1. UNCHANGED places
      BY <1>3 DEF vars, serialVars, wires, queues, thread, firmware, client_app, places
  <2> QED BY <2>1, PlacesKept
<1> QED BY <1>1, <1>2, <1>3, ServerOrder, LoopOrder, MessageArrived, FrameRead DEF Next

LEMMA InitOrder == Init => OrderInv
<1> SUFFICES ASSUME Init PROVE OrderInv
    OBVIOUS
<1>1. got = <<>> /\ to_app = <<>> /\ output = <<>> /\ output_queue = <<>> /\ offline_queue = <<>>
      /\ arrived = <<>>
    BY DEF Init, SerialInit
<1>2. AllUp
    BY <1>1, FrameEmpty, MsgEmpty DEF AllUp
<1>3. Len(arrived) \in Nat
    BY <1>1, EmptyItem, SMT
<1>4. InPlace
    BY <1>1, <1>3, FrameEmpty, MsgEmpty, Zenon DEF InPlace, Chain, Below
<1> QED BY <1>2, <1>4 DEF OrderInv

\* The app gets messages in the order in which they arrived, and none twice.
THEOREM AlwaysInOrder == Spec => []InOrder
<1>1. Init => TypeInv /\ OrderInv
    BY InitType, InitOrder
<1>2. (TypeInv /\ OrderInv) /\ [Next]_vars => (TypeInv /\ OrderInv)'
    BY TypeStep, OrderStep
<1>3. TypeInv /\ OrderInv => InOrder
    BY DEF OrderInv, AllUp, MsgsUp, InOrder
<1> QED BY <1>1, <1>2, <1>3, PTL DEF Spec
=============================================================================
