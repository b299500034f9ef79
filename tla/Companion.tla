------------------------------ MODULE Companion ------------------------------
(***************************************************************************)
(* A companion radio and the app that is connected to it now and then: the *)
(* queue of messages kept for the app, the tickle that tells it of a new   *)
(* one, and the contacts it lists                                          *)
(* (MeshCore/examples/companion_radio/MyMesh.cpp), over TcpSerial.         *)
(*                                                                         *)
(* The app is not part of the repository: it asks for one thing at a time, *)
(* starts with CMD_APP_START, may list the contacts, then asks for messages*)
(* until there are no more, and again when it is tickled. A frame carries  *)
(* the connection that asked for it, 0 if none did. Contacts do not change.*)
(***************************************************************************)
EXTENDS TcpSerial, FiniteSets

CONSTANTS
  QueueSize,     \* OFFLINE_QUEUE_SIZE
  NumContacts,
  MaxMessages    \* bound

ASSUME CompanionAssumption ==
  QueueSize \in Nat \ {0} /\ NumContacts \in Nat /\ MaxMessages \in Nat

VARIABLES
  offline_queue,
  iterator,      \* _iter: contacts listed so far; Stopped unless _iter_started
  asked_by,      \* the connection that the iterator runs for
  cmd_frame,     \* the command being handled, None or NoFrame
  tickling,      \* a message is queued, and the tickle still to be written
  app,           \* what the app is waiting for
  listed,        \* contacts the app was given since CONTACTS_START
  arrived, got,  \* history: messages received by the radio and by the app
  refused        \* history: contact messages that found the queue full of such

firmware == <<offline_queue, iterator, asked_by, cmd_frame, tickling, arrived, refused>>
client_app == <<app, listed, got>>
vars == <<serialVars, firmware, client_app>>

None == [cmd |-> "NONE", conn |-> 0]
NoFrame == [cmd |-> "NO_FRAME", conn |-> 0]   \* checkRecvFrame() has returned 0
Stopped == -1

Init ==
  /\ SerialInit
  /\ offline_queue = <<>> /\ iterator = Stopped /\ asked_by = 0
  /\ cmd_frame = None /\ tickling = FALSE
  /\ app = "closed" /\ listed = <<>>
  /\ arrived = <<>> /\ got = <<>> /\ refused = 0

Frame(code, conn) == [code |-> code, conn |-> conn, arg |-> 0]
FrameOf(code, conn, arg) == [code |-> code, conn |-> conn, arg |-> arg]

-----------------------------------------------------------------------------
(***************************************************************************)
(* The queue of messages.                                                  *)
(***************************************************************************)

isChannelMsg(msg) == msg.kind = "channel"

Without(queue, i) == SubSeq(queue, 1, i - 1) \o SubSeq(queue, i + 1, Len(queue))

\* Slips: a full queue grows, the new message takes the place of the removed one,
\* and the oldest message is removed whatever it is.
addUnchecked(queue, msg) == {Append(queue, msg)}
addInPlace(queue, msg) ==
  IF Len(queue) < QueueSize THEN {Append(queue, msg)}
  ELSE LET channel == {i \in DOMAIN queue : isChannelMsg(queue[i])}
       IN IF channel = {} THEN {queue}
          ELSE {[queue EXCEPT ![i] = msg] : i \in {j \in channel : \A k \in channel : j <= k}}
addDroppingFirst(queue, msg) ==
  IF Len(queue) < QueueSize THEN {Append(queue, msg)} ELSE {Append(Tail(queue), msg)}

\* In a full queue the oldest channel message gives way; without one the new
\* message is not kept.
addToOfflineQueue(queue, msg) ==
  IF Len(queue) < QueueSize THEN {Append(queue, msg)}
  ELSE LET channel == {i \in DOMAIN queue : isChannelMsg(queue[i])}
       IN IF channel = {} THEN {queue}
          ELSE {Append(Without(queue, i), msg) : i \in {j \in channel : \A k \in channel : j <= k}}

\* Slip: one message is always kept back.
hasMessageShort(queue) == Len(queue) > 1
hasMessage(queue) == Len(queue) > 0

-----------------------------------------------------------------------------
(***************************************************************************)
(* The steps of MyMesh::loop().                                            *)
(***************************************************************************)

loopIdle == cmd_frame = None /\ ~tickling

\* queueMessage() and onChannelMessageRecv(), up to the look at connected_.
queueMessage ==
  \E kind \in {"contact", "channel"} :
    LET msg == [id |-> Len(arrived) + 1, kind |-> kind]
    IN /\ loopIdle /\ Len(arrived) < MaxMessages
       /\ arrived' = Append(arrived, msg)
       /\ offline_queue' \in addToOfflineQueue(offline_queue, msg)
       /\ refused' = IF kind = "contact" /\ Len(offline_queue) = QueueSize
                        /\ \A i \in DOMAIN offline_queue : ~isChannelMsg(offline_queue[i])
                     THEN refused + 1 ELSE refused
       /\ tickling' = connected
       /\ UNCHANGED <<serialVars, iterator, asked_by, cmd_frame, client_app>>

writeTickle ==
  /\ tickling
  /\ writeFrame(Frame("MSG_WAITING", 0))
  /\ tickling' = FALSE
  /\ UNCHANGED <<wires, thread, input_queue, offline_queue, iterator, asked_by, cmd_frame,
                 arrived, refused, client_app>>

\* Without a frame the loop has something to do if contacts are being listed.
checkRecvFrame ==
  /\ loopIdle
  /\ \/ /\ input_queue # <<>>
        /\ cmd_frame' = Head(input_queue)
        /\ input_queue' = Tail(input_queue)
     \/ /\ input_queue = <<>> /\ iterator # Stopped
        /\ cmd_frame' = NoFrame
        /\ UNCHANGED input_queue
  /\ UNCHANGED <<wires, thread, output_queue, offline_queue, iterator, asked_by, tickling,
                 arrived, refused, client_app>>

\* Slip: an iterator left over from the last connection goes on.
iteratorAfterStartKept == iterator
iteratorAfterStart == Stopped

handleAppStart(conn) ==
  /\ iterator' = iteratorAfterStart
  /\ writeFrame(Frame("SELF_INFO", conn))
  /\ UNCHANGED <<offline_queue, asked_by>>

handleGetContacts(conn) ==
  /\ IF iterator # Stopped
     THEN writeFrame(Frame("ERR", conn)) /\ UNCHANGED <<iterator, asked_by>>
     ELSE writeFrame(Frame("CONTACTS_START", conn)) /\ iterator' = 0 /\ asked_by' = conn
  /\ UNCHANGED offline_queue

\* The message is out of the queue before it is known to arrive.
handleSyncNextMessage(conn) ==
  /\ IF hasMessage(offline_queue)
     THEN /\ writeFrame(FrameOf("MSG", conn, Head(offline_queue)))
          /\ offline_queue' = Tail(offline_queue)
     ELSE writeFrame(Frame("NO_MORE_MESSAGES", conn)) /\ UNCHANGED offline_queue
  /\ UNCHANGED <<iterator, asked_by>>

handleCmdFrame ==
  /\ \/ cmd_frame.cmd = "APP_START" /\ handleAppStart(cmd_frame.conn)
     \/ cmd_frame.cmd = "GET_CONTACTS" /\ handleGetContacts(cmd_frame.conn)
     \/ cmd_frame.cmd = "SYNC_NEXT_MESSAGE" /\ handleSyncNextMessage(cmd_frame.conn)
  /\ cmd_frame' = None
  /\ UNCHANGED <<wires, thread, input_queue, tickling, arrived, refused, client_app>>

\* One more contact is written, unless the last frame still waits to be taken.
listContacts ==
  /\ cmd_frame = NoFrame
  /\ cmd_frame' = None
  /\ \/ isWriteBusy /\ UNCHANGED <<output_queue, iterator>>
     \/ /\ ~isWriteBusy /\ iterator < NumContacts
        /\ writeFrame(FrameOf("CONTACT", asked_by, iterator + 1))
        /\ iterator' = iterator + 1
     \/ /\ ~isWriteBusy /\ iterator = NumContacts
        /\ writeFrame(Frame("END_OF_CONTACTS", asked_by))
        /\ iterator' = Stopped
  /\ UNCHANGED <<wires, thread, input_queue, offline_queue, asked_by, tickling,
                 arrived, refused, client_app>>

loop == writeTickle \/ checkRecvFrame \/ handleCmdFrame \/ listContacts

-----------------------------------------------------------------------------
(***************************************************************************)
(* The app.                                                                *)
(***************************************************************************)

Ask(cmd, conn) == to_node' = [to_node EXCEPT ![conn] = Append(@, [cmd |-> cmd, conn |-> conn])]

connect ==
  /\ app = "closed" /\ connections < MaxConnections
  /\ connections' = connections + 1
  /\ open' = TRUE
  /\ Ask("APP_START", connections + 1)
  /\ app' = "starting"
  /\ listed' = <<>>
  /\ UNCHANGED <<to_app, queues, thread, firmware, got>>

\* What was sent to the app and not read is lost.
disconnect ==
  /\ app # "closed"
  /\ open' = FALSE
  /\ to_app' = <<>>
  /\ app' = "closed"
  /\ UNCHANGED <<connections, to_node, queues, thread, firmware, listed, got>>

\* The app reads a frame and may ask for the next thing. Frames that it does not
\* wait for are ignored, but a message is kept whenever it comes.
readFrame ==
  LET frame == Head(to_app)
      next(cmd, wait) == Ask(cmd, connections) /\ app' = wait
  IN /\ app # "closed" /\ to_app # <<>>
     /\ to_app' = Tail(to_app)
     /\ got' = IF frame.code = "MSG" THEN Append(got, frame.arg) ELSE got
     /\ listed' = CASE frame.code = "CONTACTS_START" -> <<>>
                    [] frame.code = "CONTACT" -> Append(listed, frame.arg)
                    [] OTHER -> listed
     /\ CASE app = "starting" /\ frame.code = "SELF_INFO" ->
               \/ next("GET_CONTACTS", "listing") \/ next("SYNC_NEXT_MESSAGE", "syncing")
          [] app = "listing" /\ frame.code \in {"END_OF_CONTACTS", "ERR"} ->
               next("SYNC_NEXT_MESSAGE", "syncing")
          [] app = "syncing" /\ frame.code = "MSG" -> next("SYNC_NEXT_MESSAGE", "syncing")
          [] app = "syncing" /\ frame.code = "NO_MORE_MESSAGES" -> app' = "idle" /\ UNCHANGED to_node
          [] app = "idle" /\ frame.code = "MSG_WAITING" -> next("SYNC_NEXT_MESSAGE", "syncing")
          [] OTHER -> UNCHANGED <<app, to_node>>
     /\ UNCHANGED <<connections, open, queues, thread, firmware>>

ServerStep == runServer /\ UNCHANGED <<firmware, client_app>>

Next == ServerStep \/ loop \/ queueMessage \/ connect \/ disconnect \/ readFrame

\* The thread and the run loop never stop, and an open app reads what it is sent.
Spec == Init /\ [][Next]_vars /\ WF_vars(ServerStep) /\ WF_vars(loop) /\ WF_vars(readFrame)

-----------------------------------------------------------------------------
(***************************************************************************)
(* Properties.                                                             *)
(***************************************************************************)

Messages == [id : 1..MaxMessages, kind : {"contact", "channel"}]
Connections == 1..MaxConnections
Commands == [cmd : {"APP_START", "GET_CONTACTS", "SYNC_NEXT_MESSAGE"}, conn : Connections]
Frames ==
  [code : {"MSG_WAITING"}, conn : {0}, arg : {0}] \union
  [code : {"SELF_INFO", "CONTACTS_START", "END_OF_CONTACTS", "ERR", "NO_MORE_MESSAGES"},
   conn : Connections, arg : {0}] \union
  [code : {"CONTACT"}, conn : Connections, arg : 1..NumContacts] \union
  [code : {"MSG"}, conn : Connections, arg : Messages]

TypeOK ==
  /\ connections \in 0..MaxConnections /\ open \in BOOLEAN
  /\ to_node \in [Connections -> Seq(Commands)] /\ to_app \in Seq(Frames)
  /\ server \in {"accepting", "accepted", "serving", "leaving", "left"}
  /\ client \in 0..connections /\ connected \in BOOLEAN /\ output \in Seq(Frames)
  /\ input_queue \in Seq(Commands) /\ output_queue \in Seq(Frames)
  /\ offline_queue \in Seq(Messages) /\ Len(offline_queue) <= QueueSize
  /\ iterator \in -1..NumContacts /\ asked_by \in 0..MaxConnections
  /\ cmd_frame \in Commands \union {None, NoFrame} /\ tickling \in BOOLEAN
  /\ app \in {"closed", "starting", "listing", "syncing", "idle"}
  /\ listed \in Seq(1..NumContacts)
  /\ arrived \in Seq(Messages) /\ got \in Seq(Messages) /\ refused \in 0..MaxMessages

RangeOf(s) == {s[i] : i \in DOMAIN s}

\* Messages in frames on their way to the app.
InTransit == {f.arg : f \in {g \in RangeOf(output_queue \o output \o to_app) : g.code = "MSG"}}

\* A contact message that the app has not got is kept or on its way. One may be
\* missing for every connection that was closed, the one being handed over then,
\* and those that found the queue full of contact messages: no channel message
\* ever costs a contact message, and none is lost while nobody is connected.
Accounted ==
  LET missing == {m \in RangeOf(arrived) : ~isChannelMsg(m)}
                   \ (RangeOf(offline_queue) \union InTransit \union RangeOf(got))
      closed == IF open THEN connections - 1 ELSE connections
  IN Cardinality(missing) <= closed + refused

\* The app gets messages in the order in which they arrived, and none twice, over
\* all its connections: also one that was taken from the queue for a connection
\* that is gone.
InOrder == \A i, j \in DOMAIN got : i < j => got[i].id < got[j].id

\* Once the app has been told CMD_APP_START is done, it gets no frame meant for
\* an earlier connection: neither a reply the run loop was still working on nor
\* contacts of a list that was not finished.
FreshAfterStart ==
  app \notin {"closed", "starting"} => \A i \in DOMAIN to_app : to_app[i].conn \in {0, connections}

\* A list of contacts ends after all of them, and is never refused because the
\* last connection left one unfinished.
ListComplete ==
  app = "listing" /\ to_app # <<>> =>
    /\ Head(to_app).code # "ERR"
    /\ Head(to_app).code = "END_OF_CONTACTS" => listed = [i \in 1..NumContacts |-> i]

\* No tickle is missed: a contact message that is kept once the connection is
\* accepted is read, unless the app closes it. (A command of the last connection
\* that is served while the next one waits still takes a message with it.) If a
\* message is queued when there were just said to be no more, its tickle comes
\* after that and finds the app idle.
EventuallyRead ==
  \A i \in 1..MaxMessages :
    Reachable /\ (\E m \in RangeOf(offline_queue) : m.id = i /\ ~isChannelMsg(m))
      ~> ~open \/ \E m \in RangeOf(got) : m.id = i
=============================================================================
