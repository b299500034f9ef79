------------------------ MODULE CompanionSessionProofs ------------------------
(***************************************************************************)
(* What a companion's app can rely on within one connection and across     *)
(* them: replies are its own once it was told CMD_APP_START is done, lists *)
(* of contacts are complete, and no message is lost but the one that a     *)
(* closing connection was being handed. For every number of connections,   *)
(* messages and contacts and every size of the queue.                      *)
(***************************************************************************)
EXTENDS CompanionProofs, FiniteSetTheorems

-----------------------------------------------------------------------------
(***************************************************************************)
(* The inductive invariants.                                               *)
(***************************************************************************)

\* Where the server thread and the app are with the connection.
SessionInv ==
  /\ open <=> app # "closed"
  /\ ~open => to_app = <<>>
  /\ open /\ client # connections => app = "starting" /\ to_app = <<>>
  /\ server \notin {"accepted", "serving"} => ~Reachable
  /\ server # "serving" => output = <<>>

UpTo(s, conn) == \A i \in DOMAIN s : s[i].conn <= conn

\* Commands and frames carry the number of a connection that was accepted.
ConnInv ==
  /\ \A k \in Connections : \A i \in DOMAIN to_node[k] : to_node[k][i].conn = k
  /\ \A k \in Connections : k > connections => to_node[k] = <<>>
  /\ \A i \in DOMAIN input_queue : input_queue[i].conn = client
  /\ cmd_frame.conn <= client /\ asked_by <= client
  /\ UpTo(output_queue, client) /\ UpTo(output, client) /\ UpTo(to_app, client)

\* The frames of s are of connection c, or of none; those behind SELF_INFO are.
Fresh(s, c) == \A i \in DOMAIN s : s[i].conn \in {0, c}
FreshAfter(s, c) ==
  \A i, j \in DOMAIN s : i < j /\ s[i].code = "SELF_INFO" => s[j].conn \in {0, c}

Told(s) == \E i \in DOMAIN s : s[i].code = "SELF_INFO"

\* CMD_APP_START was done, as the app knows; as it knows or what is on the wire
\* tells it; and so on up to the run loop.
ToldApp == app # "starting"
ToldWire == ToldApp \/ Told(to_app)
ToldThread == ToldWire \/ Told(output)
ToldQueue == ToldThread \/ Told(output_queue)

LoopFresh ==
  /\ cmd_frame.conn \in {0, connections}
  /\ iterator # Stopped => asked_by = connections

\* From there on nothing is left of an earlier connection.
FreshInv ==
  Reachable =>
    /\ FreshAfter(to_app, connections)
    /\ FreshAfter(output, connections)
    /\ FreshAfter(output_queue, connections)
    /\ ToldApp => Fresh(to_app, connections)
    /\ ToldWire => Fresh(output, connections)
    /\ ToldThread => Fresh(output_queue, connections)
    /\ ToldQueue => LoopFresh

IsList(f) == f.code \in {"CONTACTS_START", "CONTACT", "END_OF_CONTACTS", "ERR"}
Rank(f) ==
  CASE f.code = "CONTACTS_START" -> 0
    [] f.code = "CONTACT" -> f.arg
    [] f.code = "END_OF_CONTACTS" -> NumContacts + 1
    [] OTHER -> -1

Ranks(s) == {Rank(s[i]) : i \in {k \in DOMAIN s : IsList(s[k])}}
RanksUp(s) == \A i, j \in DOMAIN s : i < j /\ IsList(s[i]) /\ IsList(s[j]) => Rank(s[i]) < Rank(s[j])

\* The frames of a list that are in s are those from lo up to, not with, hi.
Runs(s, lo, hi) == lo <= hi /\ Ranks(s) = lo..hi - 1 /\ RanksUp(s)

NoGet(s) == \A i \in DOMAIN s : s[i].cmd # "GET_CONTACTS"
GetLast(s) == s # <<>> /\ \A i \in DOMAIN s : s[i].cmd = "GET_CONTACTS" <=> i = Len(s)
NoListOf(s, c) == \A i \in DOMAIN s : IsList(s[i]) => s[i].conn # c

\* Until the app is told, nothing of its list was asked for.
StartingInv ==
  app = "starting" =>
    /\ NoGet(to_node[connections])
    /\ client = connections => NoGet(input_queue)
    /\ cmd_frame.conn = connections => cmd_frame.cmd # "GET_CONTACTS"
    /\ iterator # Stopped => asked_by # connections
    /\ NoListOf(to_app, connections) /\ NoListOf(output, connections)
    /\ NoListOf(output_queue, connections)

GetPending ==
  \/ GetLast(to_node[connections]) /\ NoGet(input_queue) /\ cmd_frame.cmd # "GET_CONTACTS"
  \/ to_node[connections] = <<>> /\ GetLast(input_queue) /\ cmd_frame.cmd # "GET_CONTACTS"
  \/ to_node[connections] = <<>> /\ input_queue = <<>> /\ cmd_frame.cmd = "GET_CONTACTS"

NothingPending ==
  to_node[connections] = <<>> /\ input_queue = <<>> /\ cmd_frame \in {None, NoFrame}

\* The next frame of the list to be written is hi.
Writing(hi) ==
  \/ hi = 0 /\ iterator = Stopped /\ GetPending
  \/ hi \in 1..NumContacts + 1 /\ iterator = hi - 1 /\ NothingPending
  \/ hi = NumContacts + 2 /\ iterator = Stopped /\ NothingPending

\* While the app waits for the list, what it was given and what is under way are
\* the list from its start to where the run loop is.
ListingInv ==
  app = "listing" =>
    \E lo, a, b, hi \in 0..NumContacts + 2 :
      /\ Runs(to_app, lo, a) /\ Runs(output, a, b) /\ Runs(output_queue, b, hi)
      /\ lo > 0 => listed = [i \in 1..lo - 1 |-> i]
      /\ Writing(hi)

-----------------------------------------------------------------------------
IsAsk(c) == c.cmd = "SYNC_NEXT_MESSAGE"
IsAnswer(f) == f.code \in {"MSG", "NO_MORE_MESSAGES"}
Asking(s) == {s[i].conn : i \in {k \in DOMAIN s : IsAsk(s[k])}}
Answering(s) == {s[i].conn : i \in {k \in DOMAIN s : IsAnswer(s[k])}}
AskedOnce(s) == \A i, j \in DOMAIN s : IsAsk(s[i]) /\ IsAsk(s[j]) /\ s[i].conn = s[j].conn => i = j
AnsweredOnce(s) ==
  \A i, j \in DOMAIN s : IsAnswer(s[i]) /\ IsAnswer(s[j]) /\ s[i].conn = s[j].conn => i = j

AskingNode == {k \in Connections : Asking(to_node[k]) # {}}
AskOf(c) == IF IsAsk(c) THEN {c.conn} ELSE {}
AnswerOf(f) == IF IsAnswer(f) THEN {f.conn} ELSE {}
AskingCmd == AskOf(cmd_frame)

Apart(N, I, C, Q, O, T) ==
  /\ N \intersect (I \union C \union Q \union O \union T) = {}
  /\ I \intersect (C \union Q \union O \union T) = {}
  /\ C \intersect (Q \union O \union T) = {}
  /\ Q \intersect (O \union T) = {}
  /\ O \intersect T = {}

Outstanding ==
  AskingNode \union Asking(input_queue) \union AskingCmd
    \union Answering(output_queue) \union Answering(output) \union Answering(to_app)

TokenInv ==
  /\ \A k \in Connections : AskedOnce(to_node[k])
  /\ AskedOnce(input_queue)
  /\ AnsweredOnce(output_queue) /\ AnsweredOnce(output) /\ AnsweredOnce(to_app)
  /\ Apart(AskingNode, Asking(input_queue), AskingCmd,
           Answering(output_queue), Answering(output), Answering(to_app))
  /\ app \in {"starting", "listing", "idle"} => connections \notin Outstanding

Missing ==
  {m \in RangeOf(arrived) : ~isChannelMsg(m)}
    \ (RangeOf(offline_queue) \union InTransit \union RangeOf(got))

Closed == 1..(IF open THEN connections - 1 ELSE connections)

LossInv == Cardinality(Missing) <= Cardinality(Closed \ Outstanding) + refused

-----------------------------------------------------------------------------
(***************************************************************************)
(* Where the thread and the app are.                                       *)
(***************************************************************************)

\* The run loop and arrivals leave the wires, the thread and the app alone.
LEMMA LoopKeeps ==
  ASSUME loop \/ queueMessage
  PROVE  UNCHANGED <<connections, open, to_node, to_app, server, client, connected, output,
                     app, listed, got>>
<1>1. CASE loop
  BY <1>1, Zenon DEF loop, writeTickle, checkRecvFrame, handleCmdFrame, listContacts, wires, thread,
     client_app
<1>2. CASE queueMessage
  BY <1>2, Zenon DEF queueMessage, serialVars, wires, thread, client_app
<1> QED BY <1>1, <1>2

\* The app moves on from "starting" when it is told, and asks one thing at a time.
LEMMA ReadMoves ==
  ASSUME readFrame
  PROVE  LET f == Head(to_app) IN
         \/ /\ app = "starting" /\ f.code = "SELF_INFO" /\ app' = "listing"
            /\ Ask("GET_CONTACTS", connections)
         \/ /\ app = "starting" /\ f.code = "SELF_INFO" /\ app' = "syncing"
            /\ Ask("SYNC_NEXT_MESSAGE", connections)
         \/ /\ app = "listing" /\ f.code \in {"END_OF_CONTACTS", "ERR"} /\ app' = "syncing"
            /\ Ask("SYNC_NEXT_MESSAGE", connections)
         \/ /\ app = "syncing" /\ f.code = "MSG" /\ app' = "syncing"
            /\ Ask("SYNC_NEXT_MESSAGE", connections)
         \/ /\ app = "syncing" /\ f.code = "NO_MORE_MESSAGES" /\ app' = "idle" /\ UNCHANGED to_node
         \/ /\ app = "idle" /\ f.code = "MSG_WAITING" /\ app' = "syncing"
            /\ Ask("SYNC_NEXT_MESSAGE", connections)
         \/ /\ UNCHANGED <<app, to_node>>
            /\ app = "starting" => f.code # "SELF_INFO"
            /\ app = "listing" => f.code \notin {"END_OF_CONTACTS", "ERR"}
            /\ app = "syncing" => f.code \notin {"MSG", "NO_MORE_MESSAGES"}
<1> DEFINE f == Head(to_app)
<1>1. (CASE app = "starting" /\ f.code = "SELF_INFO" ->
              \/ Ask("GET_CONTACTS", connections) /\ app' = "listing"
              \/ Ask("SYNC_NEXT_MESSAGE", connections) /\ app' = "syncing"
        [] app = "listing" /\ f.code \in {"END_OF_CONTACTS", "ERR"} ->
              Ask("SYNC_NEXT_MESSAGE", connections) /\ app' = "syncing"
        [] app = "syncing" /\ f.code = "MSG" ->
              Ask("SYNC_NEXT_MESSAGE", connections) /\ app' = "syncing"
        [] app = "syncing" /\ f.code = "NO_MORE_MESSAGES" -> app' = "idle" /\ UNCHANGED to_node
        [] app = "idle" /\ f.code = "MSG_WAITING" ->
              Ask("SYNC_NEXT_MESSAGE", connections) /\ app' = "syncing"
        [] OTHER -> UNCHANGED <<app, to_node>>)
  BY DEF readFrame
<1> HIDE DEF f
<1>2. ASSUME app = "starting" /\ f.code = "SELF_INFO"
      PROVE  \/ Ask("GET_CONTACTS", connections) /\ app' = "listing"
             \/ Ask("SYNC_NEXT_MESSAGE", connections) /\ app' = "syncing"
  BY <1>1, <1>2
<1>3. ASSUME app = "listing" /\ f.code \in {"END_OF_CONTACTS", "ERR"}
      PROVE  Ask("SYNC_NEXT_MESSAGE", connections) /\ app' = "syncing"
  BY <1>1, <1>3
<1>4. ASSUME app = "syncing" /\ f.code = "MSG"
      PROVE  Ask("SYNC_NEXT_MESSAGE", connections) /\ app' = "syncing"
  BY <1>1, <1>4
<1>5. ASSUME app = "syncing" /\ f.code = "NO_MORE_MESSAGES"
      PROVE  app' = "idle" /\ UNCHANGED to_node
  BY <1>1, <1>5
<1>6. ASSUME app = "idle" /\ f.code = "MSG_WAITING"
      PROVE  Ask("SYNC_NEXT_MESSAGE", connections) /\ app' = "syncing"
  BY <1>1, <1>6
<1>7. ASSUME ~(app = "starting" /\ f.code = "SELF_INFO"),
             ~(app = "listing" /\ f.code \in {"END_OF_CONTACTS", "ERR"}),
             ~(app = "syncing" /\ f.code = "MSG"),
             ~(app = "syncing" /\ f.code = "NO_MORE_MESSAGES"),
             ~(app = "idle" /\ f.code = "MSG_WAITING")
      PROVE  UNCHANGED <<app, to_node>>
  BY <1>1, <1>7
<1> QED BY <1>2, <1>3, <1>4, <1>5, <1>6, <1>7, Zenon DEF f

\* An app reads on a connection that was accepted and is open.
LEMMA ReadReachable ==
  ASSUME SessionInv, readFrame
  PROVE  open /\ client = connections /\ app # "closed" /\ to_app # <<>>
  BY ReadEffect, Zenon DEF SessionInv

LEMMA SessionStep ==
  ASSUME TypeInv, SessionInv, [Next]_vars
  PROVE  SessionInv'
<1>0. /\ client \in Nat /\ connections \in Nat /\ client <= connections
  BY Constants, SMT DEF TypeInv, WiresType, ThreadType
<1>1. CASE ServerStep
  <2>0. UNCHANGED <<connections, open, app>>
    BY <1>1 DEF ServerStep, client_app, runServer, Accept, StartServing, TakeOutput, SendFrame,
           ReceiveFrame, ReceiveEnd, StopServing, CloseClient, wires
  <2>1. CASE Accept
    <3>1. client' = client + 1 /\ client < connections /\ server' = "accepted"
          /\ server = "accepting" /\ UNCHANGED <<to_app, output>>
      BY <2>1 DEF Accept, wires
    <3> QED BY <1>0, <2>0, <3>1, SMT DEF SessionInv, Reachable
  <2>2. CASE SendFrame
    <3>1. /\ server = "serving" /\ UNCHANGED client
          /\ \/ Reachable /\ UNCHANGED server
             \/ ~Reachable /\ UNCHANGED <<server, to_app>>
             \/ ~Reachable /\ server' = "leaving" /\ output' = <<>> /\ UNCHANGED to_app
      BY <2>2, Zenon DEF SendFrame
    <3> QED BY <2>0, <3>1, Zenon DEF SessionInv, Reachable
  <2>3. CASE StartServing \/ TakeOutput \/ ReceiveFrame \/ ReceiveEnd \/ StopServing \/ CloseClient
    <3>1. UNCHANGED <<to_app, client>>
      BY <2>3, Zenon DEF StartServing, TakeOutput, ReceiveFrame, ReceiveEnd, StopServing,
         CloseClient, wires, thread
    <3>2. \/ server \in {"accepted", "serving"} /\ server' = "serving"
          \/ server = "serving" /\ server' = "leaving" /\ ~Reachable /\ output' = <<>>
          \/ server \in {"leaving", "left"} /\ server' \in {"left", "accepting"} /\ UNCHANGED output
      BY <2>3, Zenon DEF StartServing, TakeOutput, ReceiveFrame, ReceiveEnd, StopServing,
         CloseClient, thread
    <3> QED BY <2>0, <3>1, <3>2, Zenon DEF SessionInv, Reachable
  <2> QED BY <1>1, <2>1, <2>2, <2>3 DEF ServerStep, runServer
<1>2. CASE loop \/ queueMessage
  BY <1>2, LoopKeeps DEF SessionInv, Reachable
<1>3. CASE connect
  <2>1. /\ app = "closed" /\ connections' = connections + 1 /\ open' = TRUE /\ app' = "starting"
        /\ UNCHANGED <<to_app, server, client, output>>
    BY <1>3 DEF connect, thread
  <2> QED BY <1>0, <2>1, SMT DEF SessionInv, Reachable
<1>4. CASE disconnect
  <2>1. open' = FALSE /\ to_app' = <<>> /\ app' = "closed" /\ UNCHANGED <<server, output>>
    BY <1>4 DEF disconnect, thread
  <2> QED BY <2>1, Zenon DEF SessionInv, Reachable
<1>5. CASE readFrame
  <2>1. /\ app' \in {"listing", "syncing", "idle", app}
        /\ UNCHANGED <<connections, open, server, client, output>>
    BY <1>5, ReadEffect DEF thread
  <2> QED BY <1>5, <2>1, ReadReachable, Zenon DEF SessionInv, Reachable
<1>6. CASE UNCHANGED vars
  <2>1. UNCHANGED <<connections, open, to_app, server, client, output, app>>
    BY <1>6 DEF vars, serialVars, wires, thread, client_app
  <2> QED BY <2>1, Zenon DEF SessionInv, Reachable
<1> QED BY <1>1, <1>2, <1>3, <1>4, <1>5, <1>6 DEF Next

-----------------------------------------------------------------------------
(***************************************************************************)
(* What a step of the run loop does to its queues, case by case.           *)
(***************************************************************************)

Tickle ==
  /\ writeFrame(Frame("MSG_WAITING", 0))
  /\ UNCHANGED <<cmd_frame, input_queue, offline_queue, iterator, asked_by>>

TakeCommand ==
  /\ cmd_frame = None /\ input_queue # <<>>
  /\ cmd_frame' = Head(input_queue) /\ input_queue' = Tail(input_queue)
  /\ UNCHANGED <<output_queue, offline_queue, iterator, asked_by>>

LookAtList ==
  /\ cmd_frame \in {None, NoFrame} /\ cmd_frame' \in {None, NoFrame} /\ iterator # Stopped
  /\ cmd_frame = None => input_queue = <<>>
  /\ UNCHANGED <<input_queue, output_queue, offline_queue, iterator, asked_by>>

\* The command of connection c is done.
Handles(cmd, c) ==
  cmd_frame.cmd = cmd /\ cmd_frame.conn = c /\ cmd_frame' = None /\ UNCHANGED input_queue

TellStarted(c) ==
  /\ Handles("APP_START", c) /\ writeFrame(Frame("SELF_INFO", c)) /\ iterator' = Stopped
  /\ UNCHANGED <<offline_queue, asked_by>>
RefuseList(c) ==
  /\ Handles("GET_CONTACTS", c) /\ writeFrame(Frame("ERR", c)) /\ iterator # Stopped
  /\ UNCHANGED <<offline_queue, iterator, asked_by>>
StartList(c) ==
  /\ Handles("GET_CONTACTS", c) /\ writeFrame(Frame("CONTACTS_START", c)) /\ iterator = Stopped
  /\ iterator' = 0 /\ asked_by' = c
  /\ UNCHANGED offline_queue
GiveMessage(c) ==
  /\ Handles("SYNC_NEXT_MESSAGE", c) /\ offline_queue # <<>>
  /\ writeFrame(FrameOf("MSG", c, Head(offline_queue))) /\ offline_queue' = Tail(offline_queue)
  /\ UNCHANGED <<iterator, asked_by>>
GiveNone(c) ==
  /\ Handles("SYNC_NEXT_MESSAGE", c) /\ writeFrame(Frame("NO_MORE_MESSAGES", c))
  /\ UNCHANGED <<offline_queue, iterator, asked_by>>

ListOne ==
  /\ cmd_frame = NoFrame /\ cmd_frame' = None /\ iterator \in 0..NumContacts - 1
  /\ writeFrame(FrameOf("CONTACT", asked_by, iterator + 1)) /\ iterator' = iterator + 1
  /\ UNCHANGED <<input_queue, offline_queue, asked_by>>
ListEnd ==
  /\ cmd_frame = NoFrame /\ cmd_frame' = None /\ iterator = NumContacts
  /\ writeFrame(Frame("END_OF_CONTACTS", asked_by)) /\ iterator' = Stopped
  /\ UNCHANGED <<input_queue, offline_queue, asked_by>>

LEMMA LoopCases ==
  ASSUME TypeInv, loop
  PROVE  \/ Tickle \/ TakeCommand \/ LookAtList
         \/ \E c \in Connections : TellStarted(c) \/ RefuseList(c) \/ StartList(c)
                                     \/ GiveMessage(c) \/ GiveNone(c)
         \/ (ListOne \/ ListEnd) /\ asked_by \in Connections
<1>1. CASE writeTickle
  BY <1>1, Zenon DEF writeTickle, Tickle
<1>2. CASE checkRecvFrame
  BY <1>2, Zenon DEF checkRecvFrame, loopIdle, TakeCommand, LookAtList
<1>3. CASE handleCmdFrame
  <2>1. cmd_frame' = None /\ UNCHANGED input_queue
    BY <1>3 DEF handleCmdFrame
  <2>2. cmd_frame.cmd \in {"APP_START", "GET_CONTACTS", "SYNC_NEXT_MESSAGE"} /\ cmd_frame.conn \in Connections
    BY <1>3, CommandTypes, Zenon DEF handleCmdFrame, TypeInv, ListType
  <2>3. CASE cmd_frame.cmd = "APP_START"
    <3>1. handleAppStart(cmd_frame.conn)
      BY <1>3, <2>3 DEF handleCmdFrame
    <3> QED BY <2>1, <2>2, <2>3, <3>1, Zenon DEF handleAppStart, iteratorAfterStart, TellStarted, Handles
  <2>4. CASE cmd_frame.cmd = "GET_CONTACTS"
    <3>1. handleGetContacts(cmd_frame.conn)
      BY <1>3, <2>4 DEF handleCmdFrame
    <3> QED BY <2>1, <2>2, <2>4, <3>1, Zenon DEF handleGetContacts, RefuseList, StartList, Handles
  <2>5. CASE cmd_frame.cmd = "SYNC_NEXT_MESSAGE"
    <3>1. handleSyncNextMessage(cmd_frame.conn)
      BY <1>3, <2>5 DEF handleCmdFrame
    <3>2. hasMessage(offline_queue) => offline_queue # <<>>
      BY SMT DEF hasMessage, TypeInv, MessagesType
    <3> QED BY <2>1, <2>2, <2>5, <3>1, <3>2, Zenon DEF handleSyncNextMessage, GiveMessage, GiveNone, Handles
  <2> QED BY <2>2, <2>3, <2>4, <2>5
<1>4. CASE listContacts
  <2>1. /\ cmd_frame = NoFrame /\ cmd_frame' = None /\ iterator # Stopped
        /\ UNCHANGED <<input_queue, offline_queue, asked_by>>
    BY <1>4, Zenon DEF listContacts, TypeInv, ListType
  <2>2. asked_by \in Connections /\ (iterator < NumContacts => iterator \in 0..NumContacts - 1)
    BY <2>1, Constants, SMT DEF TypeInv, ListType, Connections, Stopped
  <2>3. CASE UNCHANGED <<output_queue, iterator>>
    BY <2>1, <2>3, NoneIsNoFrame, Zenon DEF LookAtList
  <2>4. CASE /\ iterator < NumContacts /\ writeFrame(FrameOf("CONTACT", asked_by, iterator + 1))
             /\ iterator' = iterator + 1
    BY <2>1, <2>2, <2>4, Zenon DEF ListOne
  <2>5. CASE /\ iterator = NumContacts /\ writeFrame(Frame("END_OF_CONTACTS", asked_by))
             /\ iterator' = Stopped
    BY <2>1, <2>2, <2>5, Zenon DEF ListEnd
  <2> QED BY <1>4, <2>3, <2>4, <2>5, Zenon DEF listContacts
<1> QED BY <1>1, <1>2, <1>3, <1>4 DEF loop

\* Arrivals touch neither queue of the interface nor the list.
LEMMA ArrivalKeeps ==
  ASSUME queueMessage
  PROVE  UNCHANGED <<input_queue, output_queue, iterator, asked_by, cmd_frame>>
BY Zenon DEF queueMessage, serialVars, queues

\* The app touches nothing of the firmware.
LEMMA AppKeeps ==
  ASSUME connect \/ disconnect \/ readFrame
  PROVE  UNCHANGED <<input_queue, output_queue, server, client, connected, output, offline_queue,
                     iterator, asked_by, cmd_frame, tickling, arrived, refused>>
<1>1. UNCHANGED <<queues, thread, firmware>>
  BY ReadEffect DEF connect, disconnect
<1> QED BY <1>1 DEF queues, thread, firmware

\* What a step of the thread leaves alone.
LEMMA ServerKeeps ==
  ASSUME ServerStep
  PROVE  UNCHANGED <<connections, open, offline_queue, iterator, asked_by, cmd_frame, tickling,
                     arrived, refused, app, listed, got>>
BY DEF ServerStep, client_app, firmware, runServer, Accept, StartServing, TakeOutput, SendFrame,
       ReceiveFrame, ReceiveEnd, StopServing, CloseClient, wires

LEMMA StutterKeeps ==
  ASSUME UNCHANGED vars
  PROVE  UNCHANGED <<connections, open, to_node, to_app, server, client, connected, output,
                     input_queue, output_queue, offline_queue, iterator, asked_by, cmd_frame,
                     tickling, arrived, refused, app, listed, got>>
BY DEF vars, serialVars, wires, thread, queues, firmware, client_app

\* The steps of the thread, each with what it changes of the wires and queues.
Quiet == UNCHANGED <<to_node, to_app, output, input_queue, output_queue>>
Accepting == server = "accepting" /\ client < connections /\ client' = client + 1 /\ server' = "accepted"
Clearing ==
  input_queue' = <<>> /\ output_queue' = <<>> /\ UNCHANGED <<to_node, to_app, output>>
Taking ==
  /\ server = "serving" /\ output = <<>> /\ output' = output_queue /\ output_queue' = <<>>
  /\ UNCHANGED <<to_node, to_app, input_queue, client>>
Sending ==
  /\ Reachable /\ output # <<>> /\ to_app' = Append(to_app, Head(output)) /\ output' = Tail(output)
  /\ UNCHANGED <<to_node, input_queue, output_queue, client>>
Dropping ==
  /\ ~Reachable /\ output # <<>> /\ output' \in {Tail(output), <<>>}
  /\ UNCHANGED <<to_node, to_app, input_queue, output_queue, client>>
Receiving ==
  /\ client \in Connections /\ to_node[client] # <<>>
  /\ input_queue' = Append(input_queue, Head(to_node[client]))
  /\ to_node' = [to_node EXCEPT ![client] = Tail(@)]
  /\ UNCHANGED <<to_app, output, output_queue, client>>

LEMMA ServerCases ==
  ASSUME TypeInv, SessionInv, ServerStep
  PROVE  \/ Quiet /\ UNCHANGED client
         \/ Accepting /\ Clearing
         \/ ~Reachable /\ Clearing /\ UNCHANGED client
         \/ Taking \/ Sending \/ Dropping \/ Receiving
<1>1. CASE Accept
  BY <1>1 DEF Accept, Accepting, Clearing, clearQueues, wires
<1>2. CASE CloseClient
  <2>1. ~Reachable
    BY <1>2, Zenon DEF CloseClient, SessionInv
  <2> QED BY <1>2, <2>1 DEF CloseClient, Clearing, clearQueues, wires
<1>3. CASE TakeOutput
  BY <1>3 DEF TakeOutput, Taking, wires
<1>4. CASE SendFrame
  <2>1. UNCHANGED <<to_node, input_queue, output_queue, client>> /\ output # <<>>
    BY <1>4 DEF SendFrame, queues
  <2>2. \/ Reachable /\ to_app' = Append(to_app, Head(output)) /\ output' = Tail(output)
        \/ ~Reachable /\ output' \in {Tail(output), <<>>} /\ UNCHANGED to_app
    BY <1>4, Zenon DEF SendFrame
  <2> QED BY <2>1, <2>2, Zenon DEF Sending, Dropping
<1>5. CASE ReceiveFrame
  <2>1. client \in Connections
    BY <1>5, Constants, SMT DEF ReceiveFrame, TypeInv, ThreadType, WiresType, Connections
  <2> QED BY <1>5, <2>1 DEF ReceiveFrame, Receiving, thread
<1>6. CASE StartServing \/ ReceiveEnd \/ StopServing
  BY <1>6 DEF StartServing, ReceiveEnd, StopServing, Quiet, wires, queues
<1> QED BY <1>1, <1>2, <1>3, <1>4, <1>5, <1>6 DEF ServerStep, runServer

-----------------------------------------------------------------------------
(***************************************************************************)
(* The numbers of the connections.                                         *)
(***************************************************************************)

LEMMA ConnTypes ==
  /\ client \in 0..connections /\ connections \in 0..MaxConnections => client \in Nat /\ connections \in Nat
  /\ \A f \in Frames : f.conn \in Nat
  /\ \A c \in Commands \union {None, NoFrame} : c.conn \in Nat
  /\ Frame("MSG_WAITING", 0).conn = 0
  /\ \A code, conn, arg : Frame(code, conn).conn = conn /\ FrameOf(code, conn, arg).conn = conn
  /\ \A code, conn, arg : Frame(code, conn).code = code /\ FrameOf(code, conn, arg).code = code
  /\ \A code, conn, arg : FrameOf(code, conn, arg).arg = arg
  /\ None.conn = 0 /\ NoFrame.conn = 0 /\ None.cmd = "NONE" /\ NoFrame.cmd = "NO_FRAME"
<1> USE Constants
<1>1. \A f \in Frames : f.conn \in Nat
  BY SMT DEF Frames, Connections
<1>2. \A c \in Commands \union {None, NoFrame} : c.conn \in Nat
  BY SMT DEF Commands, None, NoFrame, Connections
<1>3. client \in 0..connections /\ connections \in 0..MaxConnections => client \in Nat /\ connections \in Nat
  BY SMT
<1> QED BY <1>1, <1>2, <1>3 DEF Frame, FrameOf, None, NoFrame

LEMMA UpToMoves ==
  ASSUME NEW s \in Seq(Frames), NEW c \in Nat, UpTo(s, c)
  PROVE  /\ UpTo(s, c + 1)
         /\ \A f \in Frames : f.conn <= c => UpTo(Append(s, f), c)
         /\ s # <<>> => UpTo(Tail(s), c) /\ Head(s) \in Frames /\ Head(s).conn <= c
         /\ UpTo(<<>>, c)
<1>1. \A i \in DOMAIN s : s[i] \in Frames /\ s[i].conn \in Nat
  BY ConnTypes, SMT
<1>2. UpTo(s, c + 1)
  BY <1>1, SMT DEF UpTo
<1>3. ASSUME NEW f \in Frames, f.conn <= c PROVE UpTo(Append(s, f), c)
  BY <1>3, AppendItem, SMT DEF UpTo
<1>4. ASSUME s # <<>> PROVE UpTo(Tail(s), c) /\ Head(s) \in Frames /\ Head(s).conn <= c
  BY <1>4, TakeItem, SMT DEF UpTo
<1>5. UpTo(<<>>, c)
  BY SMT DEF UpTo
<1> QED BY <1>2, <1>3, <1>4, <1>5

OfConn(s, c) == \A i \in DOMAIN s : s[i].conn = c

LEMMA OfConnMoves ==
  ASSUME NEW s \in Seq(Commands), NEW c, OfConn(s, c)
  PROVE  /\ \A d \in Commands : d.conn = c => OfConn(Append(s, d), c)
         /\ s # <<>> => OfConn(Tail(s), c) /\ Head(s) \in Commands /\ Head(s).conn = c
         /\ OfConn(<<>>, c)
<1>1. ASSUME NEW d \in Commands, d.conn = c PROVE OfConn(Append(s, d), c)
  BY <1>1, AppendItem, SMT DEF OfConn
<1>2. ASSUME s # <<>> PROVE OfConn(Tail(s), c) /\ Head(s) \in Commands /\ Head(s).conn = c
  BY <1>2, TakeItem, SMT DEF OfConn
<1>3. OfConn(<<>>, c)
  BY SMT DEF OfConn
<1> QED BY <1>1, <1>2, <1>3

\* ConnInv, in the terms of the two lemmas.
LEMMA ConnParts ==
  ConnInv <=> /\ \A k \in Connections : OfConn(to_node[k], k)
              /\ \A k \in Connections : k > connections => to_node[k] = <<>>
              /\ OfConn(input_queue, client)
              /\ cmd_frame.conn <= client /\ asked_by <= client
              /\ UpTo(output_queue, client) /\ UpTo(output, client) /\ UpTo(to_app, client)
  BY DEF ConnInv, OfConn

LEMMA Sequences ==
  ASSUME TypeInv
  PROVE  /\ to_app \in Seq(Frames) /\ output \in Seq(Frames) /\ output_queue \in Seq(Frames)
         /\ input_queue \in Seq(Commands) /\ to_node \in [Connections -> Seq(Commands)]
         /\ offline_queue \in Seq(Messages) /\ arrived \in Seq(Messages) /\ got \in Seq(Messages)
         /\ connections \in Nat /\ client \in Nat /\ client <= connections
         /\ cmd_frame \in Commands \union {None, NoFrame} /\ cmd_frame.conn \in Nat
         /\ asked_by \in Nat /\ connections <= MaxConnections
<1>1. /\ connections \in Nat /\ client \in Nat /\ client <= connections
      /\ asked_by \in Nat /\ connections <= MaxConnections
  BY Constants, SMT DEF TypeInv, WiresType, ThreadType, ListType
<1> QED BY <1>1, ConnTypes DEF TypeInv, WiresType, ThreadType, QueuesType, MessagesType, ListType, AppType

\* A new connection is one of those that may be made.
LEMMA NextConnection == ASSUME TypeInv, connect PROVE connections + 1 \in Connections
<1>1. connections \in Nat /\ connections < MaxConnections /\ MaxConnections \in Nat
  BY Sequences, Constants DEF connect
<1> QED BY <1>1, SMT DEF Connections

\* What the app asks is asked on the last connection.
LEMMA AskAppends ==
  ASSUME TypeInv, NEW k \in Connections, NEW cmd \in {"APP_START", "GET_CONTACTS", "SYNC_NEXT_MESSAGE"},
         Ask(cmd, k)
  PROVE  /\ [cmd |-> cmd, conn |-> k] \in Commands
         /\ to_node'[k] = Append(to_node[k], [cmd |-> cmd, conn |-> k])
         /\ \A j \in Connections : j # k => to_node'[j] = to_node[j]
         /\ to_node' \in [Connections -> Seq(Commands)]
<1>1. [cmd |-> cmd, conn |-> k] \in Commands
  BY CommandTypes
<1>2. to_node \in [Connections -> Seq(Commands)]
  BY Sequences
<1>3. Append(to_node[k], [cmd |-> cmd, conn |-> k]) \in Seq(Commands)
  BY <1>1, <1>2, AppendItem
<1> QED BY <1>1, <1>2, <1>3 DEF Ask

\* The frame a step of the run loop writes is a frame of an accepted connection.
LEMMA LoopWrites ==
  ASSUME TypeInv, ConnInv, loop
  PROVE  \/ UNCHANGED output_queue
         \/ \E f \in Frames : output_queue' = Append(output_queue, f) /\ f.conn <= client
<1> USE ConnTypes, FrameTypes
<1>1. 0 <= client
  BY Sequences
<1>2. CASE Tickle
  BY <1>1, <1>2 DEF Tickle, writeFrame
<1>3. CASE TakeCommand \/ LookAtList
  BY <1>3 DEF TakeCommand, LookAtList
<1>4. ASSUME NEW c \in Connections,
             TellStarted(c) \/ RefuseList(c) \/ StartList(c) \/ GiveMessage(c) \/ GiveNone(c)
      PROVE  \E f \in Frames : output_queue' = Append(output_queue, f) /\ f.conn <= client
  <2>1. c <= client
    BY <1>4 DEF TellStarted, RefuseList, StartList, GiveMessage, GiveNone, Handles, ConnInv
  <2>2. CASE GiveMessage(c)
    <3>1. Head(offline_queue) \in Messages
      BY <2>2, Sequences, TakeItem DEF GiveMessage
    <3> QED BY <2>1, <2>2, <3>1 DEF GiveMessage, writeFrame
  <2>3. CASE TellStarted(c) \/ RefuseList(c) \/ StartList(c) \/ GiveNone(c)
    BY <2>1, <2>3 DEF TellStarted, RefuseList, StartList, GiveNone, writeFrame
  <2> QED BY <1>4, <2>2, <2>3
<1>5. CASE (ListOne \/ ListEnd) /\ asked_by \in Connections
  <2>1. asked_by <= client
    BY DEF ConnInv
  <2>2. CASE ListOne
    <3>1. iterator + 1 \in 1..NumContacts
      BY <2>2, Constants, SMT DEF ListOne
    <3> QED BY <1>5, <2>1, <2>2, <3>1 DEF ListOne, writeFrame
  <2>3. CASE ListEnd
    BY <1>5, <2>1, <2>3 DEF ListEnd, writeFrame
  <2> QED BY <1>5, <2>2, <2>3
<1> QED BY <1>2, <1>3, <1>4, <1>5, LoopCases

LEMMA ConnStep ==
  ASSUME TypeInv, SessionInv, ConnInv, [Next]_vars
  PROVE  ConnInv'
<1>0. /\ \A k \in Connections : OfConn(to_node[k], k)
      /\ \A k \in Connections : k > connections => to_node[k] = <<>>
      /\ OfConn(input_queue, client)
      /\ cmd_frame.conn <= client /\ asked_by <= client
      /\ UpTo(output_queue, client) /\ UpTo(output, client) /\ UpTo(to_app, client)
  BY ConnParts
<1> USE DEF OfConn
<1>1. CASE ServerStep
  <2>0. UNCHANGED <<connections, open, iterator, asked_by, cmd_frame>>
    BY <1>1, ServerKeeps
  <2>1. CASE Quiet /\ UNCHANGED client
    BY <1>0, <2>0, <2>1 DEF Quiet, ConnInv, UpTo
  <2>2. CASE Clearing /\ (Accepting \/ UNCHANGED client)
    <3>1. client' \in {client, client + 1} /\ UNCHANGED <<to_node, to_app, output>>
          /\ input_queue' = <<>> /\ output_queue' = <<>>
      BY <2>2 DEF Accepting, Clearing
    <3>2. UpTo(output_queue', client') /\ UpTo(output', client') /\ UpTo(to_app', client')
      BY <1>0, <3>1, Sequences, UpToMoves, SMT
    <3>3. cmd_frame.conn <= client' /\ asked_by <= client'
      BY <1>0, <3>1, Sequences, SMT
    <3> QED BY <1>0, <2>0, <3>1, <3>2, <3>3 DEF ConnInv, UpTo
  <2>3. CASE Taking
    BY <1>0, <2>0, <2>3, Sequences, UpToMoves DEF Taking, ConnInv, UpTo
  <2>4. CASE Sending
    <3>1. UpTo(output', client) /\ UpTo(to_app', client)
      BY <1>0, <2>4, Sequences, UpToMoves DEF Sending
    <3> QED BY <1>0, <2>0, <2>4, <3>1 DEF Sending, ConnInv, UpTo
  <2>5. CASE Dropping
    <3>1. UpTo(output', client)
      BY <1>0, <2>5, Sequences, UpToMoves DEF Dropping
    <3> QED BY <1>0, <2>0, <2>5, <3>1 DEF Dropping, ConnInv, UpTo
  <2>6. CASE Receiving
    <3>1. /\ to_node[client] \in Seq(Commands) /\ to_node[client] # <<>>
          /\ \A k \in Connections \ {client} : to_node'[k] = to_node[k]
          /\ to_node'[client] = Tail(to_node[client])
          /\ input_queue' = Append(input_queue, Head(to_node[client]))
          /\ client \in Connections
      BY <2>6, Sequences DEF Receiving
    <3>2. /\ OfConn(Tail(to_node[client]), client)
          /\ Head(to_node[client]) \in Commands /\ Head(to_node[client]).conn = client
      BY <1>0, <3>1, OfConnMoves, Zenon
    <3>3. OfConn(input_queue', client)
      <4>1. input_queue \in Seq(Commands)
        BY Sequences
      <4> QED BY <1>0, <3>1, <3>2, <4>1, OfConnMoves
    <3>4. \A k \in Connections : OfConn(to_node'[k], k)
      BY <1>0, <3>1, <3>2, Zenon
    <3>5. ~(client > connections)
      BY Sequences, SMT
    <3>6. \A k \in Connections : k > connections => to_node'[k] = <<>>
      BY <1>0, <3>1, <3>5, Zenon
    <3> QED BY <1>0, <2>0, <2>6, <3>3, <3>4, <3>6 DEF Receiving, ConnInv, UpTo
  <2> QED BY <1>1, <2>1, <2>2, <2>3, <2>4, <2>5, <2>6, ServerCases
<1>2. CASE loop
  <2>1. UNCHANGED <<connections, to_node, to_app, client, output>>
    BY <1>2, LoopKeeps
  <2>2. UpTo(output_queue', client)
    BY <1>0, <1>2, LoopWrites, Sequences, UpToMoves
  <2>3. OfConn(input_queue', client) /\ cmd_frame'.conn <= client /\ asked_by' <= client
    <3>0. 0 <= client
      BY Sequences
    <3>1. CASE Tickle
      BY <1>0, <3>1 DEF Tickle
    <3>2. CASE TakeCommand
      <4>1. /\ OfConn(Tail(input_queue), client) /\ Head(input_queue).conn = client
            /\ Head(input_queue) \in Commands
        BY <1>0, <3>2, Sequences, OfConnMoves, Zenon DEF TakeCommand
      <4> QED BY <1>0, <3>2, <4>1, Sequences DEF TakeCommand
    <3>3. CASE LookAtList
      BY <1>0, <3>0, <3>3, ConnTypes DEF LookAtList
    <3>4. ASSUME NEW c \in Connections,
                 TellStarted(c) \/ RefuseList(c) \/ StartList(c) \/ GiveMessage(c) \/ GiveNone(c)
          PROVE  OfConn(input_queue', client) /\ cmd_frame'.conn <= client /\ asked_by' <= client
      BY <1>0, <3>0, <3>4, ConnTypes
         DEF TellStarted, RefuseList, StartList, GiveMessage, GiveNone, Handles
    <3>5. CASE ListOne \/ ListEnd
      BY <1>0, <3>0, <3>5, ConnTypes DEF ListOne, ListEnd
    <3> QED BY <1>2, <3>1, <3>2, <3>3, <3>4, <3>5, LoopCases
  <2> QED BY <1>0, <2>1, <2>2, <2>3 DEF ConnInv, UpTo
<1>3. CASE queueMessage
  <2>1. UNCHANGED <<connections, to_node, to_app, client, output>>
    BY <1>3, LoopKeeps
  <2>2. UNCHANGED <<input_queue, output_queue, asked_by, cmd_frame>>
    BY <1>3, ArrivalKeeps
  <2> QED BY <1>0, <2>1, <2>2 DEF ConnInv, UpTo
<1>4. CASE connect
  <2>1. connections + 1 \in Connections /\ connections' = connections + 1
    BY <1>4, NextConnection DEF connect
  <2>2. /\ \A j \in Connections : j # connections + 1 => to_node'[j] = to_node[j]
        /\ to_node'[connections + 1] = Append(to_node[connections + 1],
                                              [cmd |-> "APP_START", conn |-> connections + 1])
        /\ [cmd |-> "APP_START", conn |-> connections + 1] \in Commands
    BY <1>4, <2>1, AskAppends DEF connect
  <2>3. OfConn(to_node'[connections + 1], connections + 1)
    <3>1. to_node[connections + 1] \in Seq(Commands) /\ OfConn(to_node[connections + 1], connections + 1)
      BY <1>0, <2>1, Sequences
    <3> QED BY <2>2, <3>1, OfConnMoves
  <2>4. \A k \in Connections : OfConn(to_node'[k], k)
    BY <1>0, <2>2, <2>3, Zenon
  <2>5. \A k \in Connections : k > connections + 1 => k > connections /\ k # connections + 1
    BY Sequences, SMT DEF Connections
  <2>6. \A k \in Connections : k > connections + 1 => to_node'[k] = <<>>
    BY <1>0, <2>2, <2>5, Zenon
  <2>7. UNCHANGED <<to_app, client, input_queue, output_queue, output, cmd_frame, asked_by>>
    BY <1>4, AppKeeps DEF connect
  <2> QED BY <1>0, <2>1, <2>4, <2>6, <2>7 DEF ConnInv, UpTo
<1>5. CASE disconnect
  <2>1. to_app' = <<>> /\ UNCHANGED <<connections, to_node>>
    BY <1>5 DEF disconnect
  <2>2. UpTo(to_app', client)
    BY <1>0, <2>1, Sequences, UpToMoves
  <2>3. UNCHANGED <<client, input_queue, output_queue, output, cmd_frame, asked_by>>
    BY <1>5, AppKeeps
  <2> QED BY <1>0, <2>1, <2>2, <2>3 DEF ConnInv, UpTo
<1>6. CASE readFrame
  <2>0. /\ to_app # <<>> /\ to_app' = Tail(to_app) /\ UNCHANGED <<connections, open>>
        /\ client = connections
    BY <1>6, ReadEffect, ReadReachable
  <2>1. UpTo(to_app', client)
    BY <1>0, <2>0, Sequences, UpToMoves
  <2>2. UNCHANGED <<client, input_queue, output_queue, output, cmd_frame, asked_by>>
    BY <1>6, AppKeeps
  <2>3. connections \in Connections
    BY <1>6, Sequences, Constants, ReadReachable, SMT DEF TypeInv, AppType, Connections
  <2>4. CASE UNCHANGED to_node
    BY <1>0, <2>0, <2>1, <2>2, <2>4 DEF ConnInv, UpTo
  <2>5. ASSUME NEW cmd \in {"APP_START", "GET_CONTACTS", "SYNC_NEXT_MESSAGE"}, Ask(cmd, connections)
        PROVE  ConnInv'
    <3>1. /\ [cmd |-> cmd, conn |-> connections] \in Commands
          /\ to_node'[connections] = Append(to_node[connections], [cmd |-> cmd, conn |-> connections])
          /\ \A j \in Connections : j # connections => to_node'[j] = to_node[j]
      BY <2>3, <2>5, AskAppends
    <3>2. OfConn(to_node'[connections], connections)
      <4>1. to_node[connections] \in Seq(Commands) /\ OfConn(to_node[connections], connections)
        BY <1>0, <2>3, Sequences
      <4> QED BY <3>1, <4>1, OfConnMoves
    <3>3. \A k \in Connections : OfConn(to_node'[k], k)
      BY <1>0, <3>1, <3>2, Zenon
    <3>4. ~(connections > connections)
      BY Sequences, SMT
    <3>5. \A k \in Connections : k > connections => to_node'[k] = <<>>
      BY <1>0, <3>1, <3>4, Zenon
    <3> QED BY <1>0, <2>0, <2>1, <2>2, <3>3, <3>5 DEF ConnInv, UpTo
  <2> QED BY <1>6, <2>4, <2>5, ReadEffect
<1>7. CASE UNCHANGED vars
  BY <1>0, <1>7, StutterKeeps DEF ConnInv, UpTo
<1> QED BY <1>1, <1>2, <1>3, <1>4, <1>5, <1>6, <1>7 DEF Next

-----------------------------------------------------------------------------
(***************************************************************************)
(* Nothing of an earlier connection.                                       *)
(***************************************************************************)

LEMMA FreshMoves ==
  ASSUME NEW s \in Seq(Frames), NEW c
  PROVE  /\ \A f \in Frames :
              /\ Told(Append(s, f)) <=> Told(s) \/ f.code = "SELF_INFO"
              /\ Fresh(s, c) /\ f.conn \in {0, c} => Fresh(Append(s, f), c)
              /\ FreshAfter(s, c) /\ (Told(s) => f.conn \in {0, c}) => FreshAfter(Append(s, f), c)
         /\ s # <<>> =>
              /\ Told(s) <=> Told(Tail(s)) \/ Head(s).code = "SELF_INFO"
              /\ Fresh(s, c) => Fresh(Tail(s), c) /\ Head(s).conn \in {0, c}
              /\ FreshAfter(s, c) => FreshAfter(Tail(s), c)
              /\ FreshAfter(s, c) /\ Head(s).code = "SELF_INFO" => Fresh(Tail(s), c)
<1>1. ASSUME NEW f \in Frames
      PROVE  /\ Told(Append(s, f)) <=> Told(s) \/ f.code = "SELF_INFO"
             /\ Fresh(s, c) /\ f.conn \in {0, c} => Fresh(Append(s, f), c)
             /\ FreshAfter(s, c) /\ (Told(s) => f.conn \in {0, c}) => FreshAfter(Append(s, f), c)
  <2> DEFINE t == Append(s, f)  n == Len(s)
  <2>1. /\ DOMAIN t = 1..n + 1 /\ DOMAIN s = 1..n /\ n \in Nat
        /\ \A i \in 1..n : t[i] = s[i]
        /\ t[n + 1] = f
    BY AppendItem
  <2>2. /\ \A i \in 1..n + 1 : i \in 1..n \/ i = n + 1
        /\ \A i, j \in 1..n + 1 : i < j => i \in 1..n
        /\ \A i \in 1..n : i \in 1..n + 1
        /\ n + 1 \in 1..n + 1
    BY <2>1, SMT
  <2> HIDE DEF t, n
  <2>3. Told(t) <=> Told(s) \/ f.code = "SELF_INFO"
    BY <2>1, <2>2, Zenon DEF Told
  <2>4. Fresh(s, c) /\ f.conn \in {0, c} => Fresh(t, c)
    BY <2>1, <2>2, Zenon DEF Fresh
  <2>5. FreshAfter(s, c) /\ (Told(s) => f.conn \in {0, c}) => FreshAfter(t, c)
    BY <2>1, <2>2, Zenon DEF FreshAfter, Told
  <2> QED BY <2>3, <2>4, <2>5 DEF t
<1>2. ASSUME s # <<>>
      PROVE  /\ Told(s) <=> Told(Tail(s)) \/ Head(s).code = "SELF_INFO"
             /\ Fresh(s, c) => Fresh(Tail(s), c) /\ Head(s).conn \in {0, c}
             /\ FreshAfter(s, c) => FreshAfter(Tail(s), c)
             /\ FreshAfter(s, c) /\ Head(s).code = "SELF_INFO" => Fresh(Tail(s), c)
  <2> DEFINE t == Tail(s)  n == Len(s)
  <2>1. /\ DOMAIN t = 1..n - 1 /\ DOMAIN s = 1..n /\ n \in Nat \ {0}
        /\ \A i \in 1..n - 1 : t[i] = s[i + 1]
        /\ Head(s) = s[1]
    BY <1>2, TakeItem
  <2>2. /\ \A i \in 1..n - 1 : i + 1 \in 1..n /\ 1 < i + 1
        /\ \A i, j \in 1..n - 1 : i < j => i + 1 < j + 1
        /\ \A i \in 1..n : i = 1 \/ \E j \in 1..n - 1 : i = j + 1
        /\ 1 \in 1..n
    <3>1. ASSUME NEW i \in 1..n, i # 1 PROVE \E j \in 1..n - 1 : i = j + 1
      <4>1. i - 1 \in 1..n - 1 /\ i = (i - 1) + 1
        BY <2>1, <3>1, SMT
      <4> QED BY <4>1
    <3> QED BY <2>1, <3>1, SMT
  <2> HIDE DEF t, n
  <2>3. Told(s) <=> Told(t) \/ Head(s).code = "SELF_INFO"
    <3>1. ASSUME NEW i \in 1..n, s[i].code = "SELF_INFO"
          PROVE  Told(t) \/ Head(s).code = "SELF_INFO"
      <4>1. CASE i = 1
        BY <2>1, <3>1, <4>1
      <4>2. ASSUME NEW j \in 1..n - 1, i = j + 1 PROVE Told(t)
        <5>1. t[j] = s[i] /\ j \in DOMAIN t
          BY <2>1, <4>2
        <5> QED BY <3>1, <5>1 DEF Told
      <4> QED BY <2>2, <4>1, <4>2
    <3>2. ASSUME NEW j \in 1..n - 1, t[j].code = "SELF_INFO" PROVE Told(s)
      <4>1. j + 1 \in DOMAIN s /\ s[j + 1] = t[j]
        BY <2>1, <2>2
      <4> QED BY <3>2, <4>1 DEF Told
    <3>3. Head(s).code = "SELF_INFO" => Told(s)
      BY <2>1, <2>2 DEF Told
    <3> QED BY <2>1, <3>1, <3>2, <3>3, Zenon DEF Told
  <2>4. Fresh(s, c) => Fresh(t, c) /\ Head(s).conn \in {0, c}
    BY <2>1, <2>2, Zenon DEF Fresh
  <2>5. ASSUME FreshAfter(s, c), NEW i \in 1..n - 1, NEW j \in 1..n - 1, i < j, t[i].code = "SELF_INFO"
        PROVE  t[j].conn \in {0, c}
    <3>1. s[i + 1] = t[i] /\ s[j + 1] = t[j] /\ i + 1 \in DOMAIN s /\ j + 1 \in DOMAIN s /\ i + 1 < j + 1
      BY <2>1, <2>2, <2>5
    <3>2. s[j + 1].conn \in {0, c}
      BY <2>5, <3>1 DEF FreshAfter
    <3> QED BY <3>1, <3>2
  <2>6. ASSUME FreshAfter(s, c), Head(s).code = "SELF_INFO", NEW j \in 1..n - 1
        PROVE  t[j].conn \in {0, c}
    <3>1. s[1] = Head(s) /\ s[j + 1] = t[j] /\ 1 \in DOMAIN s /\ j + 1 \in DOMAIN s /\ 1 < j + 1
      BY <2>1, <2>2
    <3>2. s[j + 1].conn \in {0, c}
      BY <2>6, <3>1 DEF FreshAfter
    <3> QED BY <3>1, <3>2
  <2>7. DOMAIN t = 1..n - 1
    BY <2>1
  <2>8. FreshAfter(s, c) => FreshAfter(t, c)
    BY <2>5, <2>7 DEF FreshAfter
  <2>9. FreshAfter(s, c) /\ Head(s).code = "SELF_INFO" => Fresh(t, c)
    BY <2>6, <2>7 DEF Fresh
  <2> QED BY <2>3, <2>4, <2>8, <2>9 DEF t
<1> QED BY <1>1, <1>2

LEMMA FreshEmpty == \A c : Fresh(<<>>, c) /\ FreshAfter(<<>>, c) /\ ~Told(<<>>)
BY SMT DEF Fresh, FreshAfter, Told

\* The run loop writes a frame: of its own connection if it is fresh, and it is
\* fresh once it has written SELF_INFO.
LEMMA LoopWritesFresh ==
  ASSUME TypeInv, ConnInv, loop, Reachable
  PROVE  /\ LoopFresh => LoopFresh'
         /\ \/ UNCHANGED output_queue
            \/ \E f \in Frames :
                 /\ output_queue' = Append(output_queue, f)
                 /\ LoopFresh => f.conn \in {0, connections}
                 /\ f.code = "SELF_INFO" => LoopFresh'
<1> USE ConnTypes, FrameTypes
<1>0. UNCHANGED connections /\ client = connections
  BY LoopKeeps DEF Reachable
<1>1. CASE Tickle
  BY <1>0, <1>1 DEF Tickle, writeFrame, LoopFresh
<1>2. CASE TakeCommand
  <2>1. input_queue \in Seq(Commands) /\ OfConn(input_queue, client)
    BY Sequences, ConnParts
  <2>2. Head(input_queue).conn = client
    BY <1>2, <2>1, OfConnMoves DEF TakeCommand
  <2> QED BY <1>0, <1>2, <2>2 DEF TakeCommand, LoopFresh
<1>3. CASE LookAtList
  BY <1>0, <1>3 DEF LookAtList, LoopFresh
<1>4. ASSUME NEW c \in Connections,
             TellStarted(c) \/ RefuseList(c) \/ StartList(c) \/ GiveMessage(c) \/ GiveNone(c)
      PROVE  /\ LoopFresh => LoopFresh'
             /\ \E f \in Frames :
                  /\ output_queue' = Append(output_queue, f)
                  /\ LoopFresh => f.conn \in {0, connections}
                  /\ f.code = "SELF_INFO" => LoopFresh'
  <2>1. c # 0
    BY SMT DEF Connections
  <2>2. LoopFresh => c = connections
    BY <1>4, <2>1 DEF TellStarted, RefuseList, StartList, GiveMessage, GiveNone, Handles, LoopFresh
  <2>3. CASE TellStarted(c)
    BY <1>0, <2>2, <2>3 DEF TellStarted, Handles, writeFrame, LoopFresh
  <2>4. CASE RefuseList(c)
    BY <1>0, <2>2, <2>4 DEF RefuseList, Handles, writeFrame, LoopFresh
  <2>5. CASE StartList(c)
    BY <1>0, <2>2, <2>5 DEF StartList, Handles, writeFrame, LoopFresh
  <2>6. CASE GiveMessage(c)
    <3>1. Head(offline_queue) \in Messages
      BY <2>6, Sequences, TakeItem DEF GiveMessage
    <3> QED BY <1>0, <2>2, <2>6, <3>1 DEF GiveMessage, Handles, writeFrame, LoopFresh
  <2>7. CASE GiveNone(c)
    BY <1>0, <2>2, <2>7 DEF GiveNone, Handles, writeFrame, LoopFresh
  <2> QED BY <1>4, <2>3, <2>4, <2>5, <2>6, <2>7
<1>5. CASE ListOne /\ asked_by \in Connections
  <2>1. iterator + 1 \in 1..NumContacts /\ iterator # Stopped
    BY <1>5, Constants, SMT DEF ListOne, Stopped
  <2> QED BY <1>0, <1>5, <2>1 DEF ListOne, writeFrame, LoopFresh
<1>6. CASE ListEnd /\ asked_by \in Connections
  <2>1. iterator # Stopped
    BY <1>6, Constants, SMT DEF ListEnd, Stopped
  <2> QED BY <1>0, <1>6, <2>1 DEF ListEnd, writeFrame, LoopFresh
<1> QED BY <1>1, <1>2, <1>3, <1>4, <1>5, <1>6, LoopCases

LEMMA FreshStep ==
  ASSUME TypeInv, SessionInv, ConnInv, FreshInv, [Next]_vars
  PROVE  FreshInv'
<1> DEFINE c == connections
<1> SUFFICES ASSUME Reachable' PROVE FreshInv'
  BY DEF FreshInv
<1> USE DEF ToldApp, ToldWire, ToldThread, ToldQueue
<1>0. to_app \in Seq(Frames) /\ output \in Seq(Frames) /\ output_queue \in Seq(Frames)
  BY Sequences
<1>1. CASE ServerStep
  <2>0. UNCHANGED <<connections, open, iterator, asked_by, cmd_frame, app>>
    BY <1>1, ServerKeeps
  <2>1. CASE Quiet /\ UNCHANGED client
    BY <2>0, <2>1, Zenon DEF Quiet, FreshInv, Reachable, LoopFresh, Fresh, FreshAfter, Told
  <2>2. CASE Accepting /\ Clearing
    <3>1. open /\ client # connections
      BY <2>0, <2>2, Sequences, SMT DEF Accepting, Reachable
    <3>2. server = "accepting" /\ to_app' = <<>> /\ output' = <<>> /\ output_queue' = <<>> /\ app' = "starting"
      BY <2>0, <2>2, <3>1, Zenon DEF Accepting, Clearing, SessionInv
    <3> QED BY <3>2, FreshEmpty DEF FreshInv
  <2>3. ASSUME Reachable PROVE ~(~Reachable /\ Clearing /\ UNCHANGED client) /\ ~Dropping
    BY <2>3 DEF Dropping
  <2>4. ASSUME ~Reachable, UNCHANGED client PROVE FALSE
    BY <2>0, <2>4 DEF Reachable
  <2>5. CASE Taking
    <3>1. UNCHANGED <<to_app, client>> /\ output = <<>> /\ output' = output_queue /\ output_queue' = <<>>
      BY <2>5 DEF Taking
    <3>2. Reachable
      BY <2>0, <3>1 DEF Reachable
    <3> QED BY <2>0, <3>1, <3>2, FreshEmpty DEF FreshInv, LoopFresh
  <2>6. CASE Sending
    <3> DEFINE f == Head(output)
    <3>1. /\ Reachable /\ output # <<>> /\ to_app' = Append(to_app, f) /\ output' = Tail(output)
          /\ UNCHANGED output_queue
      BY <2>6 DEF Sending
    <3>2. f \in Frames
      BY <1>0, <3>1, TakeItem
    <3>3. /\ Told(output) <=> Told(Tail(output)) \/ f.code = "SELF_INFO"
          /\ Fresh(output, c) => Fresh(Tail(output), c) /\ f.conn \in {0, c}
          /\ FreshAfter(output, c) => FreshAfter(Tail(output), c)
          /\ FreshAfter(output, c) /\ f.code = "SELF_INFO" => Fresh(Tail(output), c)
      BY <1>0, <3>1, FreshMoves
    <3>4. /\ Told(Append(to_app, f)) <=> Told(to_app) \/ f.code = "SELF_INFO"
          /\ Fresh(to_app, c) /\ f.conn \in {0, c} => Fresh(Append(to_app, f), c)
          /\ FreshAfter(to_app, c) /\ (Told(to_app) => f.conn \in {0, c}) =>
               FreshAfter(Append(to_app, f), c)
      BY <1>0, <3>2, FreshMoves
    <3> HIDE DEF f
    <3> QED BY <2>0, <3>1, <3>3, <3>4 DEF FreshInv, LoopFresh
  <2>7. CASE Receiving
    <3>1. UNCHANGED <<to_app, output, output_queue, client>>
      BY <2>7 DEF Receiving
    <3> QED BY <2>0, <3>1 DEF FreshInv, Reachable, LoopFresh
  <2> QED BY <1>1, <2>1, <2>2, <2>4, <2>5, <2>6, <2>7, ServerCases DEF Dropping
<1>2. CASE loop
  <2>1. UNCHANGED <<connections, open, to_app, client, output, app>>
    BY <1>2, LoopKeeps
  <2>2. Reachable
    BY <2>1 DEF Reachable
  <2>3. LoopFresh => LoopFresh'
    BY <1>2, <2>2, LoopWritesFresh
  <2>4. CASE UNCHANGED output_queue
    BY <2>1, <2>2, <2>3, <2>4 DEF FreshInv
  <2>5. ASSUME NEW f \in Frames, output_queue' = Append(output_queue, f),
               LoopFresh => f.conn \in {0, connections}, f.code = "SELF_INFO" => LoopFresh'
        PROVE  FreshInv'
    <3>1. /\ Told(output_queue') <=> Told(output_queue) \/ f.code = "SELF_INFO"
          /\ Fresh(output_queue, c) /\ f.conn \in {0, c} => Fresh(output_queue', c)
          /\ FreshAfter(output_queue, c) /\ (Told(output_queue) => f.conn \in {0, c}) =>
               FreshAfter(output_queue', c)
      BY <1>0, <2>5, FreshMoves
    <3> QED BY <2>1, <2>2, <2>3, <2>5, <3>1 DEF FreshInv
  <2> QED BY <1>2, <2>2, <2>4, <2>5, LoopWritesFresh
<1>3. CASE queueMessage
  <2>1. UNCHANGED <<connections, open, to_app, client, output, app>>
    BY <1>3, LoopKeeps
  <2>2. UNCHANGED <<output_queue, iterator, asked_by, cmd_frame>>
    BY <1>3, ArrivalKeeps
  <2> QED BY <2>1, <2>2 DEF FreshInv, Reachable, LoopFresh
<1>4. CASE connect
  <2>1. connections' = connections + 1 /\ client' = client
    BY <1>4, AppKeeps DEF connect
  <2> QED BY <2>1, Sequences, SMT DEF Reachable
<1>5. CASE disconnect
  BY <1>5 DEF disconnect, Reachable
<1>6. CASE readFrame
  <2> DEFINE f == Head(to_app)
  <2>1. to_app # <<>> /\ to_app' = Tail(to_app) /\ UNCHANGED <<connections, open>> /\ Reachable
    BY <1>6, ReadEffect, ReadReachable DEF Reachable
  <2>2. UNCHANGED <<client, output_queue, output, iterator, cmd_frame, asked_by>>
    BY <1>6, AppKeeps
  <2>3. app = "starting" /\ app' # "starting" => f.code = "SELF_INFO"
    BY <1>6, ReadMoves
  <2>4. app # "starting" => app' # "starting"
    BY <1>6, ReadEffect
  <2>6. f.code = "SELF_INFO" => app' # "starting"
    BY <1>6, ReadMoves
  <2>5. /\ Told(to_app) <=> Told(Tail(to_app)) \/ f.code = "SELF_INFO"
        /\ Fresh(to_app, c) => Fresh(Tail(to_app), c)
        /\ FreshAfter(to_app, c) => FreshAfter(Tail(to_app), c)
        /\ FreshAfter(to_app, c) /\ f.code = "SELF_INFO" => Fresh(Tail(to_app), c)
    BY <1>0, <2>1, FreshMoves
  <2> HIDE DEF f
  <2> QED BY <2>1, <2>2, <2>3, <2>4, <2>5, <2>6 DEF FreshInv, LoopFresh
<1>7. CASE UNCHANGED vars
  <2>1. UNCHANGED <<connections, open, to_app, client, output, app, output_queue, iterator,
                    asked_by, cmd_frame>>
    BY <1>7, StutterKeeps
  <2> QED BY <2>1 DEF FreshInv, Reachable, LoopFresh
<1> QED BY <1>1, <1>2, <1>3, <1>4, <1>5, <1>6, <1>7 DEF Next

\* Once the app has been told that CMD_APP_START is done, it gets no frame meant
\* for an earlier connection.
LEMMA FreshInvFresh ==
  ASSUME SessionInv, FreshInv
  PROVE  FreshAfterStart
BY DEF SessionInv, FreshInv, FreshAfterStart, Reachable, ToldApp, Fresh

-----------------------------------------------------------------------------
(***************************************************************************)
(* Before the app is told: nothing of its list.                            *)
(***************************************************************************)

LEMMA NoListMoves ==
  ASSUME NEW s \in Seq(Frames), NEW c \in Nat
  PROVE  /\ \A f \in Frames :
              NoListOf(s, c) /\ (IsList(f) => f.conn # c) => NoListOf(Append(s, f), c)
         /\ s # <<>> /\ NoListOf(s, c) =>
              NoListOf(Tail(s), c) /\ Head(s) \in Frames /\ (IsList(Head(s)) => Head(s).conn # c)
         /\ NoListOf(<<>>, c)
         /\ \A d \in Nat : UpTo(s, d) /\ d < c => NoListOf(s, c)
<1>1. ASSUME NEW f \in Frames, NoListOf(s, c), IsList(f) => f.conn # c
      PROVE  NoListOf(Append(s, f), c)
  <2> HIDE DEF IsList
  <2> QED BY <1>1, AppendItem, SMT DEF NoListOf
<1>2. ASSUME s # <<>>, NoListOf(s, c)
      PROVE  NoListOf(Tail(s), c) /\ Head(s) \in Frames /\ (IsList(Head(s)) => Head(s).conn # c)
  BY <1>2, TakeItem, SMT DEF NoListOf
<1>3. NoListOf(<<>>, c)
  BY SMT DEF NoListOf
<1>4. ASSUME NEW d \in Nat, UpTo(s, d), d < c PROVE NoListOf(s, c)
  <2>1. \A i \in DOMAIN s : s[i].conn \in Nat
    BY ConnTypes, SMT
  <2> QED BY <1>4, <2>1, SMT DEF UpTo, NoListOf
<1> QED BY <1>1, <1>2, <1>3, <1>4

LEMMA NoGetMoves ==
  ASSUME NEW s \in Seq(Commands)
  PROVE  /\ \A d \in Commands : NoGet(s) /\ d.cmd # "GET_CONTACTS" => NoGet(Append(s, d))
         /\ s # <<>> /\ NoGet(s) =>
              NoGet(Tail(s)) /\ Head(s) \in Commands /\ Head(s).cmd # "GET_CONTACTS"
         /\ NoGet(<<>>)
<1>1. ASSUME NEW d \in Commands, NoGet(s), d.cmd # "GET_CONTACTS" PROVE NoGet(Append(s, d))
  BY <1>1, AppendItem, SMT DEF NoGet
<1>2. ASSUME s # <<>>, NoGet(s)
      PROVE  NoGet(Tail(s)) /\ Head(s) \in Commands /\ Head(s).cmd # "GET_CONTACTS"
  BY <1>2, TakeItem, SMT DEF NoGet
<1>3. NoGet(<<>>)
  BY SMT DEF NoGet
<1> QED BY <1>1, <1>2, <1>3

\* An open app is on a connection that was made.
LEMMA AppConnected ==
  ASSUME TypeInv, app # "closed"
  PROVE  connections \in Connections /\ connections \in Nat
BY Sequences, Constants, SMT DEF TypeInv, AppType, Connections

LEMMA StartingStep ==
  ASSUME TypeInv, SessionInv, ConnInv, StartingInv, [Next]_vars
  PROVE  StartingInv'
<1> SUFFICES ASSUME app' = "starting" PROVE StartingInv'
  BY DEF StartingInv
<1> DEFINE c == connections
<1>0. /\ to_app \in Seq(Frames) /\ output \in Seq(Frames) /\ output_queue \in Seq(Frames)
      /\ input_queue \in Seq(Commands) /\ to_node \in [Connections -> Seq(Commands)] /\ c \in Nat
  BY Sequences
<1>1. CASE ServerStep
  <2>0. UNCHANGED <<connections, iterator, asked_by, cmd_frame, app>> /\ app = "starting"
    BY <1>1, ServerKeeps
  <2>1. CASE Quiet /\ UNCHANGED client
    BY <2>0, <2>1 DEF Quiet, StartingInv
  <2>2. CASE Clearing
    <3>1. NoGet(input_queue') /\ NoListOf(output_queue', c)
      BY <1>0, <2>2, NoGetMoves, NoListMoves DEF Clearing
    <3> QED BY <2>0, <2>2, <3>1 DEF Clearing, StartingInv
  <2>3. CASE Taking
    <3>1. NoListOf(output_queue', c)
      BY <1>0, <2>3, NoListMoves DEF Taking
    <3> QED BY <2>0, <2>3, <3>1 DEF Taking, StartingInv
  <2>4. CASE Sending
    <3>1. /\ output # <<>> /\ NoListOf(output, c) /\ NoListOf(to_app, c)
          /\ to_app' = Append(to_app, Head(output)) /\ output' = Tail(output)
      BY <2>0, <2>4 DEF Sending, StartingInv
    <3>2. /\ NoListOf(Tail(output), c) /\ Head(output) \in Frames
          /\ (IsList(Head(output)) => Head(output).conn # c)
      BY <1>0, <3>1, NoListMoves
    <3>3. NoListOf(Append(to_app, Head(output)), c)
      BY <1>0, <3>1, <3>2, NoListMoves
    <3> QED BY <2>0, <2>4, <3>1, <3>2, <3>3 DEF Sending, StartingInv
  <2>5. CASE Dropping
    <3>1. output # <<>> /\ output' \in {Tail(output), <<>>} /\ NoListOf(output, c)
      BY <2>0, <2>5 DEF Dropping, StartingInv
    <3>2. NoListOf(Tail(output), c) /\ NoListOf(<<>>, c)
      BY <1>0, <3>1, NoListMoves
    <3>3. NoListOf(output', c)
      BY <3>1, <3>2
    <3> QED BY <2>0, <2>5, <3>3 DEF Dropping, StartingInv
  <2>6. CASE Receiving
    <3>1. /\ to_node[client] \in Seq(Commands) /\ to_node[client] # <<>>
          /\ \A k \in Connections \ {client} : to_node'[k] = to_node[k]
          /\ to_node'[client] = Tail(to_node[client])
          /\ input_queue' = Append(input_queue, Head(to_node[client]))
      BY <1>0, <2>6 DEF Receiving
    <3>2. c \in Connections
      BY <2>0, AppConnected
    <3>3. CASE client = c
      <4>1. NoGet(to_node'[c]) /\ NoGet(input_queue')
        BY <1>0, <2>0, <3>1, <3>3, NoGetMoves DEF StartingInv
      <4> QED BY <2>0, <2>6, <4>1 DEF Receiving, StartingInv
    <3>4. CASE client # c
      <4>1. to_node'[c] = to_node[c]
        BY <3>1, <3>2, <3>4
      <4> QED BY <2>0, <2>6, <3>4, <4>1 DEF Receiving, StartingInv
    <3> QED BY <3>3, <3>4
  <2> QED BY <1>1, <2>1, <2>2, <2>3, <2>4, <2>5, <2>6, ServerCases
<1>2. CASE loop
  <2> USE ConnTypes, FrameTypes
  <2>0. UNCHANGED <<connections, to_node, to_app, client, output, app>> /\ app = "starting"
    BY <1>2, LoopKeeps
  <2>1. \A f \in Frames : IsList(f) => f.code \in {"CONTACTS_START", "CONTACT", "END_OF_CONTACTS", "ERR"}
    BY DEF IsList
  <2>2. ASSUME NEW f \in Frames, output_queue' = Append(output_queue, f), IsList(f) => f.conn # c
        PROVE  NoListOf(output_queue', c)
    BY <1>0, <2>0, <2>2, NoListMoves DEF StartingInv
  <2> USE DEF StartingInv
  <2>3. CASE Tickle
    <3>1. NoListOf(output_queue', c)
      BY <2>1, <2>2, <2>3 DEF Tickle, writeFrame
    <3> QED BY <2>0, <2>3, <3>1 DEF Tickle
  <2>4. CASE TakeCommand
    <3>1. OfConn(input_queue, client)
      BY ConnParts
    <3>2. Head(input_queue).conn = client
      BY <1>0, <2>4, <3>1, OfConnMoves DEF TakeCommand
    <3>3. client = c => NoGet(Tail(input_queue)) /\ Head(input_queue).cmd # "GET_CONTACTS"
      BY <1>0, <2>0, <2>4, NoGetMoves DEF TakeCommand
    <3> QED BY <2>0, <2>4, <3>2, <3>3 DEF TakeCommand
  <2>5. CASE LookAtList
    BY <2>0, <2>5 DEF LookAtList
  <2>6. ASSUME NEW k \in Connections,
               TellStarted(k) \/ RefuseList(k) \/ StartList(k) \/ GiveMessage(k) \/ GiveNone(k)
        PROVE  StartingInv'
    <3>1. CASE TellStarted(k)
      <4>1. NoListOf(output_queue', c)
        BY <2>1, <2>2, <3>1 DEF TellStarted, writeFrame
      <4> QED BY <2>0, <3>1, <4>1 DEF TellStarted, Handles
    <3>2. CASE RefuseList(k)
      <4>1. k # c
        BY <2>0, <3>2 DEF RefuseList, Handles
      <4>2. NoListOf(output_queue', c)
        BY <2>2, <3>2, <4>1 DEF RefuseList, writeFrame
      <4> QED BY <2>0, <3>2, <4>2 DEF RefuseList, Handles
    <3>3. CASE StartList(k)
      <4>1. k # c
        BY <2>0, <3>3 DEF StartList, Handles
      <4>2. NoListOf(output_queue', c)
        BY <2>2, <3>3, <4>1 DEF StartList, writeFrame
      <4> QED BY <2>0, <3>3, <4>1, <4>2 DEF StartList, Handles
    <3>4. CASE GiveMessage(k)
      <4>1. Head(offline_queue) \in Messages
        BY <3>4, Sequences, TakeItem DEF GiveMessage
      <4>2. output_queue' = Append(output_queue, FrameOf("MSG", k, Head(offline_queue)))
        BY <3>4 DEF GiveMessage, writeFrame
      <4>3. NoListOf(output_queue', c)
        BY <2>1, <2>2, <4>1, <4>2
      <4> QED BY <2>0, <3>4, <4>3 DEF GiveMessage, Handles
    <3>5. CASE GiveNone(k)
      <4>1. NoListOf(output_queue', c)
        BY <2>1, <2>2, <3>5 DEF GiveNone, writeFrame
      <4> QED BY <2>0, <3>5, <4>1 DEF GiveNone, Handles
    <3> QED BY <2>6, <3>1, <3>2, <3>3, <3>4, <3>5
  <2>7. CASE ListOne /\ asked_by \in Connections
    <3>1. iterator + 1 \in 1..NumContacts /\ iterator # Stopped
      BY <2>7, Constants, SMT DEF ListOne, Stopped
    <3>2. NoListOf(output_queue', c)
      BY <2>0, <2>2, <2>7, <3>1 DEF ListOne, writeFrame
    <3> QED BY <2>0, <2>7, <3>1, <3>2 DEF ListOne
  <2>8. CASE ListEnd /\ asked_by \in Connections
    <3>1. iterator # Stopped
      BY <2>8, Constants, SMT DEF ListEnd, Stopped
    <3>2. NoListOf(output_queue', c)
      BY <2>0, <2>2, <2>8, <3>1 DEF ListEnd, writeFrame
    <3> QED BY <2>0, <2>8, <3>2 DEF ListEnd
  <2> QED BY <1>2, <2>3, <2>4, <2>5, <2>6, <2>7, <2>8, LoopCases
<1>3. CASE queueMessage
  <2>1. UNCHANGED <<connections, to_node, to_app, client, output, app>>
    BY <1>3, LoopKeeps
  <2>2. UNCHANGED <<input_queue, output_queue, iterator, asked_by, cmd_frame>>
    BY <1>3, ArrivalKeeps
  <2> QED BY <2>1, <2>2 DEF StartingInv
<1>4. CASE connect
  <2>1. connections + 1 \in Connections /\ connections' = connections + 1
    BY <1>4, NextConnection DEF connect
  <2>2. /\ to_node'[connections + 1] = Append(to_node[connections + 1],
                                              [cmd |-> "APP_START", conn |-> connections + 1])
        /\ [cmd |-> "APP_START", conn |-> connections + 1] \in Commands
    BY <1>4, <2>1, AskAppends DEF connect
  <2>3. /\ UNCHANGED <<client, input_queue, output_queue, output, iterator, cmd_frame, asked_by>>
        /\ UNCHANGED to_app
    BY <1>4, AppKeeps DEF connect
  <2>4. /\ client < c + 1 /\ cmd_frame.conn < c + 1 /\ asked_by < c + 1
        /\ client \in Nat /\ c + 1 \in Nat /\ connections + 1 > connections
    BY Sequences, SMT DEF ConnInv
  <2>5. to_node[connections + 1] = <<>>
    BY <2>1, <2>4 DEF ConnInv
  <2>6. NoGet(to_node'[connections + 1])
    BY <1>0, <2>1, <2>2, <2>5, NoGetMoves, EmptyItem
  <2>7. /\ NoListOf(to_app, c + 1) /\ NoListOf(output, c + 1) /\ NoListOf(output_queue, c + 1)
    BY <1>0, <2>4, NoListMoves DEF ConnInv
  <2>8. client # c + 1 /\ cmd_frame.conn # c + 1 /\ asked_by # c + 1
    BY <2>4, Sequences, SMT
  <2> QED BY <2>1, <2>3, <2>6, <2>7, <2>8 DEF StartingInv
<1>5. CASE disconnect
  BY <1>5 DEF disconnect
<1>6. CASE readFrame
  <2>1. to_app # <<>> /\ to_app' = Tail(to_app) /\ UNCHANGED connections
    BY <1>6, ReadEffect
  <2>2. UNCHANGED <<client, input_queue, output_queue, output, iterator, cmd_frame, asked_by>>
    BY <1>6, AppKeeps
  <2>3. app = "starting" /\ UNCHANGED to_node
    BY <1>6, ReadMoves
  <2>4. NoListOf(to_app', c)
    BY <1>0, <2>1, <2>3, NoListMoves DEF StartingInv
  <2> QED BY <2>1, <2>2, <2>3, <2>4 DEF StartingInv
<1>7. CASE UNCHANGED vars
  <2>1. UNCHANGED <<connections, to_node, to_app, client, output, app, input_queue, output_queue,
                    iterator, asked_by, cmd_frame>>
    BY <1>7, StutterKeeps
  <2> QED BY <2>1 DEF StartingInv
<1> QED BY <1>1, <1>2, <1>3, <1>4, <1>5, <1>6, <1>7 DEF Next

-----------------------------------------------------------------------------
LEMMA InitSession ==
  ASSUME Init
  PROVE  SessionInv /\ ConnInv /\ FreshInv /\ StartingInv /\ ListingInv
<1>1. /\ connections = 0 /\ open = FALSE /\ to_app = <<>> /\ server = "accepting" /\ client = 0
      /\ output = <<>> /\ input_queue = <<>> /\ output_queue = <<>> /\ asked_by = 0
      /\ cmd_frame = None /\ app = "closed"
      /\ \A k \in Connections : to_node[k] = <<>>
  BY Zenon DEF Init, SerialInit, Connections
<1>2. SessionInv /\ FreshInv /\ StartingInv /\ ListingInv
  BY <1>1 DEF SessionInv, FreshInv, Reachable, StartingInv, ListingInv
<1>3. cmd_frame.conn <= client /\ asked_by <= client
  BY <1>1, ConnTypes, SMT
<1>4. OfConn(input_queue, client) /\ \A k \in Connections : OfConn(to_node[k], k)
  BY <1>1, SMT DEF OfConn
<1>5. UpTo(output_queue, client) /\ UpTo(output, client) /\ UpTo(to_app, client)
  BY <1>1, SMT DEF UpTo
<1> QED BY <1>1, <1>2, <1>3, <1>4, <1>5, ConnParts

\* Once the app has been told that CMD_APP_START is done, no frame that it is
\* sent is meant for an earlier connection: no reply to a command of the last one
\* and no contact of its list.
THEOREM AlwaysFresh == Spec => []FreshAfterStart
<1> DEFINE Inv == TypeInv /\ SessionInv /\ ConnInv /\ FreshInv
<1>1. Init => Inv
  BY InitType, InitSession
<1>2. Inv /\ [Next]_vars => Inv'
  BY TypeStep, SessionStep, ConnStep, FreshStep
<1>3. Inv => FreshAfterStart
  BY FreshInvFresh
<1> QED BY <1>1, <1>2, <1>3, PTL DEF Spec

-----------------------------------------------------------------------------
(***************************************************************************)
(* Lists of contacts.                                                      *)
(***************************************************************************)

NoList(s) == \A i \in DOMAIN s : ~IsList(s[i])

\* The places of a sequence to which an item is added, and of one without its head.
LEMMA AppendPlaces ==
  ASSUME NEW S, NEW s \in Seq(S), NEW f \in S
  PROVE  /\ \A i \in DOMAIN s : i \in DOMAIN Append(s, f) /\ Append(s, f)[i] = s[i] /\ s[i] \in S
         /\ \E n \in DOMAIN Append(s, f) :
              /\ Append(s, f)[n] = f
              /\ \A i \in DOMAIN Append(s, f) : i \in DOMAIN s \/ i = n
              /\ \A i \in DOMAIN s : i < n /\ ~(n < i)
              /\ ~(n < n)
<1> DEFINE t == Append(s, f)  n == Len(s) + 1
<1>1. /\ DOMAIN t = 1..n /\ DOMAIN s = 1..Len(s) /\ Len(s) \in Nat
      /\ \A i \in 1..Len(s) : t[i] = s[i] /\ s[i] \in S
      /\ t[n] = f
  BY AppendItem
<1>2. /\ \A i \in 1..Len(s) : i \in 1..n /\ i < n /\ ~(n < i)
      /\ \A i \in 1..n : i \in 1..Len(s) \/ i = n
      /\ n \in 1..n /\ ~(n < n)
  BY <1>1, SMT
<1> HIDE DEF t, n
<1>3. /\ \A i \in DOMAIN s : i \in DOMAIN t /\ t[i] = s[i] /\ s[i] \in S
      /\ \E m \in DOMAIN t :
           /\ t[m] = f
           /\ \A i \in DOMAIN t : i \in DOMAIN s \/ i = m
           /\ \A i \in DOMAIN s : i < m /\ ~(m < i)
           /\ ~(m < m)
  BY <1>1, <1>2, Zenon
<1> QED BY <1>3 DEF t

LEMMA TailPlaces ==
  ASSUME NEW S, NEW s \in Seq(S), s # <<>>
  PROVE  /\ Head(s) = s[1] /\ 1 \in DOMAIN s /\ Head(s) \in S
         /\ \A i \in DOMAIN Tail(s) :
              /\ i + 1 \in DOMAIN s /\ Tail(s)[i] = s[i + 1] /\ s[i + 1] \in S
              /\ 1 < i + 1 /\ ~(i + 1 < 1)
         /\ \A i \in DOMAIN s : i = 1 \/ \E j \in DOMAIN Tail(s) : i = j + 1
         /\ \A i, j \in DOMAIN Tail(s) : i < j <=> i + 1 < j + 1
         /\ \A i, j \in DOMAIN Tail(s) : i = j <=> i + 1 = j + 1
<1> DEFINE t == Tail(s)  n == Len(s)
<1>1. /\ DOMAIN t = 1..n - 1 /\ DOMAIN s = 1..n /\ n \in Nat \ {0}
      /\ \A i \in 1..n - 1 : t[i] = s[i + 1] /\ s[i + 1] \in S
      /\ Head(s) = s[1] /\ s[1] \in S
  BY TakeItem
<1>2. /\ \A i \in 1..n - 1 : i + 1 \in 1..n /\ 1 < i + 1 /\ ~(i + 1 < 1)
      /\ \A i, j \in 1..n - 1 : i < j <=> i + 1 < j + 1
      /\ \A i, j \in 1..n - 1 : i = j <=> i + 1 = j + 1
      /\ 1 \in 1..n
  BY <1>1, SMT
<1>3. ASSUME NEW i \in 1..n, i # 1 PROVE \E j \in 1..n - 1 : i = j + 1
  <2>1. i - 1 \in 1..n - 1 /\ i = (i - 1) + 1
    BY <1>1, <1>3, SMT
  <2> QED BY <2>1
<1> HIDE DEF n
<1>4. /\ Head(s) = s[1] /\ 1 \in DOMAIN s /\ Head(s) \in S
      /\ \A i, j \in DOMAIN t : i < j <=> i + 1 < j + 1
      /\ \A i, j \in DOMAIN t : i = j <=> i + 1 = j + 1
  BY <1>1, <1>2
<1>5. \A i \in DOMAIN t : /\ i + 1 \in DOMAIN s /\ t[i] = s[i + 1] /\ s[i + 1] \in S
                          /\ 1 < i + 1 /\ ~(i + 1 < 1)
  BY <1>1, <1>2
<1>6. \A i \in DOMAIN s : i = 1 \/ \E j \in DOMAIN t : i = j + 1
  BY <1>1, <1>3
<1> HIDE DEF t
<1>7. t = Tail(s)
  BY DEF t
<1> QED BY <1>4, <1>5, <1>6, <1>7, Zenon

\* The items of a sequence are its head and those behind it.
LEMMA TailItems ==
  ASSUME NEW S, NEW s \in Seq(S), s # <<>>
  PROVE  /\ \A i \in DOMAIN s : s[i] = Head(s) \/ \E j \in DOMAIN Tail(s) : Tail(s)[j] = s[i]
         /\ \A j \in DOMAIN Tail(s) : \E i \in DOMAIN s : s[i] = Tail(s)[j]
         /\ \E i \in DOMAIN s : s[i] = Head(s)
<1> DEFINE t == Tail(s)
<1>1. /\ Head(s) = s[1] /\ 1 \in DOMAIN s
      /\ \A i \in DOMAIN t : i + 1 \in DOMAIN s /\ t[i] = s[i + 1]
      /\ \A i \in DOMAIN s : i = 1 \/ \E j \in DOMAIN t : i = j + 1
  BY TailPlaces
<1> HIDE DEF t
<1>2. /\ \A i \in DOMAIN s : s[i] = Head(s) \/ \E j \in DOMAIN t : t[j] = s[i]
      /\ \A j \in DOMAIN t : \E i \in DOMAIN s : s[i] = t[j]
      /\ \E i \in DOMAIN s : s[i] = Head(s)
  BY <1>1
<1> QED BY <1>2 DEF t

LEMMA RanksInt == \A f \in Frames : Rank(f) \in Int
BY FrameArgs, Constants, SMT DEF Rank, Frames

LEMMA RunsAppend ==
  ASSUME NEW s \in Seq(Frames), NEW lo \in Nat, NEW hi \in Nat, Runs(s, lo, hi), NEW f \in Frames
  PROVE  /\ ~IsList(f) => Runs(Append(s, f), lo, hi)
         /\ IsList(f) /\ Rank(f) = hi => Runs(Append(s, f), lo, hi + 1)
<1> DEFINE t == Append(s, f)
<1> HIDE DEF IsList, Rank
<1>1. /\ \A i \in DOMAIN s : i \in DOMAIN t /\ t[i] = s[i] /\ s[i] \in Frames
      /\ \E n \in DOMAIN t :
           /\ t[n] = f
           /\ \A i \in DOMAIN t : i \in DOMAIN s \/ i = n
           /\ \A i \in DOMAIN s : i < n /\ ~(n < i)
           /\ ~(n < n)
  BY AppendPlaces
<1> HIDE DEF t
<1>2. PICK n \in DOMAIN t :
        /\ t[n] = f
        /\ \A i \in DOMAIN t : i \in DOMAIN s \/ i = n
        /\ \A i \in DOMAIN s : i < n /\ ~(n < i)
        /\ ~(n < n)
  BY <1>1
<1>3. ~IsList(f) => Ranks(t) = Ranks(s) /\ RanksUp(t)
  <2> SUFFICES ASSUME ~IsList(f) PROVE Ranks(t) = Ranks(s) /\ RanksUp(t)
    OBVIOUS
  <2>1. {k \in DOMAIN t : IsList(t[k])} = {k \in DOMAIN s : IsList(s[k])}
    BY <1>1, <1>2, Zenon
  <2>2. Ranks(t) = Ranks(s)
    BY <1>1, <2>1, Zenon DEF Ranks
  <2>3. RanksUp(t)
    BY <1>1, <1>2, Zenon DEF RanksUp, Runs
  <2> QED BY <2>2, <2>3
<1>4. ASSUME IsList(f), Rank(f) = hi
      PROVE  Ranks(t) = Ranks(s) \union {hi} /\ RanksUp(t)
  <2>1. Ranks(t) = Ranks(s) \union {hi}
    <3>1. \A r : r \in Ranks(t) <=> r \in Ranks(s) \/ r = hi
      BY <1>1, <1>2, <1>4, Zenon DEF Ranks
    <3> QED BY <3>1, Zenon
  <2>2. \A i \in DOMAIN s : IsList(s[i]) => Rank(s[i]) \in Ranks(s)
    BY Zenon DEF Ranks
  <2>3. \A r \in Ranks(s) : r < hi
    BY SMT DEF Runs
  <2>4. RanksUp(t)
    BY <1>1, <1>2, <1>4, <2>2, <2>3, Zenon DEF RanksUp, Runs
  <2> QED BY <2>1, <2>4
<1>5. lo <= hi + 1 /\ (lo..hi - 1) \union {hi} = lo..(hi + 1) - 1
  BY SMT DEF Runs
<1>6. ~IsList(f) => Runs(t, lo, hi)
  BY <1>3 DEF Runs
<1>7. IsList(f) /\ Rank(f) = hi => Runs(t, lo, hi + 1)
  BY <1>4, <1>5, Zenon DEF Runs
<1> QED BY <1>6, <1>7 DEF t

LEMMA RunsTake ==
  ASSUME NEW s \in Seq(Frames), NEW lo \in Nat, NEW hi \in Nat, Runs(s, lo, hi), s # <<>>
  PROVE  /\ ~IsList(Head(s)) => Runs(Tail(s), lo, hi)
         /\ IsList(Head(s)) => Rank(Head(s)) = lo /\ lo < hi /\ Runs(Tail(s), lo + 1, hi)
<1> DEFINE t == Tail(s)  f == Head(s)
<1>1. /\ f = s[1] /\ 1 \in DOMAIN s /\ f \in Frames
      /\ \A i \in DOMAIN t : i + 1 \in DOMAIN s /\ t[i] = s[i + 1] /\ s[i + 1] \in Frames /\ 1 < i + 1
      /\ \A i \in DOMAIN s : i = 1 \/ \E j \in DOMAIN t : i = j + 1
      /\ \A i, j \in DOMAIN t : i < j <=> i + 1 < j + 1
  BY TailPlaces
<1>2. Rank(f) \in Int
  BY <1>1, RanksInt
<1> HIDE DEF t, f, IsList, Rank
<1>3. RanksUp(t)
  <2>0. RanksUp(s)
    BY DEF Runs
  <2>1. ASSUME NEW i \in DOMAIN t, NEW j \in DOMAIN t, i < j, IsList(t[i]), IsList(t[j])
        PROVE  Rank(t[i]) < Rank(t[j])
    <3>1. i + 1 \in DOMAIN s /\ j + 1 \in DOMAIN s /\ t[i] = s[i + 1] /\ t[j] = s[j + 1] /\ i + 1 < j + 1
      BY <1>1, <2>1
    <3>2. IsList(s[i + 1]) /\ IsList(s[j + 1])
      BY <2>1, <3>1, Zenon
    <3>3. Rank(s[i + 1]) < Rank(s[j + 1])
      BY <2>0, <3>1, <3>2, Zenon DEF RanksUp
    <3> QED BY <3>1, <3>3, Zenon
  <2> QED BY <2>1, Zenon DEF RanksUp
<1>4. \A r : r \in Ranks(s) <=> r \in Ranks(t) \/ (IsList(f) /\ r = Rank(f))
  <2>1. ASSUME NEW i \in DOMAIN s, IsList(s[i]) 
        PROVE  Rank(s[i]) \in Ranks(t) \/ (IsList(f) /\ Rank(s[i]) = Rank(f))
    <3>1. CASE i = 1
      BY <1>1, <2>1, <3>1, Zenon
    <3>2. ASSUME NEW j \in DOMAIN t, i = j + 1 PROVE Rank(s[i]) \in Ranks(t)
      <4>1. t[j] = s[i]
        BY <1>1, <3>2
      <4> QED BY <2>1, <4>1, Zenon DEF Ranks
    <3> QED BY <1>1, <2>1, <3>1, <3>2, Zenon
  <2>2. ASSUME NEW j \in DOMAIN t, IsList(t[j]) PROVE Rank(t[j]) \in Ranks(s)
    <3>1. j + 1 \in DOMAIN s /\ t[j] = s[j + 1]
      BY <1>1
    <3> QED BY <2>2, <3>1, Zenon DEF Ranks
  <2>3. IsList(f) => Rank(f) \in Ranks(s)
    BY <1>1, Zenon DEF Ranks
  <2> QED BY <2>1, <2>2, <2>3, Zenon DEF Ranks
<1>5. ~IsList(f) => Runs(t, lo, hi)
  <2>1. ~IsList(f) => Ranks(t) = Ranks(s)
    BY <1>4
  <2> QED BY <1>3, <2>1, Zenon DEF Runs
<1>6. ASSUME IsList(f) PROVE Rank(f) = lo /\ lo < hi /\ Runs(t, lo + 1, hi)
  <2>1. Rank(f) \in lo..hi - 1
    BY <1>4, <1>6, Zenon DEF Runs
  <2>2. \A r \in Ranks(t) : Rank(f) < r
    <3>1. ASSUME NEW j \in DOMAIN t, IsList(t[j]) PROVE Rank(f) < Rank(t[j])
      <4>1. j + 1 \in DOMAIN s /\ 1 < j + 1 /\ t[j] = s[j + 1]
        BY <1>1
      <4>2. RanksUp(s) /\ 1 \in DOMAIN s /\ f = s[1] /\ IsList(s[1]) /\ IsList(s[j + 1])
        BY <1>1, <1>6, <3>1, <4>1, Zenon DEF Runs
      <4>3. Rank(s[1]) < Rank(s[j + 1])
        BY <4>1, <4>2, Zenon DEF RanksUp
      <4> QED BY <4>1, <4>2, <4>3, Zenon
    <3> QED BY <3>1, Zenon DEF Ranks
  <2>0. Ranks(s) = lo..hi - 1
    BY DEF Runs
  <2>3. \A r : r \in lo..hi - 1 <=> r \in Ranks(t) \/ r = Rank(f)
    BY <1>4, <1>6, <2>0
  <2>4. lo \in lo..hi - 1 /\ \A r \in lo..hi - 1 : lo <= r /\ r \in Int
    BY <2>1, SMT
  <2>5. Rank(f) = lo
    BY <1>2, <2>2, <2>3, <2>4, SMT
  <2>6. \A r : r \in Ranks(t) <=> r \in lo + 1..hi - 1
    <3>1. \A r : r \in lo + 1..hi - 1 <=> r \in lo..hi - 1 /\ r # lo
      BY SMT
    <3>2. lo \notin Ranks(t)
      BY <2>2, <2>5, SMT
    <3> QED BY <2>3, <2>5, <3>1, <3>2, Zenon
  <2>7. lo < hi /\ lo + 1 <= hi
    BY <2>1, SMT
  <2> QED BY <1>3, <2>5, <2>6, <2>7, Zenon DEF Runs
<1> QED BY <1>5, <1>6 DEF t, f

LEMMA RunsEmpty ==
  /\ \A lo, hi \in Nat : Runs(<<>>, lo, hi) => lo = hi
  /\ \A s : NoList(s) => \A n \in Nat : Runs(s, n, n)
  /\ NoList(<<>>)
<1>1. DOMAIN <<>> = {}
  BY SMT
<1>2. Ranks(<<>>) = {} /\ NoList(<<>>)
  BY <1>1, Zenon DEF Ranks, NoList
<1>3. ASSUME NEW lo \in Nat, NEW hi \in Nat, Runs(<<>>, lo, hi) PROVE lo = hi
  <2>1. lo..hi - 1 = {} /\ lo <= hi
    BY <1>2, <1>3 DEF Runs
  <2> QED BY <2>1, SMT
<1>4. ASSUME NEW s, NoList(s), NEW n \in Nat PROVE Runs(s, n, n)
  <2>1. Ranks(s) = {} /\ RanksUp(s)
    BY <1>4, Zenon DEF Ranks, RanksUp, NoList
  <2>2. n <= n /\ n..n - 1 = {}
    BY SMT
  <2> QED BY <2>1, <2>2 DEF Runs
<1> QED BY <1>2, <1>3, <1>4

LEMMA GetMoves ==
  ASSUME NEW s \in Seq(Commands)
  PROVE  /\ \A d \in Commands : NoGet(s) /\ d.cmd = "GET_CONTACTS" => GetLast(Append(s, d))
         /\ GetLast(s) => s # <<>>
         /\ GetLast(s) /\ Head(s).cmd = "GET_CONTACTS" => Tail(s) = <<>>
         /\ GetLast(s) /\ Head(s).cmd # "GET_CONTACTS" => GetLast(Tail(s))
<1>1. ASSUME NEW d \in Commands, NoGet(s), d.cmd = "GET_CONTACTS" PROVE GetLast(Append(s, d))
  <2> DEFINE t == Append(s, d)  n == Len(s)
  <2>1. /\ t \in Seq(Commands) /\ DOMAIN t = 1..n + 1 /\ DOMAIN s = 1..n /\ n \in Nat
        /\ \A i \in 1..n : t[i] = s[i]
        /\ t[n + 1] = d
    BY AppendItem
  <2> HIDE DEF t, n
  <2>2. Len(t) = n + 1 /\ t # <<>>
    BY <2>1, SMT
  <2>3. \A i \in 1..n + 1 : (i \in 1..n /\ i # n + 1) \/ i = n + 1
    BY <2>1, SMT
  <2>4. GetLast(t)
    BY <1>1, <2>1, <2>2, <2>3, Zenon DEF NoGet, GetLast
  <2> QED BY <2>4 DEF t
<1>2. GetLast(s) => s # <<>>
  BY DEF GetLast
<1>3. ASSUME GetLast(s), Head(s).cmd = "GET_CONTACTS" PROVE Tail(s) = <<>>
  <2>1. /\ DOMAIN s = 1..Len(s) /\ Len(s) \in Nat \ {0} /\ Head(s) = s[1]
        /\ Tail(s) \in Seq(Commands) /\ DOMAIN Tail(s) = 1..Len(s) - 1
    BY <1>2, <1>3, TakeItem
  <2>2. 1 \in DOMAIN s
    BY <2>1, SMT
  <2>3. Len(s) = 1
    BY <1>3, <2>1, <2>2, Zenon DEF GetLast
  <2> QED BY <2>1, <2>3, SMT
<1>4. ASSUME GetLast(s), Head(s).cmd # "GET_CONTACTS" PROVE GetLast(Tail(s))
  <2> DEFINE t == Tail(s)  n == Len(s)
  <2>1. /\ t \in Seq(Commands) /\ DOMAIN t = 1..n - 1 /\ n \in Nat \ {0} /\ DOMAIN s = 1..n
        /\ \A i \in 1..n - 1 : t[i] = s[i + 1]
        /\ Head(s) = s[1]
    BY <1>2, <1>4, TakeItem
  <2>2. \A i \in 1..n : s[i].cmd = "GET_CONTACTS" <=> i = n
    BY <1>4, <2>1 DEF GetLast
  <2> HIDE DEF t, n
  <2>3. n # 1
    BY <1>4, <2>1, <2>2, SMT
  <2>4. n - 1 \in Nat \ {0} /\ \A i \in 1..n - 1 : i + 1 \in 1..n /\ (i + 1 = n <=> i = n - 1)
    <3>1. \A k \in Nat \ {0, 1} :
            /\ k - 1 \in Nat \ {0}
            /\ \A i \in 1..k - 1 : i + 1 \in 1..k /\ (i + 1 = k <=> i = k - 1)
      BY SMT
    <3>2. n \in Nat \ {0, 1}
      BY <2>1, <2>3
    <3> QED BY <3>1, <3>2, Zenon
  <2>5. \A i \in DOMAIN t : t[i].cmd = "GET_CONTACTS" <=> i = n - 1
    <3>1. ASSUME NEW i \in 1..n - 1 PROVE t[i].cmd = "GET_CONTACTS" <=> i = n - 1
      <4>1. t[i] = s[i + 1] /\ i + 1 \in 1..n /\ (i + 1 = n <=> i = n - 1)
        BY <2>1, <2>4, Zenon
      <4>2. s[i + 1].cmd = "GET_CONTACTS" <=> i + 1 = n
        BY <2>2, <4>1, Zenon
      <4> QED BY <4>1, <4>2, Zenon
    <3> QED BY <2>1, <3>1, Zenon
  <2>6. Len(t) = n - 1 /\ t # <<>>
    BY <2>1, <2>4, SMT
  <2>7. GetLast(t)
    BY <2>5, <2>6 DEF GetLast
  <2> QED BY <2>7 DEF t
<1> QED BY <1>1, <1>2, <1>3, <1>4

\* What frames are, for a list: where they stand in it.
LEMMA ListFrames ==
  /\ ~IsList(Frame("MSG_WAITING", 0))
  /\ \A c : ~IsList(Frame("SELF_INFO", c)) /\ ~IsList(Frame("NO_MORE_MESSAGES", c))
  /\ \A c, m : ~IsList(FrameOf("MSG", c, m))
  /\ \A c : IsList(Frame("CONTACTS_START", c)) /\ Rank(Frame("CONTACTS_START", c)) = 0
  /\ \A c, n : IsList(FrameOf("CONTACT", c, n)) /\ Rank(FrameOf("CONTACT", c, n)) = n
  /\ \A c : IsList(Frame("END_OF_CONTACTS", c)) /\ Rank(Frame("END_OF_CONTACTS", c)) = NumContacts + 1
BY DEF IsList, Rank, Frame, FrameOf

\* The run loop goes on with the list where it is, or writes the next frame of it.
LEMMA LoopWriting ==
  ASSUME TypeInv, loop, NEW hi \in 0..NumContacts + 2, Writing(hi)
  PROVE  \/ /\ Writing(hi)'
            /\ \/ UNCHANGED output_queue
               \/ \E f \in Frames : ~IsList(f) /\ output_queue' = Append(output_queue, f)
         \/ /\ hi + 1 \in 0..NumContacts + 2 /\ Writing(hi + 1)'
            /\ \E f \in Frames : IsList(f) /\ Rank(f) = hi /\ output_queue' = Append(output_queue, f)
<1> USE ConnTypes, FrameTypes, ListFrames
<1>0. UNCHANGED <<connections, to_node>> /\ input_queue \in Seq(Commands)
  BY LoopKeeps, Sequences
<1>a. NumContacts \in Nat /\ hi \in Nat /\ Stopped = -1
  BY Constants, SMT DEF Stopped
<1>b. hi = 0 => iterator = Stopped /\ GetPending
  BY <1>a, SMT DEF Writing
<1>c. hi # 0 => NothingPending
  BY <1>a, SMT DEF Writing
<1> HIDE DEF IsList, Rank
<1>1. CASE Tickle
  BY <1>0, <1>1 DEF Tickle, writeFrame, Writing, GetPending, NothingPending
<1>2. CASE TakeCommand
  <2>1. /\ input_queue # <<>> /\ cmd_frame' = Head(input_queue) /\ input_queue' = Tail(input_queue)
        /\ UNCHANGED <<output_queue, iterator>> /\ cmd_frame = None
    BY <1>2 DEF TakeCommand
  <2>2. hi = 0 /\ iterator = Stopped /\ GetPending
    BY <1>b, <1>c, <2>1 DEF NothingPending
  <2>3. GetPending'
    BY <1>0, <2>1, <2>2, NoGetMoves, GetMoves DEF GetPending
  <2> QED BY <2>1, <2>2, <2>3 DEF Writing
<1>3. CASE LookAtList
  <2>1. UNCHANGED <<input_queue, output_queue, iterator>> /\ iterator # Stopped /\ cmd_frame' \in {None, NoFrame}
    BY <1>3 DEF LookAtList
  <2>2. hi # 0 /\ NothingPending'
    BY <1>0, <1>b, <1>c, <2>1 DEF NothingPending
  <2> QED BY <2>1, <2>2 DEF Writing
<1>4. ASSUME NEW c \in Connections, TellStarted(c) \/ GiveMessage(c) \/ GiveNone(c)
      PROVE  Writing(hi)' /\ \E f \in Frames : ~IsList(f) /\ output_queue' = Append(output_queue, f)
  <2>1. /\ cmd_frame \notin {None, NoFrame} /\ cmd_frame.cmd # "GET_CONTACTS" /\ cmd_frame' = None
        /\ UNCHANGED input_queue
        /\ iterator' \in {Stopped, iterator}
    BY <1>4 DEF TellStarted, GiveMessage, GiveNone, Handles
  <2>2. hi = 0 /\ iterator = Stopped /\ GetPending
    BY <1>b, <1>c, <2>1 DEF NothingPending
  <2>3. Writing(hi)'
    BY <1>0, <2>1, <2>2 DEF Writing, GetPending
  <2>4. CASE GiveMessage(c)
    <3>1. Head(offline_queue) \in Messages
      BY <2>4, Sequences, TakeItem DEF GiveMessage
    <3> QED BY <2>3, <2>4, <3>1 DEF GiveMessage, writeFrame
  <2>5. CASE TellStarted(c) \/ GiveNone(c)
    BY <2>3, <2>5 DEF TellStarted, GiveNone, writeFrame
  <2> QED BY <1>4, <2>4, <2>5
<1>5. ASSUME NEW c \in Connections, RefuseList(c) PROVE FALSE
  <2>1. cmd_frame \notin {None, NoFrame} /\ iterator # Stopped
    BY <1>5 DEF RefuseList, Handles
  <2> QED BY <1>b, <1>c, <2>1 DEF NothingPending
<1>6. ASSUME NEW c \in Connections, StartList(c)
      PROVE  /\ hi = 0 /\ Writing(1)'
             /\ \E f \in Frames : IsList(f) /\ Rank(f) = 0 /\ output_queue' = Append(output_queue, f)
  <2>1. /\ cmd_frame \notin {None, NoFrame} /\ cmd_frame.cmd = "GET_CONTACTS" /\ cmd_frame' = None
        /\ UNCHANGED input_queue /\ iterator' = 0
    BY <1>6 DEF StartList, Handles
  <2>2. hi = 0 /\ GetPending
    BY <1>b, <1>c, <2>1 DEF NothingPending
  <2>3. NothingPending'
    BY <1>0, <2>1, <2>2 DEF GetPending, NothingPending
  <2>4. 1 \in 1..NumContacts + 1 /\ iterator' = 1 - 1
    BY <1>a, <2>1, SMT
  <2> QED BY <1>6, <2>2, <2>3, <2>4 DEF Writing, StartList, writeFrame
<1>7. ASSUME ListOne, asked_by \in Connections
      PROVE  /\ hi + 1 \in 0..NumContacts + 2 /\ Writing(hi + 1)'
             /\ \E f \in Frames : IsList(f) /\ Rank(f) = hi /\ output_queue' = Append(output_queue, f)
  <2>1. /\ iterator \in 0..NumContacts - 1 /\ iterator' = iterator + 1 /\ UNCHANGED input_queue
        /\ cmd_frame' = None
        /\ writeFrame(FrameOf("CONTACT", asked_by, iterator + 1))
    BY <1>7 DEF ListOne
  <2>2. hi \in 1..NumContacts /\ iterator + 1 = hi
    BY <1>a, <2>1, SMT DEF Writing
  <2>3. NothingPending'
    BY <1>0, <1>a, <1>c, <2>1, <2>2 DEF NothingPending
  <2>4. hi + 1 \in 1..NumContacts + 1 /\ hi + 1 \in 0..NumContacts + 2 /\ iterator' = (hi + 1) - 1
    BY <1>a, <2>1, <2>2, SMT
  <2> QED BY <1>7, <2>1, <2>2, <2>3, <2>4 DEF Writing, writeFrame
<1>8. ASSUME ListEnd, asked_by \in Connections
      PROVE  /\ hi + 1 \in 0..NumContacts + 2 /\ Writing(hi + 1)'
             /\ \E f \in Frames : IsList(f) /\ Rank(f) = hi /\ output_queue' = Append(output_queue, f)
  <2>1. /\ iterator = NumContacts /\ iterator' = Stopped /\ UNCHANGED input_queue /\ cmd_frame' = None
        /\ writeFrame(Frame("END_OF_CONTACTS", asked_by))
    BY <1>8 DEF ListEnd
  <2>2. hi = NumContacts + 1 /\ hi # 0
    BY <1>a, <2>1, SMT DEF Writing
  <2>3. NothingPending'
    BY <1>0, <1>c, <2>1, <2>2 DEF NothingPending
  <2>4. hi + 1 = NumContacts + 2 /\ hi + 1 \in 0..NumContacts + 2
    BY <1>a, <2>2, SMT
  <2> QED BY <1>8, <2>1, <2>2, <2>3, <2>4 DEF Writing, writeFrame
<1>9. 0 + 1 = 1 /\ 1 \in 0..NumContacts + 2
  BY <1>a, SMT
<1> QED BY <1>1, <1>2, <1>3, <1>4, <1>5, <1>6, <1>7, <1>8, <1>9, LoopCases

\* An app that is told that CMD_APP_START is done and asks for the list.
LEMMA ListAsked ==
  ASSUME TypeInv, SessionInv, ConnInv, FreshInv, StartingInv, readFrame,
         app = "starting", app' = "listing"
  PROVE  ListingInv'
<1> DEFINE c == connections
<1>0. /\ to_app \in Seq(Frames) /\ output \in Seq(Frames) /\ output_queue \in Seq(Frames)
      /\ to_app # <<>> /\ to_app' = Tail(to_app) /\ UNCHANGED connections /\ Reachable
      /\ c \in Connections /\ client = c /\ \A k \in Connections : k # 0
      /\ to_node \in [Connections -> Seq(Commands)]
      /\ cmd_frame \in Commands \union {None, NoFrame}
  <2>1. \A k \in Connections : k # 0
    BY SMT DEF Connections
  <2> QED BY <2>1, Sequences, ReadEffect, ReadReachable, AppConnected DEF Reachable
<1>1. UNCHANGED <<client, output_queue, output, input_queue, iterator, cmd_frame, asked_by>>
  BY AppKeeps
<1>2. Head(to_app).code = "SELF_INFO" /\ Ask("GET_CONTACTS", c)
  BY ReadMoves
<1>3. Fresh(Tail(to_app), c) /\ Fresh(output, c) /\ Fresh(output_queue, c) /\ LoopFresh
  <2>1. Told(to_app)
    BY <1>0, <1>2, FreshMoves
  <2> QED BY <1>0, <1>2, <2>1, FreshMoves DEF FreshInv, ToldWire, ToldThread, ToldQueue
<1>4. \A s \in Seq(Frames) : Fresh(s, c) /\ NoListOf(s, c) => NoList(s)
  <2>1. \A f \in Frames : IsList(f) => f.conn # 0
    BY SMT DEF Frames, IsList, Connections
  <2>2. \A s \in Seq(Frames) : \A i \in DOMAIN s : s[i] \in Frames
    BY SMT
  <2> QED BY <2>1, <2>2, Zenon DEF Fresh, NoListOf, NoList
<1>5. NoList(to_app') /\ NoList(output') /\ NoList(output_queue')
  <2>1. NoListOf(Tail(to_app), c) /\ NoListOf(output, c) /\ NoListOf(output_queue, c)
    BY <1>0, Sequences, NoListMoves DEF StartingInv
  <2>2. Tail(to_app) \in Seq(Frames)
    BY <1>0, TakeItem
  <2> QED BY <1>0, <1>1, <1>3, <1>4, <2>1, <2>2
<1>6. GetPending'
  <2>1. /\ NoGet(to_node[c]) /\ NoGet(input_queue)
        /\ cmd_frame.conn = c => cmd_frame.cmd # "GET_CONTACTS"
    BY <1>0 DEF StartingInv
  <2>2. cmd_frame.cmd # "GET_CONTACTS"
    <3>1. cmd_frame.cmd = "GET_CONTACTS" => cmd_frame.conn \in Connections
      BY <1>0, CommandTypes
    <3> QED BY <1>0, <1>3, <2>1, <3>1 DEF LoopFresh
  <2>3. /\ [cmd |-> "GET_CONTACTS", conn |-> c] \in Commands
        /\ to_node'[c] = Append(to_node[c], [cmd |-> "GET_CONTACTS", conn |-> c])
    BY <1>0, <1>2, AskAppends
  <2>4. GetLast(to_node'[c])
    BY <1>0, <2>1, <2>3, GetMoves
  <2> QED BY <1>0, <1>1, <2>1, <2>2, <2>4 DEF GetPending
<1>7. iterator' = Stopped
  BY <1>1, <1>3 DEF LoopFresh, StartingInv
<1>8. 0 \in 0..NumContacts + 2 /\ ~(0 > 0) /\ 0 \in Nat
  BY Constants, SMT
<1>9. Runs(to_app', 0, 0) /\ Runs(output', 0, 0) /\ Runs(output_queue', 0, 0)
  BY <1>5, <1>8, RunsEmpty
<1>10. Writing(0)'
  BY <1>6, <1>7 DEF Writing
<1> QED BY <1>8, <1>9, <1>10, Zenon DEF ListingInv

LEMMA ListingStep ==
  ASSUME TypeInv, SessionInv, ConnInv, FreshInv, StartingInv, ListingInv, [Next]_vars
  PROVE  ListingInv'
<1> SUFFICES ASSUME app' = "listing" PROVE ListingInv'
  BY DEF ListingInv
<1>0. /\ to_app \in Seq(Frames) /\ output \in Seq(Frames) /\ output_queue \in Seq(Frames)
      /\ input_queue \in Seq(Commands) /\ to_node \in [Connections -> Seq(Commands)]
      /\ listed \in Seq(1..NumContacts)
  BY Sequences DEF TypeInv, AppType
<1>1. CASE readFrame /\ app = "starting"
  BY <1>1, ListAsked
<1>2. CASE app = "listing"
  <2> DEFINE stages == 0..NumContacts + 2
  <2>1. PICK lo \in stages, a \in stages, b \in stages, hi \in stages :
          /\ Runs(to_app, lo, a) /\ Runs(output, a, b) /\ Runs(output_queue, b, hi)
          /\ lo > 0 => listed = [i \in 1..lo - 1 |-> i]
          /\ Writing(hi)
    BY <1>2, Zenon DEF ListingInv
  <2>2. lo \in Nat /\ a \in Nat /\ b \in Nat /\ hi \in Nat /\ NumContacts \in Nat
    BY Constants, SMT
  <2>3. Reachable /\ client = connections
    BY <1>2, Zenon DEF SessionInv, Reachable
  <2> HIDE DEF stages
  <2> SUFFICES \E l, u, v, w \in stages :
                  /\ Runs(to_app', l, u) /\ Runs(output', u, v) /\ Runs(output_queue', v, w)
                  /\ l > 0 => listed' = [i \in 1..l - 1 |-> i]
                  /\ Writing(w)'
    BY Zenon DEF ListingInv, stages
  <2>4. CASE ServerStep
    <3>0. UNCHANGED <<connections, open, iterator, cmd_frame, listed>>
      BY <2>4, ServerKeeps
    <3>1. UNCHANGED <<to_node, input_queue>> => Writing(hi)'
      BY <2>1, <3>0 DEF Writing, GetPending, NothingPending
    <3>2. CASE Quiet /\ UNCHANGED client
      BY <2>1, <3>0, <3>1, <3>2 DEF Quiet
    <3>3. ~Accepting /\ ~Dropping
      BY <2>3, Sequences, SMT DEF Accepting, Dropping
    <3>4. CASE Taking
      <4>1. /\ output = <<>> /\ output' = output_queue /\ output_queue' = <<>>
            /\ UNCHANGED <<to_node, to_app, input_queue>>
        BY <3>4 DEF Taking
      <4>2. a = b
        BY <2>1, <2>2, <4>1, RunsEmpty
      <4>3. Runs(output_queue', hi, hi)
        BY <2>2, <4>1, RunsEmpty
      <4> QED BY <2>1, <3>0, <3>1, <4>1, <4>2, <4>3
    <3>5. CASE Sending
      <4> DEFINE f == Head(output)
      <4>1. /\ output # <<>> /\ to_app' = Append(to_app, f) /\ output' = Tail(output)
            /\ UNCHANGED <<to_node, input_queue, output_queue>>
        BY <3>5 DEF Sending
      <4>2. f \in Frames
        BY <1>0, <4>1, TakeItem
      <4>3. CASE ~IsList(f)
        <5>1. Runs(to_app', lo, a) /\ Runs(output', a, b)
          BY <1>0, <2>1, <2>2, <4>1, <4>2, <4>3, RunsAppend, RunsTake
        <5> QED BY <2>1, <3>0, <3>1, <4>1, <5>1
      <4>4. CASE IsList(f)
        <5>1. Rank(f) = a /\ a < b /\ Runs(output', a + 1, b)
          BY <1>0, <2>1, <2>2, <4>1, <4>4, RunsTake
        <5>2. Runs(to_app', lo, a + 1)
          BY <1>0, <2>1, <2>2, <4>1, <4>2, <4>4, <5>1, RunsAppend
        <5>3. a + 1 \in stages
          BY <2>2, <5>1, SMT DEF stages
        <5> QED BY <2>1, <3>0, <3>1, <4>1, <5>1, <5>2, <5>3
      <4> QED BY <4>3, <4>4
    <3>6. CASE Receiving
      <4>1. /\ connections \in Connections /\ to_node[connections] \in Seq(Commands)
            /\ to_node[connections] # <<>>
            /\ to_node'[connections] = Tail(to_node[connections])
            /\ input_queue' = Append(input_queue, Head(to_node[connections]))
            /\ Head(to_node[connections]) \in Commands
            /\ UNCHANGED <<to_app, output, output_queue>>
        BY <1>0, <2>3, <3>6, TakeItem DEF Receiving
      <4>2. hi = 0 /\ iterator = Stopped /\ GetPending
        BY <2>1, <4>1 DEF Writing, NothingPending
      <4>3. /\ GetLast(to_node[connections]) /\ NoGet(input_queue) /\ cmd_frame.cmd # "GET_CONTACTS"
        BY <4>1, <4>2 DEF GetPending
      <4>4. GetPending'
        <5>1. CASE Head(to_node[connections]).cmd = "GET_CONTACTS"
          <6>1. to_node'[connections] = <<>> /\ GetLast(input_queue')
            BY <1>0, <4>1, <4>3, <5>1, GetMoves
          <6> QED BY <3>0, <4>3, <6>1 DEF GetPending
        <5>2. CASE Head(to_node[connections]).cmd # "GET_CONTACTS"
          <6>1. GetLast(to_node'[connections]) /\ NoGet(input_queue')
            BY <1>0, <4>1, <4>3, <5>2, GetMoves, NoGetMoves
          <6> QED BY <3>0, <4>3, <6>1 DEF GetPending
        <5> QED BY <5>1, <5>2
      <4>5. Writing(hi)'
        BY <3>0, <4>2, <4>4 DEF Writing
      <4> QED BY <2>1, <3>0, <4>1, <4>5
    <3> QED BY <2>3, <2>4, <3>2, <3>3, <3>4, <3>5, <3>6, ServerCases
  <2>5. CASE loop
    <3>0. UNCHANGED <<to_app, output, listed>>
      BY <2>5, LoopKeeps
    <3>1. hi \in 0..NumContacts + 2
      BY DEF stages
    <3>2. CASE /\ Writing(hi)'
               /\ \/ UNCHANGED output_queue
                  \/ \E f \in Frames : ~IsList(f) /\ output_queue' = Append(output_queue, f)
      <4>1. Runs(output_queue', b, hi)
        <5>1. CASE UNCHANGED output_queue
          BY <2>1, <5>1
        <5>2. ASSUME NEW f \in Frames, ~IsList(f), output_queue' = Append(output_queue, f)
              PROVE  Runs(output_queue', b, hi)
          BY <1>0, <2>1, <2>2, <5>2, RunsAppend
        <5> QED BY <3>2, <5>1, <5>2
      <4> QED BY <2>1, <3>0, <3>2, <4>1
    <3>3. CASE /\ hi + 1 \in 0..NumContacts + 2 /\ Writing(hi + 1)'
               /\ \E f \in Frames : IsList(f) /\ Rank(f) = hi /\ output_queue' = Append(output_queue, f)
      <4>1. Runs(output_queue', b, hi + 1) /\ hi + 1 \in stages
        BY <1>0, <2>1, <2>2, <3>3, RunsAppend DEF stages
      <4> QED BY <2>1, <3>0, <3>3, <4>1
    <3> QED BY <2>1, <2>5, <3>1, <3>2, <3>3, LoopWriting
  <2>6. CASE queueMessage
    <3>1. UNCHANGED <<connections, to_node, to_app, output, listed>>
      BY <2>6, LoopKeeps
    <3>2. UNCHANGED <<input_queue, output_queue, iterator, cmd_frame>>
      BY <2>6, ArrivalKeeps
    <3> QED BY <2>1, <3>1, <3>2 DEF Writing, GetPending, NothingPending
  <2>7. CASE readFrame
    <3> DEFINE f == Head(to_app)
    <3>1. to_app # <<>> /\ to_app' = Tail(to_app) /\ UNCHANGED connections
      BY <2>7, ReadEffect
    <3>2. UNCHANGED <<output_queue, output, input_queue, iterator, cmd_frame>>
      BY <2>7, AppKeeps
    <3>3. UNCHANGED to_node /\ f.code \notin {"END_OF_CONTACTS", "ERR"}
      BY <1>2, <2>7, ReadMoves
    <3>4. Writing(hi)'
      BY <2>1, <3>1, <3>2, <3>3 DEF Writing, GetPending, NothingPending
    <3>5. f \in Frames
      BY <1>0, <3>1, TakeItem
    <3>6. CASE ~IsList(f)
      <4>1. Runs(to_app', lo, a)
        BY <1>0, <2>1, <2>2, <3>1, <3>6, RunsTake
      <4>2. UNCHANGED listed
        BY <2>7, <3>6 DEF readFrame, IsList
      <4> QED BY <2>1, <3>2, <3>4, <4>1, <4>2
    <3>7. CASE IsList(f)
      <4>1. Rank(f) = lo /\ lo < a /\ Runs(to_app', lo + 1, a)
        BY <1>0, <2>1, <2>2, <3>1, <3>7, RunsTake
      <4>2. lo + 1 \in stages /\ lo + 1 > 0 /\ (lo + 1) - 1 = lo
        BY <2>2, <4>1, SMT DEF stages
      <4>3. CASE f.code = "CONTACTS_START"
        <5>1. listed' = <<>>
          BY <2>7, <4>3 DEF readFrame
        <5>2. lo = 0
          BY <4>1, <4>3 DEF Rank
        <5>3. [i \in 1..0 |-> i] = <<>>
          BY SMT
        <5>4. listed' = [i \in 1..(lo + 1) - 1 |-> i]
          BY <4>2, <5>1, <5>2, <5>3
        <5> QED BY <2>1, <3>2, <3>4, <4>1, <4>2, <5>4
      <4>4. CASE f.code = "CONTACT"
        <5>1. listed' = Append(listed, f.arg)
          BY <2>7, <4>4 DEF readFrame
        <5>2. f.arg = lo /\ lo \in 1..NumContacts
          BY <3>5, <4>1, <4>4, FrameArgs DEF Rank
        <5>3. lo > 0
          BY <5>2, SMT
        <5>4. listed = [i \in 1..lo - 1 |-> i]
          BY <2>1, <5>3
        <5>5. Append([i \in 1..lo - 1 |-> i], lo) = [i \in 1..lo |-> i]
          <6>1. [i \in 1..lo - 1 |-> i] \in Seq(1..NumContacts) /\ Len([i \in 1..lo - 1 |-> i]) = lo - 1
            BY <1>0, <2>2, <5>2, <5>4, SMT
          <6> QED BY <2>2, <5>2, <6>1, SMT
        <5>6. listed' = [i \in 1..(lo + 1) - 1 |-> i]
          BY <4>2, <5>1, <5>2, <5>4, <5>5
        <5> QED BY <2>1, <3>2, <3>4, <4>1, <4>2, <5>6
      <4> QED BY <3>3, <3>7, <4>3, <4>4 DEF IsList
    <3> QED BY <3>6, <3>7
  <2>8. CASE UNCHANGED vars
    <3>1. UNCHANGED <<connections, to_node, to_app, output, input_queue, output_queue, iterator,
                      cmd_frame, listed>>
      BY <2>8, StutterKeeps
    <3> QED BY <2>1, <3>1 DEF Writing, GetPending, NothingPending
  <2>9. ~connect /\ ~disconnect
    BY <1>2 DEF connect, disconnect
  <2> QED BY <2>4, <2>5, <2>6, <2>7, <2>8, <2>9 DEF Next
<1>3. app # "listing" => readFrame /\ app = "starting"
  <2>1. CASE ServerStep
    BY <2>1, ServerKeeps
  <2>2. CASE loop \/ queueMessage
    BY <2>2, LoopKeeps
  <2>3. CASE connect \/ disconnect
    BY <2>3 DEF connect, disconnect
  <2>4. CASE readFrame
    BY <2>4, ReadMoves
  <2>5. CASE UNCHANGED vars
    BY <2>5, StutterKeeps
  <2> QED BY <2>1, <2>2, <2>3, <2>4, <2>5 DEF Next
<1> QED BY <1>1, <1>2, <1>3

\* A list of contacts ends after all of them, and is never refused because the
\* last connection left one unfinished.
LEMMA ListingInvComplete ==
  ASSUME TypeInv, ListingInv
  PROVE  ListComplete
<1> SUFFICES ASSUME app = "listing", to_app # <<>>
             PROVE  /\ Head(to_app).code # "ERR"
                    /\ Head(to_app).code = "END_OF_CONTACTS" => listed = [i \in 1..NumContacts |-> i]
  BY DEF ListComplete
<1>1. PICK lo \in 0..NumContacts + 2, a \in 0..NumContacts + 2 :
        Runs(to_app, lo, a) /\ (lo > 0 => listed = [i \in 1..lo - 1 |-> i])
  BY Zenon DEF ListingInv
<1>2. lo \in Nat /\ a \in Nat /\ NumContacts \in Nat
  BY Constants, SMT
<1>3. IsList(Head(to_app)) => Rank(Head(to_app)) = lo
  BY <1>1, <1>2, Sequences, RunsTake
<1>4. Head(to_app).code # "ERR"
  <2>1. ASSUME Head(to_app).code = "ERR" PROVE lo = -1
    BY <1>3, <2>1 DEF IsList, Rank
  <2> QED BY <1>2, <2>1, SMT
<1>5. ASSUME Head(to_app).code = "END_OF_CONTACTS" PROVE listed = [i \in 1..NumContacts |-> i]
  <2>1. lo = NumContacts + 1
    BY <1>3, <1>5 DEF IsList, Rank
  <2>2. lo > 0 /\ lo - 1 = NumContacts
    BY <1>2, <2>1, SMT
  <2> QED BY <1>1, <2>2
<1> QED BY <1>4, <1>5

\* A list of contacts ends after all of them, and is never refused because the
\* last connection left one unfinished.
THEOREM AlwaysComplete == Spec => []ListComplete
<1> DEFINE Inv == TypeInv /\ SessionInv /\ ConnInv /\ FreshInv /\ StartingInv /\ ListingInv
<1>1. Init => Inv
  BY InitType, InitSession
<1>2. Inv /\ [Next]_vars => Inv'
  BY TypeStep, SessionStep, ConnStep, FreshStep, StartingStep, ListingStep
<1>3. Inv => ListComplete
  BY ListingInvComplete
<1> QED BY <1>1, <1>2, <1>3, PTL DEF Spec

-----------------------------------------------------------------------------
(***************************************************************************)
(* The connections that ask, the connections that are answered, and the    *)
(* messages that the answers carry.                                        *)
(***************************************************************************)

CarriedBy(f) == IF f.code = "MSG" THEN {f.arg} ELSE {}
Carried(s) == {s[i].arg : i \in {k \in DOMAIN s : s[k].code = "MSG"}}

LEMMA AnswersAppended ==
  ASSUME NEW s \in Seq(Frames), NEW f \in Frames
  PROVE  /\ Answering(Append(s, f)) = Answering(s) \union AnswerOf(f)
         /\ Carried(Append(s, f)) = Carried(s) \union CarriedBy(f)
         /\ AnsweredOnce(s) /\ Answering(s) \intersect AnswerOf(f) = {} => AnsweredOnce(Append(s, f))
<1> DEFINE t == Append(s, f)
<1> HIDE DEF IsAnswer
<1>1. /\ \A i \in DOMAIN s : i \in DOMAIN t /\ t[i] = s[i] /\ s[i] \in Frames
      /\ \E n \in DOMAIN t :
           /\ t[n] = f
           /\ \A i \in DOMAIN t : i \in DOMAIN s \/ i = n
           /\ \A i \in DOMAIN s : i < n /\ ~(n < i)
           /\ ~(n < n)
  BY AppendPlaces
<1> HIDE DEF t
<1>2. PICK n \in DOMAIN t : t[n] = f /\ \A i \in DOMAIN t : i \in DOMAIN s \/ i = n
  BY <1>1
<1>3. \A x : x \in Answering(t) <=> x \in Answering(s) \/ (IsAnswer(f) /\ x = f.conn)
  BY <1>1, <1>2, Zenon DEF Answering
<1>4. Answering(t) = Answering(s) \union AnswerOf(f)
  BY <1>3 DEF AnswerOf
<1>5. \A x : x \in Carried(t) <=> x \in Carried(s) \/ (f.code = "MSG" /\ x = f.arg)
  BY <1>1, <1>2, Zenon DEF Carried
<1>6. Carried(t) = Carried(s) \union CarriedBy(f)
  BY <1>5 DEF CarriedBy
<1>7. ASSUME AnsweredOnce(s), Answering(s) \intersect AnswerOf(f) = {} PROVE AnsweredOnce(t)
  <2>1. \A i \in DOMAIN s : IsAnswer(s[i]) => s[i].conn \in Answering(s)
    BY Zenon DEF Answering
  <2>2. IsAnswer(f) => f.conn \notin Answering(s)
    BY <1>7 DEF AnswerOf
  <2> QED BY <1>1, <1>2, <1>7, <2>1, <2>2, Zenon DEF AnsweredOnce
<1> QED BY <1>4, <1>6, <1>7 DEF t

LEMMA AnswersTaken ==
  ASSUME NEW s \in Seq(Frames), s # <<>>
  PROVE  /\ Answering(s) = Answering(Tail(s)) \union AnswerOf(Head(s))
         /\ Carried(s) = Carried(Tail(s)) \union CarriedBy(Head(s))
         /\ AnsweredOnce(s) =>
              AnsweredOnce(Tail(s)) /\ Answering(Tail(s)) \intersect AnswerOf(Head(s)) = {}
<1> DEFINE t == Tail(s)  f == Head(s)
<1>1. /\ f = s[1] /\ 1 \in DOMAIN s
      /\ \A i \in DOMAIN t : i + 1 \in DOMAIN s /\ t[i] = s[i + 1] /\ i + 1 # 1
      /\ \A i \in DOMAIN s : i = 1 \/ \E j \in DOMAIN t : i = j + 1
      /\ \A i, j \in DOMAIN t : i = j <=> i + 1 = j + 1
  <2>1. \A i : 1 < i => i # 1
    BY SMT
  <2> QED BY <2>1, TailPlaces
<1> HIDE DEF t, f, IsAnswer
<1>2. /\ \A i \in DOMAIN s : s[i] = f \/ \E j \in DOMAIN t : t[j] = s[i]
      /\ \A j \in DOMAIN t : \E i \in DOMAIN s : s[i] = t[j]
      /\ \E i \in DOMAIN s : s[i] = f
  BY TailItems DEF t, f
<1>3. \A x : x \in Answering(s) <=> x \in Answering(t) \/ (IsAnswer(f) /\ x = f.conn)
  <2>1. \A i \in DOMAIN s : IsAnswer(s[i]) => s[i].conn \in Answering(t) \/ (IsAnswer(f) /\ s[i].conn = f.conn)
    BY <1>2 DEF Answering
  <2>2. \A j \in DOMAIN t : IsAnswer(t[j]) => t[j].conn \in Answering(s)
    BY <1>2 DEF Answering
  <2>3. IsAnswer(f) => f.conn \in Answering(s)
    BY <1>2 DEF Answering
  <2> QED BY <2>1, <2>2, <2>3, Zenon DEF Answering
<1>4. Answering(s) = Answering(t) \union AnswerOf(f)
  BY <1>3 DEF AnswerOf
<1>5. \A x : x \in Carried(s) <=> x \in Carried(t) \/ (f.code = "MSG" /\ x = f.arg)
  <2>1. \A i \in DOMAIN s : s[i].code = "MSG" => s[i].arg \in Carried(t) \/ (f.code = "MSG" /\ s[i].arg = f.arg)
    BY <1>2 DEF Carried
  <2>2. \A j \in DOMAIN t : t[j].code = "MSG" => t[j].arg \in Carried(s)
    BY <1>2 DEF Carried
  <2>3. f.code = "MSG" => f.arg \in Carried(s)
    BY <1>2 DEF Carried
  <2> QED BY <2>1, <2>2, <2>3, Zenon DEF Carried
<1>6. Carried(s) = Carried(t) \union CarriedBy(f)
  BY <1>5 DEF CarriedBy
<1>7. ASSUME AnsweredOnce(s) PROVE AnsweredOnce(t) /\ Answering(t) \intersect AnswerOf(f) = {}
  <2>1. AnsweredOnce(t)
    <3>1. ASSUME NEW i \in DOMAIN t, NEW j \in DOMAIN t, IsAnswer(t[i]), IsAnswer(t[j]), t[i].conn = t[j].conn
          PROVE  i = j
      <4>1. i + 1 \in DOMAIN s /\ j + 1 \in DOMAIN s /\ t[i] = s[i + 1] /\ t[j] = s[j + 1]
        BY <1>1
      <4>2. i + 1 = j + 1
        BY <1>7, <3>1, <4>1 DEF AnsweredOnce
      <4> QED BY <1>1, <4>2
    <3> QED BY <3>1, Zenon DEF AnsweredOnce
  <2>2. ASSUME NEW j \in DOMAIN t, IsAnswer(t[j]), IsAnswer(f) PROVE t[j].conn # f.conn
    <3>1. j + 1 \in DOMAIN s /\ t[j] = s[j + 1] /\ j + 1 # 1
      BY <1>1
    <3> QED BY <1>1, <1>7, <2>2, <3>1 DEF AnsweredOnce
  <2>3. IsAnswer(f) => f.conn \notin Answering(t)
    BY <2>2, Zenon DEF Answering
  <2> QED BY <2>1, <2>3 DEF AnswerOf
<1> QED BY <1>4, <1>6, <1>7 DEF t, f

LEMMA AnswersEmpty == Answering(<<>>) = {} /\ Carried(<<>>) = {} /\ AnsweredOnce(<<>>)
<1>1. DOMAIN <<>> = {}
  BY SMT
<1> QED BY <1>1, Zenon DEF Answering, Carried, AnsweredOnce

LEMMA AsksAppended ==
  ASSUME NEW s \in Seq(Commands), NEW d \in Commands
  PROVE  /\ Asking(Append(s, d)) = Asking(s) \union AskOf(d)
         /\ AskedOnce(s) /\ Asking(s) \intersect AskOf(d) = {} => AskedOnce(Append(s, d))
<1> DEFINE t == Append(s, d)
<1> HIDE DEF IsAsk
<1>1. /\ \A i \in DOMAIN s : i \in DOMAIN t /\ t[i] = s[i]
      /\ \E n \in DOMAIN t : t[n] = d /\ \A i \in DOMAIN t : i \in DOMAIN s \/ i = n
  BY AppendPlaces
<1> HIDE DEF t
<1>2. PICK n \in DOMAIN t : t[n] = d /\ \A i \in DOMAIN t : i \in DOMAIN s \/ i = n
  BY <1>1
<1>3. \A x : x \in Asking(t) <=> x \in Asking(s) \/ (IsAsk(d) /\ x = d.conn)
  BY <1>1, <1>2, Zenon DEF Asking
<1>4. Asking(t) = Asking(s) \union AskOf(d)
  BY <1>3 DEF AskOf
<1>5. ASSUME AskedOnce(s), Asking(s) \intersect AskOf(d) = {} PROVE AskedOnce(t)
  <2>1. \A i \in DOMAIN s : IsAsk(s[i]) => s[i].conn \in Asking(s)
    BY Zenon DEF Asking
  <2>2. IsAsk(d) => d.conn \notin Asking(s)
    BY <1>5 DEF AskOf
  <2> QED BY <1>1, <1>2, <1>5, <2>1, <2>2, Zenon DEF AskedOnce
<1> QED BY <1>4, <1>5 DEF t

LEMMA AsksTaken ==
  ASSUME NEW s \in Seq(Commands), s # <<>>
  PROVE  /\ Asking(s) = Asking(Tail(s)) \union AskOf(Head(s))
         /\ AskedOnce(s) => AskedOnce(Tail(s)) /\ Asking(Tail(s)) \intersect AskOf(Head(s)) = {}
<1> DEFINE t == Tail(s)  d == Head(s)
<1>1. /\ d = s[1] /\ 1 \in DOMAIN s
      /\ \A i \in DOMAIN t : i + 1 \in DOMAIN s /\ t[i] = s[i + 1] /\ i + 1 # 1
      /\ \A i \in DOMAIN s : i = 1 \/ \E j \in DOMAIN t : i = j + 1
      /\ \A i, j \in DOMAIN t : i = j <=> i + 1 = j + 1
  <2>1. \A i : 1 < i => i # 1
    BY SMT
  <2> QED BY <2>1, TailPlaces
<1> HIDE DEF t, d, IsAsk
<1>2. /\ \A i \in DOMAIN s : s[i] = d \/ \E j \in DOMAIN t : t[j] = s[i]
      /\ \A j \in DOMAIN t : \E i \in DOMAIN s : s[i] = t[j]
      /\ \E i \in DOMAIN s : s[i] = d
  BY TailItems DEF t, d
<1>3. \A x : x \in Asking(s) <=> x \in Asking(t) \/ (IsAsk(d) /\ x = d.conn)
  <2>1. \A i \in DOMAIN s : IsAsk(s[i]) => s[i].conn \in Asking(t) \/ (IsAsk(d) /\ s[i].conn = d.conn)
    BY <1>2 DEF Asking
  <2>2. \A j \in DOMAIN t : IsAsk(t[j]) => t[j].conn \in Asking(s)
    BY <1>2 DEF Asking
  <2>3. IsAsk(d) => d.conn \in Asking(s)
    BY <1>2 DEF Asking
  <2> QED BY <2>1, <2>2, <2>3, Zenon DEF Asking
<1>4. Asking(s) = Asking(t) \union AskOf(d)
  BY <1>3 DEF AskOf
<1>5. ASSUME AskedOnce(s) PROVE AskedOnce(t) /\ Asking(t) \intersect AskOf(d) = {}
  <2>1. AskedOnce(t)
    <3>1. ASSUME NEW i \in DOMAIN t, NEW j \in DOMAIN t, IsAsk(t[i]), IsAsk(t[j]), t[i].conn = t[j].conn
          PROVE  i = j
      <4>1. i + 1 \in DOMAIN s /\ j + 1 \in DOMAIN s /\ t[i] = s[i + 1] /\ t[j] = s[j + 1]
        BY <1>1
      <4>2. i + 1 = j + 1
        BY <1>5, <3>1, <4>1 DEF AskedOnce
      <4> QED BY <1>1, <4>2
    <3> QED BY <3>1, Zenon DEF AskedOnce
  <2>2. ASSUME NEW j \in DOMAIN t, IsAsk(t[j]), IsAsk(d) PROVE t[j].conn # d.conn
    <3>1. j + 1 \in DOMAIN s /\ t[j] = s[j + 1] /\ j + 1 # 1
      BY <1>1
    <3> QED BY <1>1, <1>5, <2>2, <3>1 DEF AskedOnce
  <2>3. IsAsk(d) => d.conn \notin Asking(t)
    BY <2>2, Zenon DEF Asking
  <2> QED BY <2>1, <2>3 DEF AskOf
<1> QED BY <1>4, <1>5 DEF t, d

LEMMA AsksEmpty == Asking(<<>>) = {} /\ AskedOnce(<<>>)
<1>1. DOMAIN <<>> = {}
  BY SMT
<1> QED BY <1>1, Zenon DEF Asking, AskedOnce

LEMMA RangeMoves ==
  ASSUME NEW S, NEW s \in Seq(S)
  PROVE  /\ \A e \in S : RangeOf(Append(s, e)) = RangeOf(s) \union {e}
         /\ s # <<>> => RangeOf(s) = RangeOf(Tail(s)) \union {Head(s)}
<1>1. ASSUME NEW e \in S PROVE RangeOf(Append(s, e)) = RangeOf(s) \union {e}
  <2> DEFINE t == Append(s, e)
  <2>1. /\ \A i \in DOMAIN s : i \in DOMAIN t /\ t[i] = s[i]
        /\ \E n \in DOMAIN t : t[n] = e /\ \A i \in DOMAIN t : i \in DOMAIN s \/ i = n
    BY AppendPlaces
  <2> HIDE DEF t
  <2>2. \A x : x \in RangeOf(t) <=> x \in RangeOf(s) \/ x = e
    BY <2>1, Zenon DEF RangeOf
  <2>3. RangeOf(t) = RangeOf(s) \union {e}
    BY <2>2
  <2> QED BY <2>3 DEF t
<1>2. ASSUME s # <<>> PROVE RangeOf(s) = RangeOf(Tail(s)) \union {Head(s)}
  <2> DEFINE t == Tail(s)
  <2>1. /\ \A i \in DOMAIN s : s[i] = Head(s) \/ \E j \in DOMAIN t : t[j] = s[i]
        /\ \A j \in DOMAIN t : \E i \in DOMAIN s : s[i] = t[j]
        /\ \E i \in DOMAIN s : s[i] = Head(s)
    BY <1>2, TailItems
  <2> HIDE DEF t
  <2>2. \A x : x \in RangeOf(s) <=> \E i \in DOMAIN s : x = s[i]
    BY Zenon DEF RangeOf
  <2>3. \A x : x \in RangeOf(t) <=> \E i \in DOMAIN t : x = t[i]
    BY Zenon DEF RangeOf
  <2>4. \A x : x \in RangeOf(s) <=> x \in RangeOf(t) \/ x = Head(s)
    BY <2>1, <2>2, <2>3
  <2>5. RangeOf(s) = RangeOf(t) \union {Head(s)}
    BY <2>4
  <2> QED BY <2>5 DEF t
<1> QED BY <1>1, <1>2

-----------------------------------------------------------------------------
(***************************************************************************)
(* Every connection has at most one request for a message under way, or    *)
(* the answer to it.                                                       *)
(***************************************************************************)

\* A request or an answer moves on to the next place, or is lost.
LEMMA ApartMoves ==
  ASSUME NEW N, NEW I, NEW C, NEW Q, NEW O, NEW T, Apart(N, I, C, Q, O, T)
  PROVE  /\ Apart(N, {}, C, {}, O, T)
         /\ \A N2, a : N = N2 \union a /\ N2 \intersect a = {} => Apart(N2, I \union a, C, Q, O, T)
         /\ \A I2, a : I = I2 \union a /\ I2 \intersect a = {} /\ C = {} => Apart(N, I2, a, Q, O, T)
         /\ Apart(N, I, {}, Q \union C, O, T)
         /\ O = {} => Apart(N, I, C, {}, Q, T)
         /\ \A O2, a : O = O2 \union a /\ O2 \intersect a = {} => Apart(N, I, C, Q, O2, T \union a)
         /\ \A O2 : O2 \subseteq O => Apart(N, I, C, Q, O2, T)
         /\ \A T2 : T2 \subseteq T => Apart(N, I, C, Q, O, T2)
         /\ \A T2, x : T2 \subseteq T /\ x \notin N \union I \union C \union Q \union O \union T2 =>
              Apart(N \union {x}, I, C, Q, O, T2)
<1>1. Apart(N, {}, C, {}, O, T)
  BY DEF Apart
<1>2. ASSUME NEW N2, NEW a, N = N2 \union a, N2 \intersect a = {}
      PROVE  Apart(N2, I \union a, C, Q, O, T)
  BY <1>2, SMT DEF Apart
<1>3. ASSUME NEW I2, NEW a, I = I2 \union a, I2 \intersect a = {}, C = {}
      PROVE  Apart(N, I2, a, Q, O, T)
  BY <1>3, SMT DEF Apart
<1>4. Apart(N, I, {}, Q \union C, O, T)
  BY SMT DEF Apart
<1>5. O = {} => Apart(N, I, C, {}, Q, T)
  BY SMT DEF Apart
<1>6. ASSUME NEW O2, NEW a, O = O2 \union a, O2 \intersect a = {}
      PROVE  Apart(N, I, C, Q, O2, T \union a)
  BY <1>6, SMT DEF Apart
<1>7. ASSUME NEW O2, O2 \subseteq O PROVE Apart(N, I, C, Q, O2, T)
  BY <1>7, SMT DEF Apart
<1>8. ASSUME NEW T2, T2 \subseteq T PROVE Apart(N, I, C, Q, O, T2)
  BY <1>8, SMT DEF Apart
<1>9. ASSUME NEW T2, NEW x, T2 \subseteq T, x \notin N \union I \union C \union Q \union O \union T2
      PROVE  Apart(N \union {x}, I, C, Q, O, T2)
  BY <1>9, SMT DEF Apart
<1> QED BY <1>1, <1>2, <1>3, <1>4, <1>5, <1>6, <1>7, <1>8, <1>9

LEMMA TokenConns ==
  ASSUME TypeInv, ConnInv
  PROVE  /\ \A k \in Connections : Asking(to_node[k]) \subseteq {k}
         /\ AskingNode \subseteq 1..connections
         /\ Asking(input_queue) \subseteq {client} /\ Asking(input_queue) \subseteq 1..client
         /\ AskingCmd \subseteq 1..client
         /\ Answering(output_queue) \subseteq 1..client
         /\ Answering(output) \subseteq 1..client /\ Answering(to_app) \subseteq 1..client
<1>0. /\ client \in Nat /\ connections \in Nat /\ client <= connections
      /\ \A k \in Connections : k \in Nat /\ 1 <= k
  BY Sequences, SMT DEF Connections
<1>1. ASSUME NEW k \in Connections PROVE Asking(to_node[k]) \subseteq {k}
  BY ConnParts DEF OfConn, Asking
<1>2. ASSUME NEW k \in Connections, Asking(to_node[k]) # {} PROVE k \in 1..connections
  <2>1. to_node[k] # <<>>
    BY <1>2, AsksEmpty
  <2>2. ~(k > connections)
    BY <2>1, ConnParts
  <2> QED BY <1>0, <2>2, SMT
<1>3. Asking(input_queue) \subseteq {client}
  BY ConnParts DEF OfConn, Asking
<1>4. Asking(input_queue) \subseteq 1..client
  <2>1. \A i \in DOMAIN input_queue : input_queue[i].conn \in Connections
    <3>1. \A i \in DOMAIN input_queue : input_queue[i] \in Commands
      BY Sequences, SMT
    <3> QED BY <3>1, CommandTypes
  <2>2. \A x \in Asking(input_queue) : x \in Connections /\ x = client
    BY <1>3, <2>1 DEF Asking
  <2> QED BY <1>0, <2>2, SMT
<1>5. AskingCmd \subseteq 1..client
  <2>1. IsAsk(cmd_frame) => cmd_frame.conn \in Connections
    BY Sequences, CommandTypes DEF IsAsk
  <2>2. cmd_frame.conn <= client
    BY ConnParts
  <2>3. IsAsk(cmd_frame) => cmd_frame.conn \in 1..client
    BY <1>0, <2>1, <2>2, SMT
  <2> QED BY <2>3 DEF AskingCmd, AskOf
<1>6. ASSUME NEW s \in Seq(Frames), UpTo(s, client) PROVE Answering(s) \subseteq 1..client
  <2>1. \A f \in Frames : IsAnswer(f) => f.conn \in Connections
    BY SMT DEF Frames, IsAnswer
  <2>2. ASSUME NEW i \in DOMAIN s, IsAnswer(s[i]) PROVE s[i].conn \in 1..client
    <3>1. s[i] \in Frames /\ s[i].conn <= client
      BY <1>6, SMT DEF UpTo
    <3>2. s[i].conn \in Connections
      BY <2>1, <2>2, <3>1
    <3>3. s[i].conn \in Nat /\ 1 <= s[i].conn
      BY <1>0, <3>2
    <3> QED BY <1>0, <3>1, <3>3, SMT
  <2> QED BY <2>2, Zenon DEF Answering
<1>7. AskingNode \subseteq 1..connections
  BY <1>2 DEF AskingNode
<1> QED BY <1>1, <1>3, <1>4, <1>5, <1>6, <1>7, Sequences, ConnParts

\* A command on the wire is received.
LEMMA ReceivingFlow ==
  ASSUME TypeInv, ConnInv, TokenInv, Receiving
  PROVE  LET a == AskOf(Head(to_node[client])) IN
         /\ AskingNode = AskingNode' \union a /\ AskingNode' \intersect a = {}
         /\ Asking(input_queue') = Asking(input_queue) \union a
         /\ AskedOnce(input_queue') /\ \A k \in Connections : AskedOnce(to_node'[k])
<1> DEFINE d == Head(to_node[client])
           a == AskOf(d)
<1>0. input_queue \in Seq(Commands) /\ to_node \in [Connections -> Seq(Commands)]
  BY Sequences
<1>1. /\ client \in Connections /\ to_node[client] \in Seq(Commands) /\ to_node[client] # <<>>
      /\ \A k \in Connections \ {client} : to_node'[k] = to_node[k]
      /\ to_node'[client] = Tail(to_node[client])
      /\ input_queue' = Append(input_queue, d) /\ d \in Commands
  BY <1>0, TakeItem DEF Receiving
<1>2. /\ Asking(to_node[client]) = Asking(to_node'[client]) \union a
      /\ AskedOnce(to_node'[client]) /\ Asking(to_node'[client]) \intersect a = {}
  BY <1>1, AsksTaken DEF TokenInv
<1>3. Asking(to_node[client]) \subseteq {client}
  BY <1>1, TokenConns
<1> HIDE DEF a, d
<1>4. /\ a = {} => Asking(to_node'[client]) = Asking(to_node[client])
      /\ a # {} => a = {client} /\ Asking(to_node'[client]) = {} /\ Asking(to_node[client]) # {}
  BY <1>2, <1>3
<1>5. AskingNode = AskingNode' \union a /\ AskingNode' \intersect a = {}
  BY <1>1, <1>4 DEF AskingNode
<1>6. Asking(input_queue) \intersect a = {}
  BY <1>5 DEF TokenInv, Apart
<1>7. Asking(input_queue') = Asking(input_queue) \union a /\ AskedOnce(input_queue')
  BY <1>0, <1>1, <1>6, AsksAppended DEF TokenInv, a
<1>8. \A k \in Connections : AskedOnce(to_node'[k])
  BY <1>1, <1>2 DEF TokenInv
<1> QED BY <1>5, <1>7, <1>8 DEF a, d

\* The app asks for a message, or for something else.
LEMMA AskFlow ==
  ASSUME TypeInv, ConnInv, TokenInv, NEW c \in Connections,
         NEW cmd \in {"APP_START", "GET_CONTACTS", "SYNC_NEXT_MESSAGE"}, Ask(cmd, c)
  PROVE  /\ cmd = "SYNC_NEXT_MESSAGE" /\ c \notin AskingNode =>
              AskingNode' = AskingNode \union {c} /\ \A k \in Connections : AskedOnce(to_node'[k])
         /\ cmd # "SYNC_NEXT_MESSAGE" =>
              AskingNode' = AskingNode /\ \A k \in Connections : AskedOnce(to_node'[k])
<1> DEFINE d == [cmd |-> cmd, conn |-> c]
<1>1. /\ d \in Commands /\ to_node[c] \in Seq(Commands)
      /\ to_node'[c] = Append(to_node[c], d)
      /\ \A j \in Connections : j # c => to_node'[j] = to_node[j]
  BY AskAppends, Sequences
<1>2. d.cmd = cmd /\ d.conn = c
  OBVIOUS
<1> HIDE DEF d
<1>3. /\ Asking(to_node'[c]) = Asking(to_node[c]) \union AskOf(d)
      /\ Asking(to_node[c]) \intersect AskOf(d) = {} => AskedOnce(to_node'[c])
  BY <1>1, AsksAppended DEF TokenInv
<1>4. cmd = "SYNC_NEXT_MESSAGE" => AskOf(d) = {c}
  BY <1>2 DEF AskOf, IsAsk
<1>5. cmd # "SYNC_NEXT_MESSAGE" => AskOf(d) = {}
  BY <1>2 DEF AskOf, IsAsk
<1>6. ASSUME cmd = "SYNC_NEXT_MESSAGE", c \notin AskingNode
      PROVE  AskingNode' = AskingNode \union {c} /\ AskedOnce(to_node'[c])
  <2>1. Asking(to_node[c]) = {}
    BY <1>6 DEF AskingNode
  <2>2. Asking(to_node'[c]) # {} /\ AskedOnce(to_node'[c])
    BY <1>3, <1>4, <1>6, <2>1
  <2> QED BY <1>1, <2>2 DEF AskingNode
<1>7. ASSUME cmd # "SYNC_NEXT_MESSAGE" PROVE AskingNode' = AskingNode /\ AskedOnce(to_node'[c])
  <2>1. Asking(to_node'[c]) = Asking(to_node[c]) /\ AskedOnce(to_node'[c])
    BY <1>3, <1>5, <1>7
  <2> QED BY <1>1, <2>1 DEF AskingNode
<1> QED BY <1>1, <1>6, <1>7 DEF TokenInv

\* A frame is sent to the app, or is dropped.
LEMMA SendingFlow ==
  ASSUME TypeInv, TokenInv, Sending
  PROVE  LET a == AnswerOf(Head(output)) IN
         /\ Answering(output) = Answering(output') \union a /\ Answering(output') \intersect a = {}
         /\ Answering(to_app') = Answering(to_app) \union a
         /\ Carried(output) = Carried(output') \union CarriedBy(Head(output))
         /\ Carried(to_app') = Carried(to_app) \union CarriedBy(Head(output))
         /\ AnsweredOnce(output') /\ AnsweredOnce(to_app')
<1> DEFINE f == Head(output)
           a == AnswerOf(f)
<1>1. /\ output # <<>> /\ to_app' = Append(to_app, f) /\ output' = Tail(output)
      /\ output \in Seq(Frames) /\ to_app \in Seq(Frames) /\ f \in Frames
  BY Sequences, TakeItem DEF Sending
<1>2. /\ Answering(output) = Answering(output') \union a /\ Answering(output') \intersect a = {}
      /\ Carried(output) = Carried(output') \union CarriedBy(f) /\ AnsweredOnce(output')
  BY <1>1, AnswersTaken DEF TokenInv
<1> HIDE DEF f, a
<1>3. Answering(to_app) \intersect a = {}
  BY <1>2 DEF TokenInv, Apart
<1>4. /\ Answering(to_app') = Answering(to_app) \union a
      /\ Carried(to_app') = Carried(to_app) \union CarriedBy(f) /\ AnsweredOnce(to_app')
  BY <1>1, <1>3, AnswersAppended DEF TokenInv, a
<1> QED BY <1>2, <1>4 DEF f, a

LEMMA DroppingFlow ==
  ASSUME TypeInv, TokenInv, Dropping
  PROVE  /\ Answering(output') \subseteq Answering(output) /\ AnsweredOnce(output')
         /\ \/ output' = <<>>
            \/ /\ Answering(output) = Answering(output') \union AnswerOf(Head(output))
               /\ Answering(output') \intersect AnswerOf(Head(output)) = {}
               /\ Carried(output) = Carried(output') \union CarriedBy(Head(output))
<1>1. output # <<>> /\ output' \in {Tail(output), <<>>} /\ output \in Seq(Frames)
  BY Sequences DEF Dropping
<1>2. AnsweredOnce(output)
  BY DEF TokenInv
<1>3. CASE output' = <<>>
  BY <1>3, AnswersEmpty
<1>4. CASE output' = Tail(output)
  BY <1>1, <1>2, <1>4, AnswersTaken
<1> QED BY <1>1, <1>3, <1>4

\* The run loop takes a request for a message, answers it, or does something else.
LEMMA LoopFlow ==
  ASSUME TypeInv, TokenInv, loop
  PROVE  /\ AskedOnce(input_queue') /\ AnsweredOnce(output_queue')
         /\ \/ /\ UNCHANGED offline_queue
               /\ Asking(input_queue') = Asking(input_queue) /\ AskingCmd' = AskingCmd
               /\ Answering(output_queue') = Answering(output_queue)
               /\ Carried(output_queue') = Carried(output_queue)
            \/ /\ UNCHANGED <<offline_queue, output_queue>>
               /\ AskingCmd = {} /\ Asking(input_queue) = Asking(input_queue') \union AskingCmd'
               /\ Asking(input_queue') \intersect AskingCmd' = {}
            \/ /\ AskingCmd' = {} /\ Asking(input_queue') = Asking(input_queue)
               /\ Answering(output_queue') = Answering(output_queue) \union AskingCmd
               /\ Carried(output_queue) \subseteq Carried(output_queue')
               /\ RangeOf(offline_queue)
                    \subseteq RangeOf(offline_queue') \union Carried(output_queue')
<1> USE ConnTypes, FrameTypes
<1>0. /\ input_queue \in Seq(Commands) /\ output_queue \in Seq(Frames) /\ offline_queue \in Seq(Messages)
      /\ AskedOnce(input_queue) /\ AnsweredOnce(output_queue)
      /\ Answering(output_queue) \intersect AskingCmd = {}
  BY Sequences DEF TokenInv, Apart
<1>a. ~IsAsk(None) /\ ~IsAsk(NoFrame)
  BY DEF IsAsk
<1>1. ASSUME NEW f \in Frames, output_queue' = Append(output_queue, f), f.code \notin {"MSG", "NO_MORE_MESSAGES"}
      PROVE  /\ Answering(output_queue') = Answering(output_queue)
             /\ Carried(output_queue') = Carried(output_queue)
             /\ AnsweredOnce(output_queue')
  <2>1. AnswerOf(f) = {} /\ CarriedBy(f) = {}
    BY <1>1 DEF AnswerOf, CarriedBy, IsAnswer
  <2>2. /\ Answering(output_queue') = Answering(output_queue) \union AnswerOf(f)
        /\ Carried(output_queue') = Carried(output_queue) \union CarriedBy(f)
        /\ Answering(output_queue) \intersect AnswerOf(f) = {} => AnsweredOnce(output_queue')
    BY <1>0, <1>1, AnswersAppended
  <2> QED BY <2>1, <2>2
<1>2. CASE Tickle
  <2>1. AskingCmd' = AskingCmd /\ UNCHANGED <<input_queue, offline_queue>>
    BY <1>2 DEF Tickle, AskingCmd
  <2>2. output_queue' = Append(output_queue, Frame("MSG_WAITING", 0))
    BY <1>2 DEF Tickle, writeFrame
  <2> QED BY <1>0, <1>1, <2>1, <2>2
<1>3. CASE TakeCommand
  <2>1. AskingCmd = {}
    BY <1>3, <1>a DEF TakeCommand, AskingCmd, AskOf
  <2>2. AskingCmd' = AskOf(Head(input_queue))
    BY <1>3 DEF TakeCommand, AskingCmd
  <2> QED BY <1>0, <1>3, <2>1, <2>2, AsksTaken DEF TakeCommand
<1>4. CASE LookAtList
  <2>1. AskingCmd = {} /\ AskingCmd' = {}
    BY <1>4, <1>a DEF LookAtList, AskingCmd, AskOf
  <2> QED BY <1>0, <1>4, <2>1 DEF LookAtList
<1>5. ASSUME NEW c \in Connections, TellStarted(c) \/ RefuseList(c) \/ StartList(c)
      PROVE  /\ AskingCmd' = AskingCmd /\ UNCHANGED <<input_queue, offline_queue>>
             /\ Answering(output_queue') = Answering(output_queue)
             /\ Carried(output_queue') = Carried(output_queue)
             /\ AnsweredOnce(output_queue')
  <2>1. cmd_frame.cmd # "SYNC_NEXT_MESSAGE" /\ cmd_frame' = None /\ UNCHANGED <<input_queue, offline_queue>>
    BY <1>5 DEF TellStarted, RefuseList, StartList, Handles
  <2>2. AskingCmd = {} /\ AskingCmd' = {}
    BY <1>a, <2>1 DEF AskingCmd, AskOf, IsAsk
  <2>3. \E f \in Frames : output_queue' = Append(output_queue, f) /\ f.code \notin {"MSG", "NO_MORE_MESSAGES"}
    BY <1>5 DEF TellStarted, RefuseList, StartList, writeFrame
  <2> QED BY <1>1, <2>1, <2>2, <2>3
<1>6. ASSUME NEW c \in Connections, NEW f \in Frames, Handles("SYNC_NEXT_MESSAGE", c),
             output_queue' = Append(output_queue, f), IsAnswer(f), f.conn = c
      PROVE  /\ AskingCmd' = {} /\ UNCHANGED input_queue /\ AnsweredOnce(output_queue')
             /\ Answering(output_queue') = Answering(output_queue) \union AskingCmd
             /\ Carried(output_queue') = Carried(output_queue) \union CarriedBy(f)
  <2>1. AskingCmd = {c} /\ AskingCmd' = {} /\ UNCHANGED input_queue
    BY <1>6, <1>a DEF Handles, AskingCmd, AskOf, IsAsk
  <2>2. AnswerOf(f) = {c}
    BY <1>6 DEF AnswerOf
  <2> QED BY <1>0, <1>6, <2>1, <2>2, AnswersAppended
<1>7. ASSUME NEW c \in Connections, GiveMessage(c)
      PROVE  /\ AskingCmd' = {} /\ UNCHANGED input_queue /\ AnsweredOnce(output_queue')
             /\ Answering(output_queue') = Answering(output_queue) \union AskingCmd
             /\ Carried(output_queue) \subseteq Carried(output_queue')
             /\ RangeOf(offline_queue) \subseteq RangeOf(offline_queue') \union Carried(output_queue')
  <2> DEFINE m == Head(offline_queue)
             f == FrameOf("MSG", c, m)
  <2>1. /\ m \in Messages /\ offline_queue # <<>> /\ offline_queue' = Tail(offline_queue)
        /\ Handles("SYNC_NEXT_MESSAGE", c) /\ output_queue' = Append(output_queue, f)
    BY <1>7, <1>0, TakeItem DEF GiveMessage, writeFrame
  <2>2. f \in Frames /\ f.code = "MSG" /\ f.conn = c /\ f.arg = m
    BY <2>1
  <2>3. RangeOf(offline_queue) = RangeOf(offline_queue') \union {m}
    BY <1>0, <2>1, RangeMoves
  <2> HIDE DEF f, m
  <2>4. IsAnswer(f) /\ CarriedBy(f) = {m}
    BY <2>2 DEF IsAnswer, CarriedBy
  <2>5. /\ AskingCmd' = {} /\ UNCHANGED input_queue /\ AnsweredOnce(output_queue')
        /\ Answering(output_queue') = Answering(output_queue) \union AskingCmd
        /\ Carried(output_queue') = Carried(output_queue) \union CarriedBy(f)
    BY <1>6, <2>1, <2>2, <2>4
  <2> QED BY <2>3, <2>4, <2>5
<1>8. ASSUME NEW c \in Connections, GiveNone(c)
      PROVE  /\ AskingCmd' = {} /\ UNCHANGED <<input_queue, offline_queue>> /\ AnsweredOnce(output_queue')
             /\ Answering(output_queue') = Answering(output_queue) \union AskingCmd
             /\ Carried(output_queue) \subseteq Carried(output_queue')
  <2> DEFINE f == Frame("NO_MORE_MESSAGES", c)
  <2>1. /\ Handles("SYNC_NEXT_MESSAGE", c) /\ output_queue' = Append(output_queue, f)
        /\ UNCHANGED offline_queue
    BY <1>8 DEF GiveNone, writeFrame
  <2>2. f \in Frames /\ f.code = "NO_MORE_MESSAGES" /\ f.conn = c
    OBVIOUS
  <2> HIDE DEF f
  <2>3. IsAnswer(f)
    BY <2>2 DEF IsAnswer
  <2> QED BY <1>6, <2>1, <2>2, <2>3
<1>9. ASSUME ListOne \/ ListEnd, asked_by \in Connections
      PROVE  /\ AskingCmd' = AskingCmd /\ UNCHANGED <<input_queue, offline_queue>>
             /\ Answering(output_queue') = Answering(output_queue)
             /\ Carried(output_queue') = Carried(output_queue)
             /\ AnsweredOnce(output_queue')
  <2>1. cmd_frame = NoFrame /\ cmd_frame' = None /\ UNCHANGED <<input_queue, offline_queue>>
    BY <1>9 DEF ListOne, ListEnd
  <2>2. AskingCmd = {} /\ AskingCmd' = {}
    BY <1>a, <2>1 DEF AskingCmd, AskOf
  <2>3. \E f \in Frames : output_queue' = Append(output_queue, f) /\ f.code \notin {"MSG", "NO_MORE_MESSAGES"}
    <3>1. CASE ListOne
      <4>1. iterator + 1 \in 1..NumContacts
        BY <3>1, Constants, SMT DEF ListOne
      <4> QED BY <1>9, <3>1, <4>1 DEF ListOne, writeFrame
    <3>2. CASE ListEnd
      BY <1>9, <3>2 DEF ListEnd, writeFrame
    <3> QED BY <1>9, <3>1, <3>2
  <2> QED BY <1>1, <2>1, <2>2, <2>3
<1> QED BY <1>0, <1>2, <1>3, <1>4, <1>5, <1>7, <1>8, <1>9, LoopCases

\* The app reads a frame: it asks for the next message once it has the answer to
\* its last request, if there was one.
LEMMA ReadFlow ==
  ASSUME TypeInv, SessionInv, ConnInv, FreshInv, TokenInv, readFrame
  PROVE  /\ Answering(to_app) = Answering(to_app') \union AnswerOf(Head(to_app))
         /\ Carried(to_app) = Carried(to_app') \union CarriedBy(Head(to_app))
         /\ RangeOf(got') = RangeOf(got) \union CarriedBy(Head(to_app))
         /\ AnsweredOnce(to_app') /\ \A k \in Connections : AskedOnce(to_node'[k])
         /\ \/ /\ app' = "syncing" /\ AskingNode' = AskingNode \union {connections}
               /\ connections \notin AskingNode \union Asking(input_queue) \union AskingCmd
                    \union Answering(output_queue) \union Answering(output) \union Answering(to_app')
            \/ /\ AskingNode' = AskingNode
               /\ app' \in {"starting", "listing", "idle"} =>
                    connections \notin AskingNode \union Asking(input_queue) \union AskingCmd
                      \union Answering(output_queue) \union Answering(output) \union Answering(to_app')
<1> DEFINE f == Head(to_app)
           c == connections
<1>1. /\ to_app \in Seq(Frames) /\ to_app # <<>> /\ to_app' = Tail(to_app) /\ f \in Frames
      /\ c \in Connections /\ Reachable
  BY Sequences, ReadReachable, AppConnected, ReadEffect, TakeItem DEF Reachable
<1>2. /\ Answering(to_app) = Answering(to_app') \union AnswerOf(f)
      /\ Carried(to_app) = Carried(to_app') \union CarriedBy(f)
      /\ AnsweredOnce(to_app') /\ Answering(to_app') \intersect AnswerOf(f) = {}
  BY <1>1, AnswersTaken DEF TokenInv
<1>3. RangeOf(got') = RangeOf(got) \union CarriedBy(f)
  <2>1. got \in Seq(Messages) /\ got' = IF f.code = "MSG" THEN Append(got, f.arg) ELSE got
    BY Sequences DEF readFrame
  <2>2. f.code = "MSG" => f.arg \in Messages
    BY <1>1, FrameArgs
  <2> HIDE DEF f
  <2> QED BY <2>1, <2>2, RangeMoves DEF CarriedBy
<1>4. ASSUME app = "syncing", f.code \in {"MSG", "NO_MORE_MESSAGES"} PROVE AnswerOf(f) = {c}
  <2>1. f.conn \in {0, c}
    BY <1>1, <1>4, FreshMoves DEF FreshInv, ToldApp
  <2>2. f.conn # 0
    BY <1>1, <1>4, SMT DEF Frames, Connections
  <2> QED BY <1>4, <2>1, <2>2 DEF AnswerOf, IsAnswer
<1> DEFINE others == Asking(input_queue) \union AskingCmd
                       \union Answering(output_queue) \union Answering(output)
<1> HIDE DEF f, c
<1>5. /\ Outstanding = AskingNode \union others \union Answering(to_app)
      /\ Answering(to_app) \intersect (AskingNode \union others) = {}
  BY DEF TokenInv, Apart, Outstanding, others
<1>6. app \in {"starting", "listing", "idle"} => c \notin AskingNode \union others \union Answering(to_app')
  BY <1>2, <1>5 DEF TokenInv, c
<1>7. app = "syncing" /\ f.code \in {"MSG", "NO_MORE_MESSAGES"} =>
        c \notin AskingNode \union others \union Answering(to_app')
  BY <1>2, <1>4, <1>5
<1>8. ASSUME c \notin AskingNode \union others \union Answering(to_app'), Ask("SYNC_NEXT_MESSAGE", c)
      PROVE  AskingNode' = AskingNode \union {c} /\ \A k \in Connections : AskedOnce(to_node'[k])
  BY <1>1, <1>8, AskFlow
<1>9. ASSUME Ask("GET_CONTACTS", c)
      PROVE  AskingNode' = AskingNode /\ \A k \in Connections : AskedOnce(to_node'[k])
  BY <1>1, <1>9, AskFlow
<1>10. ASSUME UNCHANGED to_node
       PROVE  AskingNode' = AskingNode /\ \A k \in Connections : AskedOnce(to_node'[k])
  BY <1>10 DEF AskingNode, TokenInv
<1>11. /\ \A k \in Connections : AskedOnce(to_node'[k])
       /\ \/ /\ app' = "syncing" /\ AskingNode' = AskingNode \union {c}
             /\ c \notin AskingNode \union others \union Answering(to_app')
          \/ /\ AskingNode' = AskingNode
             /\ app' \in {"starting", "listing", "idle"} =>
                  c \notin AskingNode \union others \union Answering(to_app')
  <2>1. \/ /\ app = "starting" /\ app' = "listing" /\ Ask("GET_CONTACTS", c)
        \/ /\ \/ app \in {"starting", "listing", "idle"}
              \/ app = "syncing" /\ f.code = "MSG"
           /\ app' = "syncing" /\ Ask("SYNC_NEXT_MESSAGE", c)
        \/ /\ app = "syncing" /\ f.code = "NO_MORE_MESSAGES" /\ app' = "idle" /\ UNCHANGED to_node
        \/ UNCHANGED <<app, to_node>>
    BY ReadMoves, Zenon DEF f, c
  <2> HIDE DEF others
  <2> QED BY <1>6, <1>7, <1>8, <1>9, <1>10, <2>1
<1> QED BY <1>2, <1>3, <1>11 DEF f, c, others

LEMMA TokenStep ==
  ASSUME TypeInv, SessionInv, ConnInv, FreshInv, TokenInv, [Next]_vars
  PROVE  TokenInv'
<1> DEFINE N == AskingNode
           I == Asking(input_queue)
           C == AskingCmd
           Q == Answering(output_queue)
           O == Answering(output)
           T == Answering(to_app)
<1>0. /\ \A k \in Connections : AskedOnce(to_node[k])
      /\ AskedOnce(input_queue)
      /\ AnsweredOnce(output_queue) /\ AnsweredOnce(output) /\ AnsweredOnce(to_app)
      /\ Apart(N, I, C, Q, O, T)
      /\ app \in {"starting", "listing", "idle"} => connections \notin N \union I \union C \union Q \union O \union T
  BY DEF TokenInv, Outstanding
<1> SUFFICES /\ \A k \in Connections : AskedOnce(to_node'[k])
             /\ AskedOnce(input_queue')
             /\ AnsweredOnce(output_queue') /\ AnsweredOnce(output') /\ AnsweredOnce(to_app')
             /\ Apart(N', I', C', Q', O', T')
             /\ app' \in {"starting", "listing", "idle"} =>
                  connections' \notin N' \union I' \union C' \union Q' \union O' \union T'
  BY DEF TokenInv, Outstanding
<1> USE ApartMoves
<1>a. UNCHANGED to_node => UNCHANGED N
  BY DEF AskingNode
<1>b. UNCHANGED cmd_frame => UNCHANGED C
  BY DEF AskingCmd
<1>1. CASE ServerStep
  <2>0. UNCHANGED <<connections, cmd_frame, app>> /\ C' = C
    BY <1>1, <1>b, ServerKeeps
  <2>1. CASE Quiet
    BY <1>0, <1>a, <2>0, <2>1 DEF Quiet
  <2>2. CASE Clearing
    <3>1. N' = N /\ I' = {} /\ Q' = {} /\ O' = O /\ T' = T
      BY <1>a, <2>2, AsksEmpty, AnswersEmpty DEF Clearing
    <3>2. AskedOnce(input_queue') /\ AnsweredOnce(output_queue') /\ UNCHANGED <<to_node, output, to_app>>
      BY <2>2, AsksEmpty, AnswersEmpty DEF Clearing
    <3> HIDE DEF N, I, C, Q, O, T
    <3> QED BY <1>0, <2>0, <3>1, <3>2
  <2>3. CASE Taking
    <3>1. N' = N /\ I' = I /\ O = {} /\ O' = Q /\ Q' = {} /\ T' = T
      BY <1>a, <2>3, AnswersEmpty DEF Taking
    <3>2. AnsweredOnce(output') /\ AnsweredOnce(output_queue') /\ UNCHANGED <<to_node, input_queue, to_app>>
      BY <1>0, <2>3, AnswersEmpty DEF Taking
    <3> HIDE DEF N, I, C, Q, O, T
    <3> QED BY <1>0, <2>0, <3>1, <3>2
  <2>4. CASE Sending
    <3>1. N' = N /\ I' = I /\ Q' = Q /\ UNCHANGED <<to_node, input_queue, output_queue>>
      BY <1>a, <2>4 DEF Sending
    <3>2. \E a : O = O' \union a /\ O' \intersect a = {} /\ T' = T \union a
      BY <2>4, SendingFlow
    <3>3. AnsweredOnce(output') /\ AnsweredOnce(to_app')
      BY <2>4, SendingFlow
    <3> HIDE DEF N, I, C, Q, O, T
    <3> QED BY <1>0, <2>0, <3>1, <3>2, <3>3
  <2>5. CASE Dropping
    <3>1. /\ N' = N /\ I' = I /\ Q' = Q /\ T' = T /\ UNCHANGED <<to_node, input_queue, output_queue, to_app>>
      BY <1>a, <2>5 DEF Dropping
    <3>2. O' \subseteq O /\ AnsweredOnce(output')
      BY <2>5, DroppingFlow
    <3> HIDE DEF N, I, C, Q, O, T
    <3> QED BY <1>0, <2>0, <3>1, <3>2
  <2>6. CASE Receiving
    <3>1. Q' = Q /\ O' = O /\ T' = T /\ UNCHANGED <<output_queue, output, to_app>>
      BY <2>6 DEF Receiving
    <3>2. \E a : N = N' \union a /\ N' \intersect a = {} /\ I' = I \union a
      BY <2>6, ReceivingFlow
    <3>3. AskedOnce(input_queue') /\ \A k \in Connections : AskedOnce(to_node'[k])
      BY <2>6, ReceivingFlow
    <3> HIDE DEF N, I, C, Q, O, T
    <3>4. Apart(N', I', C', Q', O', T')
      <4>1. PICK a : N = N' \union a /\ N' \intersect a = {} /\ I' = I \union a
        BY <3>2
      <4>2. Apart(N', I \union a, C, Q, O, T)
        BY <1>0, <4>1, Zenon
      <4> QED BY <2>0, <3>1, <4>1, <4>2
    <3>5. N' \union I' \union C' \union Q' \union O' \union T'
             \subseteq N \union I \union C \union Q \union O \union T
      BY <2>0, <3>1, <3>2
    <3> QED BY <1>0, <2>0, <3>1, <3>3, <3>4, <3>5
  <2> QED BY <1>1, <2>1, <2>2, <2>3, <2>4, <2>5, <2>6, ServerCases
<1>2. CASE loop
  <2>0. /\ UNCHANGED <<connections, to_node, to_app, output, app>>
        /\ N' = N /\ O' = O /\ T' = T
    BY <1>2, <1>a, LoopKeeps
  <2>1. /\ AskedOnce(input_queue') /\ AnsweredOnce(output_queue')
        /\ \/ I' = I /\ C' = C /\ Q' = Q
           \/ Q' = Q /\ C = {} /\ I = I' \union C' /\ I' \intersect C' = {}
           \/ C' = {} /\ I' = I /\ Q' = Q \union C
    BY <1>2, LoopFlow
  <2> HIDE DEF N, I, C, Q, O, T
  <2>2. Apart(N', I', C', Q', O', T')
    <3>1. CASE I' = I /\ C' = C /\ Q' = Q
      BY <1>0, <2>0, <3>1
    <3>2. CASE Q' = Q /\ C = {} /\ I = I' \union C' /\ I' \intersect C' = {}
      <4>1. Apart(N, I', C', Q, O, T)
        BY <1>0, <3>2, Zenon
      <4> QED BY <2>0, <3>2, <4>1
    <3>3. CASE C' = {} /\ I' = I /\ Q' = Q \union C
      BY <1>0, <2>0, <3>3
    <3> QED BY <2>1, <3>1, <3>2, <3>3
  <2>3. N' \union I' \union C' \union Q' \union O' \union T'
           \subseteq N \union I \union C \union Q \union O \union T
    BY <2>0, <2>1
  <2> QED BY <1>0, <2>0, <2>1, <2>2, <2>3
<1>3. CASE queueMessage
  <2>1. UNCHANGED <<connections, to_node, to_app, output, app>>
    BY <1>3, LoopKeeps
  <2>2. UNCHANGED <<input_queue, output_queue, cmd_frame>>
    BY <1>3, ArrivalKeeps
  <2> QED BY <1>0, <1>a, <1>b, <2>1, <2>2
<1>4. CASE connect
  <2>1. connections + 1 \in Connections /\ connections' = connections + 1 /\ Ask("APP_START", connections + 1)
    BY <1>4, NextConnection DEF connect
  <2>2. N' = N /\ \A k \in Connections : AskedOnce(to_node'[k])
    BY <2>1, AskFlow
  <2>3. /\ UNCHANGED <<input_queue, output_queue, output, cmd_frame>> /\ UNCHANGED to_app
    BY <1>4, AppKeeps DEF connect
  <2>4. I' = I /\ C' = C /\ Q' = Q /\ O' = O /\ T' = T
    BY <1>b, <2>3
  <2>5. \A k \in N \union I \union C \union Q \union O \union T : k # connections + 1
    <3>1. \A k \in 1..connections : k # connections + 1
      BY Sequences, SMT
    <3>2. \A k \in 1..client : k \in 1..connections
      BY Sequences, SMT
    <3> QED BY <3>1, <3>2, TokenConns
  <2> HIDE DEF N, I, C, Q, O, T
  <2> QED BY <1>0, <2>1, <2>2, <2>3, <2>4, <2>5
<1>5. CASE disconnect
  <2>1. /\ app' = "closed" /\ to_app' = <<>> /\ UNCHANGED to_node
        /\ UNCHANGED <<input_queue, output_queue, output, cmd_frame>>
    BY <1>5, AppKeeps DEF disconnect
  <2>2. N' = N /\ I' = I /\ C' = C /\ Q' = Q /\ O' = O /\ T' = {} /\ AnsweredOnce(to_app')
    BY <1>a, <1>b, <2>1, AnswersEmpty
  <2> HIDE DEF N, I, C, Q, O, T
  <2> QED BY <1>0, <2>1, <2>2
<1>6. CASE readFrame
  <2>1. /\ UNCHANGED <<input_queue, output_queue, output, cmd_frame>> /\ UNCHANGED connections
        /\ I' = I /\ C' = C /\ Q' = Q /\ O' = O
    BY <1>6, <1>b, AppKeeps, ReadEffect
  <2>2. /\ T' \subseteq T /\ AnsweredOnce(to_app') /\ \A k \in Connections : AskedOnce(to_node'[k])
        /\ \/ /\ app' = "syncing" /\ N' = N \union {connections}
              /\ connections \notin N \union I \union C \union Q \union O \union T'
           \/ /\ N' = N
              /\ app' \in {"starting", "listing", "idle"} =>
                   connections \notin N \union I \union C \union Q \union O \union T'
    BY <1>6, ReadFlow
  <2> HIDE DEF N, I, C, Q, O, T
  <2>3. CASE /\ app' = "syncing" /\ N' = N \union {connections}
             /\ connections \notin N \union I \union C \union Q \union O \union T'
    <3>1. Apart(N \union {connections}, I, C, Q, O, T')
      BY <1>0, <2>2, <2>3, Zenon
    <3> QED BY <1>0, <2>1, <2>2, <2>3, <3>1
  <2>4. CASE /\ N' = N
             /\ app' \in {"starting", "listing", "idle"} =>
                  connections \notin N \union I \union C \union Q \union O \union T'
    <3>1. Apart(N, I, C, Q, O, T')
      BY <1>0, <2>2, Zenon
    <3> QED BY <1>0, <2>1, <2>2, <2>4, <3>1
  <2> QED BY <2>2, <2>3, <2>4
<1>7. CASE UNCHANGED vars
  BY <1>0, <1>7, <1>a, <1>b, StutterKeeps
<1> QED BY <1>1, <1>2, <1>3, <1>4, <1>5, <1>6, <1>7 DEF Next

-----------------------------------------------------------------------------
(***************************************************************************)
(* No message is lost but those that closed connections were being handed. *)
(***************************************************************************)

\* Where a message that arrived can be.
Held ==
  RangeOf(offline_queue) \union Carried(output_queue) \union Carried(output)
    \union Carried(to_app) \union RangeOf(got)

LEMMA RangeConcat ==
  ASSUME NEW s \in Seq(Frames), NEW t \in Seq(Frames)
  PROVE  RangeOf(s \o t) = RangeOf(s) \union RangeOf(t)
<1> DEFINE u == s \o t  m == Len(s)  n == Len(t)
<1>1. /\ DOMAIN u = 1..m + n /\ DOMAIN s = 1..m /\ DOMAIN t = 1..n /\ m \in Nat /\ n \in Nat
      /\ \A i \in 1..m : u[i] = s[i]
      /\ \A i \in 1..n : u[m + i] = t[i]
  BY SMT
<1> HIDE DEF u, m, n
<1>2. /\ \A i \in 1..m : i \in 1..m + n
      /\ \A i \in 1..n : m + i \in 1..m + n
  BY <1>1, SMT
<1>3. ASSUME NEW i \in 1..m + n, i \notin 1..m PROVE \E j \in 1..n : i = m + j
  <2>1. i - m \in 1..n /\ i = m + (i - m)
    BY <1>1, <1>3, SMT
  <2> QED BY <2>1
<1>4. \A i \in DOMAIN s : s[i] \in RangeOf(u)
  BY <1>1, <1>2 DEF RangeOf
<1>5. \A i \in DOMAIN t : t[i] \in RangeOf(u)
  BY <1>1, <1>2 DEF RangeOf
<1>6. ASSUME NEW i \in DOMAIN u PROVE u[i] \in RangeOf(s) \union RangeOf(t)
  <2>1. CASE i \in 1..m
    BY <1>1, <2>1 DEF RangeOf
  <2>2. CASE i \notin 1..m
    <3>1. PICK j \in 1..n : i = m + j
      BY <1>1, <1>3, <2>2
    <3> QED BY <1>1, <3>1 DEF RangeOf
  <2> QED BY <2>1, <2>2
<1>7. \A x : x \in RangeOf(u) <=> x \in RangeOf(s) \union RangeOf(t)
  BY <1>4, <1>5, <1>6, Zenon DEF RangeOf
<1>8. RangeOf(u) = RangeOf(s) \union RangeOf(t)
  BY <1>7
<1> QED BY <1>8 DEF u

\* The messages in frames on their way, by the queue that they are in.
LEMMA TransitParts ==
  ASSUME NEW q \in Seq(Frames), NEW o \in Seq(Frames), NEW t \in Seq(Frames)
  PROVE  {f.arg : f \in {g \in RangeOf(q \o o \o t) : g.code = "MSG"}}
           = Carried(q) \union Carried(o) \union Carried(t)
<1>1. q \o o \in Seq(Frames)
  BY SMT
<1>2. RangeOf(q \o o \o t) = RangeOf(q) \union RangeOf(o) \union RangeOf(t)
  BY <1>1, RangeConcat
<1>3. \A s : Carried(s) = {f.arg : f \in {g \in RangeOf(s) : g.code = "MSG"}}
  BY Zenon DEF Carried, RangeOf
<1> QED BY <1>2, <1>3

LEMMA MissingParts ==
  ASSUME to_app \in Seq(Frames), output \in Seq(Frames), output_queue \in Seq(Frames)
  PROVE  Missing = {m \in RangeOf(arrived) : ~isChannelMsg(m)} \ Held
<1>1. InTransit = Carried(output_queue) \union Carried(output) \union Carried(to_app)
  BY TransitParts DEF InTransit
<1> QED BY <1>1 DEF Missing, Held

LEMMA MissingPartsNext ==
  ASSUME to_app' \in Seq(Frames), output' \in Seq(Frames), output_queue' \in Seq(Frames)
  PROVE  Missing' = {m \in RangeOf(arrived') : ~isChannelMsg(m)} \ Held'
<1>1. InTransit' = Carried(output_queue') \union Carried(output') \union Carried(to_app')
  BY TransitParts DEF InTransit
<1> QED BY <1>1 DEF Missing, Held

LEMMA RangeFinite ==
  ASSUME NEW S, NEW s \in Seq(S)
  PROVE  IsFiniteSet(RangeOf(s))
<1>1. DOMAIN s = 1..Len(s) /\ Len(s) \in Int /\ 1 \in Int
  BY SMT
<1>2. IsFiniteSet(DOMAIN s)
  BY <1>1, FS_Interval
<1> DEFINE g == [i \in DOMAIN s |-> s[i]]
<1>3. g \in Surjection(DOMAIN s, RangeOf(s))
  BY Zenon DEF Surjection, RangeOf
<1> QED BY <1>2, <1>3, FS_Surjection

\* Each connection is answered with one message at most.
LEMMA CarriedBound ==
  ASSUME NEW s \in Seq(Frames), AnsweredOnce(s)
  PROVE  /\ IsFiniteSet(Carried(s)) /\ IsFiniteSet(Answering(s))
         /\ Cardinality(Carried(s)) <= Cardinality(Answering(s))
<1> DEFINE J == {k \in DOMAIN s : s[k].code = "MSG"}
           A == {k \in DOMAIN s : IsAnswer(s[k])}
           arg == [i \in J |-> s[i].arg]
           conn == [i \in J |-> s[i].conn]
           all == [i \in A |-> s[i].conn]
<1>1. DOMAIN s = 1..Len(s) /\ Len(s) \in Int /\ 1 \in Int
  BY SMT
<1>2. IsFiniteSet(DOMAIN s)
  BY <1>1, FS_Interval
<1>3. IsFiniteSet(J) /\ IsFiniteSet(A)
  BY <1>2, FS_Subset
<1>4. arg \in Surjection(J, Carried(s))
  BY Zenon DEF Surjection, Carried
<1>5. all \in Surjection(A, Answering(s))
  BY Zenon DEF Surjection, Answering
<1>6. conn \in Injection(J, Answering(s))
  <2>1. \A i \in J : IsAnswer(s[i])
    BY DEF IsAnswer
  <2>2. conn \in [J -> Answering(s)]
    BY <2>1, Zenon DEF Answering
  <2>3. \A i, j \in J : conn[i] = conn[j] => i = j
    BY <2>1, Zenon DEF AnsweredOnce
  <2> QED BY <2>2, <2>3 DEF Injection, IsInjective
<1> HIDE DEF J, A, arg, conn, all
<1>7. IsFiniteSet(Carried(s)) /\ Cardinality(Carried(s)) <= Cardinality(J)
  BY <1>3, <1>4, FS_Surjection
<1>8. IsFiniteSet(Answering(s))
  BY <1>3, <1>5, FS_Surjection
<1>9. Cardinality(J) <= Cardinality(Answering(s))
  BY <1>6, <1>8, FS_Injection
<1>10. Cardinality(J) \in Nat /\ Cardinality(Carried(s)) \in Nat /\ Cardinality(Answering(s)) \in Nat
  BY <1>3, <1>7, <1>8, FS_CardinalityType
<1>11. Cardinality(Carried(s)) <= Cardinality(Answering(s))
  BY <1>7, <1>9, <1>10, SMT
<1> QED BY <1>7, <1>8, <1>11

\* What may be lost grows by M, what may account for it by K.
LEMMA CountBound ==
  ASSUME NEW A, NEW A2, NEW M, NEW B, NEW B2, NEW K, NEW r \in Nat,
         IsFiniteSet(A), IsFiniteSet(M), IsFiniteSet(B2),
         A2 \subseteq A \union M, B \union K \subseteq B2, K \intersect B = {},
         Cardinality(M) <= Cardinality(K),
         Cardinality(A) <= Cardinality(B) + r
  PROVE  Cardinality(A2) <= Cardinality(B2) + r
<1>1. IsFiniteSet(B) /\ IsFiniteSet(K) /\ IsFiniteSet(B \union K) /\ Cardinality(B \union K) <= Cardinality(B2)
  BY FS_Subset
<1>2. /\ IsFiniteSet(A \union M)
      /\ Cardinality(A \union M) = Cardinality(A) + Cardinality(M) - Cardinality(A \intersect M)
  BY FS_Union, Zenon
<1>3. Cardinality(B \union K) = Cardinality(B) + Cardinality(K) - Cardinality(B \intersect K)
  BY <1>1, FS_Union, Zenon
<1>4. B \intersect K = {} /\ Cardinality(B \intersect K) = 0
  <2>1. B \intersect K = {}
    OBVIOUS
  <2> QED BY <2>1, FS_EmptySet
<1>5. IsFiniteSet(A \intersect M) /\ A2 \in SUBSET (A \union M)
  BY FS_Intersection
<1>6. IsFiniteSet(A2) /\ Cardinality(A2) <= Cardinality(A \union M)
  BY <1>2, <1>5, FS_Subset
<1>7. /\ Cardinality(A) \in Nat /\ Cardinality(M) \in Nat /\ Cardinality(B) \in Nat
      /\ Cardinality(K) \in Nat /\ Cardinality(A \intersect M) \in Nat /\ Cardinality(A2) \in Nat
      /\ Cardinality(B2) \in Nat
  BY <1>1, <1>5, <1>6, FS_CardinalityType
<1> QED BY <1>1, <1>2, <1>3, <1>4, <1>6, <1>7, SMT

LEMMA ClosedFinite ==
  ASSUME TypeInv
  PROVE  /\ IsFiniteSet(Closed)
         /\ SessionInv => Cardinality(Closed) = IF open THEN connections - 1 ELSE connections
<1> DEFINE n == IF open THEN connections - 1 ELSE connections
<1>1. n \in Int /\ 1 \in Int
  BY Sequences, SMT
<1>2. SessionInv => ~(1 > n + 1)
  <2>1. SessionInv /\ open => connections \in Nat /\ connections # 0
    BY Sequences DEF SessionInv, TypeInv, AppType
  <2> QED BY <2>1, Sequences, SMT
<1>3. Closed = 1..n
  BY DEF Closed
<1> HIDE DEF n
<1>4. IsFiniteSet(1..n) /\ Cardinality(1..n) = IF 1 > n THEN 0 ELSE n - 1 + 1
  BY <1>1, FS_Interval
<1>5. SessionInv => Cardinality(1..n) = n
  BY <1>1, <1>2, <1>4, SMT
<1> QED BY <1>3, <1>4, <1>5 DEF n

LEMMA MissingFinite == ASSUME TypeInv PROVE IsFiniteSet(Missing)
<1>1. IsFiniteSet(RangeOf(arrived))
  BY Sequences, RangeFinite
<1>2. Missing \in SUBSET RangeOf(arrived)
  BY DEF Missing
<1> QED BY <1>1, <1>2, FS_Subset

\* The messages in frames that go with connections that are closed are lost; every
\* one of the connections had its one request or answer under way, and has none now.
LEMMA LossBound ==
  ASSUME TypeInv, TypeInv', LossInv, UNCHANGED <<arrived, refused>>, NEW s \in Seq(Frames),
         AnsweredOnce(s), Held \subseteq Held' \union Carried(s),
         Closed \subseteq Closed', Outstanding' \subseteq Outstanding,
         Answering(s) \subseteq Closed', Answering(s) \subseteq Outstanding,
         Answering(s) \intersect Outstanding' = {}
  PROVE  LossInv'
<1> DEFINE M == Carried(s)
           K == Answering(s)
<1>1. IsFiniteSet(M) /\ Cardinality(M) <= Cardinality(K)
  BY CarriedBound
<1>2. Missing' \subseteq Missing \union M
  <2>1. Missing = {m \in RangeOf(arrived) : ~isChannelMsg(m)} \ Held
    BY Sequences, MissingParts
  <2>2. Missing' = {m \in RangeOf(arrived') : ~isChannelMsg(m)} \ Held'
    BY MissingPartsNext DEF TypeInv, WiresType, ThreadType, QueuesType
  <2> QED BY <2>1, <2>2, Zenon
<1>3. IsFiniteSet(Closed')
  <2>1. connections' \in Int /\ connections' - 1 \in Int /\ 1 \in Int
    BY Constants, SMT DEF TypeInv, WiresType
  <2> QED BY <2>1, FS_Interval, Zenon DEF Closed
<1>4. IsFiniteSet(Closed' \ Outstanding')
  BY <1>3, FS_Subset
<1>5. /\ (Closed \ Outstanding) \union K \subseteq Closed' \ Outstanding'
      /\ K \intersect (Closed \ Outstanding) = {}
  OBVIOUS
<1>6. Cardinality(Missing) <= Cardinality(Closed \ Outstanding) + refused
  BY DEF LossInv
<1>7. refused \in Nat /\ IsFiniteSet(Missing) /\ refused' = refused
  BY MissingFinite DEF TypeInv, MessagesType
<1> HIDE DEF M, K
<1>8. Cardinality(Missing') <= Cardinality(Closed' \ Outstanding') + refused
  BY <1>1, <1>2, <1>4, <1>5, <1>6, <1>7, CountBound
<1> QED BY <1>7, <1>8 DEF LossInv

\* A step that loses nothing.
LEMMA LossKept ==
  ASSUME TypeInv, TypeInv', LossInv, UNCHANGED <<arrived, refused>>,
         Held \subseteq Held', Closed \subseteq Closed', Outstanding' \intersect Closed \subseteq Outstanding
  PROVE  LossInv'
<1>1. Missing' \subseteq Missing \union {}
  <2>1. Missing = {m \in RangeOf(arrived) : ~isChannelMsg(m)} \ Held
    BY Sequences, MissingParts
  <2>2. Missing' = {m \in RangeOf(arrived') : ~isChannelMsg(m)} \ Held'
    BY MissingPartsNext DEF TypeInv, WiresType, ThreadType, QueuesType
  <2> QED BY <2>1, <2>2, Zenon
<1>2. IsFiniteSet(Closed')
  <2>1. connections' \in Int /\ connections' - 1 \in Int /\ 1 \in Int
    BY Constants, SMT DEF TypeInv, WiresType
  <2> QED BY <2>1, FS_Interval, Zenon DEF Closed
<1>3. IsFiniteSet(Closed' \ Outstanding')
  BY <1>2, FS_Subset
<1>4. /\ (Closed \ Outstanding) \union {} \subseteq Closed' \ Outstanding'
      /\ {} \intersect (Closed \ Outstanding) = {}
  OBVIOUS
<1>5. IsFiniteSet({}) /\ Cardinality({}) <= Cardinality({})
  BY FS_EmptySet, SMT
<1>6. Cardinality(Missing) <= Cardinality(Closed \ Outstanding) + refused
  BY DEF LossInv
<1>7. refused \in Nat /\ IsFiniteSet(Missing) /\ refused' = refused
  BY MissingFinite DEF TypeInv, MessagesType
<1>8. Cardinality(Missing') <= Cardinality(Closed' \ Outstanding') + refused
  BY <1>1, <1>3, <1>4, <1>5, <1>6, <1>7, CountBound
<1> QED BY <1>7, <1>8 DEF LossInv

LEMMA ServerLoss ==
  ASSUME TypeInv, TypeInv', SessionInv, ConnInv, TokenInv, LossInv, ServerStep
  PROVE  LossInv'
<1>0. /\ UNCHANGED <<connections, open, offline_queue, cmd_frame, arrived, refused, got>>
      /\ Closed' = Closed /\ AskingCmd' = AskingCmd
  BY ServerKeeps DEF Closed, AskingCmd
<1>a. UNCHANGED to_node => AskingNode' = AskingNode
  BY DEF AskingNode
<1>b. ~Reachable \/ Accepting => 1..client \subseteq Closed
  BY Sequences, SMT DEF Reachable, Accepting, Closed
<1>c. /\ to_app \in Seq(Frames) /\ output \in Seq(Frames) /\ output_queue \in Seq(Frames)
      /\ AnsweredOnce(output_queue) /\ AnsweredOnce(output)
      /\ Answering(output_queue) \subseteq 1..client /\ Answering(output) \subseteq 1..client
  BY Sequences, TokenConns DEF TokenInv
<1>d. Apart(AskingNode, Asking(input_queue), AskingCmd,
            Answering(output_queue), Answering(output), Answering(to_app))
  BY DEF TokenInv
<1>1. CASE Quiet
  <2>1. Held' = Held /\ Outstanding' = Outstanding
    BY <1>0, <1>1, <1>a DEF Quiet, Held, Outstanding
  <2> QED BY <1>0, <2>1, LossKept
<1>2. CASE Clearing /\ (Accepting \/ ~Reachable)
  <2>1. /\ AskingNode' = AskingNode /\ Asking(input_queue') = {} /\ Answering(output_queue') = {}
        /\ UNCHANGED <<output, to_app>>
    BY <1>2, <1>a, AsksEmpty, AnswersEmpty DEF Clearing
  <2>2. Held \subseteq Held' \union Carried(output_queue)
    BY <1>0, <2>1 DEF Held
  <2>3. Outstanding' = AskingNode \union AskingCmd \union Answering(output) \union Answering(to_app)
    BY <1>0, <2>1 DEF Outstanding
  <2>4. /\ Outstanding' \subseteq Outstanding /\ Answering(output_queue) \subseteq Outstanding
        /\ Answering(output_queue) \intersect Outstanding' = {}
    BY <1>d, <2>3 DEF Apart, Outstanding
  <2>5. Answering(output_queue) \subseteq Closed'
    BY <1>0, <1>2, <1>b, <1>c
  <2> QED BY <1>0, <1>c, <2>2, <2>4, <2>5, LossBound
<1>3. CASE Taking
  <2>1. /\ AskingNode' = AskingNode /\ UNCHANGED <<input_queue, to_app>>
        /\ Answering(output) = {} /\ Carried(output) = {}
        /\ output' = output_queue /\ Answering(output_queue') = {} /\ Carried(output_queue') = {}
    BY <1>3, <1>a, AnswersEmpty DEF Taking
  <2>2. Held' = Held /\ Outstanding' = Outstanding
    BY <1>0, <2>1 DEF Held, Outstanding
  <2> QED BY <1>0, <2>2, LossKept
<1>4. CASE Sending
  <2>1. AskingNode' = AskingNode /\ UNCHANGED <<input_queue, output_queue>>
    BY <1>4, <1>a DEF Sending
  <2>2. /\ Answering(output) = Answering(output') \union AnswerOf(Head(output))
        /\ Answering(to_app') = Answering(to_app) \union AnswerOf(Head(output))
        /\ Carried(output) = Carried(output') \union CarriedBy(Head(output))
        /\ Carried(to_app') = Carried(to_app) \union CarriedBy(Head(output))
    BY <1>4, SendingFlow
  <2>3. Held' = Held /\ Outstanding' = Outstanding
    BY <1>0, <2>1, <2>2 DEF Held, Outstanding
  <2> QED BY <1>0, <2>3, LossKept
<1>5. CASE Dropping
  <2>1. AskingNode' = AskingNode /\ UNCHANGED <<input_queue, output_queue, to_app>> /\ ~Reachable
        /\ output # <<>>
    BY <1>5, <1>a DEF Dropping
  <2>2. ASSUME NEW s \in Seq(Frames), AnsweredOnce(s), Answering(s) \subseteq Answering(output),
               Answering(s) \intersect Answering(output') = {},
               Carried(output) \subseteq Carried(output') \union Carried(s)
        PROVE  LossInv'
    <3>1. Held \subseteq Held' \union Carried(s)
      BY <1>0, <2>1, <2>2 DEF Held
    <3>2. Outstanding' = AskingNode \union Asking(input_queue) \union AskingCmd
            \union Answering(output_queue) \union Answering(output') \union Answering(to_app)
      BY <1>0, <2>1 DEF Outstanding
    <3>3. Answering(output') \subseteq Answering(output)
      BY <1>5, DroppingFlow
    <3>4. Outstanding' \subseteq Outstanding /\ Answering(s) \subseteq Outstanding
      BY <2>2, <3>2, <3>3 DEF Outstanding
    <3>5. Answering(s) \intersect Outstanding' = {}
      BY <1>d, <2>2, <3>2 DEF Apart
    <3>6. Answering(s) \subseteq Closed'
      BY <1>0, <1>b, <1>c, <2>1, <2>2
    <3> QED BY <1>0, <2>2, <3>1, <3>4, <3>5, <3>6, LossBound
  <2>3. CASE output' = <<>>
    BY <1>c, <2>2, <2>3, AnswersEmpty
  <2>4. CASE output' # <<>>
    <3> DEFINE f == Head(output)
               s == Append(<<>>, f)
    <3>1. /\ Answering(output) = Answering(output') \union AnswerOf(f)
          /\ Answering(output') \intersect AnswerOf(f) = {}
          /\ Carried(output) = Carried(output') \union CarriedBy(f)
      BY <1>5, <2>4, DroppingFlow
    <3>2. f \in Frames /\ <<>> \in Seq(Frames)
      BY <1>c, <2>1, TakeItem, EmptyItem
    <3>3. /\ s \in Seq(Frames) /\ Answering(s) = Answering(<<>>) \union AnswerOf(f)
          /\ Carried(s) = Carried(<<>>) \union CarriedBy(f)
          /\ Answering(<<>>) \intersect AnswerOf(f) = {} => AnsweredOnce(s)
      BY <3>2, AnswersAppended, AnswersEmpty, AppendItem
    <3> HIDE DEF f, s
    <3> QED BY <2>2, <3>1, <3>3, AnswersEmpty
  <2> QED BY <2>3, <2>4
<1>6. CASE Receiving
  <2>1. UNCHANGED <<to_app, output, output_queue>>
    BY <1>6 DEF Receiving
  <2>2. /\ AskingNode = AskingNode' \union AskOf(Head(to_node[client]))
        /\ Asking(input_queue') = Asking(input_queue) \union AskOf(Head(to_node[client]))
    BY <1>6, ReceivingFlow
  <2>3. Held' = Held /\ Outstanding' = Outstanding
    BY <1>0, <2>1, <2>2 DEF Held, Outstanding
  <2> QED BY <1>0, <2>3, LossKept
<1> QED BY <1>1, <1>2, <1>3, <1>4, <1>5, <1>6, ServerCases

\* The queue of messages loses no contact message, and a new one is not kept only
\* if the queue is full of contact messages.
LEMMA QueueKeeps ==
  ASSUME NEW queue \in Seq(Messages), Len(queue) <= QueueSize, NEW msg \in Messages,
         NEW new \in addToOfflineQueue(queue, msg)
  PROVE  /\ \A m \in RangeOf(queue) : ~isChannelMsg(m) => m \in RangeOf(new)
         /\ \/ msg \in RangeOf(new)
            \/ Len(queue) = QueueSize /\ \A i \in DOMAIN queue : ~isChannelMsg(queue[i])
<1> DEFINE channel == {i \in DOMAIN queue : isChannelMsg(queue[i])}
           oldest == {j \in channel : \A k \in channel : j <= k}
<1> HIDE DEF channel, oldest
<1>0. /\ Len(queue) \in Nat /\ DOMAIN queue = 1..Len(queue) /\ QueueSize \in Nat
      /\ Len(queue) <= QueueSize
  BY Constants, SMT
<1>1. CASE Len(queue) < QueueSize
  <2>1. new = Append(queue, msg)
    BY <1>1, Zenon DEF addToOfflineQueue
  <2>2. RangeOf(new) = RangeOf(queue) \union {msg}
    BY <2>1, RangeMoves
  <2> QED BY <2>2
<1>2. CASE ~(Len(queue) < QueueSize)
  <2>0. Len(queue) = QueueSize
    <3>1. \A a, b \in Nat : a <= b /\ ~(a < b) => a = b
      BY SMT
    <3> QED BY <1>0, <1>2, <3>1, Zenon
  <2>1. new \in (IF channel = {} THEN {queue} ELSE {Append(Without(queue, i), msg) : i \in oldest})
    <3>1. addToOfflineQueue(queue, msg)
            = IF Len(queue) < QueueSize THEN {Append(queue, msg)}
              ELSE IF channel = {} THEN {queue}
              ELSE {Append(Without(queue, i), msg) : i \in oldest}
      BY DEF addToOfflineQueue, channel, oldest
    <3>2. addToOfflineQueue(queue, msg)
            = IF channel = {} THEN {queue} ELSE {Append(Without(queue, i), msg) : i \in oldest}
      BY <1>2, <3>1, Zenon
    <3> QED BY <3>2, Zenon
  <2>2. CASE channel = {}
    BY <2>0, <2>1, <2>2 DEF channel
  <2>3. CASE channel # {}
    <3>1. PICK i \in oldest : new = Append(Without(queue, i), msg)
      BY <2>1, <2>3, Zenon
    <3>2. i \in 1..Len(queue) /\ isChannelMsg(queue[i])
      BY <1>0 DEF channel, oldest
    <3>3. /\ Without(queue, i) \in Seq(Messages) /\ Len(Without(queue, i)) = Len(queue) - 1
          /\ \A j \in 1..Len(queue) - 1 : Without(queue, i)[j] = queue[IF j < i THEN j ELSE j + 1]
      BY <3>2, WithoutItem
    <3>4. RangeOf(new) = RangeOf(Without(queue, i)) \union {msg}
      BY <3>1, <3>3, RangeMoves
    <3>5. DOMAIN Without(queue, i) = 1..Len(queue) - 1
      BY <1>0, <3>3, SMT
    <3>6. ASSUME NEW j \in 1..Len(queue), j # i PROVE queue[j] \in RangeOf(Without(queue, i))
      <4>1. CASE j < i
        <5>1. j \in 1..Len(queue) - 1 /\ Without(queue, i)[j] = queue[j]
          BY <1>0, <3>2, <3>3, <4>1, SMT
        <5> QED BY <3>5, <5>1 DEF RangeOf
      <4>2. CASE ~(j < i)
        <5>1. j - 1 \in 1..Len(queue) - 1 /\ ~(j - 1 < i) /\ (j - 1) + 1 = j
          BY <1>0, <3>2, <3>6, <4>2, SMT
        <5>2. Without(queue, i)[j - 1] = queue[j]
          BY <3>3, <5>1
        <5> QED BY <3>5, <5>1, <5>2 DEF RangeOf
      <4> QED BY <4>1, <4>2
    <3>7. \A m \in RangeOf(queue) : ~isChannelMsg(m) => m \in RangeOf(Without(queue, i))
      BY <1>0, <3>2, <3>6 DEF RangeOf
    <3> QED BY <3>4, <3>7
  <2> QED BY <2>2, <2>3
<1> QED BY <1>1, <1>2

LEMMA ArrivalLoss ==
  ASSUME TypeInv, TypeInv', LossInv, queueMessage
  PROVE  LossInv'
<1>0. /\ UNCHANGED <<connections, open, to_node, to_app, output, got>>
      /\ UNCHANGED <<input_queue, output_queue, cmd_frame>>
  BY LoopKeeps, ArrivalKeeps
<1>1. Outstanding' = Outstanding /\ Closed' = Closed
  BY <1>0 DEF Outstanding, Closed, AskingNode, AskingCmd
<1>2. PICK kind \in {"contact", "channel"} :
        LET msg == [id |-> Len(arrived) + 1, kind |-> kind] IN
          /\ Len(arrived) < MaxMessages
          /\ arrived' = Append(arrived, msg)
          /\ offline_queue' \in addToOfflineQueue(offline_queue, msg)
          /\ refused' = IF kind = "contact" /\ Len(offline_queue) = QueueSize
                           /\ \A i \in DOMAIN offline_queue : ~isChannelMsg(offline_queue[i])
                        THEN refused + 1 ELSE refused
  BY Zenon DEF queueMessage
<1> DEFINE msg == [id |-> Len(arrived) + 1, kind |-> kind]
<1>3. msg \in Messages /\ arrived \in Seq(Messages) /\ offline_queue \in Seq(Messages)
      /\ Len(offline_queue) <= QueueSize
  <2>1. Len(arrived) + 1 \in 1..MaxMessages
    <3>1. Len(arrived) < MaxMessages
      BY <1>2, Zenon
    <3>2. Len(arrived) \in Nat /\ MaxMessages \in Nat
      BY Sequences, Constants
    <3> QED BY <3>1, <3>2, SMT
  <2> QED BY <2>1, MessageTypes, Sequences DEF TypeInv, MessagesType
<1>4. /\ arrived' = Append(arrived, msg) /\ offline_queue' \in addToOfflineQueue(offline_queue, msg)
      /\ refused' = IF kind = "contact" /\ Len(offline_queue) = QueueSize
                       /\ \A i \in DOMAIN offline_queue : ~isChannelMsg(offline_queue[i])
                    THEN refused + 1 ELSE refused
      /\ isChannelMsg(msg) <=> kind # "contact"
  BY <1>2 DEF isChannelMsg
<1> HIDE DEF msg
<1>5. RangeOf(arrived') = RangeOf(arrived) \union {msg}
  BY <1>3, <1>4, RangeMoves
<1>6. /\ \A m \in RangeOf(offline_queue) : ~isChannelMsg(m) => m \in RangeOf(offline_queue')
      /\ \/ msg \in RangeOf(offline_queue')
         \/ /\ Len(offline_queue) = QueueSize
            /\ \A i \in DOMAIN offline_queue : ~isChannelMsg(offline_queue[i])
  BY <1>3, <1>4, QueueKeeps
<1>7. Missing = {m \in RangeOf(arrived) : ~isChannelMsg(m)} \ Held
  BY Sequences, MissingParts
<1>8. Missing' = {m \in RangeOf(arrived') : ~isChannelMsg(m)} \ Held'
  BY MissingPartsNext DEF TypeInv, WiresType, ThreadType, QueuesType
<1>9. \A m \in Held : ~isChannelMsg(m) => m \in Held'
  BY <1>0, <1>6 DEF Held
<1>10. /\ IsFiniteSet(Missing) /\ Cardinality(Missing) \in Nat
       /\ IsFiniteSet(Closed \ Outstanding) /\ Cardinality(Closed \ Outstanding) \in Nat
       /\ refused \in Nat
  BY MissingFinite, ClosedFinite, FS_Subset, FS_CardinalityType DEF TypeInv, MessagesType
<1>11. Cardinality(Missing) <= Cardinality(Closed \ Outstanding) + refused
  BY DEF LossInv
<1>12. CASE refused' = refused + 1
  <2>1. Missing' \in SUBSET (Missing \union {msg})
    BY <1>5, <1>7, <1>8, <1>9
  <2>2. IsFiniteSet(Missing \union {msg}) /\ Cardinality(Missing \union {msg}) <= Cardinality(Missing) + 1
    <3>1. /\ IsFiniteSet(Missing \union {msg})
          /\ \/ Cardinality(Missing \union {msg}) = Cardinality(Missing)
             \/ Cardinality(Missing \union {msg}) = Cardinality(Missing) + 1
      BY <1>10, FS_AddElement, Zenon
    <3> QED BY <1>10, <3>1, SMT
  <2>3. Cardinality(Missing') <= Cardinality(Missing \union {msg}) /\ IsFiniteSet(Missing')
    BY <2>1, <2>2, FS_Subset
  <2>4. Cardinality(Missing') \in Nat /\ Cardinality(Missing \union {msg}) \in Nat
    BY <2>2, <2>3, FS_CardinalityType
  <2>5. Cardinality(Missing') <= Cardinality(Closed \ Outstanding) + (refused + 1)
    BY <1>10, <1>11, <2>2, <2>3, <2>4, SMT
  <2> QED BY <1>1, <1>12, <2>5 DEF LossInv
<1>13. CASE refused' # refused + 1
  <2>1. refused' = refused /\ (isChannelMsg(msg) \/ msg \in RangeOf(offline_queue'))
    BY <1>4, <1>6, <1>13
  <2>2. Missing' \in SUBSET Missing
    BY <1>5, <1>7, <1>8, <1>9, <2>1 DEF Held
  <2>3. Cardinality(Missing') <= Cardinality(Missing) /\ Cardinality(Missing') \in Nat
    BY <1>10, <2>2, FS_Subset, FS_CardinalityType
  <2>4. Cardinality(Missing') <= Cardinality(Closed \ Outstanding) + refused
    BY <1>10, <1>11, <2>3, SMT
  <2> QED BY <1>1, <2>1, <2>4 DEF LossInv
<1> QED BY <1>12, <1>13

LEMMA AppLoss ==
  ASSUME TypeInv, TypeInv', SessionInv, ConnInv, FreshInv, TokenInv, LossInv,
         connect \/ disconnect \/ readFrame
  PROVE  LossInv'
<1>0. /\ UNCHANGED <<input_queue, output_queue, output, offline_queue, cmd_frame, arrived, refused>>
      /\ AskingCmd' = AskingCmd
  BY AppKeeps DEF AskingCmd
<1>1. CASE connect
  <2>1. /\ connections + 1 \in Connections /\ connections' = connections + 1 /\ open' = TRUE
        /\ Ask("APP_START", connections + 1) /\ UNCHANGED <<to_app, got>> /\ open = FALSE
    <3>1. connections + 1 \in Connections
      BY <1>1, NextConnection
    <3>2. open = FALSE
      BY <1>1, Zenon DEF connect, SessionInv, TypeInv, WiresType
    <3> QED BY <1>1, <3>1, <3>2 DEF connect
  <2>2. AskingNode' = AskingNode
    BY <2>1, AskFlow
  <2>3. Outstanding' = Outstanding /\ Held' = Held
    BY <1>0, <2>1, <2>2 DEF Outstanding, Held
  <2>4. Closed' = Closed
    <3>1. (connections + 1) - 1 = connections
      BY Sequences, SMT
    <3> QED BY <2>1, <3>1 DEF Closed
  <2> QED BY <1>0, <2>3, <2>4, LossKept
<1>2. CASE disconnect
  <2>1. open' = FALSE /\ to_app' = <<>> /\ UNCHANGED <<connections, to_node, got>>
    BY <1>2 DEF disconnect
  <2>2. AskingNode' = AskingNode /\ Answering(to_app') = {}
    BY <2>1, AnswersEmpty DEF AskingNode
  <2>3. Held \subseteq Held' \union Carried(to_app)
    BY <1>0, <2>1 DEF Held
  <2>4. Outstanding' = AskingNode \union Asking(input_queue) \union AskingCmd
          \union Answering(output_queue) \union Answering(output)
    BY <1>0, <2>2 DEF Outstanding
  <2>5. /\ Outstanding' \subseteq Outstanding /\ Answering(to_app) \subseteq Outstanding
        /\ Answering(to_app) \intersect Outstanding' = {}
    BY <2>4 DEF Outstanding, TokenInv, Apart
  <2>6. Closed' = 1..connections /\ Closed \subseteq 1..connections /\ 1..client \subseteq 1..connections
    BY <2>1, Sequences, SMT DEF Closed
  <2>7. Answering(to_app) \subseteq Closed'
    BY <2>6, TokenConns
  <2>8. AnsweredOnce(to_app) /\ to_app \in Seq(Frames)
    BY Sequences DEF TokenInv
  <2> QED BY <1>0, <2>3, <2>5, <2>6, <2>7, <2>8, LossBound
<1>3. CASE readFrame
  <2>1. UNCHANGED <<connections, open>> /\ open
    BY <1>3, ReadEffect, ReadReachable
  <2>2. /\ Answering(to_app) = Answering(to_app') \union AnswerOf(Head(to_app))
        /\ Carried(to_app) = Carried(to_app') \union CarriedBy(Head(to_app))
        /\ RangeOf(got') = RangeOf(got) \union CarriedBy(Head(to_app))
        /\ AskingNode' \in {AskingNode, AskingNode \union {connections}}
    BY <1>3, ReadFlow
  <2>3. Held \subseteq Held'
    BY <1>0, <2>2 DEF Held
  <2>4. Outstanding' \subseteq Outstanding \union {connections}
    BY <1>0, <2>2 DEF Outstanding
  <2>5. Closed' = Closed /\ connections \notin Closed
    BY <2>1, Sequences, SMT DEF Closed
  <2> QED BY <1>0, <2>3, <2>4, <2>5, LossKept
<1> QED BY <1>1, <1>2, <1>3

LEMMA LossStep ==
  ASSUME TypeInv, SessionInv, ConnInv, FreshInv, TokenInv, LossInv, [Next]_vars
  PROVE  LossInv'
<1>0. TypeInv'
  BY TypeStep
<1>1. CASE ServerStep
  BY <1>0, <1>1, ServerLoss
<1>2. CASE loop
  <2>1. UNCHANGED <<connections, open, to_node, to_app, output, got>>
    BY <1>2, LoopKeeps
  <2>2. UNCHANGED <<arrived, refused>>
    BY <1>2 DEF loop, writeTickle, checkRecvFrame, handleCmdFrame, listContacts
  <2>3. Closed' = Closed /\ AskingNode' = AskingNode
    BY <2>1 DEF Closed, AskingNode
  <2>4. \/ /\ UNCHANGED offline_queue
           /\ Asking(input_queue') = Asking(input_queue) /\ AskingCmd' = AskingCmd
           /\ Answering(output_queue') = Answering(output_queue)
           /\ Carried(output_queue') = Carried(output_queue)
        \/ /\ UNCHANGED <<offline_queue, output_queue>>
           /\ AskingCmd = {} /\ Asking(input_queue) = Asking(input_queue') \union AskingCmd'
        \/ /\ AskingCmd' = {} /\ Asking(input_queue') = Asking(input_queue)
           /\ Answering(output_queue') = Answering(output_queue) \union AskingCmd
           /\ Carried(output_queue) \subseteq Carried(output_queue')
           /\ RangeOf(offline_queue) \subseteq RangeOf(offline_queue') \union Carried(output_queue')
    BY <1>2, LoopFlow
  <2>5. Held \subseteq Held'
    BY <2>1, <2>4 DEF Held
  <2>6. Outstanding' = Outstanding
    BY <2>1, <2>3, <2>4 DEF Outstanding
  <2> QED BY <1>0, <2>2, <2>3, <2>5, <2>6, LossKept
<1>3. CASE queueMessage
  BY <1>0, <1>3, ArrivalLoss
<1>4. CASE connect \/ disconnect \/ readFrame
  BY <1>0, <1>4, AppLoss
<1>5. CASE UNCHANGED vars
  <2>1. /\ UNCHANGED <<connections, open, to_node, to_app, output, input_queue, output_queue,
                       offline_queue, cmd_frame, arrived, refused, got>>
    BY <1>5, StutterKeeps
  <2>2. Closed' = Closed /\ Outstanding' = Outstanding /\ Held' = Held
    BY <2>1 DEF Closed, Outstanding, AskingNode, AskingCmd, Held
  <2> QED BY <1>0, <2>1, <2>2, LossKept
<1> QED BY <1>1, <1>2, <1>3, <1>4, <1>5 DEF Next

LEMMA InitLoss ==
  ASSUME Init
  PROVE  TokenInv /\ LossInv
<1>1. /\ open = FALSE /\ to_app = <<>> /\ output = <<>> /\ input_queue = <<>> /\ output_queue = <<>>
      /\ cmd_frame = None /\ app = "closed" /\ arrived = <<>> /\ refused = 0
      /\ \A k \in Connections : to_node[k] = <<>>
  BY Zenon DEF Init, SerialInit, Connections
<1>2. AskingNode = {} /\ AskingCmd = {}
  BY <1>1, AsksEmpty DEF AskingNode, AskingCmd, AskOf, IsAsk, None
<1>3. TokenInv
  BY <1>1, <1>2, AsksEmpty, AnswersEmpty DEF TokenInv, Apart
<1>4. Missing = {}
  BY <1>1, SMT DEF Missing, RangeOf
<1>5. IsFiniteSet(Closed \ Outstanding)
  BY InitType, ClosedFinite, FS_Subset
<1>6. Cardinality(Closed \ Outstanding) \in Nat /\ Cardinality(Missing) = 0
  BY <1>4, <1>5, FS_CardinalityType, FS_EmptySet
<1>7. LossInv
  BY <1>1, <1>6, SMT DEF LossInv
<1> QED BY <1>3, <1>7

\* No message is lost but the one that each closed connection was being handed and
\* those that found the queue full of contact messages.
LEMMA LossInvAccounts ==
  ASSUME TypeInv, SessionInv, LossInv
  PROVE  Accounted
<1> DEFINE closed == IF open THEN connections - 1 ELSE connections
<1>1. IsFiniteSet(Closed) /\ Cardinality(Closed) = closed
  BY ClosedFinite
<1>2. IsFiniteSet(Closed \ Outstanding) /\ Cardinality(Closed \ Outstanding) <= Cardinality(Closed)
  BY <1>1, FS_Subset
<1>3. /\ Cardinality(Missing) \in Nat /\ Cardinality(Closed \ Outstanding) \in Nat
      /\ Cardinality(Closed) \in Nat /\ refused \in Nat
  BY <1>1, <1>2, MissingFinite, FS_CardinalityType DEF TypeInv, MessagesType
<1>4. Cardinality(Missing) <= Cardinality(Closed \ Outstanding) + refused
  BY DEF LossInv
<1> HIDE DEF closed
<1>5. Cardinality(Missing) <= closed + refused
  BY <1>1, <1>2, <1>3, <1>4, SMT
<1> QED BY <1>5 DEF Accounted, Missing, closed

\* A contact message that arrived is kept, under way or read, but for those that
\* found the queue full of contact messages and for one per closed connection.
THEOREM AlwaysAccounted == Spec => []Accounted
<1> DEFINE Inv == TypeInv /\ SessionInv /\ ConnInv /\ FreshInv /\ TokenInv /\ LossInv
<1>1. Init => Inv
  BY InitType, InitSession, InitLoss
<1>2. Inv /\ [Next]_vars => Inv'
  BY TypeStep, SessionStep, ConnStep, FreshStep, TokenStep, LossStep
<1>3. Inv => Accounted
  BY LossInvAccounts
<1> QED BY <1>1, <1>2, <1>3, PTL DEF Spec
=============================================================================
