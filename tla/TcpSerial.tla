------------------------------ MODULE TcpSerial ------------------------------
(***************************************************************************)
(* The server thread behind a companion's TCP port                         *)
(* (MeshCore/simulator/TcpSerialInterface.cpp): it serves one client after *)
(* the other, and shares two queues of frames and a flag with the run loop *)
(* of the firmware. Each step is what happens between two acquisitions of  *)
(* the mutex or accesses to the flag.                                      *)
(*                                                                         *)
(* Connections are numbered in the order in which they are made. A client  *)
(* that closes its connection may do so at any time, and the server learns *)
(* of it when it next sends or receives. The interface stays enabled.      *)
(***************************************************************************)
EXTENDS Integers, Sequences

CONSTANT MaxConnections    \* bound

ASSUME ConnectionsAssumption == MaxConnections \in Nat

VARIABLES
  connections,   \* made so far by clients
  open,          \* whether the client has the last one still open
  to_node,       \* per connection: frames sent by the client and not read yet
  to_app,        \* frames sent on the open connection and not read yet
  server,        \* where the thread is in runServer()
  client,        \* the connection accepted last
  connected,     \* connected_
  output,        \* frames taken from the output queue and not sent yet
  input_queue, output_queue

wires == <<connections, open, to_node, to_app>>
queues == <<input_queue, output_queue>>
thread == <<server, client, connected, output>>
serialVars == <<wires, queues, thread>>

SerialInit ==
  /\ connections = 0 /\ open = FALSE
  /\ to_node = [c \in 1..MaxConnections |-> <<>>] /\ to_app = <<>>
  /\ server = "accepting" /\ client = 0 /\ connected = FALSE /\ output = <<>>
  /\ input_queue = <<>> /\ output_queue = <<>>

-----------------------------------------------------------------------------
(***************************************************************************)
(* What the run loop calls.                                                *)
(***************************************************************************)

writeFrame(frame) == output_queue' = Append(output_queue, frame)

isWriteBusy == output_queue # <<>>

-----------------------------------------------------------------------------
(***************************************************************************)
(* The steps of runServer().                                               *)
(***************************************************************************)

\* The client of the accepted connection still has it open.
Reachable == open /\ client = connections

clearQueues == input_queue' = <<>> /\ output_queue' = <<>>

Accept ==
  /\ server = "accepting" /\ client < connections
  /\ client' = client + 1
  /\ clearQueues
  /\ server' = "accepted"
  /\ UNCHANGED <<wires, connected, output>>

StartServing ==
  /\ server = "accepted"
  /\ connected' = TRUE
  /\ server' = "serving"
  /\ UNCHANGED <<wires, queues, client, output>>

TakeOutput ==
  /\ server = "serving" /\ output = <<>> /\ output_queue # <<>>
  /\ output' = output_queue
  /\ output_queue' = <<>>
  /\ UNCHANGED <<wires, server, client, connected, input_queue>>

\* A frame for a client that is gone is taken by the socket, or refused.
SendFrame ==
  /\ server = "serving" /\ output # <<>>
  /\ IF Reachable
     THEN /\ to_app' = Append(to_app, Head(output))
          /\ output' = Tail(output)
          /\ UNCHANGED server
     ELSE \/ /\ output' = Tail(output)
             /\ UNCHANGED <<server, to_app>>
          \/ /\ output' = <<>>
             /\ server' = "leaving"
             /\ UNCHANGED to_app
  /\ UNCHANGED <<connections, open, to_node, client, connected, queues>>

ReceiveFrame ==
  /\ server = "serving" /\ output = <<>> /\ to_node[client] # <<>>
  /\ input_queue' = Append(input_queue, Head(to_node[client]))
  /\ to_node' = [to_node EXCEPT ![client] = Tail(@)]
  /\ UNCHANGED <<connections, open, to_app, thread, output_queue>>

\* recv() reports the end of the connection, after what was sent or instead of it.
ReceiveEnd ==
  /\ server = "serving" /\ output = <<>> /\ ~Reachable
  /\ server' = "leaving"
  /\ UNCHANGED <<wires, queues, client, connected, output>>

StopServing ==
  /\ server = "leaving"
  /\ connected' = FALSE
  /\ server' = "left"
  /\ UNCHANGED <<wires, queues, client, output>>

CloseClient ==
  /\ server = "left"
  /\ clearQueues
  /\ server' = "accepting"
  /\ UNCHANGED <<wires, client, connected, output>>

runServer ==
  \/ Accept \/ StartServing
  \/ TakeOutput \/ SendFrame \/ ReceiveFrame \/ ReceiveEnd
  \/ StopServing \/ CloseClient
=============================================================================
