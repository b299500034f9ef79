-------------------------- MODULE SimulationManager --------------------------
(***************************************************************************)
(* The supervisor of the native simulator                                  *)
(* (src/meshcore_simulator/simulation.py): requests of the dashboard start *)
(* and stop the process and look at it, each in a thread of the server; a  *)
(* reader thread per process records the lines it prints. One lock guards  *)
(* what they share, and is released while a thread waits for a process.    *)
(*                                                                         *)
(* A process binds its ports, sends packets, and may fail or stop at any   *)
(* time. A packet on the air is a line when it is sent, one when it can be *)
(* heard and one when it ends, numbered from 1 in every process. Times are *)
(* abstracted: a wait ends with its event or, where the code gives up,     *)
(* without it.                                                             *)
(***************************************************************************)
EXTENDS Integers, Sequences, FiniteSets

CONSTANTS
  Threads,
  MaxProcesses, MaxTransmissions   \* bounds

ASSUME ManagerAssumption ==
  IsFiniteSet(Threads) /\ MaxProcesses \in Nat /\ MaxTransmissions \in Nat

VARIABLES
  lock,             \* the thread that builds with _lock held, or Nobody
  process, stdout_thread, packet_routes, counted_transmissions,
  packet_bytes_sent,          \* in packets
  at, op,           \* per thread: where it is in which request
  local,            \* per thread: the process it waits for
  local_reader,     \* per thread: the process whose reader it waits for
  state,            \* per process
  stdout,           \* per process: lines printed and not recorded yet
  sent, ended,      \* per process: transmissions begun and ended
  overlapped        \* history: a start or stop came while another was under way

shared == <<process, stdout_thread, packet_routes, counted_transmissions, packet_bytes_sent>>
requests == <<at, op, local, local_reader, overlapped>>
natives == <<state, stdout, sent, ended>>
vars == <<lock, shared, requests, natives>>

Nobody == "nobody"
None == 0
Processes == 1..MaxProcesses

Init ==
  /\ lock = Nobody
  /\ process = None /\ stdout_thread = None
  /\ packet_routes = {} /\ counted_transmissions = {} /\ packet_bytes_sent = 0
  /\ at = [t \in Threads |-> "idle"] /\ op = [t \in Threads |-> "none"]
  /\ local = [t \in Threads |-> None] /\ local_reader = [t \in Threads |-> None]
  /\ state = [p \in Processes |-> "absent"]
  /\ stdout = [p \in Processes |-> <<>>] /\ sent = [p \in Processes |-> 0]
  /\ ended = [p \in Processes |-> 0]
  /\ overlapped = FALSE

Free == lock = Nobody
Go(t, place) == at' = [at EXCEPT ![t] = place]
Finish(t) == Go(t, "idle") /\ op' = [op EXCEPT ![t] = "none"] /\ local' = [local EXCEPT ![t] = None]
Alive(p) == p # None /\ state[p] \in {"starting", "serving"}

-----------------------------------------------------------------------------
(***************************************************************************)
(* The process and the thread that reads what it prints.                   *)
(***************************************************************************)

Line(kind, p, n) == [kind |-> kind, run |-> p, transmission |-> n]
Prints(p, lines) == stdout' = [stdout EXCEPT ![p] = @ \o lines]

\* A port that another process has bound is an error.
listen(p) ==
  /\ state[p] = "starting"
  /\ state' = [state EXCEPT ![p] =
       IF \E q \in Processes : state[q] = "serving" THEN "exited" ELSE "serving"]
  /\ UNCHANGED <<lock, shared, requests, stdout, sent, ended>>

transmit(p) ==
  /\ state[p] = "serving" /\ sent[p] < MaxTransmissions
  /\ sent' = [sent EXCEPT ![p] = @ + 1]
  /\ Prints(p, <<Line("PACKET_SENT", p, sent[p] + 1), Line("ROUTE_START", p, sent[p] + 1)>>)
  /\ UNCHANGED <<lock, shared, requests, state, ended>>

endTransmission(p) ==
  /\ state[p] = "serving" /\ ended[p] < sent[p]
  /\ ended' = [ended EXCEPT ![p] = @ + 1]
  /\ Prints(p, <<Line("ROUTE_END", p, ended[p] + 1)>>)
  /\ UNCHANGED <<lock, shared, requests, state, sent>>

fail(p) ==
  /\ Alive(p)
  /\ state' = [state EXCEPT ![p] = "exited"]
  /\ UNCHANGED <<lock, shared, requests, stdout, sent, ended>>

native == \E p \in Processes : listen(p) \/ transmit(p) \/ endTransmission(p) \/ fail(p)

\* Keys do not tell the runs apart.
Same(line, n) == line.transmission = n

\* Slip: a transmission is counted again if its run was not.
countAgain(line) ==
  /\ counted_transmissions' = counted_transmissions \union {line}
  /\ packet_bytes_sent' = packet_bytes_sent + 1
count_packet_transmission(line) ==
  IF \E c \in counted_transmissions : Same(c, line.transmission)
  THEN UNCHANGED <<counted_transmissions, packet_bytes_sent>>
  ELSE /\ counted_transmissions' = counted_transmissions \union {line}
       /\ packet_bytes_sent' = packet_bytes_sent + 1

record_output_line(line) ==
  LET others == {r \in packet_routes : ~Same(r, line.transmission)}
  IN CASE line.kind = "PACKET_SENT" -> count_packet_transmission(line) /\ UNCHANGED packet_routes
       [] line.kind = "ROUTE_START" ->
            packet_routes' = others \union {line} /\ UNCHANGED <<counted_transmissions, packet_bytes_sent>>
       [] line.kind = "ROUTE_END" ->
            packet_routes' = others /\ UNCHANGED <<counted_transmissions, packet_bytes_sent>>

read_stdout(p) ==
  /\ Free /\ stdout[p] # <<>>
  /\ record_output_line(Head(stdout[p]))
  /\ stdout' = [stdout EXCEPT ![p] = Tail(@)]
  /\ UNCHANGED <<lock, process, stdout_thread, requests, state, sent, ended>>

-----------------------------------------------------------------------------
(***************************************************************************)
(* stop(), which start() calls first and when it gives up.                 *)
(***************************************************************************)

\* A start or stop that comes while another is under way; requests that only
\* look do not matter.
request(t) ==
  /\ at[t] = "idle"
  /\ \E o \in {"start", "stop", "snapshot"} :
       /\ op' = [op EXCEPT ![t] = o]
       /\ Go(t, IF o = "snapshot" THEN "snapshot" ELSE "stop")
       /\ overlapped' = (overlapped \/ (o # "snapshot" /\ \E u \in Threads \ {t} : op[u] \notin {"none", "snapshot"}))
  /\ UNCHANGED <<lock, shared, local, local_reader, natives>>

stop(t) ==
  /\ at[t] \in {"stop", "gave_up"} /\ Free
  /\ local' = [local EXCEPT ![t] = process] /\ process' = None
  /\ local_reader' = [local_reader EXCEPT ![t] = stdout_thread] /\ stdout_thread' = None
  /\ packet_routes' = {}
  /\ op' = [op EXCEPT ![t] = IF at[t] = "gave_up" THEN "failed" ELSE @]
  /\ Go(t, "terminate")
  /\ UNCHANGED <<lock, counted_transmissions, packet_bytes_sent, overlapped, natives>>

\* Slip: the process is told to end and not waited for.
terminatedLater(p) == UNCHANGED state
terminated(p) == state' = IF Alive(p) THEN [state EXCEPT ![p] = "exited"] ELSE state

terminate(t) ==
  /\ at[t] = "terminate"
  /\ terminated(local[t])
  /\ local' = [local EXCEPT ![t] = None]
  /\ Go(t, "join")
  /\ UNCHANGED <<lock, shared, op, local_reader, overlapped, stdout, sent, ended>>

\* The reader of a process ends with its output. The thread waits a second for
\* it, which is not enough while another thread builds, or if the process runs on.
Joined(p) == p # None /\ state[p] = "exited" /\ Free => stdout[p] = <<>>

join(t) ==
  /\ at[t] = "join" /\ Joined(local_reader[t])
  /\ local_reader' = [local_reader EXCEPT ![t] = None]
  /\ CASE op[t] = "start" -> Go(t, "lock") /\ UNCHANGED <<op, local>>
       [] op[t] = "stop" -> Go(t, "snapshot") /\ UNCHANGED <<op, local>>
       [] op[t] = "failed" -> Finish(t)
  /\ UNCHANGED <<lock, shared, overlapped, natives>>

-----------------------------------------------------------------------------
(***************************************************************************)
(* start() and snapshot().                                                 *)
(***************************************************************************)

\* Slip: the transmissions counted in the last run are kept.
clearCountsOnly == packet_bytes_sent' = 0 /\ UNCHANGED counted_transmissions
clearCounts == packet_bytes_sent' = 0 /\ counted_transmissions' = {}

startBuild(t) ==
  /\ at[t] = "lock" /\ Free
  /\ lock' = t
  /\ packet_routes' = {} /\ clearCounts
  /\ Go(t, "build")
  /\ UNCHANGED <<process, stdout_thread, op, local, local_reader, overlapped, natives>>

buildFails(t) ==
  /\ at[t] = "build"
  /\ lock' = Nobody
  /\ Finish(t)
  /\ UNCHANGED <<shared, local_reader, overlapped, natives>>

spawn(t) ==
  \E p \in Processes :
    /\ at[t] = "build"
    /\ \A q \in Processes : state[q] = "absent" <=> q >= p
    /\ state' = [state EXCEPT ![p] = "starting"]
    /\ process' = p /\ stdout_thread' = p
    /\ local' = [local EXCEPT ![t] = p]
    /\ lock' = Nobody
    /\ Go(t, "wait")
    /\ UNCHANGED <<packet_routes, counted_transmissions, packet_bytes_sent, op, local_reader,
                   overlapped, stdout, sent, ended>>

\* One turn of the loop finds that the process has ended, or that the ports
\* answer, whoever has them.
pollProcess(t) ==
  /\ at[t] = "wait"
  /\ \/ state[local[t]] = "exited" /\ Go(t, "exited")
     \/ (\E p \in Processes : state[p] = "serving") /\ Go(t, "snapshot")
  /\ UNCHANGED <<lock, shared, op, local, local_reader, overlapped, natives>>

\* Slips: a process that is given up is not terminated, and only one that has
\* bound its ports is given up.
giveUpForgetting(t) ==
  /\ at[t] = "wait"
  /\ process' = None
  /\ Finish(t)
  /\ UNCHANGED <<lock, stdout_thread, packet_routes, counted_transmissions, packet_bytes_sent,
                 local_reader, overlapped, natives>>
giveUpServing(t) ==
  /\ at[t] = "wait" /\ state[local[t]] = "serving"
  /\ Go(t, "gave_up")
  /\ UNCHANGED <<lock, shared, op, local, local_reader, overlapped, natives>>

\* The deadline passes.
giveUp(t) ==
  /\ at[t] = "wait"
  /\ Go(t, "gave_up")
  /\ UNCHANGED <<lock, shared, op, local, local_reader, overlapped, natives>>

startFails(t) ==
  /\ at[t] = "exited" /\ Free
  /\ process' = None
  /\ Finish(t)
  /\ UNCHANGED <<lock, stdout_thread, packet_routes, counted_transmissions, packet_bytes_sent,
                 local_reader, overlapped, natives>>

\* _refresh_process() forgets a process that has ended.
ended_by_itself(p) == p # None /\ state[p] = "exited"

\* Routes are dropped when they have expired.
snapshot(t) ==
  /\ at[t] = "snapshot" /\ Free
  /\ IF ended_by_itself(process)
     THEN process' = None /\ packet_routes' = {}
     ELSE packet_routes' \in SUBSET packet_routes /\ UNCHANGED process
  /\ Finish(t)
  /\ UNCHANGED <<lock, stdout_thread, counted_transmissions, packet_bytes_sent,
                 local_reader, overlapped, natives>>

thread(t) ==
  \/ stop(t) \/ terminate(t) \/ join(t)
  \/ startBuild(t) \/ buildFails(t) \/ spawn(t)
  \/ pollProcess(t) \/ giveUp(t) \/ startFails(t)
  \/ snapshot(t)

reader == \E p \in Processes : read_stdout(p)

Next == native \/ reader \/ \E t \in Threads : request(t) \/ thread(t)

\* Threads run, and get the lock sooner or later; a process may hang.
Spec == Init /\ [][Next]_vars /\ WF_vars(reader) /\ \A t \in Threads : SF_vars(thread(t))

-----------------------------------------------------------------------------
(***************************************************************************)
(* Properties. Requests of two users may overlap, and then a process that  *)
(* nobody remembers can be left running: Supervised, PortsAreOwn and       *)
(* RunCounted are about starts and stops that come one after the other.    *)
(***************************************************************************)

Lines == [kind : {"PACKET_SENT", "ROUTE_START", "ROUTE_END"}, run : Processes,
          transmission : 1..MaxTransmissions]

TypeOK ==
  /\ lock \in Threads \union {Nobody}
  /\ process \in Processes \union {None} /\ stdout_thread \in Processes \union {None}
  /\ packet_routes \subseteq Lines /\ counted_transmissions \subseteq Lines
  /\ packet_bytes_sent \in 0..MaxTransmissions
  /\ at \in [Threads -> {"idle", "stop", "terminate", "join", "lock", "build", "wait", "gave_up",
                         "exited", "snapshot"}]
  /\ op \in [Threads -> {"none", "start", "stop", "snapshot", "failed"}]
  /\ local \in [Threads -> Processes \union {None}]
  /\ local_reader \in [Threads -> Processes \union {None}]
  /\ state \in [Processes -> {"absent", "starting", "serving", "exited"}]
  /\ stdout \in [Processes -> Seq(Lines)]
  /\ sent \in [Processes -> 0..MaxTransmissions] /\ ended \in [Processes -> 0..MaxTransmissions]
  /\ overlapped \in BOOLEAN

\* A process that runs is the one the manager remembers, or is about to be
\* terminated: none is left behind when a start fails, gives up or is polled.
Supervised ==
  ~overlapped =>
    \A p \in Processes : Alive(p) =>
      p = process \/ \E t \in Threads : at[t] = "terminate" /\ local[t] = p

\* While a start waits for its process, no other one has the ports, so that the
\* ports that answer are its own.
PortsAreOwn ==
  ~overlapped =>
    \A t \in Threads : at[t] = "wait" => \A p \in Processes : Alive(p) => p = local[t]

\* What is shown of a run is of that run, and every transmission of it counts
\* exactly once, as soon as its line is read.
RunCounted ==
  ~overlapped /\ process # None =>
    /\ \A line \in counted_transmissions \union packet_routes : line.run = process
    /\ LET unread == {i \in DOMAIN stdout[process] : stdout[process][i].kind = "PACKET_SENT"}
       IN packet_bytes_sent + Cardinality(unread) = sent[process]

\* Every request is answered: no wait is for a process that never comes, and no
\* thread waits for a reader that waits for it.
RequestsAnswered == \A t \in Threads : at[t] # "idle" ~> at[t] = "idle"
=============================================================================
