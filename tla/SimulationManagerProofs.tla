---------------------- MODULE SimulationManagerProofs ----------------------
(***************************************************************************)
(* The manager of the native simulator leaves no process behind, waits for *)
(* no other process than its own and counts every packet of a run once,    *)
(* for any number of threads, as long as starts and stops come one after   *)
(* the other; its variables are well-formed even if they do not.           *)
(***************************************************************************)
EXTENDS SimulationManager, FiniteSetTheorems, TLAPS

\* Where a thread is in a start or a stop.
Places == {"stop", "terminate", "join", "lock", "build", "wait", "gave_up", "exited"}

Controls(t) == op[t] \notin {"none", "snapshot"}

ThreadsInv ==
  /\ at \in [Threads -> Places \union {"idle", "snapshot"}]
  /\ op \in [Threads -> {"none", "start", "stop", "snapshot", "failed"}]
  /\ local \in [Threads -> Processes \union {None}]
  /\ process \in Processes \union {None}
  /\ state \in [Processes -> {"absent", "starting", "serving", "exited"}]
  /\ \A t \in Threads : at[t] \in Places => Controls(t)

\* Only one thread starts or stops, and what it has taken is not remembered.
OneAtATime ==
  ~overlapped =>
    /\ \A t, u \in Threads : Controls(t) /\ Controls(u) => t = u
    /\ \A t \in Threads :
         /\ at[t] \in {"terminate", "join", "lock", "build"} => process = None
         /\ at[t] \in {"wait", "exited"} =>
              local[t] # None /\ (process # None => process = local[t])
         /\ at[t] = "exited" => state[local[t]] = "exited"

IInv == ThreadsInv /\ OneAtATime /\ Supervised

LEMMA NoneIsNoProcess == None \notin Processes
  BY SMT DEF None, Processes

\* The three parts of the invariant hold at the start.
LEMMA InitInv == Init => IInv
<1> SUFFICES ASSUME Init PROVE IInv
    OBVIOUS
<1>1. ThreadsInv
    BY SMT DEF Init, ThreadsInv, Places, Controls
<1>2. OneAtATime
    BY SMT DEF Init, OneAtATime, Controls
<1>3. Supervised
    BY SMT DEF Init, Supervised, Alive
<1> QED BY <1>1, <1>2, <1>3 DEF IInv

\* Every step keeps the threads' places and what they hold well-formed.
LEMMA ThreadsStep == ASSUME IInv, [Next]_vars PROVE ThreadsInv'
<1> USE DEF IInv, ThreadsInv, Places, Controls
<1>1. CASE native
    BY <1>1, SMT DEF native, listen, transmit, endTransmission, fail, requests, shared
<1>2. CASE reader
    BY <1>2, SMT DEF reader, read_stdout, requests
<1>3. ASSUME NEW t \in Threads, request(t) \/ thread(t) PROVE ThreadsInv'
  <2>1. CASE request(t)
      BY <2>1, SMT DEF request, Go, shared, natives
  <2>2. CASE stop(t)
      BY <2>2, SMT DEF stop, Go, natives
  <2>3. CASE terminate(t)
      BY <2>3, SMT DEF terminate, terminated, Alive, Go, shared
  <2>4. CASE join(t)
    <3>1. op[t] \in {"start", "stop", "failed"}
        BY <2>4, SMT DEF join
    <3>2. CASE op[t] = "start"
        BY <2>4, <3>2, SMT DEF join, Go, shared, natives
    <3>3. CASE op[t] = "stop"
        BY <2>4, <3>3, SMT DEF join, Go, shared, natives
    <3>4. CASE op[t] = "failed"
        BY <2>4, <3>4, SMT DEF join, Go, Finish, shared, natives
    <3> QED BY <3>1, <3>2, <3>3, <3>4
  <2>5. CASE startBuild(t)
      BY <2>5, SMT DEF startBuild, Go, natives
  <2>6. CASE buildFails(t)
      BY <2>6, SMT DEF buildFails, Finish, Go, shared, natives
  <2>7. CASE spawn(t)
      BY <2>7, SMT DEF spawn, Go
  <2>8. CASE pollProcess(t)
      BY <2>8, SMT DEF pollProcess, Go, shared, natives
  <2>9. CASE giveUp(t)
      BY <2>9, SMT DEF giveUp, Go, shared, natives
  <2>10. CASE startFails(t)
      BY <2>10, SMT DEF startFails, Finish, Go, natives
  <2>11. CASE snapshot(t)
      BY <2>11, SMT DEF snapshot, Finish, Go, natives
  <2> QED BY <1>3, <2>1, <2>2, <2>3, <2>4, <2>5, <2>6, <2>7, <2>8, <2>9, <2>10, <2>11 DEF thread
<1>4. CASE UNCHANGED vars
    BY <1>4, SMT DEF vars, requests, shared, natives
<1> QED BY <1>1, <1>2, <1>3, <1>4 DEF Next

\* Every step keeps starts and stops apart, unless it makes them overlap.
LEMMA OneAtATimeStep == ASSUME IInv, [Next]_vars PROVE OneAtATime'
<1> SUFFICES ASSUME ~overlapped' PROVE OneAtATime'
    BY DEF OneAtATime
<1> USE DEF IInv, ThreadsInv, Places, OneAtATime, Controls
<1>1. CASE native
    BY <1>1, SMT DEF native, listen, transmit, endTransmission, fail, requests, shared, Alive
<1>2. CASE reader
    BY <1>2, SMT DEF reader, read_stdout, requests
<1>3. ASSUME NEW t \in Threads, request(t) \/ thread(t) PROVE OneAtATime'
  <2>1. CASE request(t)
    <3>1. PICK o \in {"start", "stop", "snapshot"} :
            /\ op' = [op EXCEPT ![t] = o]
            /\ at' = [at EXCEPT ![t] = IF o = "snapshot" THEN "snapshot" ELSE "stop"]
            /\ ~overlapped
            /\ o # "snapshot" => \A u \in Threads \ {t} : ~Controls(u)
        BY <2>1, Zenon DEF request, Go
    <3>2. UNCHANGED <<process, local, state>> /\ at[t] = "idle"
        BY <2>1, SMT DEF request, shared, natives
    <3>3. \A u \in Threads : Controls(u)' => IF u = t THEN o # "snapshot" ELSE Controls(u)
        BY <3>1, SMT
    <3> QED BY <3>1, <3>2, <3>3, SMT
  <2>2. CASE stop(t)
      BY <2>2, SMT DEF stop, Go, natives
  <2>3. CASE terminate(t)
      BY <2>3, SMT DEF terminate, terminated, Alive, Go, shared
  <2>4. CASE join(t)
    <3>1. op[t] \in {"start", "stop", "failed"}
        BY <2>4, SMT DEF join
    <3>2. CASE op[t] = "start"
        BY <2>4, <3>2, SMT DEF join, Go, shared, natives
    <3>3. CASE op[t] = "stop"
        BY <2>4, <3>3, SMT DEF join, Go, shared, natives
    <3>4. CASE op[t] = "failed"
        BY <2>4, <3>4, SMT DEF join, Go, Finish, shared, natives
    <3> QED BY <3>1, <3>2, <3>3, <3>4
  <2>5. CASE startBuild(t)
      BY <2>5, SMT DEF startBuild, Go, natives
  <2>6. CASE buildFails(t)
      BY <2>6, SMT DEF buildFails, Finish, Go, shared, natives
  <2>7. CASE spawn(t)
      BY <2>7, NoneIsNoProcess, SMT DEF spawn, Go
  <2>8. CASE pollProcess(t)
      BY <2>8, SMT DEF pollProcess, Go, shared, natives
  <2>9. CASE giveUp(t)
      BY <2>9, SMT DEF giveUp, Go, shared, natives
  <2>10. CASE startFails(t)
      BY <2>10, SMT DEF startFails, Finish, Go, natives
  <2>11. CASE snapshot(t)
      BY <2>11, SMT DEF snapshot, Finish, Go, natives
  <2> QED BY <1>3, <2>1, <2>2, <2>3, <2>4, <2>5, <2>6, <2>7, <2>8, <2>9, <2>10, <2>11 DEF thread
<1>4. CASE UNCHANGED vars
    BY <1>4, SMT DEF vars, requests, shared, natives
<1> QED BY <1>1, <1>2, <1>3, <1>4 DEF Next

\* No step leaves a process behind.
LEMMA SupervisedStep == ASSUME IInv, [Next]_vars PROVE Supervised'
<1> SUFFICES ASSUME ~overlapped' PROVE Supervised'
    BY DEF Supervised
<1> USE DEF IInv, ThreadsInv, Places, OneAtATime, Controls, Supervised, Alive
<1>1. CASE native
    BY <1>1, SMT DEF native, listen, transmit, endTransmission, fail, requests, shared
<1>2. CASE reader
    BY <1>2, SMT DEF reader, read_stdout, requests
<1>3. ASSUME NEW t \in Threads, request(t) \/ thread(t) PROVE Supervised'
  <2>1. CASE request(t)
    <3>1. PICK o \in {"start", "stop", "snapshot"} :
            /\ op' = [op EXCEPT ![t] = o]
            /\ at' = [at EXCEPT ![t] = IF o = "snapshot" THEN "snapshot" ELSE "stop"]
            /\ ~overlapped
            /\ o # "snapshot" => \A u \in Threads \ {t} : ~Controls(u)
        BY <2>1, Zenon DEF request, Go
    <3>2. UNCHANGED <<process, local, state>> /\ at[t] = "idle"
        BY <2>1, SMT DEF request, shared, natives
    <3> QED BY <3>1, <3>2, SMT
  <2>2. CASE stop(t)
      BY <2>2, SMT DEF stop, Go, natives
  <2>3. CASE terminate(t)
      BY <2>3, SMT DEF terminate, terminated, Go, shared
  <2>4. CASE join(t)
      BY <2>4, SMT DEF join, Go, Finish, shared, natives
  <2>5. CASE startBuild(t)
      BY <2>5, SMT DEF startBuild, Go, natives
  <2>6. CASE buildFails(t)
      BY <2>6, SMT DEF buildFails, Finish, Go, shared, natives
  <2>7. CASE spawn(t)
      BY <2>7, NoneIsNoProcess, SMT DEF spawn, Go
  <2>8. CASE pollProcess(t)
      BY <2>8, SMT DEF pollProcess, Go, shared, natives
  <2>9. CASE giveUp(t)
      BY <2>9, SMT DEF giveUp, Go, shared, natives
  <2>10. CASE startFails(t)
      BY <2>10, SMT DEF startFails, Finish, Go, natives
  <2>11. CASE snapshot(t)
      BY <2>11, SMT DEF snapshot, ended_by_itself, Finish, Go, natives
  <2> QED BY <1>3, <2>1, <2>2, <2>3, <2>4, <2>5, <2>6, <2>7, <2>8, <2>9, <2>10, <2>11 DEF thread
<1>4. CASE UNCHANGED vars
    BY <1>4, SMT DEF vars, requests, shared, natives
<1> QED BY <1>1, <1>2, <1>3, <1>4 DEF Next

\* A start that waits controls, so nobody terminates another process.
LEMMA PortsFollow == IInv => PortsAreOwn
<1> SUFFICES ASSUME IInv, ~overlapped, NEW t \in Threads, at[t] = "wait",
                    NEW p \in Processes, Alive(p)
             PROVE  p = local[t]
    BY DEF PortsAreOwn
<1>1. p = process
  <2> SUFFICES ASSUME NEW u \in Threads, at[u] = "terminate" PROVE FALSE
      BY DEF IInv, Supervised
  <2>1. Controls(t) /\ Controls(u)
      BY DEF IInv, ThreadsInv, Places
  <2> QED BY <2>1 DEF IInv, OneAtATime
<1> QED BY <1>1, NoneIsNoProcess DEF IInv, OneAtATime

\* The invariant holds in every state.
THEOREM Invariance == Spec => []IInv
<1>1. IInv /\ [Next]_vars => IInv'
    BY ThreadsStep, OneAtATimeStep, SupervisedStep DEF IInv
<1> QED BY InitInv, <1>1, PTL DEF Spec

\* No process runs that the manager does not remember or terminate.
THEOREM AlwaysSupervised == Spec => []Supervised
<1>1. IInv => Supervised
    BY DEF IInv
<1> QED BY Invariance, <1>1, PTL

\* While a start waits, the ports that answer are those of its own process.
THEOREM AlwaysOwnPorts == Spec => []PortsAreOwn
BY Invariance, PortsFollow, PTL

-----------------------------------------------------------------------------
(***************************************************************************)
(* What is recorded of a run.                                              *)
(***************************************************************************)

\* The lines of packets sent that have not been read yet, and the numbers
\* they carry; the numbers counted.
Unread(p) == {i \in DOMAIN stdout[p] : stdout[p][i].kind = "PACKET_SENT"}
UnreadNumbers(p) == {stdout[p][i].transmission : i \in Unread(p)}
Numbers == {line.transmission : line \in counted_transmissions}

\* A process prints its own lines, a number once, and none before it runs.
PipesInv ==
  /\ stdout \in [Processes -> Seq(Lines)]
  /\ sent \in [Processes -> 0..MaxTransmissions] /\ ended \in [Processes -> 0..MaxTransmissions]
  /\ \A p \in Processes :
       /\ state[p] = "absent" => stdout[p] = <<>> /\ sent[p] = 0
       /\ \A i \in DOMAIN stdout[p] : stdout[p][i].run = p
       /\ UnreadNumbers(p) \subseteq 1..sent[p]
       /\ \A i, j \in Unread(p) : stdout[p][i].transmission = stdout[p][j].transmission => i = j

\* A number counts once, whoever reads which process.
CountInv ==
  /\ packet_routes \subseteq Lines /\ counted_transmissions \subseteq Lines
  /\ packet_bytes_sent = Cardinality(Numbers)

SharedInv ==
  /\ lock \in Threads \union {Nobody}
  /\ lock # Nobody => at[lock] = "build"
  /\ stdout_thread \in Processes \union {None}
  /\ local_reader \in [Threads -> Processes \union {None}]
  /\ overlapped \in BOOLEAN

\* The reader that a start or stop waits for is the one of the process it took.
ReadersInv ==
  /\ process # None => stdout_thread = process /\ state[process] # "absent"
  /\ process = None /\ stdout_thread # None => state[stdout_thread] = "exited"
  /\ \A t \in Threads :
       /\ at[t] \in {"terminate", "join", "lock", "build"} => stdout_thread = None
       /\ at[t] = "terminate" /\ local[t] # None =>
            local_reader[t] = local[t] /\ state[local[t]] # "absent"
       /\ at[t] = "terminate" /\ local[t] = None /\ local_reader[t] # None =>
            state[local_reader[t]] = "exited"
       /\ at[t] = "join" /\ local_reader[t] # None => state[local_reader[t]] = "exited"

\* Lines wait to be read only of the process that runs or is being stopped.
QuietInv ==
  \A p \in Processes : stdout[p] # <<>> =>
    \/ p = stdout_thread
    \/ \E t \in Threads : at[t] \in {"terminate", "join"} /\ local_reader[t] = p

\* What is counted and what is unread are what the run has sent.
RunInv ==
  /\ \A t \in Threads : at[t] = "build" => counted_transmissions = {} /\ packet_routes = {}
  /\ process # None =>
       /\ \A line \in counted_transmissions \union packet_routes : line.run = process
       /\ Numbers \intersect UnreadNumbers(process) = {}
       /\ Numbers \union UnreadNumbers(process) = 1..sent[process]

Settled == ~overlapped => ReadersInv /\ QuietInv /\ RunInv

RecordInv == PipesInv /\ CountInv /\ SharedInv /\ Settled

\* The parts of a line.
LEMMA LineParts ==
  ASSUME NEW l \in Lines
  PROVE  /\ l.kind \in {"PACKET_SENT", "ROUTE_START", "ROUTE_END"}
         /\ l.run \in Processes
         /\ l.transmission \in 1..MaxTransmissions /\ l.transmission \in Nat
BY ManagerAssumption DEF Lines

\* What is left of a process's output when its first line is read.
LEMMA Popped ==
  ASSUME NEW s \in Seq(Lines), s # <<>>
  PROVE  /\ Tail(s) \in Seq(Lines) /\ Head(s) = s[1] /\ Head(s) \in Lines
         /\ DOMAIN s = 1..Len(s) /\ Len(s) \in Nat \ {0}
         /\ DOMAIN Tail(s) = 1..Len(s) - 1
         /\ \A i \in DOMAIN Tail(s) : Tail(s)[i] = s[i + 1]
OBVIOUS

\* One and two lines more.
LEMMA Pushed ==
  ASSUME NEW s \in Seq(Lines), NEW a \in Lines, NEW b \in Lines
  PROVE  /\ s \o <<a>> \in Seq(Lines) /\ s \o <<a, b>> \in Seq(Lines)
         /\ DOMAIN s = 1..Len(s) /\ Len(s) \in Nat
         /\ DOMAIN (s \o <<a>>) = 1..Len(s) + 1
         /\ DOMAIN (s \o <<a, b>>) = 1..Len(s) + 2
         /\ \A i \in 1..Len(s) : (s \o <<a>>)[i] = s[i] /\ (s \o <<a, b>>)[i] = s[i]
         /\ (s \o <<a>>)[Len(s) + 1] = a
         /\ (s \o <<a, b>>)[Len(s) + 1] = a /\ (s \o <<a, b>>)[Len(s) + 2] = b
OBVIOUS

\* A process may send another packet.
LEMMA SendsOne ==
  ASSUME IInv, PipesInv, NEW p \in Processes, transmit(p)
  PROVE  /\ PipesInv'
         /\ UnreadNumbers(p)' = UnreadNumbers(p) \union {sent[p] + 1}
         /\ sent'[p] = sent[p] + 1
         /\ \A q \in Processes \ {p} : stdout'[q] = stdout[q] /\ sent'[q] = sent[q]
<1> DEFINE a == Line("PACKET_SENT", p, sent[p] + 1)
           b == Line("ROUTE_START", p, sent[p] + 1)
           s == stdout[p]
<1>1. /\ stdout \in [Processes -> Seq(Lines)] /\ sent \in [Processes -> 0..MaxTransmissions]
      /\ state[p] = "serving" /\ sent[p] < MaxTransmissions /\ state' = state /\ ended' = ended
      /\ sent' = [sent EXCEPT ![p] = @ + 1] /\ stdout' = [stdout EXCEPT ![p] = @ \o <<a, b>>]
  BY DEF transmit, PipesInv, Prints
<1>2. sent[p] \in Nat /\ sent[p] + 1 \in 1..MaxTransmissions /\ s \in Seq(Lines)
  BY <1>1, ManagerAssumption
<1>3. /\ a \in Lines /\ a.kind = "PACKET_SENT" /\ a.run = p /\ a.transmission = sent[p] + 1
      /\ b \in Lines /\ b.kind = "ROUTE_START" /\ b.run = p
  BY <1>2 DEF Line, Lines
<1> HIDE DEF a, b
<1>4. /\ s \o <<a, b>> \in Seq(Lines)
      /\ DOMAIN s = 1..Len(s) /\ Len(s) \in Nat
      /\ DOMAIN (s \o <<a, b>>) = 1..Len(s) + 2
      /\ \A i \in 1..Len(s) : (s \o <<a, b>>)[i] = s[i]
      /\ (s \o <<a, b>>)[Len(s) + 1] = a /\ (s \o <<a, b>>)[Len(s) + 2] = b
  BY <1>2, <1>3, Pushed
<1>5. /\ stdout'[p] = s \o <<a, b>> /\ sent'[p] = sent[p] + 1
      /\ \A q \in Processes \ {p} : stdout'[q] = stdout[q] /\ sent'[q] = sent[q]
  BY <1>1
<1> DEFINE r == stdout'[p]
           n == Len(s) + 1
<1>6. /\ r \in Seq(Lines) /\ DOMAIN r = 1..Len(s) + 2 /\ DOMAIN s = 1..Len(s) /\ Len(s) \in Nat
      /\ \A i \in 1..Len(s) : r[i] = s[i]
      /\ r[n] = a /\ r[Len(s) + 2] = b
  BY <1>4, <1>5
<1> HIDE DEF r, s
<1>7. Unread(p) = {i \in DOMAIN s : s[i].kind = "PACKET_SENT"}
  BY DEF Unread, s
<1>8. Unread(p)' = {i \in DOMAIN r : r[i].kind = "PACKET_SENT"}
  BY DEF Unread, r
<1>9. Unread(p)' = Unread(p) \union {n}
  BY <1>3, <1>6, <1>7, <1>8
<1>10. \A i \in Unread(p) : r[i] = s[i]
  BY <1>6, <1>7
<1>11. UnreadNumbers(p)' = {r[i].transmission : i \in Unread(p)'}
  BY DEF UnreadNumbers, r
<1>12. UnreadNumbers(p) = {s[i].transmission : i \in Unread(p)}
  BY DEF UnreadNumbers, s
<1>13. UnreadNumbers(p)' = UnreadNumbers(p) \union {sent[p] + 1}
  BY <1>3, <1>6, <1>9, <1>10, <1>11, <1>12
<1>14. /\ UnreadNumbers(p) \subseteq 1..sent[p]
       /\ \A i \in DOMAIN s : s[i].run = p
       /\ \A i, j \in Unread(p) : s[i].transmission = s[j].transmission => i = j
  BY DEF PipesInv, s
<1>15. UnreadNumbers(p)' \subseteq 1..sent'[p]
  BY <1>2, <1>5, <1>13, <1>14
<1>16. \A i \in DOMAIN r : r[i].run = p
  BY <1>3, <1>6, <1>14
<1>17. ASSUME NEW i \in Unread(p)', NEW j \in Unread(p)', r[i].transmission = r[j].transmission
       PROVE  i = j
  <2>1. ASSUME NEW k \in Unread(p) PROVE r[k].transmission # r[n].transmission
    <3>1. r[k].transmission \in UnreadNumbers(p)
      BY <1>10, <1>12
    <3> QED BY <1>2, <1>3, <1>6, <1>14, <3>1
  <2> QED BY <1>9, <1>10, <1>14, <1>17, <2>1
<1>18. \A q \in Processes \ {p} : Unread(q)' = Unread(q) /\ UnreadNumbers(q)' = UnreadNumbers(q)
  BY <1>5 DEF Unread, UnreadNumbers
<1>19. /\ state'[p] = "absent" => stdout'[p] = <<>> /\ sent'[p] = 0
       /\ \A i \in DOMAIN stdout'[p] : stdout'[p][i].run = p
       /\ \A i, j \in Unread(p)' : stdout'[p][i].transmission = stdout'[p][j].transmission => i = j
  BY <1>1, <1>16, <1>17 DEF r
<1>20. stdout' \in [Processes -> Seq(Lines)] /\ sent' \in [Processes -> 0..MaxTransmissions]
  BY <1>1, <1>2, <1>4
<1>21. ended' \in [Processes -> 0..MaxTransmissions]
  BY <1>1 DEF PipesInv
<1>22. ASSUME NEW q \in Processes \ {p}
       PROVE  /\ state'[q] = "absent" => stdout'[q] = <<>> /\ sent'[q] = 0
              /\ \A i \in DOMAIN stdout'[q] : stdout'[q][i].run = q
              /\ UnreadNumbers(q)' \subseteq 1..sent'[q]
              /\ \A i, j \in Unread(q)' :
                   stdout'[q][i].transmission = stdout'[q][j].transmission => i = j
  BY <1>1, <1>5, <1>18 DEF PipesInv
<1>23. PipesInv'
  BY <1>15, <1>19, <1>20, <1>21, <1>22 DEF PipesInv
<1> QED BY <1>5, <1>13, <1>23

\* The end of a packet counts for nothing.
LEMMA EndsOne ==
  ASSUME IInv, PipesInv, NEW p \in Processes, endTransmission(p)
  PROVE  /\ PipesInv'
         /\ \A q \in Processes : UnreadNumbers(q)' = UnreadNumbers(q)
<1> DEFINE a == Line("ROUTE_END", p, ended[p] + 1)
           s == stdout[p]
<1>1. /\ stdout \in [Processes -> Seq(Lines)] /\ ended \in [Processes -> 0..MaxTransmissions]
      /\ sent \in [Processes -> 0..MaxTransmissions]
      /\ state[p] = "serving" /\ ended[p] < sent[p] /\ state' = state /\ sent' = sent
      /\ ended' = [ended EXCEPT ![p] = @ + 1] /\ stdout' = [stdout EXCEPT ![p] = @ \o <<a>>]
  BY DEF endTransmission, PipesInv, Prints
<1>2. ended[p] + 1 \in 1..MaxTransmissions /\ s \in Seq(Lines)
  BY <1>1, ManagerAssumption
<1>3. a \in Lines /\ a.kind = "ROUTE_END" /\ a.run = p
  BY <1>2 DEF Line, Lines
<1> HIDE DEF a
<1>4. /\ s \o <<a>> \in Seq(Lines)
      /\ DOMAIN s = 1..Len(s) /\ Len(s) \in Nat
      /\ DOMAIN (s \o <<a>>) = 1..Len(s) + 1
      /\ \A i \in 1..Len(s) : (s \o <<a>>)[i] = s[i]
      /\ (s \o <<a>>)[Len(s) + 1] = a
  BY <1>2, <1>3, Pushed
<1>5. stdout'[p] = s \o <<a>> /\ \A q \in Processes \ {p} : stdout'[q] = stdout[q]
  BY <1>1
<1> DEFINE r == stdout'[p]
<1>6. /\ r \in Seq(Lines) /\ DOMAIN r = 1..Len(s) + 1 /\ DOMAIN s = 1..Len(s) /\ Len(s) \in Nat
      /\ \A i \in 1..Len(s) : r[i] = s[i]
      /\ r[Len(s) + 1] = a
  BY <1>4, <1>5
<1> HIDE DEF r, s
<1>7. Unread(p) = {i \in DOMAIN s : s[i].kind = "PACKET_SENT"}
  BY DEF Unread, s
<1>8. Unread(p)' = {i \in DOMAIN r : r[i].kind = "PACKET_SENT"}
  BY DEF Unread, r
<1>9. Unread(p)' = Unread(p)
  BY <1>3, <1>6, <1>7, <1>8
<1>10. \A i \in Unread(p) : r[i] = s[i]
  BY <1>6, <1>7
<1>11. UnreadNumbers(p)' = UnreadNumbers(p)
  BY <1>9, <1>10 DEF UnreadNumbers, r, s
<1>12. \A q \in Processes \ {p} : Unread(q)' = Unread(q) /\ UnreadNumbers(q)' = UnreadNumbers(q)
  BY <1>5 DEF Unread, UnreadNumbers
<1>13. /\ state'[p] = "absent" => stdout'[p] = <<>> /\ sent'[p] = 0
       /\ \A i \in DOMAIN stdout'[p] : stdout'[p][i].run = p
       /\ UnreadNumbers(p)' \subseteq 1..sent'[p]
       /\ \A i, j \in Unread(p)' : stdout'[p][i].transmission = stdout'[p][j].transmission => i = j
  <2>1. \A i \in DOMAIN s : s[i].run = p
    BY DEF PipesInv, s
  <2>2. \A i \in DOMAIN r : r[i].run = p
    BY <1>3, <1>6, <2>1
  <2>3. \A i, j \in Unread(p) : s[i].transmission = s[j].transmission => i = j
    BY DEF PipesInv, s
  <2>4. \A i, j \in Unread(p)' : r[i].transmission = r[j].transmission => i = j
    BY <1>9, <1>10, <2>3
  <2>5. UnreadNumbers(p) \subseteq 1..sent[p]
    BY DEF PipesInv
  <2> QED BY <1>1, <1>11, <2>2, <2>4, <2>5 DEF r
<1>14. ASSUME NEW q \in Processes \ {p}
       PROVE  /\ state'[q] = "absent" => stdout'[q] = <<>> /\ sent'[q] = 0
              /\ \A i \in DOMAIN stdout'[q] : stdout'[q][i].run = q
              /\ UnreadNumbers(q)' \subseteq 1..sent'[q]
              /\ \A i, j \in Unread(q)' :
                   stdout'[q][i].transmission = stdout'[q][j].transmission => i = j
  BY <1>1, <1>5, <1>12 DEF PipesInv
<1>15. stdout' \in [Processes -> Seq(Lines)] /\ ended' \in [Processes -> 0..MaxTransmissions]
  BY <1>1, <1>2, <1>4
<1>16. PipesInv'
  BY <1>1, <1>13, <1>14, <1>15 DEF PipesInv
<1> QED BY <1>11, <1>12, <1>16

\* The reader takes the first line off a process's output.
LEMMA ReadsOne ==
  ASSUME IInv, PipesInv, NEW p \in Processes, read_stdout(p)
  PROVE  LET line == Head(stdout[p])
         IN /\ PipesInv'
            /\ line \in Lines /\ line.run = p
            /\ line.kind = "PACKET_SENT" =>
                 /\ UnreadNumbers(p)' = UnreadNumbers(p) \ {line.transmission}
                 /\ line.transmission \in UnreadNumbers(p)
            /\ line.kind # "PACKET_SENT" => UnreadNumbers(p)' = UnreadNumbers(p)
<1> DEFINE s == stdout[p]
           h == Head(s)
<1>1. /\ stdout \in [Processes -> Seq(Lines)] /\ s # <<>>
      /\ stdout' = [stdout EXCEPT ![p] = Tail(@)]
      /\ state' = state /\ sent' = sent /\ ended' = ended
  BY DEF read_stdout, PipesInv
<1>2. stdout'[p] = Tail(s) /\ \A q \in Processes \ {p} : stdout'[q] = stdout[q]
  BY <1>1
<1> DEFINE r == stdout'[p]
<1>3. /\ r \in Seq(Lines) /\ h = s[1] /\ h \in Lines
      /\ DOMAIN s = 1..Len(s) /\ Len(s) \in Nat \ {0}
      /\ DOMAIN r = 1..Len(s) - 1
      /\ \A i \in DOMAIN r : r[i] = s[i + 1]
  <2>1. s \in Seq(Lines) /\ s # <<>> /\ r = Tail(s) /\ h = Head(s)
    BY <1>1, <1>2
  <2> HIDE DEF s, h, r
  <2> QED BY <2>1, Popped
<1>4. /\ \A i \in DOMAIN s : s[i].run = p
      /\ UnreadNumbers(p) \subseteq 1..sent[p]
      /\ \A i, j \in Unread(p) : s[i].transmission = s[j].transmission => i = j
      /\ state[p] = "absent" => s = <<>>
  BY DEF PipesInv
<1>5. /\ Unread(p) = {i \in DOMAIN s : s[i].kind = "PACKET_SENT"}
      /\ Unread(p)' = {i \in DOMAIN r : r[i].kind = "PACKET_SENT"}
      /\ UnreadNumbers(p) = {s[i].transmission : i \in Unread(p)}
      /\ UnreadNumbers(p)' = {r[i].transmission : i \in Unread(p)'}
  BY DEF Unread, UnreadNumbers
<1> HIDE DEF r, h, s
<1>6. \A i \in Unread(p)' : i + 1 \in Unread(p) /\ r[i] = s[i + 1] /\ i + 1 # 1 /\ i \in Nat
  BY <1>3, <1>5
<1>7. \A i \in Unread(p) : i = 1 \/ (i - 1 \in Unread(p)' /\ r[i - 1] = s[i])
  <2> SUFFICES ASSUME NEW i \in Unread(p), i # 1 PROVE i - 1 \in Unread(p)' /\ r[i - 1] = s[i]
    OBVIOUS
  <2>1. i \in 1..Len(s) /\ i - 1 \in 1..Len(s) - 1 /\ (i - 1) + 1 = i
    BY <1>3, <1>5
  <2>2. r[i - 1] = s[i]
    BY <1>3, <2>1
  <2> QED BY <1>3, <1>5, <2>1, <2>2
<1>8. UnreadNumbers(p)' = {s[i].transmission : i \in Unread(p) \ {1}}
  <2>1. \A x \in UnreadNumbers(p)' : \E i \in Unread(p) \ {1} : x = s[i].transmission
    BY <1>5, <1>6
  <2>2. \A i \in Unread(p) \ {1} : s[i].transmission \in UnreadNumbers(p)'
    BY <1>5, <1>7
  <2> QED BY <2>1, <2>2
<1>9. ASSUME h.kind = "PACKET_SENT"
      PROVE  /\ UnreadNumbers(p)' = UnreadNumbers(p) \ {h.transmission}
             /\ h.transmission \in UnreadNumbers(p)
  <2>1. 1 \in Unread(p) /\ h.transmission = s[1].transmission
    BY <1>3, <1>5, <1>9
  <2>2. UnreadNumbers(p)' = UnreadNumbers(p) \ {h.transmission}
    <3>1. \A i \in Unread(p) : s[i].transmission = h.transmission <=> i = 1
      BY <1>4, <2>1
    <3> QED BY <1>5, <1>8, <3>1
  <2>3. h.transmission \in UnreadNumbers(p)
    BY <1>5, <2>1
  <2> QED BY <2>2, <2>3
<1>10. ASSUME h.kind # "PACKET_SENT" PROVE UnreadNumbers(p)' = UnreadNumbers(p)
  <2>1. 1 \notin Unread(p)
    BY <1>3, <1>5, <1>10
  <2>2. UnreadNumbers(p)' = UnreadNumbers(p)
    BY <1>5, <1>8, <2>1
  <2> QED BY <2>2
<1>11. /\ h.kind = "PACKET_SENT" =>
            UnreadNumbers(p)' = UnreadNumbers(p) \ {h.transmission} /\ h.transmission \in UnreadNumbers(p)
       /\ h.kind # "PACKET_SENT" => UnreadNumbers(p)' = UnreadNumbers(p)
  BY <1>9, <1>10
<1>12. PipesInv'
  <2>1. \A i \in DOMAIN r : r[i].run = p
    <3>1. \A i \in DOMAIN r : i + 1 \in DOMAIN s
      BY <1>3
    <3> QED BY <1>3, <1>4, <3>1
  <2>2. \A i, j \in Unread(p)' : r[i].transmission = r[j].transmission => i = j
    <3> SUFFICES ASSUME NEW i \in Unread(p)', NEW j \in Unread(p)',
                        r[i].transmission = r[j].transmission
                 PROVE  i = j
      OBVIOUS
    <3>1. i + 1 = j + 1
      BY <1>4, <1>6
    <3> QED BY <1>6, <3>1
  <2>3. UnreadNumbers(p)' \subseteq 1..sent[p]
    BY <1>4, <1>9, <1>10
  <2>4. state[p] # "absent"
    BY <1>1, <1>4
  <2>5. /\ state'[p] = "absent" => stdout'[p] = <<>> /\ sent'[p] = 0
        /\ \A i \in DOMAIN stdout'[p] : stdout'[p][i].run = p
        /\ UnreadNumbers(p)' \subseteq 1..sent'[p]
        /\ \A i, j \in Unread(p)' : stdout'[p][i].transmission = stdout'[p][j].transmission => i = j
    BY <1>1, <2>1, <2>2, <2>3, <2>4 DEF r
  <2>6. \A q \in Processes \ {p} : Unread(q)' = Unread(q) /\ UnreadNumbers(q)' = UnreadNumbers(q)
    BY <1>2 DEF Unread, UnreadNumbers
  <2>7. ASSUME NEW q \in Processes \ {p}
        PROVE  /\ state'[q] = "absent" => stdout'[q] = <<>> /\ sent'[q] = 0
               /\ \A i \in DOMAIN stdout'[q] : stdout'[q][i].run = q
               /\ UnreadNumbers(q)' \subseteq 1..sent'[q]
               /\ \A i, j \in Unread(q)' :
                    stdout'[q][i].transmission = stdout'[q][j].transmission => i = j
    BY <1>1, <1>2, <2>6 DEF PipesInv
  <2>8. stdout' \in [Processes -> Seq(Lines)]
    BY <1>1, <1>2, <1>3 DEF r
  <2> QED BY <1>1, <2>5, <2>7, <2>8 DEF PipesInv
<1>13. h.run = p
  BY <1>3, <1>4
<1> QED BY <1>3, <1>11, <1>12, <1>13 DEF h, s

\* The other steps print nothing.
LEMMA PrintsNothing ==
  ASSUME PipesInv, UNCHANGED <<stdout, sent, ended>>,
         \A p \in Processes : state'[p] = "absent" => state[p] = "absent"
  PROVE  /\ PipesInv'
         /\ \A p \in Processes : UnreadNumbers(p)' = UnreadNumbers(p)
<1>1. stdout' = stdout /\ sent' = sent /\ ended' = ended
  OBVIOUS
<1>2. \A p \in Processes : Unread(p)' = Unread(p) /\ UnreadNumbers(p)' = UnreadNumbers(p)
  BY <1>1 DEF Unread, UnreadNumbers
<1> QED BY <1>1, <1>2 DEF PipesInv

\* Numbers are few.
LEMMA NumbersFinite ==
  ASSUME CountInv
  PROVE  IsFiniteSet(Numbers) /\ Numbers \subseteq 1..MaxTransmissions
         /\ packet_bytes_sent \in 0..MaxTransmissions
<1>1. Numbers \subseteq 1..MaxTransmissions
  BY LineParts DEF CountInv, Numbers
<1>2. /\ IsFiniteSet(1..MaxTransmissions) /\ Cardinality(1..MaxTransmissions) = MaxTransmissions
      /\ MaxTransmissions \in Nat
  BY FS_Interval, ManagerAssumption
<1>3. IsFiniteSet(Numbers) /\ Cardinality(Numbers) <= MaxTransmissions
  BY <1>1, <1>2, FS_Subset
<1>4. Cardinality(Numbers) \in Nat
  BY <1>3, FS_CardinalityType
<1> QED BY <1>1, <1>2, <1>3, <1>4 DEF CountInv

\* A line that is read counts its number if it is new.
LEMMA CountsLine ==
  ASSUME CountInv, NEW line \in Lines, record_output_line(line)
  PROVE  /\ CountInv'
         /\ counted_transmissions' \subseteq counted_transmissions \union {line}
         /\ packet_routes' \subseteq packet_routes \union {line}
         /\ Numbers' = IF line.kind = "PACKET_SENT" THEN Numbers \union {line.transmission}
                       ELSE Numbers
<1>1. line.kind \in {"PACKET_SENT", "ROUTE_START", "ROUTE_END"}
  BY LineParts
<1>2. ASSUME UNCHANGED <<counted_transmissions, packet_bytes_sent>>
      PROVE  Numbers' = Numbers /\ packet_bytes_sent' = Cardinality(Numbers')
             /\ counted_transmissions' = counted_transmissions
  BY <1>2 DEF CountInv, Numbers
<1>3. CASE line.kind = "PACKET_SENT"
  <2>1. count_packet_transmission(line) /\ packet_routes' = packet_routes
    BY <1>3 DEF record_output_line
  <2>2. CASE \E c \in counted_transmissions : Same(c, line.transmission)
    <3>1. UNCHANGED <<counted_transmissions, packet_bytes_sent>>
      BY <2>1, <2>2 DEF count_packet_transmission
    <3>2. line.transmission \in Numbers
      BY <2>2 DEF Numbers, Same
    <3> QED BY <1>2, <1>3, <2>1, <3>1, <3>2 DEF CountInv
  <2>3. CASE ~ \E c \in counted_transmissions : Same(c, line.transmission)
    <3>1. /\ counted_transmissions' = counted_transmissions \union {line}
          /\ packet_bytes_sent' = packet_bytes_sent + 1
      BY <2>1, <2>3 DEF count_packet_transmission
    <3>2. line.transmission \notin Numbers
      BY <2>3 DEF Numbers, Same
    <3>3. Numbers' = Numbers \union {line.transmission}
      BY <3>1 DEF Numbers
    <3>4. Cardinality(Numbers \union {line.transmission}) = Cardinality(Numbers) + 1
      BY <3>2, NumbersFinite, FS_AddElement
    <3>5. packet_bytes_sent' = Cardinality(Numbers')
      BY <3>1, <3>3, <3>4 DEF CountInv
    <3> QED BY <1>3, <2>1, <3>1, <3>3, <3>5 DEF CountInv
  <2> QED BY <2>2, <2>3
<1>4. CASE line.kind = "ROUTE_START"
  <2>1. /\ UNCHANGED <<counted_transmissions, packet_bytes_sent>>
        /\ packet_routes' \subseteq packet_routes \union {line}
    BY <1>4 DEF record_output_line
  <2> QED BY <1>2, <1>4, <2>1 DEF CountInv
<1>5. CASE line.kind = "ROUTE_END"
  <2>1. /\ UNCHANGED <<counted_transmissions, packet_bytes_sent>>
        /\ packet_routes' \subseteq packet_routes \union {line}
    BY <1>5 DEF record_output_line
  <2> QED BY <1>2, <1>5, <2>1 DEF CountInv
<1> QED BY <1>1, <1>3, <1>4, <1>5

\* Steps that count nothing, and the start of a run, which clears the counts.
LEMMA CountsNothing ==
  ASSUME CountInv,
         \/ UNCHANGED <<counted_transmissions, packet_bytes_sent>>
         \/ counted_transmissions' = {} /\ packet_bytes_sent' = 0,
         packet_routes' \subseteq packet_routes
  PROVE  CountInv'
<1>1. CASE UNCHANGED <<counted_transmissions, packet_bytes_sent>>
  BY <1>1 DEF CountInv, Numbers
<1>2. CASE counted_transmissions' = {} /\ packet_bytes_sent' = 0
  <2>1. Numbers' = {}
    BY <1>2 DEF Numbers
  <2> QED BY <1>2, <2>1, FS_EmptySet DEF CountInv
<1> QED BY <1>1, <1>2

\* Every step keeps the output of the processes well-formed.
LEMMA PipesStep == ASSUME IInv, PipesInv, [Next]_vars PROVE PipesInv'
<1> USE DEF IInv, ThreadsInv
<1>1. CASE \E p \in Processes : transmit(p)
  BY <1>1, SendsOne
<1>2. CASE \E p \in Processes : endTransmission(p)
  BY <1>2, EndsOne
<1>3. CASE reader
  BY <1>3, ReadsOne DEF reader
<1>4. CASE /\ UNCHANGED <<stdout, sent, ended>>
           /\ \A p \in Processes : state'[p] = "absent" => state[p] = "absent"
  BY <1>4, PrintsNothing
<1>5. CASE \E p \in Processes : listen(p) \/ fail(p)
  BY <1>4, <1>5 DEF listen, fail
<1>6. ASSUME NEW t \in Threads, request(t) \/ thread(t) PROVE PipesInv'
  <2>1. CASE UNCHANGED natives
    BY <1>4, <2>1 DEF natives
  <2>2. CASE request(t) \/ stop(t) \/ join(t) \/ startBuild(t)
    BY <2>1, <2>2 DEF request, stop, join, startBuild
  <2>3. CASE buildFails(t) \/ pollProcess(t) \/ giveUp(t) \/ startFails(t) \/ snapshot(t)
    BY <2>1, <2>3 DEF buildFails, pollProcess, giveUp, startFails, snapshot
  <2>4. CASE terminate(t)
    BY <1>4, <2>4 DEF terminate, terminated
  <2>5. CASE spawn(t)
    BY <1>4, <2>5 DEF spawn
  <2> QED BY <1>6, <2>2, <2>3, <2>4, <2>5 DEF thread
<1>7. CASE UNCHANGED vars
  BY <1>4, <1>7 DEF vars, natives
<1> QED BY <1>1, <1>2, <1>3, <1>5, <1>6, <1>7 DEF Next, native

\* Every step keeps the counts.
LEMMA CountStep == ASSUME IInv, PipesInv, CountInv, [Next]_vars PROVE CountInv'
<1>1. CASE reader
  <2>1. PICK p \in Processes : read_stdout(p)
    BY <1>1 DEF reader
  <2>2. Head(stdout[p]) \in Lines /\ record_output_line(Head(stdout[p]))
    BY <2>1, ReadsOne DEF read_stdout
  <2> QED BY <2>2, CountsLine
<1>2. CASE UNCHANGED shared
  BY <1>2, CountsNothing DEF shared
<1>3. CASE native
  BY <1>2, <1>3 DEF native, listen, transmit, endTransmission, fail
<1>4. ASSUME NEW t \in Threads, request(t) \/ thread(t) PROVE CountInv'
  <2>1. CASE request(t) \/ terminate(t) \/ join(t) \/ buildFails(t) \/ pollProcess(t) \/ giveUp(t)
    BY <1>2, <2>1 DEF request, terminate, join, buildFails, pollProcess, giveUp
  <2>2. CASE stop(t)
    BY <2>2, CountsNothing DEF stop
  <2>3. CASE startBuild(t)
    BY <2>3, CountsNothing DEF startBuild, clearCounts
  <2>4. CASE spawn(t)
    BY <2>4, CountsNothing DEF spawn
  <2>5. CASE startFails(t)
    BY <2>5, CountsNothing DEF startFails
  <2>6. CASE snapshot(t)
    <3>1. packet_routes' \subseteq packet_routes
      BY <2>6 DEF snapshot
    <3> QED BY <2>6, <3>1, CountsNothing DEF snapshot
  <2> QED BY <1>4, <2>1, <2>2, <2>3, <2>4, <2>5, <2>6 DEF thread
<1>5. CASE UNCHANGED vars
  BY <1>2, <1>5 DEF vars
<1> QED BY <1>1, <1>3, <1>4, <1>5 DEF Next

\* Every step keeps the lock with the thread that builds.
LEMMA SharedStep == ASSUME IInv, SharedInv, [Next]_vars PROVE SharedInv'
<1> USE DEF IInv, ThreadsInv, Places, Controls, SharedInv
<1>1. CASE native
    BY <1>1, SMT DEF native, listen, transmit, endTransmission, fail, requests, shared
<1>2. CASE reader
    BY <1>2, SMT DEF reader, read_stdout, requests
<1>3. ASSUME NEW t \in Threads, request(t) \/ thread(t) PROVE SharedInv'
  <2>1. CASE request(t)
      BY <2>1, SMT DEF request, Go, shared, natives
  <2>2. CASE stop(t)
      BY <2>2, SMT DEF stop, Go, natives, Free
  <2>3. CASE terminate(t)
      BY <2>3, SMT DEF terminate, Go, shared
  <2>4. CASE join(t)
    <3>1. op[t] \in {"start", "stop", "failed"}
        BY <2>4, SMT DEF join
    <3>2. CASE op[t] = "start"
        BY <2>4, <3>2, SMT DEF join, Go, shared, natives
    <3>3. CASE op[t] = "stop"
        BY <2>4, <3>3, SMT DEF join, Go, shared, natives
    <3>4. CASE op[t] = "failed"
        BY <2>4, <3>4, SMT DEF join, Go, Finish, shared, natives
    <3> QED BY <3>1, <3>2, <3>3, <3>4
  <2>5. CASE startBuild(t)
      BY <2>5, SMT DEF startBuild, Go, natives
  <2>6. CASE buildFails(t)
      BY <2>6, SMT DEF buildFails, Finish, Go, shared, natives
  <2>7. CASE spawn(t)
      BY <2>7, SMT DEF spawn, Go
  <2>8. CASE pollProcess(t)
      BY <2>8, SMT DEF pollProcess, Go, shared, natives
  <2>9. CASE giveUp(t)
      BY <2>9, SMT DEF giveUp, Go, shared, natives
  <2>10. CASE startFails(t)
      BY <2>10, SMT DEF startFails, Finish, Go, natives
  <2>11. CASE snapshot(t)
      BY <2>11, SMT DEF snapshot, Finish, Go, natives
  <2> QED BY <1>3, <2>1, <2>2, <2>3, <2>4, <2>5, <2>6, <2>7, <2>8, <2>9, <2>10, <2>11 DEF thread
<1>4. CASE UNCHANGED vars
    BY <1>4, SMT DEF vars, requests, shared, natives
<1> QED BY <1>1, <1>2, <1>3, <1>4 DEF Next

\* Every step keeps a reader with its process, as long as nothing overlaps.
LEMMA ReadersStep ==
  ASSUME IInv, SharedInv, Settled, [Next]_vars, ~overlapped'
  PROVE  ReadersInv'
<1> USE DEF IInv, ThreadsInv, OneAtATime, Controls, Places, SharedInv, Settled, ReadersInv
<1>1. CASE native
    BY <1>1, SMT DEF native, listen, transmit, endTransmission, fail, requests, shared
<1>2. CASE reader
    BY <1>2, SMT DEF reader, read_stdout, requests
<1>3. ASSUME NEW t \in Threads, request(t) \/ thread(t) PROVE ReadersInv'
  <2>1. CASE request(t)
      BY <2>1, SMT DEF request, Go, shared, natives
  <2>2. CASE stop(t)
      BY <2>2, SMT DEF stop, Go, natives
  <2>3. CASE terminate(t)
      BY <2>3, SMT DEF terminate, terminated, Alive, Go, shared
  <2>4. CASE join(t)
    <3>1. op[t] \in {"start", "stop", "failed"}
        BY <2>4, SMT DEF join
    <3>2. CASE op[t] = "start"
        BY <2>4, <3>2, SMT DEF join, Go, shared, natives
    <3>3. CASE op[t] = "stop"
        BY <2>4, <3>3, SMT DEF join, Go, shared, natives
    <3>4. CASE op[t] = "failed"
        BY <2>4, <3>4, SMT DEF join, Go, Finish, shared, natives
    <3> QED BY <3>1, <3>2, <3>3, <3>4
  <2>5. CASE startBuild(t)
      BY <2>5, SMT DEF startBuild, Go, natives
  <2>6. CASE buildFails(t)
      BY <2>6, SMT DEF buildFails, Finish, Go, shared, natives
  <2>7. CASE spawn(t)
      BY <2>7, SMT DEF spawn, Go
  <2>8. CASE pollProcess(t)
      BY <2>8, SMT DEF pollProcess, Go, shared, natives
  <2>9. CASE giveUp(t)
      BY <2>9, SMT DEF giveUp, Go, shared, natives
  <2>10. CASE startFails(t)
      BY <2>10, SMT DEF startFails, Finish, Go, natives
  <2>11. CASE snapshot(t)
      BY <2>11, SMT DEF snapshot, ended_by_itself, Finish, Go, natives
  <2> QED BY <1>3, <2>1, <2>2, <2>3, <2>4, <2>5, <2>6, <2>7, <2>8, <2>9, <2>10, <2>11 DEF thread
<1>4. CASE UNCHANGED vars
    BY <1>4, SMT DEF vars, requests, shared, natives
<1> QED BY <1>1, <1>2, <1>3, <1>4 DEF Next

\* Lines come only from the process remembered or the one being terminated.
LEMMA Printing ==
  ASSUME IInv, SharedInv, Settled, ~overlapped, NEW p \in Processes, Alive(p)
  PROVE  /\ p = stdout_thread \/ \E t \in Threads : at[t] \in {"terminate", "join"} /\ local_reader[t] = p
         /\ process # None => p = process
<1>1. p # None
  BY NoneIsNoProcess
<1>2. CASE p = process
  BY <1>1, <1>2 DEF Settled, ReadersInv
<1>3. ASSUME NEW t \in Threads, at[t] = "terminate", local[t] = p
      PROVE  local_reader[t] = p /\ process = None
  BY <1>1, <1>3 DEF Settled, ReadersInv, IInv, OneAtATime
<1> QED BY <1>2, <1>3 DEF IInv, Supervised

\* While a run is built no line is left, and while one is shown only its own.
LEMMA Waiting ==
  ASSUME IInv, SharedInv, Settled, ~overlapped, NEW p \in Processes, stdout[p] # <<>>
  PROVE  /\ process # None => p = process
         /\ \A t \in Threads : at[t] \notin {"lock", "build"}
<1>1. \/ p = stdout_thread
      \/ \E t \in Threads : at[t] \in {"terminate", "join"} /\ local_reader[t] = p
  BY DEF Settled, QuietInv
<1>2. \A t \in Threads : at[t] \in {"terminate", "join", "lock", "build"} => Controls(t) /\ process = None
  BY DEF IInv, ThreadsInv, Places, OneAtATime
<1>3. CASE p = stdout_thread
  BY <1>3, NoneIsNoProcess DEF Settled, ReadersInv
<1>4. ASSUME NEW t \in Threads, at[t] \in {"terminate", "join"}
      PROVE  process = None /\ \A u \in Threads : at[u] \notin {"lock", "build"}
  BY <1>2, <1>4 DEF IInv, OneAtATime
<1> QED BY <1>1, <1>3, <1>4

\* A thread that has joined a reader has seen its last line recorded.
LEMMA JoinDrains ==
  ASSUME IInv, SharedInv, Settled, ~overlapped, NEW t \in Threads, join(t)
  PROVE  \A p \in Processes : stdout[p] = <<>>
<1> SUFFICES ASSUME NEW p \in Processes, stdout[p] # <<>> PROVE FALSE
  OBVIOUS
<1>1. at[t] = "join" /\ Joined(local_reader[t])
  BY DEF join
<1>2. Controls(t)
  BY <1>1 DEF IInv, ThreadsInv, Places
<1>3. Free
  <2> SUFFICES ASSUME lock # Nobody PROVE FALSE
    BY DEF Free
  <2>1. lock \in Threads /\ at[lock] = "build"
    BY DEF SharedInv
  <2>2. Controls(lock)
    BY <2>1 DEF IInv, ThreadsInv, Places
  <2> QED BY <1>1, <1>2, <2>1, <2>2 DEF IInv, OneAtATime
<1>4. stdout_thread = None
  BY <1>1 DEF Settled, ReadersInv
<1>5. PICK u \in Threads : at[u] \in {"terminate", "join"} /\ local_reader[u] = p
  BY <1>4, NoneIsNoProcess DEF Settled, QuietInv
<1>6. Controls(u)
  BY <1>5 DEF IInv, ThreadsInv, Places
<1>7. u = t
  BY <1>2, <1>6 DEF IInv, OneAtATime
<1>8. state[p] = "exited"
  BY <1>1, <1>5, <1>7, NoneIsNoProcess DEF Settled, ReadersInv
<1> QED BY <1>1, <1>3, <1>5, <1>7, <1>8, NoneIsNoProcess DEF Joined

\* Every step leaves lines only where somebody is to read them.
LEMMA QuietStep ==
  ASSUME IInv, PipesInv, SharedInv, Settled, [Next]_vars, ~overlapped'
  PROVE  QuietInv'
<1> DEFINE held(p) == \/ p = stdout_thread
                      \/ \E t \in Threads : at[t] \in {"terminate", "join"} /\ local_reader[t] = p
<1> USE DEF IInv, ThreadsInv, Places, SharedInv, Settled, QuietInv
<1>1. ASSUME ~overlapped, UNCHANGED <<stdout_thread, at, local_reader>>,
             \A p \in Processes : stdout'[p] # <<>> => stdout[p] # <<>> \/ Alive(p)
      PROVE  QuietInv'
  <2>1. \A p \in Processes : stdout'[p] # <<>> => held(p)
    BY <1>1, Printing
  <2> QED BY <1>1, <2>1
<1>2. CASE native
  <2>1. ~overlapped /\ UNCHANGED <<stdout_thread, at, local_reader>>
    BY <1>2 DEF native, listen, transmit, endTransmission, fail, requests, shared
  <2>2. \A p \in Processes : stdout'[p] # <<>> => stdout[p] # <<>> \/ Alive(p)
    <3>1. CASE \E p \in Processes : listen(p) \/ fail(p)
      BY <3>1 DEF listen, fail
    <3>2. ASSUME NEW p \in Processes, transmit(p) \/ endTransmission(p)
          PROVE  Alive(p) /\ \A q \in Processes \ {p} : stdout'[q] = stdout[q]
      BY <3>2, NoneIsNoProcess DEF transmit, endTransmission, Prints, PipesInv, Alive
    <3> QED BY <1>2, <3>1, <3>2 DEF native
  <2> QED BY <1>1, <2>1, <2>2
<1>3. CASE reader
  <2>1. PICK p \in Processes : read_stdout(p)
    BY <1>3 DEF reader
  <2>2. ~overlapped /\ UNCHANGED <<stdout_thread, at, local_reader>>
    BY <2>1 DEF read_stdout, requests
  <2>3. \A q \in Processes : stdout'[q] # <<>> => stdout[q] # <<>>
    BY <2>1 DEF read_stdout, PipesInv
  <2> QED BY <1>1, <2>2, <2>3
<1>4. ASSUME NEW t \in Threads, request(t) \/ thread(t) PROVE QuietInv'
  <2>1. CASE request(t)
      BY <2>1, SMT DEF request, Go, shared, natives
  <2>2. CASE stop(t)
    <3>1. ASSUME NEW p \in Processes, stdout[p] # <<>> PROVE p = stdout_thread
      <4>1. Controls(t) /\ at[t] \notin {"terminate", "join"} /\ ~overlapped
        BY <2>2 DEF stop
      <4>2. \A u \in Threads : at[u] \in {"terminate", "join"} => u = t
        BY <4>1 DEF OneAtATime
      <4> QED BY <3>1, <4>1, <4>2
    <3> QED BY <2>2, <3>1, SMT DEF stop, Go, natives
  <2>3. CASE terminate(t)
      BY <2>3, SMT DEF terminate, Go, shared
  <2>4. CASE join(t)
    <3>1. ~overlapped /\ stdout' = stdout
      BY <2>4 DEF join, natives
    <3> QED BY <2>4, <3>1, JoinDrains
  <2>5. CASE startBuild(t)
      BY <2>5, SMT DEF startBuild, Go, natives
  <2>6. CASE buildFails(t)
      BY <2>6, SMT DEF buildFails, Finish, Go, shared, natives
  <2>7. CASE spawn(t)
    <3>1. at[t] = "build" /\ ~overlapped /\ stdout' = stdout
      BY <2>7 DEF spawn
    <3>2. \A p \in Processes : stdout[p] = <<>>
      BY <3>1, Waiting
    <3> QED BY <3>1, <3>2
  <2>8. CASE pollProcess(t)
      BY <2>8, SMT DEF pollProcess, Go, shared, natives
  <2>9. CASE giveUp(t)
      BY <2>9, SMT DEF giveUp, Go, shared, natives
  <2>10. CASE startFails(t)
      BY <2>10, SMT DEF startFails, Finish, Go, natives
  <2>11. CASE snapshot(t)
      BY <2>11, SMT DEF snapshot, Finish, Go, natives
  <2> QED BY <1>4, <2>1, <2>2, <2>3, <2>4, <2>5, <2>6, <2>7, <2>8, <2>9, <2>10, <2>11 DEF thread
<1>5. CASE UNCHANGED vars
    BY <1>5, SMT DEF vars, requests, shared, natives
<1> QED BY <1>2, <1>3, <1>4, <1>5 DEF Next

\* Steps that neither count nor print, and show no other run.
LEMMA RunKept ==
  ASSUME RunInv, counted_transmissions' = counted_transmissions,
         packet_routes' \subseteq packet_routes, process' \in {process, None},
         UNCHANGED <<stdout, sent>>,
         \A t \in Threads : at'[t] = "build" => at[t] = "build"
  PROVE  RunInv'
<1>1. Numbers' = Numbers
  BY DEF Numbers
<1>2. UnreadNumbers(process)' = {stdout[process'][i].transmission : i \in Unread(process)'}
  BY DEF UnreadNumbers
<1>3. process' = process => UnreadNumbers(process)' = UnreadNumbers(process)
  BY DEF UnreadNumbers, Unread
<1>4. process' # None => process' = process
  OBVIOUS
<1> QED BY <1>1, <1>3, <1>4 DEF RunInv

\* Every step keeps what is counted and unread to what the run has sent.
LEMMA RunStep ==
  ASSUME IInv, PipesInv, CountInv, SharedInv, Settled, [Next]_vars, ~overlapped'
  PROVE  RunInv'
<1> USE DEF IInv, ThreadsInv, SharedInv, Settled
<1>1. ASSUME NEW p \in Processes, transmit(p) PROVE RunInv'
  <2>1. /\ UNCHANGED <<counted_transmissions, packet_routes, process, at>> /\ ~overlapped
        /\ Alive(p)
    BY <1>1, NoneIsNoProcess DEF transmit, shared, requests, Alive
  <2>2. process # None => p = process
    BY <2>1, Printing
  <2>3. Numbers' = Numbers
    BY <2>1 DEF Numbers
  <2>4. UnreadNumbers(p)' = UnreadNumbers(p) \union {sent[p] + 1} /\ sent'[p] = sent[p] + 1
    BY <1>1, SendsOne
  <2>5. p = process => UnreadNumbers(process)' = UnreadNumbers(p)'
    BY <2>1 DEF UnreadNumbers, Unread
  <2>6. sent[p] \in Nat
    BY ManagerAssumption DEF PipesInv
  <2>7. ASSUME process' # None
        PROVE  /\ Numbers' \intersect UnreadNumbers(process)' = {}
               /\ Numbers' \union UnreadNumbers(process)' = 1..sent'[process']
    <3>1. process = p /\ process' = p /\ process # None
      BY <2>1, <2>2, <2>7
    <3>2. Numbers \intersect UnreadNumbers(p) = {} /\ Numbers \union UnreadNumbers(p) = 1..sent[p]
      BY <2>1, <3>1 DEF RunInv
    <3>3. 1..sent[p] + 1 = (1..sent[p]) \union {sent[p] + 1} /\ sent[p] + 1 \notin 1..sent[p]
      BY <2>6
    <3> QED BY <2>3, <2>4, <2>5, <3>1, <3>2, <3>3
  <2> QED BY <2>1, <2>7 DEF RunInv
<1>2. ASSUME NEW p \in Processes, endTransmission(p) PROVE RunInv'
  <2>1. /\ UNCHANGED <<counted_transmissions, packet_routes, process, at, sent>> /\ ~overlapped
    BY <1>2 DEF endTransmission, shared, requests
  <2>2. Numbers' = Numbers
    BY <2>1 DEF Numbers
  <2>3. process # None => UnreadNumbers(process)' = UnreadNumbers(process)
    <3> SUFFICES ASSUME process # None PROVE UnreadNumbers(process)' = UnreadNumbers(process)
      OBVIOUS
    <3>1. PICK q \in Processes : q = process
      OBVIOUS
    <3>2. UnreadNumbers(q)' = UnreadNumbers(q)
      BY <1>2, EndsOne
    <3>3. UnreadNumbers(process)' = UnreadNumbers(q)'
      BY <2>1, <3>1 DEF UnreadNumbers, Unread
    <3> QED BY <3>1, <3>2, <3>3
  <2> QED BY <2>1, <2>2, <2>3 DEF RunInv
<1>3. ASSUME NEW p \in Processes, read_stdout(p) PROVE RunInv'
  <2> DEFINE line == Head(stdout[p])
  <2>1. /\ UNCHANGED <<process, at, sent>> /\ ~overlapped /\ stdout[p] # <<>>
        /\ record_output_line(line)
    BY <1>3 DEF read_stdout, requests
  <2>2. /\ line \in Lines /\ line.run = p
        /\ line.kind = "PACKET_SENT" =>
             /\ UnreadNumbers(p)' = UnreadNumbers(p) \ {line.transmission}
             /\ line.transmission \in UnreadNumbers(p)
        /\ line.kind # "PACKET_SENT" => UnreadNumbers(p)' = UnreadNumbers(p)
    BY <1>3, ReadsOne
  <2> HIDE DEF line
  <2>3. /\ counted_transmissions' \subseteq counted_transmissions \union {line}
        /\ packet_routes' \subseteq packet_routes \union {line}
        /\ Numbers' = IF line.kind = "PACKET_SENT" THEN Numbers \union {line.transmission}
                      ELSE Numbers
    BY <2>1, <2>2, CountsLine
  <2>4. /\ process # None => p = process
        /\ \A t \in Threads : at[t] # "build"
    BY <2>1, Waiting
  <2>5. p = process => UnreadNumbers(process)' = UnreadNumbers(p)'
    BY <2>1 DEF UnreadNumbers, Unread
  <2>6. ASSUME process' # None
        PROVE  /\ \A l \in counted_transmissions' \union packet_routes' : l.run = process'
               /\ Numbers' \intersect UnreadNumbers(process)' = {}
               /\ Numbers' \union UnreadNumbers(process)' = 1..sent'[process']
    <3>1. process = p /\ process' = p /\ process # None /\ sent' = sent
      BY <2>1, <2>4, <2>6
    <3>2. /\ Numbers \intersect UnreadNumbers(p) = {} /\ Numbers \union UnreadNumbers(p) = 1..sent[p]
          /\ \A l \in counted_transmissions \union packet_routes : l.run = p
      BY <2>1, <3>1 DEF RunInv
    <3> QED BY <2>2, <2>3, <2>5, <3>1, <3>2
  <2> QED BY <2>1, <2>4, <2>6 DEF RunInv
<1>4. CASE \E p \in Processes : listen(p) \/ fail(p)
  BY <1>4, RunKept DEF listen, fail, shared, requests
<1>5. ASSUME NEW t \in Threads, request(t) \/ thread(t) PROVE RunInv'
  <2>1. ~overlapped /\ RunInv
    BY <1>5 DEF request, thread, stop, terminate, join, startBuild, buildFails, spawn, pollProcess,
                giveUp, startFails, snapshot
  <2>2. CASE request(t)
      BY <2>1, <2>2, RunKept DEF request, Go, shared, natives
  <2>3. CASE stop(t)
      BY <2>1, <2>3, RunKept DEF stop, Go, natives
  <2>4. CASE terminate(t)
      BY <2>1, <2>4, RunKept DEF terminate, Go, shared
  <2>5. CASE join(t)
    <3>1. op[t] \in {"start", "stop", "failed"}
        BY <2>5 DEF join, Places, Controls
    <3>2. CASE op[t] \in {"start", "stop"}
        BY <2>1, <2>5, <3>2, RunKept DEF join, Go, shared, natives
    <3>3. CASE op[t] = "failed"
        BY <2>1, <2>5, <3>3, RunKept DEF join, Go, Finish, shared, natives
    <3> QED BY <3>1, <3>2, <3>3
  <2>6. CASE startBuild(t)
    <3>1. counted_transmissions' = {} /\ packet_routes' = {} /\ process' = process /\ at[t] = "lock"
      BY <2>6 DEF startBuild, clearCounts
    <3>2. process = None
      BY <2>1, <3>1 DEF OneAtATime
    <3> QED BY <3>1, <3>2 DEF RunInv
  <2>7. CASE buildFails(t)
      BY <2>1, <2>7, RunKept DEF buildFails, Finish, Go, shared, natives
  <2>8. CASE spawn(t)
    <3>1. PICK p \in Processes : state[p] = "absent" /\ process' = p
      <4>1. PICK p \in Processes : (\A q \in Processes : state[q] = "absent" <=> q >= p) /\ process' = p
        BY <2>8 DEF spawn
      <4>2. p >= p
        BY ManagerAssumption DEF Processes
      <4> QED BY <4>1, <4>2
    <3>2. /\ UNCHANGED <<packet_routes, counted_transmissions, stdout, sent>> /\ at[t] = "build"
          /\ at' = [at EXCEPT ![t] = "wait"]
      BY <2>8 DEF spawn, Go
    <3>3. counted_transmissions = {} /\ packet_routes = {}
      BY <2>1, <3>2 DEF RunInv
    <3>4. stdout[p] = <<>> /\ sent[p] = 0
      BY <3>1 DEF PipesInv
    <3>5. UnreadNumbers(process)' = {} /\ Numbers' = {}
      BY <3>1, <3>2, <3>3, <3>4 DEF UnreadNumbers, Unread, Numbers
    <3>6. 1..sent'[process'] = {}
      BY <3>1, <3>2, <3>4
    <3> QED BY <3>2, <3>3, <3>5, <3>6 DEF RunInv
  <2>9. CASE pollProcess(t)
      BY <2>1, <2>9, RunKept DEF pollProcess, Go, shared, natives
  <2>10. CASE giveUp(t)
      BY <2>1, <2>10, RunKept DEF giveUp, Go, shared, natives
  <2>11. CASE startFails(t)
      BY <2>1, <2>11, RunKept DEF startFails, Finish, Go, natives
  <2>12. CASE snapshot(t)
    <3>1. packet_routes' \subseteq packet_routes /\ process' \in {process, None}
      BY <2>12 DEF snapshot
    <3> QED BY <2>1, <2>12, <3>1, RunKept DEF snapshot, Finish, Go, natives
  <2> QED BY <1>5, <2>2, <2>3, <2>4, <2>5, <2>6, <2>7, <2>8, <2>9, <2>10, <2>11, <2>12 DEF thread
<1>6. CASE UNCHANGED vars
  <2>1. ~overlapped
    BY <1>6 DEF vars, requests
  <2> QED BY <1>6, <2>1, RunKept DEF vars, requests, shared, natives
<1> QED BY <1>1, <1>2, <1>3, <1>4, <1>5, <1>6 DEF Next, native, reader

LEMMA RecordInit == Init => RecordInv
<1> SUFFICES ASSUME Init PROVE RecordInv
  OBVIOUS
<1>1. \A p \in Processes : Unread(p) = {} /\ UnreadNumbers(p) = {}
  BY DEF Init, Unread, UnreadNumbers
<1>2. PipesInv
  BY <1>1, ManagerAssumption DEF Init, PipesInv
<1>3. CountInv
  <2>1. Numbers = {}
    BY DEF Init, Numbers
  <2> QED BY <2>1, FS_EmptySet DEF Init, CountInv
<1>4. SharedInv
  BY DEF Init, SharedInv
<1>5. Settled
  BY DEF Init, Settled, ReadersInv, QuietInv, RunInv
<1> QED BY <1>2, <1>3, <1>4, <1>5 DEF RecordInv

\* The records hold in every state.
LEMMA RecordInvariance == Spec => [](IInv /\ RecordInv)
<1>1. IInv /\ RecordInv /\ [Next]_vars => RecordInv'
  <2> SUFFICES ASSUME IInv, RecordInv, [Next]_vars PROVE RecordInv'
    OBVIOUS
  <2>1. PipesInv' /\ CountInv' /\ SharedInv'
    BY PipesStep, CountStep, SharedStep DEF RecordInv
  <2>2. ~overlapped' => ReadersInv' /\ QuietInv' /\ RunInv'
    BY ReadersStep, QuietStep, RunStep DEF RecordInv
  <2> QED BY <2>1, <2>2 DEF RecordInv, Settled
<1> QED BY RecordInit, <1>1, Invariance, PTL DEF Spec

\* What the manager, the threads and the processes hold is well-formed in every
\* state, overlapping requests included.
THEOREM TypeCorrect == Spec => []TypeOK
<1>1. IInv /\ RecordInv => TypeOK
  BY NumbersFinite DEF IInv, ThreadsInv, Places, RecordInv, PipesInv, CountInv, SharedInv, TypeOK
<1> QED BY <1>1, RecordInvariance, PTL

\* A run's packets are counted once each, and nothing of another run is shown,
\* however late its reader records the last lines of the one before.
THEOREM AlwaysCounted == Spec => []RunCounted
<1>1. ASSUME IInv, RecordInv, ~overlapped, process # None
      PROVE  /\ \A line \in counted_transmissions \union packet_routes : line.run = process
             /\ packet_bytes_sent + Cardinality(Unread(process)) = sent[process]
  <2>1. process \in Processes
    BY <1>1 DEF IInv, ThreadsInv
  <2>2. /\ \A line \in counted_transmissions \union packet_routes : line.run = process
        /\ Numbers \intersect UnreadNumbers(process) = {}
        /\ Numbers \union UnreadNumbers(process) = 1..sent[process]
    BY <1>1 DEF RecordInv, Settled, RunInv
  <2> DEFINE U == UnreadNumbers(process)
             n == sent[process]
             f == [i \in Unread(process) |-> stdout[process][i].transmission]
  <2>3. n \in Nat /\ U \subseteq 1..n
    BY <1>1, <2>1, ManagerAssumption DEF RecordInv, PipesInv
  <2>4. f \in Injection(Unread(process), U) /\ f \in Surjection(Unread(process), U)
    <3>1. U = {stdout[process][i].transmission : i \in Unread(process)}
      BY DEF UnreadNumbers
    <3>2. f \in [Unread(process) -> U] /\ \A u \in U : \E i \in Unread(process) : f[i] = u
      BY <3>1
    <3>3. \A i, j \in Unread(process) : stdout[process][i].transmission = stdout[process][j].transmission => i = j
      BY <1>1, <2>1 DEF RecordInv, PipesInv
    <3>4. ASSUME NEW i \in Unread(process), NEW j \in Unread(process), f[i] = f[j] PROVE i = j
      <4>1. f[i] = stdout[process][i].transmission /\ f[j] = stdout[process][j].transmission
        OBVIOUS
      <4> QED BY <3>3, <3>4, <4>1
    <3> HIDE DEF f, U
    <3> QED BY <3>2, <3>4 DEF Injection, Surjection, IsInjective
  <2> HIDE DEF f, U, n
  <2>5. IsFiniteSet(1..n) /\ Cardinality(1..n) = n
    BY <2>3, FS_Interval
  <2>6. IsFiniteSet(U)
    BY <2>3, <2>5, FS_Subset
  <2>7. Cardinality(Unread(process)) = Cardinality(U)
    BY <2>4, <2>6, FS_Injection
  <2>8. IsFiniteSet(Numbers) /\ packet_bytes_sent = Cardinality(Numbers)
    BY <1>1, NumbersFinite DEF RecordInv, CountInv
  <2>9. Cardinality(Numbers \union U) = Cardinality(Numbers) + Cardinality(U) - Cardinality(Numbers \intersect U)
    BY <2>6, <2>8, FS_Union
  <2>10. Cardinality(Numbers \intersect U) = 0
    BY <2>2, FS_EmptySet DEF U
  <2>11. Cardinality(Numbers) \in Nat /\ Cardinality(U) \in Nat
    BY <2>6, <2>8, FS_CardinalityType
  <2>12. Cardinality(Numbers) + Cardinality(U) = n
    <3>1. Numbers \union U = 1..n
      BY <2>2 DEF U, n
    <3>2. Cardinality(Numbers \union U) = n
      BY <2>5, <3>1, Zenon
    <3> QED BY <2>9, <2>10, <2>11, <3>2
  <2>13. packet_bytes_sent + Cardinality(Unread(process)) = n
    BY <2>7, <2>8, <2>12
  <2> QED BY <2>2, <2>13 DEF n
<1>2. IInv /\ RecordInv => RunCounted
  BY <1>1 DEF RunCounted, Unread
<1> QED BY <1>2, RecordInvariance, PTL
=============================================================================
