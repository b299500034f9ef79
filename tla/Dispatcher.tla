----------------------------- MODULE Dispatcher -----------------------------
(***************************************************************************)
(* One node's Dispatcher (MeshCore/src/Dispatcher.cpp) and the packet pool *)
(* and queues it moves packets between (StaticPoolPacketManager.cpp): the  *)
(* loop() that finishes a send, processes one delayed packet, reads one    *)
(* datagram and starts one send, on a millisecond clock that wraps.        *)
(*                                                                         *)
(* The radio, the channel and what onRecvPacket() decides are the          *)
(* environment: each of their answers is a choice. A Packet is one of the  *)
(* pool's objects; a queue is the sequence of its entries in table order.  *)
(***************************************************************************)
EXTENDS TxBudget, FiniteSets, SequencesExt

CONSTANTS
  Packet,        \* the pool, new mesh::Packet() per entry
  WordSize,      \* millis() and the timers count modulo WordSize
  Priorities,    \* priorities of the packets queued for sending
  TxDelays,      \* delays they are queued with
  RxDelays,      \* score delays of received floods (calcRxDelay())
  CadMax,        \* getCADFailMaxDuration()
  RadioFails,    \* TRUE iff the radio may refuse a send, or never report its end
  Steps,         \* ms from one call of loop() to the next (options.tick_ms)
  MaxIdle,       \* bound: how long the node may have nothing queued
  MaxTime        \* bound on the clock; WordSize or more when it may wrap

PoolSize == Cardinality(Packet)

Half == WordSize \div 2

ASSUME PoolAssumption == IsFiniteSet(Packet)
ASSUME ClockAssumption == /\ WordSize \in Nat /\ Half > 0 /\ WordSize = 2 * Half
                          /\ CadMax \in Nat /\ MaxIdle \in Nat /\ MaxTime \in Nat
                          /\ Steps \subseteq Nat \ {0}
ASSUME DelayAssumption == /\ TxDelays \subseteq 0..Half - 1 /\ RxDelays \subseteq 0..Half - 1
                          /\ Priorities \subseteq 0..255
ASSUME RadioAssumption == RadioFails \in BOOLEAN

VARIABLES
  clock,               \* _ms->getMillis()
  unused, send_queue, rx_queue,    \* StaticPoolPacketManager
  outbound,            \* the send in progress: outbound, its start and expiry,
                       \* and what the radio knows of it (at most one)
  received,            \* the packet onRecvPacket() is looking at (at most one)
  phase,               \* the part of loop() to run next; idle between calls
  next_tx_time, cad_busy_start, tx_budget_ms, last_budget_update,
  due_in               \* history: real time until a queued packet is due

queues == <<unused, send_queue, rx_queue>>
budget == <<tx_budget_ms, last_budget_update>>
vars == <<clock, queues, outbound, received, phase, next_tx_time, cad_busy_start, budget, due_in>>

Entry == [packet : Packet, priority : 0..255, scheduled_for : 0..WordSize - 1]

\* left: airtime still to go; lost: the radio will never say it is done.
Send == [packet : Packet, start : 0..WordSize - 1, expiry : 0..WordSize - 1,
         left : 0..MaxAirtime, lost : BOOLEAN]

\* Unsigned subtraction of two clock readings.
minus(a, b) == (a - b) % WordSize

\* Comparisons of the readings themselves, as if the clock never wrapped.
millisHasPassedUnwrapped(timestamp) == clock > timestamp
dueUnwrapped(entry) == entry.scheduled_for <= clock

millisHasNowPassed(timestamp) == minus(clock, timestamp) \in 1..Half - 1

futureMillis(ms) == (clock + ms) % WordSize

\* Not scheduled for the future.
due(entry) == minus(entry.scheduled_for, clock) \notin 1..Half - 1

-----------------------------------------------------------------------------
(***************************************************************************)
(* PacketQueue and StaticPoolPacketManager.                                *)
(***************************************************************************)

\* A table that is full with one entry free.
addOneShort(table, x) == IF Len(table) >= PoolSize - 1 THEN table ELSE Append(table, x)

add(table, x) == IF Len(table) = PoolSize THEN table ELSE Append(table, x)

\* A sentinel reading of the clock counts entries that are not due, too.
countBefore(queue) ==
  IF clock = WordSize - 1 THEN Len(queue)
  ELSE Cardinality({i \in DOMAIN queue : due(queue[i])})

\* Priority 255 is never less than min_pri's first value.
Eligible(queue) == {i \in DOMAIN queue : due(queue[i]) /\ queue[i].priority < 255}

\* Slips in get(): no schedule, and <= for <.
BestOfAll(queue) ==
  CHOOSE i \in DOMAIN queue : \A j \in DOMAIN queue :
    \/ queue[i].priority < queue[j].priority
    \/ queue[i].priority = queue[j].priority /\ i <= j
BestLast(queue) ==
  CHOOSE i \in Eligible(queue) : \A j \in Eligible(queue) :
    \/ queue[i].priority < queue[j].priority
    \/ queue[i].priority = queue[j].priority /\ i >= j

\* get(): the most urgent due entry, the first of those in the table.
Best(queue) ==
  CHOOSE i \in Eligible(queue) : \A j \in Eligible(queue) :
    \/ queue[i].priority < queue[j].priority
    \/ queue[i].priority = queue[j].priority /\ i <= j

free(p) == unused' = add(unused, p)

queueOutbound(p, priority, delay) ==
  /\ send_queue' = add(send_queue, [packet |-> p, priority |-> priority,
                                    scheduled_for |-> futureMillis(delay)])
  /\ due_in' = [due_in EXCEPT ![p] = delay]

queueInbound(p, delay) ==
  /\ rx_queue' = add(rx_queue, [packet |-> p, priority |-> 0,
                                scheduled_for |-> futureMillis(delay)])
  /\ due_in' = [due_in EXCEPT ![p] = delay]

Init ==
  /\ clock = 0
  /\ unused \in {s \in [1..PoolSize -> Packet] : IsInjective(s)}
  /\ send_queue = <<>>
  /\ rx_queue = <<>>
  /\ outbound = {}
  /\ received = {}
  /\ phase = "idle"
  /\ next_tx_time = 0
  /\ cad_busy_start = 0
  /\ tx_budget_ms = max_budget
  /\ last_budget_update = 0
  /\ due_in = [p \in Packet |-> 0]

\* The bound on how long the node has nothing to send: beyond it time stands
\* still, and no flood is held back, until the application sends something.
SendsOften == \/ send_queue # <<>> \/ outbound # {}
              \/ minus(clock, next_tx_time) <= MaxIdle

\* Time passes, and loop() is called again.
Tick(ms) ==
  /\ phase = "idle"
  /\ clock + ms <= MaxTime
  /\ rx_queue # <<>> \/ SendsOften
  /\ clock' = (clock + ms) % WordSize
  /\ outbound' = {[o EXCEPT !.left = IF @ <= ms THEN 0 ELSE @ - ms] : o \in outbound}
  /\ due_in' = [p \in Packet |-> IF due_in[p] <= ms THEN 0 ELSE due_in[p] - ms]
  /\ phase' = "loop"
  /\ UNCHANGED <<queues, received, next_tx_time, cad_busy_start, budget>>

-----------------------------------------------------------------------------
(***************************************************************************)
(* loop(): the send in progress and the delayed inbound queue.             *)
(***************************************************************************)

isSendComplete(o) == o.left = 0 /\ ~o.lost

updateTxBudget == Refilled(tx_budget_ms, minus(clock, last_budget_update))

LastUpdate == IF refill(minus(clock, last_budget_update)) = 0 THEN last_budget_update ELSE clock

\* The send is complete: charge it and return its packet to the pool.
SendComplete ==
  /\ phase = "loop" /\ received = {}
  /\ \E o \in outbound :
       /\ isSendComplete(o)
       /\ LET left == Charged(updateTxBudget, minus(clock, o.start))
          IN /\ tx_budget_ms' = left
             /\ next_tx_time' = IF left < Reserve THEN futureMillis(RetryAfter(Reserve, left))
                                ELSE clock
       /\ free(o.packet)
  /\ last_budget_update' = LastUpdate
  /\ outbound' = {}
  /\ UNCHANGED <<clock, send_queue, rx_queue, received, phase, cad_busy_start, due_in>>

\* The radio has not said it is done by 1.5 times the airtime: give up on it.
\* Nothing is charged.
SendTimedOut ==
  /\ phase = "loop" /\ received = {}
  /\ \E o \in outbound : ~isSendComplete(o) /\ millisHasNowPassed(o.expiry) /\ free(o.packet)
  /\ outbound' = {}
  /\ UNCHANGED <<clock, send_queue, rx_queue, received, phase, next_tx_time, cad_busy_start,
                 budget, due_in>>

\* loop() returns at once while the send is out.
StillSending ==
  /\ phase = "loop" /\ received = {}
  /\ \E o \in outbound : ~isSendComplete(o) /\ ~millisHasNowPassed(o.expiry)
  /\ phase' = "idle"
  /\ UNCHANGED <<clock, queues, outbound, received, next_tx_time, cad_busy_start, budget, due_in>>

\* The delayed inbound queue: process one packet that is due, if any.
CheckInbound ==
  /\ phase = "loop" /\ received = {} /\ outbound = {}
  /\ IF Eligible(rx_queue) = {}
     THEN phase' = "recv" /\ UNCHANGED <<rx_queue, received>>
     ELSE /\ received' = {rx_queue[Best(rx_queue)].packet}
          /\ rx_queue' = RemoveAt(rx_queue, Best(rx_queue))
          /\ UNCHANGED phase
  /\ UNCHANGED <<clock, unused, send_queue, outbound, next_tx_time, cad_busy_start, budget, due_in>>

\* processRecvPacket(): onRecvPacket() releases the packet, or has it sent on.
\* loop() then goes on with checkRecv() or checkSend().
processRecvPacket ==
  /\ \E p \in received :
       \/ free(p) /\ UNCHANGED <<send_queue, due_in>>
       \/ /\ \E priority \in Priorities, delay \in TxDelays : queueOutbound(p, priority, delay)
          /\ UNCHANGED unused
  /\ received' = {}
  /\ phase' = IF phase = "loop" THEN "recv" ELSE "send"
  /\ UNCHANGED <<clock, rx_queue, outbound, next_tx_time, cad_busy_start, budget>>

\* obtainNewPacket() and sendPacket(), by the application between calls of
\* loop() or by a handler within onRecvPacket(); an invalid packet is freed.
Originate ==
  /\ phase = "idle" \/ received # {}
  /\ unused # <<>>
  /\ \/ /\ \E priority \in Priorities, delay \in TxDelays :
             queueOutbound(Head(unused), priority, delay)
        /\ unused' = Tail(unused)
     \/ unused' = Append(Tail(unused), Head(unused)) /\ UNCHANGED <<send_queue, due_in>>
  /\ UNCHANGED <<clock, rx_queue, outbound, received, phase, next_tx_time, cad_busy_start, budget>>

-----------------------------------------------------------------------------
(***************************************************************************)
(* checkRecv() and checkSend().                                            *)
(***************************************************************************)

\* No datagram, none that could be kept (an empty pool), or one that does not
\* parse, whose packet goes back to the pool.
RecvNothing ==
  /\ phase = "recv" /\ received = {}
  /\ \/ UNCHANGED unused
     \/ unused # <<>> /\ unused' = Append(Tail(unused), Head(unused))
  /\ phase' = "send"
  /\ UNCHANGED <<clock, send_queue, rx_queue, outbound, received, next_tx_time, cad_busy_start,
                 budget, due_in>>

\* A direct packet, or a flood whose score delay is below the threshold.
RecvNow ==
  /\ phase = "recv" /\ received = {} /\ unused # <<>>
  /\ received' = {Head(unused)}
  /\ unused' = Tail(unused)
  /\ UNCHANGED <<clock, send_queue, rx_queue, outbound, phase, next_tx_time, cad_busy_start,
                 budget, due_in>>

RecvDelayed ==
  /\ phase = "recv" /\ received = {} /\ unused # <<>>
  /\ SendsOften
  /\ \E delay \in RxDelays : queueInbound(Head(unused), delay)
  /\ unused' = Tail(unused)
  /\ phase' = "send"
  /\ UNCHANGED <<clock, send_queue, outbound, received, next_tx_time, cad_busy_start, budget>>

\* checkSend() runs once per loop(), which then returns.
CheckSend ==
  /\ phase = "send" /\ received = {}
  /\ phase' = "idle"
  /\ UNCHANGED <<clock, rx_queue, received, due_in>>

\* It looks at the budget if anything counts as waiting.
Budgeted ==
  /\ CheckSend
  /\ countBefore(send_queue) > 0
  /\ tx_budget_ms' = updateTxBudget
  /\ last_budget_update' = LastUpdate

NothingToSend ==
  /\ CheckSend
  /\ countBefore(send_queue) = 0
  /\ UNCHANGED <<unused, send_queue, outbound, next_tx_time, cad_busy_start, budget>>

BudgetShort ==
  /\ Budgeted
  /\ updateTxBudget < MinBudget
  /\ next_tx_time' = futureMillis(RetryAfter(MinBudget, updateTxBudget))
  /\ UNCHANGED <<unused, send_queue, outbound, cad_busy_start>>

TooEarly ==
  /\ Budgeted
  /\ updateTxBudget >= MinBudget
  /\ ~millisHasNowPassed(next_tx_time)
  /\ UNCHANGED <<unused, send_queue, outbound, next_tx_time, cad_busy_start>>

\* 0 means that no back-off has been recorded.
CadStart == IF cad_busy_start = 0 THEN clock ELSE cad_busy_start

MayTransmit ==
  /\ Budgeted
  /\ updateTxBudget >= MinBudget
  /\ millisHasNowPassed(next_tx_time)

\* The radio is receiving.
BackOff ==
  /\ MayTransmit
  /\ minus(clock, CadStart) <= CadMax
  /\ cad_busy_start' = CadStart
  /\ next_tx_time' = futureMillis(CadRetry)
  /\ UNCHANGED <<unused, send_queue, outbound>>

\* The channel is free, or has been busy for longer than CadMax: the most
\* urgent packet leaves the queue. The radio may refuse it, or it may be too
\* long; then it is released.
Transmit(busy) ==
  /\ MayTransmit
  /\ busy => minus(clock, CadStart) > CadMax
  /\ cad_busy_start' = 0
  /\ IF Eligible(send_queue) = {}
     THEN UNCHANGED <<unused, send_queue, outbound>>
     ELSE LET p == send_queue[Best(send_queue)].packet
          IN /\ send_queue' = RemoveAt(send_queue, Best(send_queue))
             /\ \/ RadioFails /\ free(p) /\ UNCHANGED outbound
                \/ /\ \E airtime \in Airtimes, lost \in {FALSE, RadioFails} :
                        outbound' = {[packet |-> p, start |-> clock,
                                      expiry |-> futureMillis((airtime * 3) \div 2),
                                      left |-> airtime, lost |-> lost]}
                   /\ UNCHANGED unused
  /\ UNCHANGED next_tx_time

checkSend == NothingToSend \/ BudgetShort \/ TooEarly \/ BackOff \/ \E busy \in BOOLEAN : Transmit(busy)

loop ==
  \/ SendComplete \/ SendTimedOut \/ StillSending \/ CheckInbound
  \/ processRecvPacket
  \/ RecvNothing \/ RecvNow \/ RecvDelayed
  \/ checkSend

Next == (\E ms \in Steps : Tick(ms)) \/ loop \/ Originate

\* The clock runs, and the run loop calls loop() for ever.
Spec == Init /\ [][Next]_vars /\ WF_vars(\E ms \in Steps : Tick(ms)) /\ WF_vars(loop)

-----------------------------------------------------------------------------
(***************************************************************************)
(* Properties.                                                             *)
(***************************************************************************)

TypeOK ==
  /\ clock \in 0..WordSize - 1
  /\ unused \in Seq(Packet)
  /\ send_queue \in Seq(Entry)
  /\ rx_queue \in Seq(Entry)
  /\ outbound \subseteq Send
  /\ received \subseteq Packet
  /\ phase \in {"idle", "loop", "recv", "send"}
  /\ next_tx_time \in 0..WordSize - 1
  /\ cad_busy_start \in 0..WordSize - 1
  /\ tx_budget_ms \in 0..max_budget
  /\ last_budget_update \in 0..WordSize - 1
  /\ due_in \in [Packet -> Nat]

Packets(queue) == {queue[i].packet : i \in DOMAIN queue}

\* No packet is lost or owned twice: the pool, the queues, the send in progress
\* and the handler hold all packets between them, each once. So no queue is
\* ever full and no packet is dropped for want of room in one.
PoolConserved ==
  /\ Packet = Range(unused) \union Packets(send_queue) \union Packets(rx_queue)
                \union {o.packet : o \in outbound} \union received
  /\ Len(unused) + Len(send_queue) + Len(rx_queue) + Cardinality(outbound) + Cardinality(received)
       = PoolSize
  /\ Cardinality(outbound) <= 1 /\ Cardinality(received) <= 1

\* A packet is neither sent nor taken from the delayed inbound queue before the
\* delay it was queued with has really passed, across a wrap of the clock, too.
NeverEarly ==
  /\ \A o \in outbound : due_in[o.packet] = 0
  /\ phase = "loop" => \A p \in received : due_in[p] = 0

\* A packet leaves the send queue only for a send, or a send that failed, of
\* the most urgent packet due, the one queued first if there are several.
MostUrgentFirst ==
  [][\A i \in DOMAIN send_queue :
       send_queue[i].packet \notin Packets(send_queue') =>
         \A j \in DOMAIN send_queue : due(send_queue[j]) =>
           \/ send_queue[i].priority < send_queue[j].priority
           \/ send_queue[i].priority = send_queue[j].priority /\ i <= j]_vars

\* Every packet taken from the pool returns to it: no queue, back-off, budget,
\* lost interrupt or wrap of the clock strands one for ever.
EveryPacketReturns ==
  \A p \in Packet : p \notin Range(unused) ~> p \in Range(unused)

\* futureMillis() and millisHasNowPassed() are meant to handle a clock that
\* wraps around: a packet queued for sending always leaves the queue.
WrapHandled ==
  \A p \in Packet : p \in Packets(send_queue) ~> p \notin Packets(send_queue)
=============================================================================
