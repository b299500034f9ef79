------------------------------- MODULE Medium -------------------------------
(***************************************************************************)
(* The shared radio medium of the native simulator and the radios attached *)
(* to it (MeshCore/simulator/Simulator.cpp), driven by the run loop of     *)
(* MeshCore/simulator/main.cpp:                                            *)
(*                                                                         *)
(*   clock.set(now); medium.advance(); each node's loop() once, in order.  *)
(*                                                                         *)
(* Bytes are abstracted to the ordinal of the transmission that carries    *)
(* them; a frequency/bandwidth/spreading-factor triple is one Channel.     *)
(* What a node does with a datagram is in module Dispatcher; here a node's *)
(* loop() is only its effect on its radio: finish a completed send, read   *)
(* one datagram, and start a send or back off.                             *)
(***************************************************************************)
EXTENDS Integers, FiniteSets, Sequences

CONSTANTS
  NodeCount,     \* radios are numbered in the order the run loop visits them
  Links,         \* pairs <<sender, receiver>>: Node::outgoing
  Channel,       \* classes of sameChannel()
  CodingRate,
  StartConfig,   \* options.radio, the configuration every radio starts with
  Airtimes,      \* values airtimeMillis() returns for the packets sent
  TickMillis,    \* options.tick_ms
  CadMax,        \* getCADFailMaxDuration()
  Interference,  \* TRUE iff --interference is positive
  MaxSends,      \* bound on the number of transmissions
  MaxTime,       \* options.duration_ms; sends that would outlast it are left out
  MaxRetunes     \* bound on the number of configuration changes

Node == 1..NodeCount
Config == [channel : Channel, explicit : BOOLEAN, rate : CodingRate]

ASSUME NodeAssumption == NodeCount \in Nat \ {0}
ASSUME LinksAssumption == /\ Links \subseteq Node \X Node
                          /\ \A n \in Node : <<n, n>> \notin Links
ASSUME ConfigAssumption == StartConfig \in Config
\* airtimeMillis() returns max(1, ...), and parseOptions() rejects a zero tick.
ASSUME TimeAssumption == /\ Airtimes \subseteq Nat \ {0}
                         /\ TickMillis \in Nat \ {0}
                         /\ CadMax \in Nat
ASSUME BoundAssumption == /\ MaxSends \in Nat /\ MaxTime \in Nat
                          /\ MaxRetunes \in Nat /\ Interference \in BOOLEAN

VARIABLES
  now,                 \* SimClock::now_ms_
  turn,                \* the next node the run loop visits in this tick
  config,              \* SimulatedRadio::config_
  transmissions,       \* SimulatedMedium::transmissions_
  finalised,           \* those whose finalised flag is set
  transmitting_until,  \* SimulatedRadio::transmitting_until_ (0: not sending)
  inbox,               \* SimulatedRadio::inbox_
  cad_busy_start,      \* Dispatcher::cad_busy_start (0: not backing off)
  stats,               \* SimulatedMedium::stats_
  retunes,             \* number of configuration changes so far
  log,                 \* history: every transmission ever made
  verdicts             \* history: what finalise() decided per receiver

radioVars == <<config, transmitting_until, inbox, cad_busy_start, retunes>>
mediumVars == <<transmissions, finalised, stats>>
historyVars == <<log, verdicts>>
vars == <<now, turn, radioVars, mediumVars, historyVars>>

\* waited is history: how long the sender had been backing off.
Transmission ==
  [id : Nat, sender : Node, started_at : Nat, ends_at : Nat, config : Config,
   observable : SUBSET Node, waited : Nat]

MediumStats ==
  [transmissions : Nat, delivered : Nat, collided_transmissions : Nat, collision_drops : Nat,
   incompatible_drops : Nat, interference_drops : Nat]

Verdict == {"incompatible", "collision", "interference", "delivered"}

connected(s, r) == <<s, r>> \in Links

outgoing(s) == {r \in Node : connected(s, r)}

overlapping(a, b) == a.started_at < b.ends_at /\ b.started_at < a.ends_at

sameChannel(c, d) == c.channel = d.channel

receiverCompatible(c, d) ==
  /\ sameChannel(c, d)
  /\ c.explicit = d.explicit
  /\ c.explicit \/ c.rate = d.rate

\* Slips in finalise() the properties below must notice.
SpoilsFullDuplex(o, t, r) ==
  o.id # t.id /\ overlapping(t, o) /\ connected(o.sender, r) /\ sameChannel(t.config, o.config)

SpoilsHalfDuplexOnly(o, t, r) == o.id # t.id /\ overlapping(t, o) /\ o.sender = r

\* Another transmission o spoils the reception of t at r.
Spoils(o, t, r) ==
  /\ o.id # t.id
  /\ overlapping(t, o)
  /\ \/ o.sender = r
     \/ connected(o.sender, r) /\ sameChannel(t.config, o.config)

channelBusyInverted(r) ==
  \E t \in finalised : t.sender # r /\ t.started_at < now /\ connected(t.sender, r)

channelBusy(r) ==
  \E t \in transmissions \ finalised :
    /\ t.sender # r
    /\ t.started_at < now
    /\ connected(t.sender, r)
    /\ sameChannel(t.config, config[r])

isInRecvMode(n) == transmitting_until[n] = 0 \/ now >= transmitting_until[n]

Init ==
  /\ now = 0
  /\ turn = 1
  /\ config = [n \in Node |-> StartConfig]
  /\ transmissions = {}
  /\ finalised = {}
  /\ transmitting_until = [n \in Node |-> 0]
  /\ inbox = [n \in Node |-> <<>>]
  /\ cad_busy_start = [n \in Node |-> 0]
  /\ stats = [transmissions |-> 0, delivered |-> 0, collided_transmissions |-> 0,
              collision_drops |-> 0, incompatible_drops |-> 0, interference_drops |-> 0]
  /\ retunes = 0
  /\ log = {}
  /\ verdicts = {}

-----------------------------------------------------------------------------
(***************************************************************************)
(* advance(): decide every transmission that has ended, then forget the    *)
(* decided ones no active transmission can overlap.                        *)
(***************************************************************************)

DueLate(time) == {t \in transmissions \ finalised : t.ends_at < time}

\* The transmissions finalise() is called on when the clock reads time.
Due(time) == {t \in transmissions \ finalised : t.ends_at <= time}

\* The receptions of time's decided transmissions, one per outgoing link.
Receptions(time) ==
  {x \in Due(time) \X Node : connected(x[1].sender, x[2])}

\* finalise() for one receiver: later checks apply only if earlier ones pass.
VerdictOf(t, r, lost) ==
  IF ~receiverCompatible(t.config, config[r]) THEN "incompatible"
  ELSE IF \E o \in transmissions : Spoils(o, t, r) THEN "collision"
  ELSE IF <<t, r>> \in lost THEN "interference"
  ELSE "delivered"

Decision(time, lost) ==
  {[tx |-> x[1].id, receiver |-> x[2], verdict |-> VerdictOf(x[1], x[2], lost)] :
     x \in Receptions(time)}

\* The interference draw is made per eligible receiver, independently.
Draws(time) ==
  IF Interference
  THEN SUBSET {x \in Receptions(time) : VerdictOf(x[1], x[2], {}) = "delivered"}
  ELSE {{}}

\* remove_if with the latest active start, and with < for <=.
ForgettableEager(t, active) == \E a \in active : t.ends_at <= a.started_at
ForgettableLate(t, active) == \A a \in active : t.ends_at < a.started_at

\* remove_if at the end of advance(): earliest_active_start is the least
\* start of an active transmission, or UINT64_MAX when none is active.
Forgettable(t, active) == \A a \in active : t.ends_at <= a.started_at

\* deliver() appends in the order of the transmissions_ vector.
InOrder(S) ==
  CHOOSE s \in [1..Cardinality(S) -> S] : \A i, j \in DOMAIN s : i < j => s[i] < s[j]

Received(d, n) == {v.tx : v \in {x \in d : x.receiver = n /\ x.verdict = "delivered"}}

WithVerdict(d, v) == {x \in d : x.verdict = v}

\* A decrement for an increment.
CountDown(s, d) == [s EXCEPT !.delivered = @ - Cardinality(WithVerdict(d, "delivered"))]

\* No "continue" after an interference drop.
CountFallThrough(s, d) ==
  [s EXCEPT !.delivered = @ + Cardinality({v \in d : v.verdict \in {"delivered", "interference"}})]

Count(s, d) ==
  [transmissions |-> s.transmissions,
   delivered |-> s.delivered + Cardinality(WithVerdict(d, "delivered")),
   collision_drops |-> s.collision_drops + Cardinality(WithVerdict(d, "collision")),
   incompatible_drops |-> s.incompatible_drops + Cardinality(WithVerdict(d, "incompatible")),
   interference_drops |-> s.interference_drops + Cardinality(WithVerdict(d, "interference")),
   collided_transmissions |->
     s.collided_transmissions + Cardinality({v.tx : v \in WithVerdict(d, "collision")})]

advance(time) ==
  LET done == finalised \union Due(time)
      active == transmissions \ done
  IN /\ \E lost \in Draws(time) :
          LET d == Decision(time, lost)
          IN /\ verdicts' = verdicts \union d
             /\ inbox' = [n \in Node |-> inbox[n] \o InOrder(Received(d, n))]
             /\ stats' = Count(stats, d)
     /\ transmissions' = active \union {t \in done : ~Forgettable(t, active)}
     /\ finalised' = {t \in done : ~Forgettable(t, active)}

Tick ==
  /\ turn = NodeCount + 1
  /\ now + TickMillis <= MaxTime
  /\ now' = now + TickMillis
  /\ turn' = 1
  /\ advance(now + TickMillis)
  /\ UNCHANGED <<config, transmitting_until, cad_busy_start, retunes, log>>

-----------------------------------------------------------------------------
(***************************************************************************)
(* A node's loop(), as its radio sees it (Dispatcher::loop).               *)
(***************************************************************************)

isSendCompleteInverted(n) == transmitting_until[n] = 0 /\ now >= transmitting_until[n]

isSendComplete(n) == transmitting_until[n] # 0 /\ now >= transmitting_until[n]

\* loop() returns at once while the send is on air: outbound is not NULL.
StillSending(n) ==
  /\ turn = n
  /\ transmitting_until[n] # 0
  /\ ~isSendComplete(n)
  /\ turn' = n + 1
  /\ UNCHANGED <<now, radioVars, mediumVars, historyVars>>

\* onSendFinished() when the send is complete, then recvRaw() in checkRecv():
\* one datagram per loop.
FinishAndReceive(n) ==
  /\ turn = n
  /\ transmitting_until[n] = 0 \/ isSendComplete(n)
  /\ inbox' = [inbox EXCEPT ![n] = IF @ = <<>> THEN @ ELSE Tail(@)]

\* checkSend() found nothing due, or the node is waiting (budget, next_tx_time).
LoopIdle(n) ==
  /\ FinishAndReceive(n)
  /\ transmitting_until' = [transmitting_until EXCEPT ![n] = 0]
  /\ turn' = n + 1
  /\ UNCHANGED <<now, config, cad_busy_start, retunes, mediumVars, historyVars>>

\* isReceiving(); isInRecvMode() holds once onSendFinished() has been called.
isReceiving(n) == channelBusy(n)

CadStart(n) == IF cad_busy_start[n] = 0 THEN now ELSE cad_busy_start[n]

\* checkSend() hears a transmission and has not waited too long yet.
LoopBackOff(n) ==
  /\ FinishAndReceive(n)
  /\ isReceiving(n)
  /\ now - CadStart(n) <= CadMax
  /\ cad_busy_start' = [cad_busy_start EXCEPT ![n] = CadStart(n)]
  /\ transmitting_until' = [transmitting_until EXCEPT ![n] = 0]
  /\ turn' = n + 1
  /\ UNCHANGED <<now, config, retunes, mediumVars, historyVars>>

\* startSendRaw() and transmit(). The radio cannot refuse: it is not sending.
transmit(n, airtime) ==
  LET t == [id |-> stats.transmissions + 1, sender |-> n, started_at |-> now,
            ends_at |-> now + airtime, config |-> config[n],
            observable |-> {r \in outgoing(n) : receiverCompatible(config[n], config[r])},
            waited |-> IF cad_busy_start[n] = 0 THEN 0 ELSE now - cad_busy_start[n]]
  IN /\ transmissions' = transmissions \union {t}
     /\ log' = log \union {t}
     /\ stats' = [stats EXCEPT !.transmissions = @ + 1]
     /\ transmitting_until' = [transmitting_until EXCEPT ![n] = t.ends_at]

\* checkSend() finds the channel free, or has backed off longer than CadMax.
LoopSend(n) ==
  /\ stats.transmissions < MaxSends
  /\ FinishAndReceive(n)
  /\ isReceiving(n) => now - CadStart(n) > CadMax
  /\ \E airtime \in {a \in Airtimes : now + a <= MaxTime} : transmit(n, airtime)
  /\ cad_busy_start' = [cad_busy_start EXCEPT ![n] = 0]
  /\ turn' = n + 1
  /\ UNCHANGED <<now, config, retunes, finalised, verdicts>>

\* setParams(), called after the Dispatcher's part of the node's loop.
setParams(n) ==
  /\ turn = n + 1
  /\ retunes < MaxRetunes
  /\ \E c \in Channel, r \in CodingRate :
       config' = [config EXCEPT ![n].channel = c, ![n].rate = r]
  /\ retunes' = retunes + 1
  /\ UNCHANGED <<now, turn, transmitting_until, inbox, cad_busy_start, mediumVars, historyVars>>

loop(n) == StillSending(n) \/ LoopIdle(n) \/ LoopBackOff(n) \/ LoopSend(n)

Next ==
  \/ Tick
  \/ \E n \in Node : loop(n)
  \/ \E n \in Node : setParams(n)

\* The run loop never stops visiting the nodes and advancing the clock.
Fairness == WF_vars(Tick) /\ \A n \in Node : WF_vars(loop(n))

Spec == Init /\ [][Next]_vars /\ Fairness

-----------------------------------------------------------------------------
(***************************************************************************)
(* Properties.                                                             *)
(***************************************************************************)

TypeOK ==
  /\ now \in Nat
  /\ turn \in 1..NodeCount + 1
  /\ config \in [Node -> Config]
  /\ transmissions \subseteq Transmission
  /\ finalised \subseteq transmissions
  /\ transmitting_until \in [Node -> Nat]
  /\ inbox \in [Node -> Seq(Nat)]
  /\ cad_busy_start \in [Node -> Nat]
  /\ stats \in MediumStats
  /\ retunes \in Nat
  /\ log \subseteq Transmission
  /\ verdicts \subseteq [tx : Nat, receiver : Node, verdict : Verdict]

\* Pruning transmissions_ never changes what a receiver gets: a reception is
\* delivered only if no transmission ever made spoils it, and dropped as a
\* collision only if one does (finalise() against advance()'s remove_if).
VerdictsExact ==
  \A v \in verdicts : \A t \in log :
    v.tx = t.id =>
      /\ v.verdict = "collision" => \E o \in log : Spoils(o, t, v.receiver)
      /\ v.verdict \in {"delivered", "interference"} =>
           ~ \E o \in log : Spoils(o, t, v.receiver)

\* What the comment in advance() says bounds memory: a completed transmission
\* is kept only while it overlaps an active one.
KeptOnlyWhileOverlapping ==
  \A t \in finalised : \E a \in transmissions \ finalised : overlapping(t, a)

\* A node's radio is never handed a second datagram before loop() has read the
\* first, and every datagram is gone once its turn has passed, so the unbounded
\* inbox_ never holds more than one.
InboxDrained ==
  \A n \in Node : inbox[n] # <<>> => turn <= n /\ Len(inbox[n]) = 1

\* Half duplex: a datagram is never delivered to a radio that is still sending.
DeliveredWhileListening ==
  \A n \in Node : inbox[n] # <<>> => isInRecvMode(n)

\* Listen before talk: a node starts while it can hear an earlier transmission
\* on its channel only after backing off for longer than CadMax, so shorter
\* overlaps between two nodes that hear each other start in the same tick.
ListenBeforeTalk ==
  \A a, b \in log :
    /\ overlapping(a, b) /\ a.started_at < b.started_at
    /\ connected(a.sender, b.sender) /\ sameChannel(a.config, b.config)
    => b.waited > CadMax

\* Every link of every decided transmission is counted in exactly one of the
\* totals the simulator prints.
StatsBalance ==
  /\ stats.delivered + stats.collision_drops + stats.incompatible_drops
       + stats.interference_drops
     = Cardinality({x \in log \X Node : connected(x[1].sender, x[2])
                                        /\ x[1] \notin transmissions \ finalised})
  /\ stats.collided_transmissions <= stats.collision_drops
  /\ stats.collided_transmissions <= stats.transmissions

\* Every send ends: the radio goes back to receive mode and its transmission
\* is decided.
EverySendEnds ==
  \A n \in Node : transmitting_until[n] # 0 ~> transmitting_until[n] = 0

\* The medium implements Ether: what advance() decides from the transmissions
\* it kept is what the whole history of the air says, at the tick in which a
\* transmission ends and for every link of its sender.
Air == INSTANCE Ether WITH clock <- now, sent <- log, judged <- verdicts,
         Connected <- connected, Compatible <- receiverCompatible

ImplementsEther == Air!Spec
=============================================================================
