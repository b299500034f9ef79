------------------------------ MODULE DutyCycle ------------------------------
(***************************************************************************)
(* The transmit budget's slice of Dispatcher::loop(), for a node that may  *)
(* always have a packet to send and a clock that does not wrap: how much   *)
(* the node can transmit in how much time. Module Dispatcher is the whole  *)
(* of loop().                                                              *)
(***************************************************************************)
EXTENDS TxBudget

CONSTANT MaxTime  \* bound on the clock

ASSUME MaxTimeAssumption == MaxTime \in Nat

VARIABLES
  now,                 \* MillisecondClock
  tx_budget_ms,
  last_budget_update,
  next_tx_time,
  outbound,            \* the sends in progress: at most one [start, airtime]
  n_sent,              \* n_sent_flood + n_sent_direct
  on_air               \* history: milliseconds of completed transmissions

vars == <<now, tx_budget_ms, last_budget_update, next_tx_time, outbound, n_sent, on_air>>

Init ==
  /\ now = 0
  /\ tx_budget_ms = max_budget
  /\ last_budget_update = 0
  /\ next_tx_time = 0
  /\ outbound = {}
  /\ n_sent = 0
  /\ on_air = 0

updateTxBudget == Refilled(tx_budget_ms, now - last_budget_update)

LastUpdate == IF refill(now - last_budget_update) = 0 THEN last_budget_update ELSE now

\* checkSend() with a due packet and too small a budget.
BudgetShort ==
  /\ outbound = {}
  /\ updateTxBudget < MinBudget
  /\ tx_budget_ms' = updateTxBudget
  /\ last_budget_update' = LastUpdate
  /\ next_tx_time' = now + RetryAfter(MinBudget, updateTxBudget)
  /\ UNCHANGED <<now, outbound, n_sent, on_air>>

\* checkSend() with budget enough, but next_tx_time not passed or the channel
\* busy: the refill is taken all the same.
Deferred ==
  /\ outbound = {}
  /\ updateTxBudget >= MinBudget
  /\ tx_budget_ms' = updateTxBudget
  /\ last_budget_update' = LastUpdate
  /\ \/ now <= next_tx_time /\ UNCHANGED next_tx_time
     \/ now > next_tx_time /\ next_tx_time' = now + CadRetry
  /\ UNCHANGED <<now, outbound, n_sent, on_air>>

\* checkSend() starts a send.
StartSend ==
  /\ outbound = {}
  /\ updateTxBudget >= MinBudget
  /\ now > next_tx_time
  /\ \E airtime \in Airtimes : outbound' = {[start |-> now, airtime |-> airtime]}
  /\ tx_budget_ms' = updateTxBudget
  /\ last_budget_update' = LastUpdate
  /\ UNCHANGED <<now, next_tx_time, n_sent, on_air>>

\* loop() sees the send complete: the time it was out is charged.
SendComplete ==
  \E o \in outbound :
    /\ now >= o.start + o.airtime
    /\ LET budget == Charged(updateTxBudget, now - o.start)
       IN /\ tx_budget_ms' = budget
          /\ next_tx_time' = IF budget < Reserve THEN now + RetryAfter(Reserve, budget) ELSE now
    /\ last_budget_update' = LastUpdate
    /\ outbound' = {}
    /\ n_sent' = n_sent + 1
    /\ on_air' = on_air + o.airtime
    /\ UNCHANGED now

Tick ==
  /\ now < MaxTime
  /\ now' = now + 1
  /\ UNCHANGED <<tx_budget_ms, last_budget_update, next_tx_time, outbound, n_sent, on_air>>

Next == BudgetShort \/ Deferred \/ StartSend \/ SendComplete \/ Tick

Spec == Init /\ [][Next]_vars

-----------------------------------------------------------------------------

TypeOK ==
  /\ now \in Nat
  /\ tx_budget_ms \in 0..max_budget
  /\ last_budget_update \in 0..now
  /\ next_tx_time \in Nat
  /\ outbound \subseteq [start : 0..now, airtime : Airtimes]
  /\ n_sent \in Nat
  /\ on_air \in Nat

\* All the budget the duty cycle has granted since the start.
Granted == max_budget + now \div Divisor

\* Although overdrafts are forgiven, what the node has transmitted never
\* exceeds twice its duty cycle: checkSend() starts a send only on half the
\* longest airtime (the 1 ms per packet is MinBudget's rounding).
AtMostTwiceDutyCycle == on_air <= 2 * Granted + n_sent

\* "set dutycycle" documents a limit on transmit time: the node never
\* transmits more than the duty cycle has granted it.
DutyCycleLimit == on_air <= Granted
=============================================================================
