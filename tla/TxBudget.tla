------------------------------ MODULE TxBudget ------------------------------
(***************************************************************************)
(* The arithmetic of the transmit budget in MeshCore/src/Dispatcher.cpp:   *)
(* a bucket refilled at the duty cycle 1/(1 + getAirtimeBudgetFactor()),   *)
(* here 1/Divisor, and charged when a send completes.                      *)
(***************************************************************************)
EXTENDS Integers

CONSTANTS
  Divisor,     \* 1 + getAirtimeBudgetFactor()
  Window,      \* getDutyCycleWindowMs()
  Reserve,     \* MIN_TX_BUDGET_RESERVE_MS
  MaxAirtime,  \* getEstAirtimeFor(MAX_TRANS_UNIT)
  Airtimes,    \* getEstAirtimeFor() of the packets sent
  CadRetry     \* getCADFailRetryDelay()

ASSUME BudgetAssumption == /\ Divisor \in Nat \ {0} /\ Window \in Nat
                           /\ Reserve \in Nat /\ MaxAirtime \in Nat /\ CadRetry \in Nat
ASSUME AirtimesAssumption == Airtimes \subseteq 1..MaxAirtime

max_budget == Window \div Divisor

\* What checkSend() wants in the bucket before a send.
MinBudget == MaxAirtime \div 2

refill(elapsed) == elapsed \div Divisor

\* tx_budget_ms after updateTxBudget(), elapsed ms after the last refill.
Refilled(budget, elapsed) ==
  IF refill(elapsed) = 0 THEN budget
  ELSE IF budget + refill(elapsed) > max_budget THEN max_budget
  ELSE budget + refill(elapsed)

\* Slips in loop(): an overdraft left to wrap around, and one never charged.
ChargedBelowZero(budget, t) == budget - t
ChargedIfCovered(budget, t) == IF t > budget THEN budget ELSE budget - t

\* tx_budget_ms after a send of t ms; an overdraft is forgiven.
Charged(budget, t) == IF t > budget THEN 0 ELSE budget - t

\* How long until a budget short of wanted may be tried again.
RetryAfter(wanted, budget) == (wanted - budget) * Divisor
=============================================================================
