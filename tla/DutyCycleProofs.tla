--------------------------- MODULE DutyCycleProofs ---------------------------
(***************************************************************************)
(* Theorems about module DutyCycle: the budget is well formed, and a node  *)
(* never transmits more than twice what its duty cycle has granted.        *)
(***************************************************************************)
EXTENDS DutyCycle, TLAPS

\* The budget left has not been spent: what was transmitted is covered by
\* twice the budget that was granted and is gone.
Accounting ==
  on_air + 2 * tx_budget_ms <= 2 * (max_budget + last_budget_update \div Divisor) + n_sent

\* While a send is out, the bucket keeps at least what the start asked for.
Covered == outbound # {} => tx_budget_ms >= MinBudget

IInv == TypeOK /\ Accounting /\ Covered

-----------------------------------------------------------------------------

\* Truncating each refill never grants more than the elapsed time does.
LEMMA RefillsAddUp ==
  ASSUME NEW a \in Nat, NEW b \in Nat, NEW d \in Nat \ {0}
  PROVE  /\ a \div d \in Nat /\ b \div d \in Nat
         /\ a \div d + b \div d <= (a + b) \div d
<1> DEFINE q == a \div d
           r == b \div d
           s == (a + b) \div d
<1>1. q \in Nat /\ r \in Nat /\ s \in Nat
  OBVIOUS
<1>2. d * q <= a /\ d * r <= b /\ a + b < d * (s + 1)
  OBVIOUS
<1> HIDE DEF q, r, s
<1>3. d * (q + r) < d * (s + 1)
  BY <1>1, <1>2
<1>4. q + r < s + 1
  BY <1>1, <1>3
<1> QED BY <1>1, <1>4 DEF q, r, s

LEMMA Types ==
  ASSUME IInv
  PROVE  /\ max_budget \in Nat /\ now \in Nat /\ tx_budget_ms \in 0..max_budget
         /\ Divisor \in Nat \ {0} /\ Reserve \in Nat /\ on_air \in Nat /\ n_sent \in Nat
<1>1. max_budget \in Nat
  BY BudgetAssumption DEF max_budget
<1>2. Divisor \in Nat \ {0} /\ Reserve \in Nat
  BY BudgetAssumption
<1> QED BY <1>1, <1>2 DEF IInv, TypeOK

\* What updateTxBudget() does to the budget and to the budget granted.
LEMMA RefillGrants ==
  ASSUME IInv
  PROVE  /\ updateTxBudget \in tx_budget_ms..max_budget
         /\ LastUpdate \in 0..now
         /\ on_air + 2 * updateTxBudget <= 2 * (max_budget + LastUpdate \div Divisor) + n_sent
<1> DEFINE e == now - last_budget_update
           q == e \div Divisor
           l == last_budget_update \div Divisor
<1>1. /\ Divisor \in Nat \ {0} /\ max_budget \in Nat /\ tx_budget_ms \in 0..max_budget
      /\ now \in Nat /\ last_budget_update \in Nat /\ e \in Nat
      /\ now = last_budget_update + e /\ on_air \in Nat /\ n_sent \in Nat
  BY BudgetAssumption DEF IInv, TypeOK, max_budget
<1>2. q \in Nat /\ l \in Nat /\ l + q <= now \div Divisor /\ now \div Divisor \in Nat
  BY <1>1, RefillsAddUp
<1>3. on_air + 2 * tx_budget_ms <= 2 * (max_budget + l) + n_sent
  BY DEF IInv, Accounting
<1>4. updateTxBudget = IF q = 0 THEN tx_budget_ms
                       ELSE IF tx_budget_ms + q > max_budget THEN max_budget
                       ELSE tx_budget_ms + q
  BY DEF updateTxBudget, Refilled, refill
<1>5. LastUpdate = IF q = 0 THEN last_budget_update ELSE now
  BY DEF LastUpdate, refill
<1> HIDE DEF q, l, e
<1>6. CASE q = 0
  BY <1>1, <1>3, <1>4, <1>5, <1>6 DEF l
<1>7. CASE q # 0
  <2>1. updateTxBudget \in tx_budget_ms..max_budget /\ updateTxBudget <= tx_budget_ms + q
    BY <1>1, <1>2, <1>4, <1>7
  <2>2. on_air + 2 * updateTxBudget <= 2 * (max_budget + now \div Divisor) + n_sent
    BY <1>1, <1>2, <1>3, <2>1
  <2> QED BY <1>1, <1>5, <1>7, <2>1, <2>2
<1> QED BY <1>6, <1>7

LEMMA InitInv == Init => IInv
<1>1. max_budget \in Nat
  BY BudgetAssumption DEF max_budget
<1>2. 0 \div Divisor = 0
  BY BudgetAssumption
<1> QED BY <1>1, <1>2 DEF Init, IInv, TypeOK, Accounting, Covered

\* checkSend() takes the refill and starts at most one send, on MinBudget.
LEMMA CheckSendInv ==
  ASSUME IInv, BudgetShort \/ Deferred \/ StartSend
  PROVE  IInv'
<1>1. /\ outbound = {} /\ tx_budget_ms' = updateTxBudget /\ last_budget_update' = LastUpdate
      /\ now' = now /\ n_sent' = n_sent /\ on_air' = on_air
  BY DEF BudgetShort, Deferred, StartSend
<1>2. /\ updateTxBudget \in tx_budget_ms..max_budget /\ LastUpdate \in 0..now
      /\ on_air + 2 * updateTxBudget <= 2 * (max_budget + LastUpdate \div Divisor) + n_sent
      /\ max_budget \in Nat /\ now \in Nat /\ tx_budget_ms \in 0..max_budget
      /\ MinBudget \in Nat /\ Divisor \in Nat \ {0} /\ CadRetry \in Nat
  BY RefillGrants, BudgetAssumption DEF IInv, TypeOK, max_budget, MinBudget
<1>3. next_tx_time' \in Nat
  <2>1. CASE BudgetShort
    <3>1. updateTxBudget \in Nat /\ MinBudget - updateTxBudget \in Nat
      BY <1>2, <2>1 DEF BudgetShort
    <3>2. (MinBudget - updateTxBudget) * Divisor \in Nat
      BY <1>2, <3>1
    <3> QED BY <1>2, <2>1, <3>2 DEF BudgetShort, RetryAfter
  <2>2. CASE Deferred \/ StartSend
    BY <1>2, <2>2 DEF Deferred, StartSend, IInv, TypeOK
  <2> QED BY <2>1, <2>2
<1>4. /\ outbound' \subseteq [start : 0..now, airtime : Airtimes]
      /\ outbound' # {} => updateTxBudget >= MinBudget
  BY <1>1, <1>2 DEF BudgetShort, Deferred, StartSend
<1>5. TypeOK'
  BY <1>1, <1>2, <1>3, <1>4 DEF IInv, TypeOK, max_budget
<1>6. Accounting' /\ Covered'
  BY <1>1, <1>2, <1>4 DEF Accounting, Covered, max_budget, MinBudget
<1> QED BY <1>5, <1>6 DEF IInv

\* A completed send was covered to at least half its airtime when it started.
LEMMA CompleteInv ==
  ASSUME IInv, SendComplete
  PROVE  IInv'
<1>1. PICK o \in outbound :
        /\ now >= o.start + o.airtime
        /\ tx_budget_ms' = Charged(updateTxBudget, now - o.start)
        /\ next_tx_time' = IF tx_budget_ms' < Reserve
                           THEN now + RetryAfter(Reserve, tx_budget_ms') ELSE now
        /\ last_budget_update' = LastUpdate
        /\ outbound' = {} /\ n_sent' = n_sent + 1 /\ on_air' = on_air + o.airtime /\ now' = now
  BY DEF SendComplete
<1> DEFINE a == o.airtime
           t == now - o.start
           b == updateTxBudget
           g == max_budget + LastUpdate \div Divisor
<1>2. a \in Nat /\ a <= MaxAirtime /\ t \in Nat /\ a <= t
  <2>1. o \in [start : 0..now, airtime : Airtimes] /\ now \in Nat
    BY DEF IInv, TypeOK
  <2>2. o.start \in 0..now /\ o.airtime \in 1..MaxAirtime
    BY <2>1, AirtimesAssumption
  <2> QED BY <1>1, <2>1, <2>2, BudgetAssumption
<1>3. /\ b \in tx_budget_ms..max_budget /\ LastUpdate \in 0..now
      /\ on_air + 2 * b <= 2 * g + n_sent
      /\ max_budget \in Nat /\ now \in Nat /\ tx_budget_ms \in 0..max_budget
      /\ Divisor \in Nat \ {0} /\ Reserve \in Nat /\ on_air \in Nat /\ n_sent \in Nat
      /\ g \in Nat
  <2>1. /\ b \in tx_budget_ms..max_budget /\ LastUpdate \in 0..now
        /\ on_air + 2 * b <= 2 * g + n_sent
    BY RefillGrants
  <2>2. /\ max_budget \in Nat /\ now \in Nat /\ tx_budget_ms \in 0..max_budget
        /\ Divisor \in Nat \ {0} /\ Reserve \in Nat /\ on_air \in Nat /\ n_sent \in Nat
    BY Types
  <2>3. LastUpdate \div Divisor \in Nat
    BY <2>1, <2>2
  <2> QED BY <2>1, <2>2, <2>3
<1>4. MinBudget \in Nat /\ MaxAirtime <= 2 * MinBudget + 1 /\ MinBudget <= b
  BY <1>1, <1>3, BudgetAssumption DEF IInv, Covered, MinBudget
<1>5. tx_budget_ms' = IF t > b THEN 0 ELSE b - t
  BY <1>1 DEF Charged
<1> HIDE DEF a, t, b, g
<1>6. tx_budget_ms' \in 0..max_budget
  BY <1>2, <1>3, <1>5
<1>12. tx_budget_ms' \in Nat /\ Reserve \in Nat /\ now \in Nat
  BY <1>3, <1>6
<1>7. on_air + a + 2 * tx_budget_ms' <= 2 * g + n_sent + 1
  BY <1>2, <1>3, <1>4, <1>5, BudgetAssumption
<1>8. next_tx_time' \in Nat
  <2>1. CASE tx_budget_ms' < Reserve
    <3>1. Reserve - tx_budget_ms' \in Nat
      <4>1. \A m, n \in Nat : m < n => n - m \in Nat
        OBVIOUS
      <4> QED BY <1>12, <2>1, <4>1, Zenon
    <3>2. RetryAfter(Reserve, tx_budget_ms') \in Nat
      BY <1>3, <3>1 DEF RetryAfter
    <3> QED BY <1>1, <1>12, <2>1, <3>2
  <2>2. CASE ~(tx_budget_ms' < Reserve)
    BY <1>1, <1>3, <2>2
  <2> QED BY <2>1, <2>2
<1>9. TypeOK'
  BY <1>1, <1>2, <1>3, <1>6, <1>8 DEF TypeOK, max_budget, a
<1>10. Accounting'
  <2>1. max_budget' = max_budget
    BY DEF max_budget
  <2> QED BY <1>1, <1>3, <1>7, <2>1 DEF Accounting, a, g
<1>11. Covered'
  BY <1>1 DEF Covered
<1> QED BY <1>9, <1>10, <1>11 DEF IInv

LEMMA TickInv ==
  ASSUME IInv, Tick
  PROVE  IInv'
<1>1. TypeOK'
  BY DEF IInv, TypeOK, Tick, max_budget
<1> QED BY <1>1 DEF IInv, Accounting, Covered, Tick, max_budget, MinBudget

THEOREM Invariance == Spec => []IInv
<1>1. IInv /\ [Next]_vars => IInv'
  <2> SUFFICES ASSUME IInv, [Next]_vars PROVE IInv'
    OBVIOUS
  <2>1. CASE UNCHANGED vars
    BY <2>1 DEF vars, IInv, TypeOK, Accounting, Covered, max_budget, MinBudget
  <2> QED BY <2>1, CheckSendInv, CompleteInv, TickInv DEF Next
<1> QED BY <1>1, InitInv, PTL DEF Spec

\* The budget never wraps below zero or exceeds a window's worth, whatever the
\* duty cycle, the window and the airtimes.
THEOREM BudgetWellFormed == Spec => []TypeOK
<1>1. IInv => TypeOK
  BY DEF IInv
<1> QED BY <1>1, Invariance, PTL

\* Forgiven overdrafts cost at most a factor of two of the duty cycle.
THEOREM TwiceDutyCycle == Spec => []AtMostTwiceDutyCycle
<1>1. IInv => AtMostTwiceDutyCycle
  <2> SUFFICES ASSUME IInv PROVE AtMostTwiceDutyCycle
    OBVIOUS
  <2>1. /\ on_air \in Nat /\ n_sent \in Nat /\ tx_budget_ms \in Nat /\ max_budget \in Nat
        /\ now \in Nat /\ last_budget_update \in 0..now /\ Divisor \in Nat \ {0}
    BY BudgetAssumption DEF IInv, TypeOK, max_budget
  <2>2. /\ last_budget_update \div Divisor \in Nat
        /\ last_budget_update \div Divisor <= now \div Divisor
        /\ now \div Divisor \in Nat
    <3>1. now - last_budget_update \in Nat /\ last_budget_update \in Nat
      BY <2>1
    <3>2. last_budget_update \div Divisor + (now - last_budget_update) \div Divisor
            <= (last_budget_update + (now - last_budget_update)) \div Divisor
      BY <2>1, <3>1, RefillsAddUp
    <3>3. last_budget_update + (now - last_budget_update) = now
      BY <2>1
    <3>4. /\ last_budget_update \div Divisor \in Nat /\ now \div Divisor \in Nat
          /\ (now - last_budget_update) \div Divisor \in Nat
      BY <2>1, <3>1
    <3> QED BY <3>2, <3>3, <3>4
  <2> QED BY <2>1, <2>2 DEF IInv, Accounting, AtMostTwiceDutyCycle, Granted
<1> QED BY <1>1, Invariance, PTL
=============================================================================
