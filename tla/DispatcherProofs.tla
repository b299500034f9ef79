-------------------------- MODULE DispatcherProofs --------------------------
(***************************************************************************)
(* Theorems about module Dispatcher, for every pool, clock and radio: the  *)
(* types of its variables, the conservation of the packet pool, and when   *)
(* and in which order packets leave the queues.                            *)
(***************************************************************************)
EXTENDS Dispatcher, FiniteSetTheorems, SequenceTheorems, WellFoundedInduction, TLAPS

\* A send in progress excludes a packet in a handler, and a second send.
SingleSend ==
  /\ outbound = {} \/ \E o \in Send : outbound = {o}
  /\ received = {} \/ \E p \in Packet : received = {p}
  /\ outbound # {} => phase \in {"idle", "loop"} /\ received = {}

IInv == TypeOK /\ PoolConserved /\ SingleSend

-----------------------------------------------------------------------------
(***************************************************************************)
(* Arithmetic.                                                             *)
(***************************************************************************)

LEMMA Sizes == PoolSize \in Nat /\ WordSize \in Nat \ {0}
<1>1. PoolSize \in Nat
  BY PoolAssumption, FS_CardinalityType DEF PoolSize
<1>2. WordSize \in Nat \ {0}
  BY ClockAssumption DEF Half
<1> QED BY <1>1, <1>2

\* Every clock reading is a word.
LEMMA Modulo ==
  ASSUME NEW a \in Int
  PROVE  a % WordSize \in 0..WordSize - 1
BY Sizes

LEMMA Readings ==
  ASSUME clock \in 0..WordSize - 1
  PROVE  /\ \A ms \in Int : futureMillis(ms) \in 0..WordSize - 1
         /\ \A t \in 0..WordSize - 1 : minus(clock, t) \in Nat
<1>1. ASSUME NEW ms \in Int PROVE futureMillis(ms) \in 0..WordSize - 1
  BY Modulo DEF futureMillis
<1>2. ASSUME NEW t \in 0..WordSize - 1 PROVE minus(clock, t) \in Nat
  <2>1. clock - t \in Int
    OBVIOUS
  <2> QED BY <2>1, Modulo, Sizes DEF minus
<1> QED BY <1>1, <1>2

\* updateTxBudget() and the charge keep the budget between zero and its cap.
LEMMA BudgetTypes ==
  ASSUME TypeOK
  PROVE  /\ max_budget \in Nat
         /\ updateTxBudget \in 0..max_budget
         /\ LastUpdate \in 0..WordSize - 1
         /\ \A t \in Nat : Charged(updateTxBudget, t) \in 0..max_budget
         /\ \A wanted \in Nat, b \in 0..max_budget : RetryAfter(wanted, b) \in Int
<1>1. Divisor \in Nat \ {0} /\ max_budget \in Nat
  BY BudgetAssumption DEF max_budget
<1> DEFINE e == minus(clock, last_budget_update)
<1>2. e \in Nat
  BY Readings DEF TypeOK
<1>3. refill(e) \in Nat
  BY <1>1, <1>2 DEF refill
<1> HIDE DEF e
<1>4. Refilled(tx_budget_ms, e) \in 0..max_budget
  BY <1>1, <1>3 DEF TypeOK, Refilled
<1>5. updateTxBudget \in 0..max_budget
  BY <1>4 DEF updateTxBudget, e
<1>6. LastUpdate \in 0..WordSize - 1
  BY DEF LastUpdate, TypeOK
<1>7. \A t \in Nat : Charged(updateTxBudget, t) \in 0..max_budget
  BY <1>1, <1>5 DEF Charged
<1>8. ASSUME NEW wanted \in Nat, NEW b \in 0..max_budget PROVE RetryAfter(wanted, b) \in Int
  <2>1. wanted - b \in Int
    BY <1>1
  <2> QED BY <1>1, <2>1 DEF RetryAfter
<1> QED BY <1>1, <1>5, <1>6, <1>7, <1>8

-----------------------------------------------------------------------------
(***************************************************************************)
(* What taking, appending and removing do to a table.                      *)
(***************************************************************************)

LEMMA Taken ==
  ASSUME NEW S, NEW s \in Seq(S), s # <<>>
  PROVE  /\ Head(s) \in S /\ Tail(s) \in Seq(S)
         /\ Len(Tail(s)) = Len(s) - 1
         /\ Range(s) = Range(Tail(s)) \union {Head(s)}
<1>1. Len(s) \in Nat \ {0} /\ Len(Tail(s)) = Len(s) - 1 /\ Tail(s) \in Seq(S) /\ Head(s) = s[1]
  OBVIOUS
<1>2. \A i \in 1..Len(s) - 1 : Tail(s)[i] = s[i + 1]
  OBVIOUS
<1>3. ASSUME NEW i \in DOMAIN s PROVE s[i] \in Range(Tail(s)) \union {Head(s)}
  <2>1. CASE i = 1
    BY <1>1, <2>1
  <2>2. CASE i # 1
    <3>1. i - 1 \in DOMAIN Tail(s) /\ Tail(s)[i - 1] = s[i]
      BY <1>1, <1>2, <2>2
    <3> QED BY <3>1 DEF Range
  <2> QED BY <2>1, <2>2
<1>4. ASSUME NEW i \in DOMAIN Tail(s) PROVE Tail(s)[i] \in Range(s)
  <2>1. i + 1 \in DOMAIN s /\ Tail(s)[i] = s[i + 1]
    BY <1>1, <1>2
  <2> QED BY <2>1 DEF Range
<1>5. Head(s) \in Range(s) /\ Head(s) \in S
  BY <1>1 DEF Range
<1> QED BY <1>1, <1>3, <1>4, <1>5 DEF Range

LEMMA Appended ==
  ASSUME NEW S, NEW s \in Seq(S), NEW e \in S
  PROVE  /\ Append(s, e) \in Seq(S)
         /\ Len(Append(s, e)) = Len(s) + 1
         /\ Range(Append(s, e)) = Range(s) \union {e}
<1>1. /\ Append(s, e) \in Seq(S) /\ Len(Append(s, e)) = Len(s) + 1 /\ Len(s) \in Nat
      /\ Append(s, e)[Len(s) + 1] = e
      /\ \A i \in 1..Len(s) : Append(s, e)[i] = s[i]
  OBVIOUS
<1>2. DOMAIN s = 1..Len(s) /\ DOMAIN Append(s, e) = 1..Len(s) + 1
  BY <1>1
<1>3. ASSUME NEW i \in DOMAIN Append(s, e) PROVE Append(s, e)[i] \in Range(s) \union {e}
  BY <1>1, <1>2 DEF Range
<1>4. ASSUME NEW i \in DOMAIN s PROVE s[i] \in Range(Append(s, e))
  BY <1>1, <1>2 DEF Range
<1>5. e \in Range(Append(s, e))
  BY <1>1, <1>2 DEF Range
<1> QED BY <1>1, <1>3, <1>4, <1>5 DEF Range

LEMMA Removed ==
  ASSUME NEW S, NEW s \in Seq(S), NEW i \in 1..Len(s)
  PROVE  /\ RemoveAt(s, i) \in Seq(S)
         /\ Len(RemoveAt(s, i)) = Len(s) - 1
         /\ Range(s) = Range(RemoveAt(s, i)) \union {s[i]}
         /\ \A j \in 1..Len(s) : j = i \/ s[j] \in Range(RemoveAt(s, i))
<1> DEFINE f == SubSeq(s, 1, i - 1)
           g == SubSeq(s, i + 1, Len(s))
           r == RemoveAt(s, i)
<1>1. /\ f \in Seq(S) /\ g \in Seq(S) /\ Len(f) = i - 1 /\ Len(g) = Len(s) - i
      /\ \A j \in 1..i - 1 : f[j] = s[j]
      /\ \A j \in 1..Len(s) - i : g[j] = s[i + j]
      /\ i \in Nat /\ Len(s) \in Nat
  BY SubSeqProperties
<1>2. r = f \o g
  BY DEF RemoveAt
<1> HIDE DEF f, g, r
<1>3. /\ r \in Seq(S) /\ Len(r) = Len(s) - 1
      /\ \A j \in 1..i - 1 : r[j] = s[j]
      /\ \A j \in i..Len(s) - 1 : r[j] = s[j + 1]
  <2>1. r \in Seq(S) /\ Len(r) = Len(f) + Len(g)
    BY <1>1, <1>2, ConcatProperties
  <2>2. ASSUME NEW j \in 1..i - 1 PROVE r[j] = s[j]
    BY <1>1, <1>2
  <2>3. ASSUME NEW j \in i..Len(s) - 1 PROVE r[j] = s[j + 1]
    <3>1. j - Len(f) \in 1..Len(g) /\ i + (j - Len(f)) = j + 1 /\ j \notin 1..Len(f)
      BY <1>1
    <3>2. r[j] = g[j - Len(f)]
      BY <1>1, <1>2, <3>1, ConcatProperties
    <3> QED BY <1>1, <3>1, <3>2
  <2> QED BY <1>1, <2>1, <2>2, <2>3
<1>4. DOMAIN s = 1..Len(s) /\ DOMAIN r = 1..Len(s) - 1
  BY <1>3
<1>5. ASSUME NEW j \in DOMAIN r PROVE r[j] \in Range(s)
  <2>1. CASE j < i
    BY <1>1, <1>3, <1>4, <2>1 DEF Range
  <2>2. CASE ~(j < i)
    <3>1. j \in i..Len(s) - 1 /\ j + 1 \in DOMAIN s
      BY <1>1, <1>4, <2>2
    <3> QED BY <1>3, <3>1 DEF Range
  <2> QED BY <2>1, <2>2
<1>6. ASSUME NEW j \in DOMAIN s PROVE j = i \/ s[j] \in Range(r)
  <2>1. CASE j < i
    <3>1. j \in DOMAIN r /\ r[j] = s[j]
      BY <1>1, <1>3, <1>4, <2>1
    <3> QED BY <3>1 DEF Range
  <2>2. CASE j > i
    <3>1. j - 1 \in DOMAIN r /\ j - 1 \in i..Len(s) - 1 /\ (j - 1) + 1 = j
      BY <1>1, <1>4, <2>2
    <3>2. r[j - 1] = s[j]
      BY <1>3, <3>1
    <3> QED BY <3>1, <3>2 DEF Range
  <2> QED BY <1>1, <1>4, <2>1, <2>2
<1>7. s[i] \in Range(s)
  BY <1>4 DEF Range
<1>8. Range(s) = Range(r) \union {s[i]}
  BY <1>5, <1>6, <1>7 DEF Range
<1> QED BY <1>3, <1>4, <1>6, <1>8 DEF r

LEMMA PacketsOf ==
  ASSUME NEW queue
  PROVE  Packets(queue) = {e.packet : e \in Range(queue)}
BY DEF Packets, Range

LEMMA Least ==
  ASSUME NEW S \in SUBSET Nat, S # {}
  PROVE  \E n \in S : \A m \in S : n <= m
<1>1. IsWellFoundedOn(OpToRel(<, Nat), Nat)
  BY NatLessThanWellFounded
<1>2. PICK n \in S : \A m \in S : ~ (<<m, n>> \in OpToRel(<, Nat))
  <2> DEFINE less == OpToRel(<, Nat)
  <2>1. IsWellFoundedOn(less, Nat)
    BY <1>1
  <2> HIDE DEF less
  <2>2. \E n \in S : \A m \in S : ~ (<<m, n>> \in less)
    BY <2>1, WFMin
  <2> QED BY <2>2 DEF less
<1>3. \A m \in S : ~ (m < n)
  BY <1>2 DEF OpToRel
<1> QED BY <1>3

\* No eligible entry is more urgent, or as urgent and queued before.
Foremost(q, k) ==
  \A j \in Eligible(q) : \/ q[k].priority < q[j].priority
                         \/ q[k].priority = q[j].priority /\ k <= j

\* get() finds an entry whenever one is eligible.
LEMMA BestEligible ==
  ASSUME NEW q \in Seq(Entry), Eligible(q) # {}
  PROVE  /\ Best(q) \in Eligible(q) /\ Best(q) \in 1..Len(q)
         /\ Foremost(q, Best(q))
<1> DEFINE E == Eligible(q)
           Urgent == {q[i].priority : i \in E}
           First(m) == {i \in E : q[i].priority = m}
<1>1. E \subseteq 1..Len(q) /\ E \subseteq Nat /\ Len(q) \in Nat
  BY DEF Eligible
<1>2. ASSUME NEW i \in E PROVE q[i].priority \in Nat
  <2>1. q[i] \in Entry
    BY <1>1
  <2>2. q[i].priority \in 0..255
    BY <2>1, Zenon DEF Entry
  <2>3. \A x \in 0..255 : x \in Nat
    OBVIOUS
  <2> QED BY <2>2, <2>3, Zenon
<1>3. PICK m \in Urgent : \A n \in Urgent : m <= n
  <2>1. Urgent \in SUBSET Nat /\ Urgent # {}
    BY <1>2
  <2> HIDE DEF Urgent
  <2> QED BY <2>1, Least
<1>4. PICK i \in First(m) : \A j \in First(m) : i <= j
  <2>1. First(m) \in SUBSET Nat /\ First(m) # {}
    BY <1>1, <1>3
  <2> QED BY <2>1, Least
<1>5. i \in E /\ m \in Nat /\ q[i].priority = m
  BY <1>2, <1>4
<1>6. ASSUME NEW j \in E
      PROVE  \/ q[i].priority < q[j].priority
             \/ q[i].priority = q[j].priority /\ i <= j
  <2>1. q[j].priority \in Urgent /\ q[j].priority \in Nat
    BY <1>2
  <2>2. CASE q[j].priority = m
    BY <1>4, <1>5, <2>2
  <2>3. CASE q[j].priority # m
    <3>1. m <= q[j].priority
      BY <1>3, <2>1
    <3> HIDE DEF Urgent
    <3> QED BY <1>5, <2>1, <2>3, <3>1
  <2> QED BY <2>2, <2>3
<1>7. Best(q) \in E /\ Foremost(q, Best(q))
  <2>1. Best(q) = CHOOSE k \in E : Foremost(q, k)
    BY DEF Best, Foremost
  <2>2. \E k \in E : Foremost(q, k)
    BY <1>5, <1>6 DEF Foremost
  <2> HIDE DEF E
  <2> QED BY <2>1, <2>2, Zenon
<1>8. Best(q) \in 1..Len(q)
  <2> HIDE DEF E
  <2> QED BY <1>1, <1>7
<1> QED BY <1>7, <1>8

LEMMA Dequeued ==
  ASSUME NEW q \in Seq(Entry), Eligible(q) # {}
  PROVE  /\ RemoveAt(q, Best(q)) \in Seq(Entry)
         /\ Len(RemoveAt(q, Best(q))) = Len(q) - 1
         /\ q[Best(q)].packet \in Packet
         /\ Packets(q) = Packets(RemoveAt(q, Best(q))) \union {q[Best(q)].packet}
<1>1. Best(q) \in 1..Len(q)
  BY BestEligible
<1> DEFINE r == RemoveAt(q, Best(q))
<1>2. r \in Seq(Entry) /\ Len(r) = Len(q) - 1 /\ Range(q) = Range(r) \union {q[Best(q)]}
  BY <1>1, Removed
<1>3. q[Best(q)] \in Entry
  BY <1>1
<1>4. Packets(q) = Packets(r) \union {q[Best(q)].packet}
  BY <1>2, PacketsOf
<1> QED BY <1>2, <1>3, <1>4 DEF Entry

\* queue->add() on a table with room.
Queued(q, p, priority, delay) ==
  add(q, [packet |-> p, priority |-> priority, scheduled_for |-> futureMillis(delay)])

\* r is the table q with one entry more, for packet p.
OneMore(q, r, p) ==
  r \in Seq(Entry) /\ Len(r) = Len(q) + 1 /\ Packets(r) = Packets(q) \union {p}

LEMMA Enqueued ==
  ASSUME clock \in 0..WordSize - 1
  PROVE  \A q \in Seq(Entry), p \in Packet, priority \in 0..255, delay \in 0..Half - 1 :
           Len(q) < PoolSize => OneMore(q, Queued(q, p, priority, delay), p)
<1> SUFFICES ASSUME NEW q \in Seq(Entry), NEW p \in Packet, NEW priority \in 0..255,
                    NEW delay \in 0..Half - 1, Len(q) < PoolSize
             PROVE  OneMore(q, Queued(q, p, priority, delay), p)
  OBVIOUS
<1> DEFINE e == [packet |-> p, priority |-> priority, scheduled_for |-> futureMillis(delay)]
<1>1. e \in Entry
  BY Readings DEF Entry
<1>2. e.packet = p
  OBVIOUS
<1>3. Queued(q, p, priority, delay) = Append(q, e)
  BY Sizes DEF add, Queued
<1> HIDE DEF e
<1>4. /\ Append(q, e) \in Seq(Entry) /\ Len(Append(q, e)) = Len(q) + 1
      /\ Range(Append(q, e)) = Range(q) \union {e}
  BY <1>1, Appended
<1>5. Packets(Append(q, e)) = Packets(q) \union {p}
  BY <1>2, <1>4, PacketsOf
<1> QED BY <1>3, <1>4, <1>5 DEF OneMore

\* unused.add() on a table with room.
LEMMA Freed ==
  ASSUME unused \in Seq(Packet), Len(unused) < PoolSize, NEW p \in Packet
  PROVE  /\ add(unused, p) \in Seq(Packet)
         /\ Len(add(unused, p)) = Len(unused) + 1
         /\ Range(add(unused, p)) = Range(unused) \union {p}
<1>1. add(unused, p) = Append(unused, p)
  BY Sizes DEF add
<1> QED BY <1>1, Appended

\* Taken from the pool and given straight back.
LEMMA Recycled ==
  ASSUME unused \in Seq(Packet), unused # <<>>
  PROVE  /\ Append(Tail(unused), Head(unused)) \in Seq(Packet)
         /\ Len(Append(Tail(unused), Head(unused))) = Len(unused)
         /\ Range(Append(Tail(unused), Head(unused))) = Range(unused)
<1>1. /\ Head(unused) \in Packet /\ Tail(unused) \in Seq(Packet)
      /\ Len(Tail(unused)) = Len(unused) - 1 /\ Len(unused) \in Nat
      /\ Range(unused) = Range(Tail(unused)) \union {Head(unused)}
  BY Taken
<1>3. \A t \in Seq(Packet), p \in Packet :
        /\ Append(t, p) \in Seq(Packet) /\ Len(Append(t, p)) = Len(t) + 1
        /\ Range(Append(t, p)) = Range(t) \union {p}
  BY Appended
<1> DEFINE s == Append(Tail(unused), Head(unused))
<1>2. s \in Seq(Packet) /\ Len(s) = Len(Tail(unused)) + 1
      /\ Range(s) = Range(Tail(unused)) \union {Head(unused)}
  BY <1>1, <1>3, Zenon
<1> QED BY <1>1, <1>2

-----------------------------------------------------------------------------
(***************************************************************************)
(* The invariant.                                                          *)
(***************************************************************************)

\* The packets out of the pool and the queues, and how many.
Sent == {o.packet : o \in outbound}

LEMMA Counts ==
  /\ \A S : S = {} => Cardinality(S) = 0
  /\ \A S, x : S = {x} => Cardinality(S) = 1
BY FS_EmptySet, FS_Singleton

\* The tables have room for a packet that is in none of them.
LEMMA Room ==
  ASSUME IInv
  PROVE  /\ Len(unused) \in Nat /\ Len(send_queue) \in Nat /\ Len(rx_queue) \in Nat
         /\ Cardinality(outbound) = IF outbound = {} THEN 0 ELSE 1
         /\ Cardinality(received) = IF received = {} THEN 0 ELSE 1
         /\ PoolSize \in Nat
<1>1. Len(unused) \in Nat /\ Len(send_queue) \in Nat /\ Len(rx_queue) \in Nat
  BY DEF IInv, TypeOK
<1>2. /\ Cardinality(outbound) = IF outbound = {} THEN 0 ELSE 1
      /\ Cardinality(received) = IF received = {} THEN 0 ELSE 1
  BY Counts DEF IInv, SingleSend
<1> QED BY <1>1, <1>2, Sizes

\* A step that only moves packets between the holders conserves them.
LEMMA Moved ==
  ASSUME IInv,
         Range(unused') \union Packets(send_queue') \union Packets(rx_queue')
             \union {o.packet : o \in outbound'} \union received'
           = Range(unused) \union Packets(send_queue) \union Packets(rx_queue)
             \union {o.packet : o \in outbound} \union received,
         Len(unused') + Len(send_queue') + Len(rx_queue') + Cardinality(outbound')
             + Cardinality(received')
           = Len(unused) + Len(send_queue) + Len(rx_queue) + Cardinality(outbound)
             + Cardinality(received),
         Cardinality(outbound') <= 1, Cardinality(received') <= 1
  PROVE  PoolConserved'
BY DEF IInv, PoolConserved, Packets, Range

LEMMA InitInv == Init => IInv
<1> SUFFICES ASSUME Init PROVE IInv
  OBVIOUS
<1>1. PoolSize \in Nat /\ WordSize \in Nat \ {0} /\ max_budget \in Nat
  BY Sizes, BudgetAssumption DEF max_budget
<1>2. unused \in [1..PoolSize -> Packet] /\ IsInjective(unused)
  BY DEF Init
<1>3. unused \in Seq(Packet) /\ Len(unused) = PoolSize
  BY <1>1, <1>2
<1>4. Range(unused) = Packet
  <2>1. unused \in Injection(1..PoolSize, Packet)
    BY <1>2 DEF IsInjective, Injection
  <2>2. IsFiniteSet(1..PoolSize) /\ Cardinality(1..PoolSize) = PoolSize
    BY <1>1, FS_Interval
  <2>3. unused \in Surjection(1..PoolSize, Packet)
    BY <2>1, <2>2, FS_Injection, PoolAssumption DEF PoolSize
  <2> QED BY <1>2, <2>3 DEF Range, Surjection
<1>5. TypeOK
  BY <1>1, <1>3 DEF Init, TypeOK
<1>6. SingleSend
  BY DEF Init, SingleSend
<1>7. PoolConserved
  <2>1. Packets(send_queue) = {} /\ Packets(rx_queue) = {}
    BY DEF Init, Packets
  <2>2. Len(send_queue) = 0 /\ Len(rx_queue) = 0
    BY DEF Init
  <2>3. Cardinality(outbound) = 0 /\ Cardinality(received) = 0
    BY Counts DEF Init
  <2>4. outbound = {} /\ received = {}
    BY DEF Init
  <2> QED BY <1>1, <1>3, <1>4, <2>1, <2>2, <2>3, <2>4 DEF PoolConserved
<1> QED BY <1>5, <1>6, <1>7 DEF IInv

\* Steps that move no packet and start or end no send.
LEMMA QuietInv ==
  ASSUME IInv, UNCHANGED <<queues, outbound, received, due_in>>,
         clock' \in 0..WordSize - 1, phase' \in {"idle", "loop", "recv", "send"},
         outbound # {} => phase' \in {"idle", "loop"},
         next_tx_time' \in 0..WordSize - 1, cad_busy_start' \in 0..WordSize - 1,
         tx_budget_ms' \in 0..max_budget, last_budget_update' \in 0..WordSize - 1
  PROVE  IInv'
<1>1. /\ unused' = unused /\ send_queue' = send_queue /\ rx_queue' = rx_queue
      /\ outbound' = outbound /\ received' = received /\ due_in' = due_in
  BY DEF queues
<1>2. TypeOK'
  BY <1>1 DEF IInv, TypeOK, max_budget
<1>3. PoolConserved'
  BY <1>1 DEF IInv, PoolConserved, Packets, Range
<1>4. SingleSend'
  BY <1>1 DEF IInv, SingleSend
<1> QED BY <1>2, <1>3, <1>4 DEF IInv

LEMMA TickInv ==
  ASSUME IInv, NEW ms \in Steps, Tick(ms)
  PROVE  IInv'
<1>1. ms \in Nat /\ clock \in Nat
  BY ClockAssumption, Sizes DEF IInv, TypeOK
<1>2. clock' \in 0..WordSize - 1
  <2>1. clock + ms \in Int
    BY <1>1
  <2> QED BY <2>1, Modulo DEF Tick
<1>3. due_in' \in [Packet -> Nat]
  <2>1. \A p \in Packet : due_in[p] \in Nat
    BY DEF IInv, TypeOK
  <2> QED BY <1>1, <2>1 DEF Tick
<1> DEFINE aged(o) == [o EXCEPT !.left = IF @ <= ms THEN 0 ELSE @ - ms]
<1>4. ASSUME NEW o \in Send PROVE aged(o) \in Send /\ aged(o).packet = o.packet
  <2>1. o.left \in 0..MaxAirtime /\ MaxAirtime \in Nat
    BY BudgetAssumption DEF Send
  <2>2. (IF o.left <= ms THEN 0 ELSE o.left - ms) \in 0..MaxAirtime
    BY <1>1, <2>1
  <2> QED BY <2>2 DEF Send
<1>5. outbound' = {aged(o) : o \in outbound} /\ outbound \subseteq Send
  BY DEF Tick, IInv, TypeOK
<1> HIDE DEF aged
<1>6. /\ outbound' \subseteq Send
      /\ {o.packet : o \in outbound'} = {o.packet : o \in outbound}
  <2>1. \A o \in outbound : aged(o) \in Send /\ aged(o).packet = o.packet
    BY <1>4, <1>5
  <2>2. {o.packet : o \in outbound'} = {aged(o).packet : o \in outbound}
    BY <1>5
  <2> QED BY <1>5, <2>1, <2>2
<1>7. outbound' = {} \/ \E o \in Send : outbound' = {o}
  <2>1. CASE outbound = {}
    BY <1>5, <2>1
  <2>2. CASE \E o \in Send : outbound = {o}
    <3>1. PICK o \in Send : outbound = {o}
      BY <2>2
    <3>2. outbound' = {aged(o)}
      BY <1>5, <3>1
    <3> QED BY <1>4, <3>2
  <2> QED BY <2>1, <2>2 DEF IInv, SingleSend
<1>8. Cardinality(outbound') = Cardinality(outbound)
  <2>1. outbound' = {} <=> outbound = {}
    BY <1>5
  <2> QED BY <1>7, <2>1, Counts, Room
<1>9. TypeOK'
  BY <1>2, <1>3, <1>6 DEF Tick, IInv, TypeOK, queues, budget, max_budget
<1>10. PoolConserved'
  BY <1>6, <1>8 DEF Tick, IInv, PoolConserved, queues, Packets, Range
<1>11. SingleSend'
  BY <1>7, <1>5 DEF Tick, IInv, SingleSend
<1> QED BY <1>9, <1>10, <1>11 DEF IInv

\* SendComplete and SendTimedOut: the packet sent goes back to the pool.
LEMMA SendEndsInv ==
  ASSUME IInv, SendComplete \/ SendTimedOut
  PROVE  IInv'
<1>1. /\ clock' = clock /\ send_queue' = send_queue /\ rx_queue' = rx_queue
      /\ received = {} /\ received' = {} /\ phase' = phase /\ cad_busy_start' = cad_busy_start
      /\ due_in' = due_in /\ outbound' = {}
  BY DEF SendComplete, SendTimedOut, queues, budget
<1>2. PICK o \in outbound : unused' = add(unused, o.packet)
  BY DEF SendComplete, SendTimedOut, free
<1>3. o \in Send /\ o.packet \in Packet /\ o.start \in 0..WordSize - 1 /\ outbound = {o}
  BY DEF IInv, TypeOK, SingleSend, Send
<1>4. Cardinality(outbound) = 1 /\ Cardinality(received) = 0 /\ Cardinality(outbound') = 0
  BY <1>1, <1>3, Counts
<1>5. Len(unused) < PoolSize
  BY <1>4, Room DEF IInv, PoolConserved
<1>6. /\ unused' \in Seq(Packet) /\ Len(unused') = Len(unused) + 1
      /\ Range(unused') = Range(unused) \union {o.packet}
  BY <1>2, <1>3, <1>5, Freed DEF IInv, TypeOK
<1>7. /\ tx_budget_ms' \in 0..max_budget /\ last_budget_update' \in 0..WordSize - 1
      /\ next_tx_time' \in 0..WordSize - 1
  <2>1. CASE SendTimedOut
    BY <2>1 DEF SendTimedOut, IInv, TypeOK, budget
  <2>2. CASE SendComplete
    <3>1. PICK q \in outbound :
            LET left == Charged(updateTxBudget, minus(clock, q.start))
            IN /\ tx_budget_ms' = left
               /\ next_tx_time' = IF left < Reserve THEN futureMillis(RetryAfter(Reserve, left))
                                  ELSE clock
      BY <2>2 DEF SendComplete
    <3> DEFINE left == Charged(updateTxBudget, minus(clock, q.start))
    <3>2. q.start \in 0..WordSize - 1 /\ clock \in 0..WordSize - 1
      BY <1>3, <3>1 DEF IInv, TypeOK
    <3>3. left \in 0..max_budget
      BY <3>2, Readings, BudgetTypes DEF IInv
    <3>4. RetryAfter(Reserve, left) \in Int
      BY <3>3, BudgetTypes, BudgetAssumption DEF IInv
    <3>5. futureMillis(RetryAfter(Reserve, left)) \in 0..WordSize - 1
      BY <3>2, <3>4, Readings
    <3>6. tx_budget_ms' = left
          /\ next_tx_time' = IF left < Reserve THEN futureMillis(RetryAfter(Reserve, left)) ELSE clock
      BY <3>1
    <3>7. last_budget_update' \in 0..WordSize - 1
      BY <2>2, BudgetTypes DEF SendComplete, IInv
    <3> HIDE DEF left
    <3> QED BY <3>2, <3>3, <3>5, <3>6, <3>7
  <2> QED BY <2>1, <2>2
<1>8. TypeOK'
  BY <1>1, <1>6, <1>7 DEF IInv, TypeOK, max_budget
<1>9. PoolConserved'
  <2>1. {x.packet : x \in outbound} = {o.packet} /\ {x.packet : x \in outbound'} = {}
    BY <1>1, <1>3
  <2>2. Packets(send_queue)' = Packets(send_queue) /\ Packets(rx_queue)' = Packets(rx_queue)
    BY <1>1 DEF Packets
  <2>3. Range(unused)' = Range(unused) \union {o.packet}
    BY <1>6 DEF Range
  <2>4. Packet = Range(unused)' \union Packets(send_queue)' \union Packets(rx_queue)'
                  \union {x.packet : x \in outbound'} \union received'
    BY <1>1, <2>1, <2>2, <2>3 DEF IInv, PoolConserved
  <2> QED BY <1>1, <1>4, <1>6, <2>4, Room DEF IInv, PoolConserved
<1>10. SingleSend'
  BY <1>1 DEF SingleSend
<1> QED BY <1>8, <1>9, <1>10 DEF IInv

LEMMA CheckInboundInv ==
  ASSUME IInv, CheckInbound
  PROVE  IInv'
<1>1. CASE Eligible(rx_queue) = {}
  <2>1. UNCHANGED <<queues, outbound, received, due_in>>
    BY <1>1 DEF CheckInbound, queues
  <2>2. /\ outbound = {} /\ clock' = clock /\ phase' = "recv" /\ next_tx_time' = next_tx_time
        /\ cad_busy_start' = cad_busy_start /\ tx_budget_ms' = tx_budget_ms
        /\ last_budget_update' = last_budget_update
    BY <1>1 DEF CheckInbound, budget
  <2>3. /\ clock \in 0..WordSize - 1 /\ next_tx_time \in 0..WordSize - 1
        /\ cad_busy_start \in 0..WordSize - 1 /\ tx_budget_ms \in 0..max_budget
        /\ last_budget_update \in 0..WordSize - 1
    BY DEF IInv, TypeOK
  <2> QED BY <2>1, <2>2, <2>3, QuietInv
<1>2. CASE Eligible(rx_queue) # {}
  <2> DEFINE p == rx_queue[Best(rx_queue)].packet
             r == RemoveAt(rx_queue, Best(rx_queue))
  <2>1. /\ clock' = clock /\ unused' = unused /\ send_queue' = send_queue /\ rx_queue' = r
        /\ outbound = {} /\ outbound' = {} /\ received = {} /\ received' = {p} /\ phase' = phase
        /\ next_tx_time' = next_tx_time /\ cad_busy_start' = cad_busy_start
        /\ tx_budget_ms' = tx_budget_ms /\ last_budget_update' = last_budget_update
        /\ due_in' = due_in /\ phase = "loop"
    BY <1>2 DEF CheckInbound, budget
  <2>2. /\ r \in Seq(Entry) /\ Len(r) = Len(rx_queue) - 1 /\ p \in Packet
        /\ Packets(rx_queue) = Packets(r) \union {p}
    BY <1>2, Dequeued DEF IInv, TypeOK
  <2> HIDE DEF p, r
  <2>3. TypeOK'
    BY <2>1, <2>2 DEF IInv, TypeOK, max_budget
  <2>4. PoolConserved'
    <3>1. Cardinality(outbound') = 0 /\ Cardinality(received') = 1
          /\ Cardinality(outbound) = 0 /\ Cardinality(received) = 0
      BY <2>1, Counts
    <3>2. /\ Packets(send_queue)' = Packets(send_queue) /\ Packets(rx_queue)' = Packets(r)
          /\ Range(unused)' = Range(unused)
      BY <2>1 DEF Packets, Range
    <3>3. Packet = Range(unused)' \union Packets(send_queue)' \union Packets(rx_queue)'
                    \union {x.packet : x \in outbound'} \union received'
      BY <2>1, <2>2, <3>2 DEF IInv, PoolConserved
    <3> QED BY <2>1, <2>2, <3>1, <3>3, Room DEF IInv, PoolConserved
  <2>5. SingleSend'
    BY <2>1, <2>2 DEF SingleSend
  <2> QED BY <2>3, <2>4, <2>5 DEF IInv
<1> QED BY <1>1, <1>2

LEMMA ProcessInv ==
  ASSUME IInv, processRecvPacket
  PROVE  IInv'
<1>1. PICK p \in received :
        \/ free(p) /\ UNCHANGED <<send_queue, due_in>>
        \/ /\ \E priority \in Priorities, delay \in TxDelays : queueOutbound(p, priority, delay)
           /\ UNCHANGED unused
  BY DEF processRecvPacket
<1>2. /\ clock' = clock /\ rx_queue' = rx_queue /\ outbound' = outbound /\ received' = {}
      /\ next_tx_time' = next_tx_time /\ cad_busy_start' = cad_busy_start
      /\ tx_budget_ms' = tx_budget_ms /\ last_budget_update' = last_budget_update
      /\ phase' \in {"recv", "send"}
  BY DEF processRecvPacket, budget
<1>3. p \in Packet /\ received = {p} /\ outbound = {}
  BY DEF IInv, TypeOK, SingleSend
<1>4. Cardinality(received) = 1 /\ Cardinality(received') = 0 /\ Cardinality(outbound) = 0
  BY <1>2, <1>3, Counts
<1>5. Len(unused) < PoolSize /\ Len(send_queue) < PoolSize
  BY <1>4, Room DEF IInv, PoolConserved
<1>6. /\ unused' \in Seq(Packet) /\ send_queue' \in Seq(Entry) /\ due_in' \in [Packet -> Nat]
      /\ Len(unused') + Len(send_queue') = Len(unused) + Len(send_queue) + 1
      /\ Range(unused') \union Packets(send_queue')
           = Range(unused) \union Packets(send_queue) \union {p}
  <2>1. CASE free(p) /\ UNCHANGED <<send_queue, due_in>>
    <3>1. /\ unused' \in Seq(Packet) /\ Len(unused') = Len(unused) + 1
          /\ Range(unused') = Range(unused) \union {p}
      BY <1>3, <1>5, <2>1, Freed DEF IInv, TypeOK, free
    <3>2. send_queue' = send_queue /\ due_in' = due_in
      BY <2>1
    <3> QED BY <3>1, <3>2, Room DEF IInv, TypeOK
  <2>2. CASE /\ \E priority \in Priorities, delay \in TxDelays : queueOutbound(p, priority, delay)
             /\ UNCHANGED unused
    <3>6. PICK priority \in Priorities, delay \in TxDelays : queueOutbound(p, priority, delay)
      BY <2>2
    <3>1. priority \in 0..255 /\ delay \in 0..Half - 1
      BY DelayAssumption
    <3>2. /\ send_queue' \in Seq(Entry) /\ Len(send_queue') = Len(send_queue) + 1
          /\ Packets(send_queue') = Packets(send_queue) \union {p}
      <4>1. /\ send_queue \in Seq(Entry) /\ clock \in 0..WordSize - 1
            /\ send_queue' = Queued(send_queue, p, priority, delay)
        BY <3>6 DEF IInv, TypeOK, queueOutbound, Queued
      <4>2. OneMore(send_queue, Queued(send_queue, p, priority, delay), p)
        BY <1>3, <1>5, <3>1, <4>1, Enqueued
      <4> QED BY <4>1, <4>2 DEF OneMore
    <3>3. due_in' \in [Packet -> Nat]
      BY <3>6, <3>1 DEF IInv, TypeOK, queueOutbound
    <3>4. /\ unused' = unused /\ unused \in Seq(Packet)
          /\ Len(unused) \in Nat /\ Len(send_queue) \in Nat
      BY <2>2, Room DEF IInv, TypeOK
    <3>5. Len(unused') + Len(send_queue') = Len(unused) + Len(send_queue) + 1
      BY <3>2, <3>4
    <3> QED BY <3>2, <3>3, <3>4, <3>5
  <2> QED BY <1>1, <2>1, <2>2
<1>7. TypeOK'
  BY <1>2, <1>6 DEF IInv, TypeOK, max_budget
<1>8. PoolConserved'
  <2>1. /\ {o.packet : o \in outbound'} = {o.packet : o \in outbound}
        /\ Packets(rx_queue') = Packets(rx_queue)
    BY <1>2
  <2> QED BY <1>2, <1>3, <1>4, <1>6, <2>1, Room, Moved
<1>9. SingleSend'
  BY <1>2, <1>3 DEF SingleSend
<1> QED BY <1>7, <1>8, <1>9 DEF IInv

\* A step that only recycles a packet of the pool, or nothing.
LEMMA RecycleInv ==
  ASSUME IInv, UNCHANGED <<clock, send_queue, rx_queue, outbound, received, next_tx_time,
                           cad_busy_start, budget, due_in>>,
         \/ unused' = unused
         \/ unused # <<>> /\ unused' = Append(Tail(unused), Head(unused)),
         phase' \in {"idle", "loop", "recv", "send"},
         outbound # {} => phase' \in {"idle", "loop"}
  PROVE  IInv'
<1>1. /\ clock' = clock /\ send_queue' = send_queue /\ rx_queue' = rx_queue
      /\ outbound' = outbound /\ received' = received /\ next_tx_time' = next_tx_time
      /\ cad_busy_start' = cad_busy_start /\ tx_budget_ms' = tx_budget_ms
      /\ last_budget_update' = last_budget_update /\ due_in' = due_in
  BY DEF budget
<1>2. /\ unused' \in Seq(Packet) /\ Len(unused') = Len(unused)
      /\ Range(unused') = Range(unused)
  <2>1. unused \in Seq(Packet)
    BY DEF IInv, TypeOK
  <2>2. CASE unused # <<>> /\ unused' = Append(Tail(unused), Head(unused))
    <3>1. /\ Append(Tail(unused), Head(unused)) \in Seq(Packet)
          /\ Len(Append(Tail(unused), Head(unused))) = Len(unused)
          /\ Range(Append(Tail(unused), Head(unused))) = Range(unused)
      BY <2>1, <2>2, Recycled
    <3> QED BY <2>2, <3>1
  <2>3. CASE unused' = unused
    BY <2>1, <2>3
  <2> QED BY <2>2, <2>3
<1>3. TypeOK'
  BY <1>1, <1>2 DEF IInv, TypeOK, max_budget
<1>4. PoolConserved'
  BY <1>1, <1>2, Moved DEF IInv, PoolConserved
<1>5. SingleSend'
  BY <1>1 DEF IInv, SingleSend
<1> QED BY <1>3, <1>4, <1>5 DEF IInv

\* The head of the pool, and how many packets that leaves.
LEMMA Obtained ==
  ASSUME IInv, unused # <<>>
  PROVE  /\ Head(unused) \in Packet /\ Tail(unused) \in Seq(Packet)
         /\ Len(Tail(unused)) = Len(unused) - 1
         /\ Range(unused) = Range(Tail(unused)) \union {Head(unused)}
         /\ Len(send_queue) < PoolSize /\ Len(rx_queue) < PoolSize
<1>1. unused \in Seq(Packet) /\ Len(unused) > 0
  BY DEF IInv, TypeOK
<1>2. Len(send_queue) < PoolSize /\ Len(rx_queue) < PoolSize
  BY <1>1, Room DEF IInv, PoolConserved
<1> QED BY <1>1, <1>2, Taken

LEMMA OriginateInv ==
  ASSUME IInv, Originate
  PROVE  IInv'
<1>1. /\ clock' = clock /\ rx_queue' = rx_queue /\ outbound' = outbound /\ received' = received
      /\ phase' = phase /\ next_tx_time' = next_tx_time /\ cad_busy_start' = cad_busy_start
      /\ tx_budget_ms' = tx_budget_ms /\ last_budget_update' = last_budget_update
      /\ unused # <<>>
  BY DEF Originate, budget
<1>2. CASE unused' = Append(Tail(unused), Head(unused)) /\ UNCHANGED <<send_queue, due_in>>
  <2>1. /\ phase' \in {"idle", "loop", "recv", "send"}
        /\ outbound # {} => phase' \in {"idle", "loop"}
    BY <1>1 DEF IInv, TypeOK, SingleSend
  <2>2. UNCHANGED <<clock, send_queue, rx_queue, outbound, received, next_tx_time,
                    cad_busy_start, budget, due_in>>
    BY <1>1, <1>2 DEF budget
  <2> QED BY <1>1, <1>2, <2>1, <2>2, RecycleInv
<1>3. CASE /\ \E priority \in Priorities, delay \in TxDelays :
                queueOutbound(Head(unused), priority, delay)
           /\ unused' = Tail(unused)
  <2>11. PICK p \in Packet : p = Head(unused)
    BY <1>1, Obtained
  <2>1. PICK priority \in Priorities, delay \in TxDelays : queueOutbound(p, priority, delay)
    BY <1>3, <2>11
  <2>2. priority \in 0..255 /\ delay \in 0..Half - 1
    BY DelayAssumption
  <2>3. /\ Tail(unused) \in Seq(Packet) /\ Len(Tail(unused)) = Len(unused) - 1
        /\ Range(unused) = Range(Tail(unused)) \union {p}
        /\ Len(send_queue) < PoolSize
    BY <1>1, <2>11, Obtained
  <2>4. send_queue' = Queued(send_queue, p, priority, delay)
    BY <2>1 DEF queueOutbound, Queued
  <2>5. send_queue \in Seq(Entry) /\ clock \in 0..WordSize - 1
    BY DEF IInv, TypeOK
  <2>12. p \in Packet /\ Len(send_queue) < PoolSize
    BY <2>3, <2>11
  <2>6. OneMore(send_queue, Queued(send_queue, p, priority, delay), p)
    BY <2>2, <2>5, <2>12, Enqueued
  <2>7. due_in' \in [Packet -> Nat]
    BY <2>1, <2>2 DEF IInv, TypeOK, queueOutbound
  <2>8. TypeOK'
    BY <1>1, <1>3, <2>3, <2>4, <2>6, <2>7 DEF IInv, TypeOK, max_budget, OneMore
  <2>9. PoolConserved'
    <3>1. /\ Range(unused) = Range(unused') \union {p}
          /\ Packets(send_queue') = Packets(send_queue) \union {p}
      BY <1>3, <2>3, <2>4, <2>6 DEF OneMore
    <3>2. Len(unused') + Len(send_queue') = Len(unused) + Len(send_queue)
      BY <1>3, <2>3, <2>4, <2>6, Room DEF OneMore
    <3>3. Packets(rx_queue') = Packets(rx_queue)
      BY <1>1
    <3> QED BY <1>1, <3>1, <3>2, <3>3, Room, Moved
  <2>10. SingleSend'
    BY <1>1 DEF IInv, SingleSend
  <2> QED BY <2>8, <2>9, <2>10 DEF IInv
<1> QED BY <1>2, <1>3 DEF Originate

LEMMA RecvNothingInv ==
  ASSUME IInv, RecvNothing
  PROVE  IInv'
<1>1. outbound = {}
  BY DEF RecvNothing, IInv, SingleSend
<1> QED BY <1>1, RecycleInv DEF RecvNothing

LEMMA RecvNowInv ==
  ASSUME IInv, RecvNow
  PROVE  IInv'
<1> DEFINE p == Head(unused)
<1>1. /\ clock' = clock /\ send_queue' = send_queue /\ rx_queue' = rx_queue
      /\ outbound' = outbound /\ received = {} /\ received' = {p} /\ phase' = phase
      /\ next_tx_time' = next_tx_time /\ cad_busy_start' = cad_busy_start
      /\ tx_budget_ms' = tx_budget_ms /\ last_budget_update' = last_budget_update
      /\ due_in' = due_in /\ unused # <<>> /\ unused' = Tail(unused) /\ phase = "recv"
  BY DEF RecvNow, budget
<1>2. /\ p \in Packet /\ Tail(unused) \in Seq(Packet)
      /\ Len(Tail(unused)) = Len(unused) - 1
      /\ Range(unused) = Range(Tail(unused)) \union {p}
  BY <1>1, Obtained
<1> HIDE DEF p
<1>3. outbound = {}
  BY <1>1 DEF IInv, SingleSend
<1>4. TypeOK'
  BY <1>1, <1>2 DEF IInv, TypeOK, max_budget
<1>5. PoolConserved'
  <2>1. Cardinality(received) = 0 /\ Cardinality(received') = 1 /\ Cardinality(outbound) = 0
    BY <1>1, <1>3, Counts
  <2>2. /\ Packets(send_queue') = Packets(send_queue) /\ Packets(rx_queue') = Packets(rx_queue)
        /\ Range(unused) = Range(unused') \union {p}
    BY <1>1, <1>2
  <2> QED BY <1>1, <1>2, <1>3, <2>1, <2>2, Room, Moved
<1>6. SingleSend'
  BY <1>1, <1>2, <1>3 DEF SingleSend
<1> QED BY <1>4, <1>5, <1>6 DEF IInv

LEMMA RecvDelayedInv ==
  ASSUME IInv, RecvDelayed
  PROVE  IInv'
<1>12. PICK p \in Packet : p = Head(unused)
  BY Obtained DEF RecvDelayed
<1>1. /\ clock' = clock /\ send_queue' = send_queue /\ outbound' = outbound
      /\ received = {} /\ received' = received /\ phase' = "send"
      /\ next_tx_time' = next_tx_time /\ cad_busy_start' = cad_busy_start
      /\ tx_budget_ms' = tx_budget_ms /\ last_budget_update' = last_budget_update
      /\ unused # <<>> /\ unused' = Tail(unused) /\ phase = "recv"
  BY DEF RecvDelayed, budget
<1>2. PICK delay \in RxDelays : queueInbound(p, delay)
  BY <1>12 DEF RecvDelayed
<1>3. delay \in 0..Half - 1 /\ 0 \in 0..255
  BY DelayAssumption
<1>4. /\ Tail(unused) \in Seq(Packet)
      /\ Len(Tail(unused)) = Len(unused) - 1
      /\ Range(unused) = Range(Tail(unused)) \union {p}
      /\ Len(rx_queue) < PoolSize
  BY <1>1, <1>12, Obtained
<1>5. rx_queue' = Queued(rx_queue, p, 0, delay)
  BY <1>2 DEF queueInbound, Queued
<1>6. rx_queue \in Seq(Entry) /\ clock \in 0..WordSize - 1
  BY DEF IInv, TypeOK
<1>13. p \in Packet /\ Len(rx_queue) < PoolSize
  BY <1>4, <1>12
<1>7. OneMore(rx_queue, Queued(rx_queue, p, 0, delay), p)
  BY <1>3, <1>6, <1>13, Enqueued
<1>8. due_in' \in [Packet -> Nat]
  BY <1>2, <1>3 DEF IInv, TypeOK, queueInbound
<1>9. TypeOK'
  BY <1>1, <1>4, <1>5, <1>7, <1>8 DEF IInv, TypeOK, max_budget, OneMore
<1>10. PoolConserved'
  <2>1. /\ Range(unused) = Range(unused') \union {p}
        /\ Packets(rx_queue') = Packets(rx_queue) \union {p}
        /\ Packets(send_queue') = Packets(send_queue)
    BY <1>1, <1>4, <1>5, <1>7 DEF OneMore
  <2>2. Len(unused') + Len(rx_queue') = Len(unused) + Len(rx_queue)
    BY <1>1, <1>4, <1>5, <1>7, Room DEF OneMore
  <2> QED BY <1>1, <2>1, <2>2, Room, Moved
<1>11. SingleSend'
  BY <1>1 DEF IInv, SingleSend
<1> QED BY <1>9, <1>10, <1>11 DEF IInv

\* checkSend() unless it takes a packet from the queue.
LEMMA CheckSendInv ==
  ASSUME IInv, StillSending \/ NothingToSend \/ BudgetShort \/ TooEarly \/ BackOff
  PROVE  IInv'
<1>1. UNCHANGED <<queues, outbound, received, due_in>> /\ clock' = clock
  BY DEF StillSending, NothingToSend, BudgetShort, TooEarly, BackOff, MayTransmit, Budgeted,
         CheckSend, queues
<1>2. phase' = "idle"
  BY DEF StillSending, NothingToSend, BudgetShort, TooEarly, BackOff, MayTransmit, Budgeted,
         CheckSend
<1>3. /\ clock \in 0..WordSize - 1 /\ next_tx_time \in 0..WordSize - 1
      /\ cad_busy_start \in 0..WordSize - 1 /\ tx_budget_ms \in 0..max_budget
      /\ last_budget_update \in 0..WordSize - 1
  BY DEF IInv, TypeOK
<1>4. tx_budget_ms' \in 0..max_budget /\ last_budget_update' \in 0..WordSize - 1
  <2>1. CASE StillSending \/ NothingToSend
    BY <1>3, <2>1 DEF StillSending, NothingToSend, budget
  <2>2. CASE Budgeted
    BY <2>2, BudgetTypes DEF Budgeted, IInv
  <2> QED BY <2>1, <2>2 DEF BudgetShort, TooEarly, BackOff, MayTransmit
<1>5. cad_busy_start' \in 0..WordSize - 1
  <2>1. CASE BackOff
    BY <1>3, <2>1 DEF BackOff, CadStart
  <2>2. CASE ~BackOff
    BY <1>3, <2>2 DEF StillSending, NothingToSend, BudgetShort, TooEarly
  <2> QED BY <2>1, <2>2
<1>6. next_tx_time' \in 0..WordSize - 1
  <2>1. CASE BackOff
    <3>1. CadRetry \in Int
      BY BudgetAssumption
    <3> QED BY <1>3, <2>1, <3>1, Readings DEF BackOff
  <2>2. CASE BudgetShort
    <3>1. MinBudget \in Nat
      BY BudgetAssumption DEF MinBudget
    <3>2. RetryAfter(MinBudget, updateTxBudget) \in Int
      BY <3>1, BudgetTypes DEF IInv
    <3> QED BY <1>3, <2>2, <3>2, Readings DEF BudgetShort
  <2>3. CASE StillSending \/ NothingToSend \/ TooEarly
    BY <1>3, <2>3 DEF StillSending, NothingToSend, TooEarly
  <2> QED BY <2>1, <2>2, <2>3
<1>7. /\ clock' \in 0..WordSize - 1 /\ phase' \in {"idle", "loop", "recv", "send"}
      /\ outbound # {} => phase' \in {"idle", "loop"}
  BY <1>1, <1>2, <1>3
<1> QED BY <1>1, <1>4, <1>5, <1>6, <1>7, QuietInv

\* The most urgent packet leaves the queue for the radio or the pool.
LEMMA TransmitInv ==
  ASSUME IInv, NEW busy \in BOOLEAN, Transmit(busy)
  PROVE  IInv'
<1>1. /\ clock' = clock /\ rx_queue' = rx_queue /\ received = {} /\ received' = {}
      /\ phase' = "idle" /\ phase = "send" /\ next_tx_time' = next_tx_time
      /\ cad_busy_start' = 0 /\ due_in' = due_in
  BY DEF Transmit, MayTransmit, Budgeted, CheckSend
<1>2. tx_budget_ms' \in 0..max_budget /\ last_budget_update' \in 0..WordSize - 1
  BY BudgetTypes DEF Transmit, MayTransmit, Budgeted, IInv
<1>3. outbound = {}
  BY <1>1 DEF IInv, SingleSend
<1>4. Cardinality(outbound) = 0 /\ Cardinality(received) = 0 /\ Cardinality(received') = 0
  BY <1>1, <1>3, Counts
<1>5. 0 \in 0..WordSize - 1
  BY Sizes
<1>6. CASE Eligible(send_queue) = {}
  <2>1. UNCHANGED <<queues, outbound, received, due_in>>
    BY <1>1, <1>6 DEF Transmit, queues
  <2>2. /\ clock' \in 0..WordSize - 1 /\ next_tx_time' \in 0..WordSize - 1
        /\ cad_busy_start' \in 0..WordSize - 1
        /\ phase' \in {"idle", "loop", "recv", "send"}
        /\ outbound # {} => phase' \in {"idle", "loop"}
    BY <1>1, <1>5 DEF IInv, TypeOK
  <2> QED BY <1>2, <2>1, <2>2, QuietInv
<1>7. CASE Eligible(send_queue) # {}
  <2> DEFINE r == RemoveAt(send_queue, Best(send_queue))
  <2>1. send_queue \in Seq(Entry)
    BY DEF IInv, TypeOK
  <2>2. PICK p \in Packet : p = send_queue[Best(send_queue)].packet
    BY <1>7, <2>1, Dequeued
  <2>3. /\ r \in Seq(Entry) /\ Len(r) = Len(send_queue) - 1
        /\ Packets(send_queue) = Packets(r) \union {p}
    BY <1>7, <2>1, <2>2, Dequeued
  <2>4. /\ send_queue' = r
        /\ \/ free(p) /\ outbound' = outbound
           \/ /\ \E airtime \in Airtimes, lost \in {FALSE, RadioFails} :
                    outbound' = {[packet |-> p, start |-> clock,
                                  expiry |-> futureMillis((airtime * 3) \div 2),
                                  left |-> airtime, lost |-> lost]}
              /\ unused' = unused
    BY <1>7, <2>2 DEF Transmit
  <2> HIDE DEF r
  <2>5. CASE free(p) /\ outbound' = outbound
    <3>1. Len(unused) < PoolSize
      <4>1. Len(send_queue) > 0
        BY <1>7, <2>1, BestEligible
      <4> QED BY <1>4, <4>1, Room DEF IInv, PoolConserved
    <3>2. /\ unused' \in Seq(Packet) /\ Len(unused') = Len(unused) + 1
          /\ Range(unused') = Range(unused) \union {p}
      <4>1. unused \in Seq(Packet)
        BY DEF IInv, TypeOK
      <4> QED BY <2>2, <2>5, <3>1, <4>1, Freed DEF free
    <3>3. TypeOK'
      BY <1>1, <1>2, <1>5, <2>3, <2>4, <2>5, <3>2 DEF IInv, TypeOK, max_budget
    <3>4. PoolConserved'
      <4>1. /\ {o.packet : o \in outbound'} = {o.packet : o \in outbound}
            /\ Packets(rx_queue') = Packets(rx_queue)
        BY <1>1, <2>5
      <4>2. Range(unused') \union Packets(send_queue') = Range(unused) \union Packets(send_queue)
        BY <2>3, <2>4, <3>2
      <4>3. Len(unused') + Len(send_queue') = Len(unused) + Len(send_queue)
        BY <2>3, <2>4, <3>2, Room
      <4> QED BY <1>1, <1>4, <2>5, <4>1, <4>2, <4>3, Room, Moved
    <3>5. SingleSend'
      BY <1>1, <1>3, <2>5 DEF SingleSend
    <3> QED BY <3>3, <3>4, <3>5 DEF IInv
  <2>6. CASE /\ \E airtime \in Airtimes, lost \in {FALSE, RadioFails} :
                  outbound' = {[packet |-> p, start |-> clock,
                                expiry |-> futureMillis((airtime * 3) \div 2),
                                left |-> airtime, lost |-> lost]}
             /\ unused' = unused
    <3>1. PICK airtime \in Airtimes, lost \in {FALSE, RadioFails} :
            outbound' = {[packet |-> p, start |-> clock,
                          expiry |-> futureMillis((airtime * 3) \div 2),
                          left |-> airtime, lost |-> lost]}
      BY <2>6
    <3>2. airtime \in 0..MaxAirtime /\ (airtime * 3) \div 2 \in Int /\ lost \in BOOLEAN
      <4>1. airtime \in 1..MaxAirtime /\ MaxAirtime \in Nat
        BY AirtimesAssumption, BudgetAssumption
      <4>2. airtime \in 0..MaxAirtime /\ airtime * 3 \in Nat
        BY <4>1
      <4>3. \A n \in Nat : n \div 2 \in Int
        OBVIOUS
      <4>4. lost \in BOOLEAN
        BY RadioAssumption
      <4> QED BY <4>2, <4>3, <4>4
    <3>3. futureMillis((airtime * 3) \div 2) \in 0..WordSize - 1 /\ clock \in 0..WordSize - 1
      BY <3>2, Readings DEF IInv, TypeOK
    <3>4. PICK o \in Send : outbound' = {o} /\ o.packet = p
      <4> DEFINE o == [packet |-> p, start |-> clock,
                       expiry |-> futureMillis((airtime * 3) \div 2),
                       left |-> airtime, lost |-> lost]
      <4>1. o \in Send /\ o.packet = p
        BY <2>2, <3>2, <3>3 DEF Send
      <4> QED BY <3>1, <4>1
    <3>5. TypeOK'
      BY <1>1, <1>2, <1>5, <2>3, <2>4, <2>6, <3>4 DEF IInv, TypeOK, max_budget
    <3>6. PoolConserved'
      <4>1. /\ {x.packet : x \in outbound'} = {p} /\ {x.packet : x \in outbound} = {}
            /\ Packets(rx_queue') = Packets(rx_queue)
        BY <1>1, <1>3, <3>4
      <4>2. Cardinality(outbound') = 1
        BY <3>4, Counts
      <4>3. /\ Packets(send_queue) = Packets(send_queue') \union {p} /\ unused' = unused
            /\ Len(send_queue') = Len(send_queue) - 1
        BY <2>3, <2>4, <2>6
      <4> QED BY <1>1, <1>4, <4>1, <4>2, <4>3, Room, Moved
    <3>7. SingleSend'
      BY <1>1, <3>4 DEF SingleSend
    <3> QED BY <3>5, <3>6, <3>7 DEF IInv
  <2> QED BY <2>4, <2>5, <2>6
<1> QED BY <1>6, <1>7

-----------------------------------------------------------------------------

THEOREM Invariance == Spec => []IInv
<1>1. IInv /\ [Next]_vars => IInv'
  <2> SUFFICES ASSUME IInv, [Next]_vars PROVE IInv'
    OBVIOUS
  <2>1. CASE UNCHANGED vars
    BY <2>1 DEF vars, queues, budget, IInv, TypeOK, PoolConserved, SingleSend, Packets, Range,
                max_budget
  <2>2. CASE \E ms \in Steps : Tick(ms)
    BY <2>2, TickInv
  <2>3. CASE loop
    <3>1. CASE checkSend
      BY <3>1, CheckSendInv, TransmitInv DEF checkSend
    <3>2. CASE StillSending
      BY <3>2, CheckSendInv
    <3> QED BY <2>3, <3>1, <3>2, SendEndsInv, CheckInboundInv, ProcessInv, RecvNothingInv,
               RecvNowInv, RecvDelayedInv DEF loop
  <2>4. CASE Originate
    BY <2>4, OriginateInv
  <2> QED BY <2>1, <2>2, <2>3, <2>4 DEF Next
<1> QED BY <1>1, InitInv, PTL DEF Spec

\* Every timer stays a word, the budget stays within its cap and the queues
\* hold entries, whatever the pool, the delays, the airtimes and the clock.
THEOREM TypeCorrect == Spec => []TypeOK
<1>1. IInv => TypeOK
  BY DEF IInv
<1> QED BY <1>1, Invariance, PTL

\* Dispatcher and StaticPoolPacketManager lose no packet and free none twice.
THEOREM PoolIsConserved == Spec => []PoolConserved
<1>1. IInv => PoolConserved
  BY DEF IInv
<1> QED BY <1>1, Invariance, PTL

-----------------------------------------------------------------------------
(***************************************************************************)
(* Schedules: what due_in says, that the clock wraps around, and that a    *)
(* packet has one holder at a time.                                        *)
(***************************************************************************)

\* A table holds no more packets than it has entries.
LEMMA NoMoreThanEntries ==
  /\ \A s \in Seq(Packet) : IsFiniteSet(Range(s)) /\ Cardinality(Range(s)) <= Len(s)
  /\ \A q \in Seq(Entry) : IsFiniteSet(Packets(q)) /\ Cardinality(Packets(q)) <= Len(q)
<1>1. ASSUME NEW n \in Nat, NEW T, NEW f \in Surjection(1..n, T)
      PROVE  IsFiniteSet(T) /\ Cardinality(T) <= n
  <2>1. IsFiniteSet(1..n) /\ Cardinality(1..n) = n
    BY FS_Interval
  <2> QED BY <2>1, FS_Surjection
<1>2. ASSUME NEW s \in Seq(Packet) PROVE IsFiniteSet(Range(s)) /\ Cardinality(Range(s)) <= Len(s)
  <2>1. s \in Surjection(1..Len(s), Range(s)) /\ Len(s) \in Nat
    BY DEF Surjection, Range
  <2> QED BY <1>1, <2>1
<1>3. ASSUME NEW q \in Seq(Entry) PROVE IsFiniteSet(Packets(q)) /\ Cardinality(Packets(q)) <= Len(q)
  <2> DEFINE f == [i \in 1..Len(q) |-> q[i].packet]
  <2>1. f \in Surjection(1..Len(q), Packets(q)) /\ Len(q) \in Nat
    BY DEF Surjection, Packets
  <2> HIDE DEF f
  <2> QED BY <1>1, <2>1
<1> QED BY <1>2, <1>3

LEMMA SmallFinite ==
  /\ \A S : S = {} => IsFiniteSet(S)
  /\ \A S, x : S = {x} => IsFiniteSet(S)
<1>1. IsFiniteSet({}) /\ \A x : IsFiniteSet({x})
  BY FS_EmptySet, FS_Singleton
<1> QED BY <1>1, Zenon

LEMMA UnionSize ==
  ASSUME NEW S, NEW T, IsFiniteSet(S), IsFiniteSet(T), NEW m \in Nat, NEW n \in Nat,
         Cardinality(S) <= m, Cardinality(T) <= n
  PROVE  IsFiniteSet(S \union T) /\ Cardinality(S \union T) <= m + n
<1>1. /\ IsFiniteSet(S \union T)
      /\ Cardinality(S \union T) = Cardinality(S) + Cardinality(T) - Cardinality(S \cap T)
  BY FS_Union
<1>2. IsFiniteSet(S \cap T)
  BY FS_Intersection
<1>3. Cardinality(S) \in Nat /\ Cardinality(T) \in Nat /\ Cardinality(S \cap T) \in Nat
  BY <1>2, FS_CardinalityType
<1> QED BY <1>1, <1>3

\* Holders that have all packets between them have room for all.
LEMMA HoldersSuffice ==
  ASSUME IInv, NEW u \in Seq(Packet), NEW R, R = {} \/ R = received,
         Packet = Range(u) \union Packets(send_queue) \union Packets(rx_queue) \union Sent \union R
  PROVE  PoolSize <= Len(u) + Len(send_queue) + Len(rx_queue) + Cardinality(outbound) + Cardinality(R)
<1>1. /\ IsFiniteSet(Range(u)) /\ Cardinality(Range(u)) <= Len(u)
      /\ IsFiniteSet(Packets(send_queue)) /\ Cardinality(Packets(send_queue)) <= Len(send_queue)
      /\ IsFiniteSet(Packets(rx_queue)) /\ Cardinality(Packets(rx_queue)) <= Len(rx_queue)
      /\ Len(u) \in Nat /\ Len(send_queue) \in Nat /\ Len(rx_queue) \in Nat
  BY NoMoreThanEntries DEF IInv, TypeOK
<1>2. IsFiniteSet(Sent) /\ Cardinality(Sent) <= Cardinality(outbound) /\ Cardinality(outbound) \in Nat
  <2>1. CASE outbound = {}
    <3>1. Sent = {}
      BY <2>1 DEF Sent
    <3> QED BY <2>1, <3>1, Counts, SmallFinite
  <2>2. ASSUME NEW o \in Send, outbound = {o} PROVE <1>2
    <3>1. Sent = {o.packet}
      BY <2>2 DEF Sent
    <3>2. Cardinality(Sent) = 1 /\ Cardinality(outbound) = 1
      BY <2>2, <3>1, Counts
    <3>3. IsFiniteSet(Sent)
      BY <3>1, SmallFinite
    <3> QED BY <3>2, <3>3
  <2> QED BY <2>1, <2>2 DEF IInv, SingleSend
<1>3. IsFiniteSet(R) /\ Cardinality(R) \in Nat
  <2>1. IsFiniteSet(R)
    BY SmallFinite DEF IInv, SingleSend
  <2> QED BY <2>1, FS_CardinalityType
<1> DEFINE A == Range(u) \union Packets(send_queue)
           B == A \union Packets(rx_queue)
           C == B \union Sent
<1>4. IsFiniteSet(A) /\ Cardinality(A) <= Len(u) + Len(send_queue)
  BY <1>1, UnionSize
<1>5. IsFiniteSet(B) /\ Cardinality(B) <= Len(u) + Len(send_queue) + Len(rx_queue)
  <2> HIDE DEF A
  <2>1. Len(u) + Len(send_queue) \in Nat
    BY <1>1
  <2> QED BY <1>1, <1>4, <2>1, UnionSize
<1>6. IsFiniteSet(C) /\ Cardinality(C) <= Len(u) + Len(send_queue) + Len(rx_queue) + Cardinality(outbound)
  <2> HIDE DEF B
  <2>1. Len(u) + Len(send_queue) + Len(rx_queue) \in Nat
    BY <1>1
  <2> QED BY <1>2, <1>5, <2>1, UnionSize
<1>7. Cardinality(C \union R) <= Len(u) + Len(send_queue) + Len(rx_queue) + Cardinality(outbound) + Cardinality(R)
  <2> HIDE DEF C
  <2>1. Len(u) + Len(send_queue) + Len(rx_queue) + Cardinality(outbound) \in Nat
    BY <1>1, <1>2
  <2>2. Cardinality(R) <= Cardinality(R)
    BY <1>3
  <2> DEFINE m == Len(u) + Len(send_queue) + Len(rx_queue) + Cardinality(outbound)
             n == Cardinality(R)
  <2>3. m \in Nat /\ n \in Nat /\ Cardinality(C) <= m /\ Cardinality(R) <= n
    BY <1>3, <1>6, <2>1, <2>2
  <2> HIDE DEF m, n
  <2>4. Cardinality(C \union R) <= m + n
    BY <1>3, <1>6, <2>3, UnionSize
  <2> QED BY <2>4 DEF m, n
<1>8. Packet = C \union R
  BY DEF Sent
<1> HIDE DEF A, B, C
<1> QED BY <1>7, <1>8 DEF PoolSize

\* A packet of the pool is nowhere else.
LEMMA PoolOwns ==
  ASSUME IInv, unused # <<>>
  PROVE  Head(unused) \notin Packets(send_queue) \union Packets(rx_queue) \union Sent \union received
<1> SUFFICES ASSUME Head(unused) \in Packets(send_queue) \union Packets(rx_queue) \union Sent \union received
             PROVE  FALSE
  OBVIOUS
<1>1. /\ Tail(unused) \in Seq(Packet) /\ Len(Tail(unused)) = Len(unused) - 1
      /\ Range(unused) = Range(Tail(unused)) \union {Head(unused)}
  BY Obtained
<1>2. Packet = Range(Tail(unused)) \union Packets(send_queue) \union Packets(rx_queue) \union Sent \union received
  BY <1>1 DEF IInv, PoolConserved, Sent
<1>3. PoolSize <= Len(Tail(unused)) + Len(send_queue) + Len(rx_queue) + Cardinality(outbound) + Cardinality(received)
  BY <1>1, <1>2, HoldersSuffice
<1> QED BY <1>1, <1>3, Room DEF IInv, PoolConserved

\* Nor is the packet a handler looks at.
LEMMA HandlerOwns ==
  ASSUME IInv, NEW p \in received
  PROVE  p \notin Packets(send_queue) \union Packets(rx_queue)
<1> SUFFICES ASSUME p \in Packets(send_queue) \union Packets(rx_queue) PROVE FALSE
  OBVIOUS
<1>1. received = {p} /\ Cardinality(received) = 1
  BY Counts DEF IInv, SingleSend
<1>2. Packet = Range(unused) \union Packets(send_queue) \union Packets(rx_queue) \union Sent \union {}
  BY <1>1 DEF IInv, PoolConserved, Sent
<1>3. unused \in Seq(Packet) /\ Cardinality({}) = 0
  BY Counts DEF IInv, TypeOK
<1>4. PoolSize <= Len(unused) + Len(send_queue) + Len(rx_queue) + Cardinality(outbound) + 0
  BY <1>2, <1>3, HoldersSuffice
<1> QED BY <1>1, <1>4, Room DEF IInv, PoolConserved

\* A queued packet whose delay is not over is due_in[p] ahead of the clock.
Scheduled(e) ==
  due_in[e.packet] > 0 =>
    due_in[e.packet] < Half /\ minus(e.scheduled_for, clock) = due_in[e.packet]

ScheduleInv == \A e \in Range(send_queue) \union Range(rx_queue) : Scheduled(e)

\* Between calls of loop() no handler is at work.
HandlerInv == phase = "idle" => received = {}

DueInv == ScheduleInv /\ NeverEarly /\ HandlerInv

\* Readings of a clock that wraps around once.
LEMMA Wraps ==
  ASSUME NEW a \in Int
  PROVE  /\ a \in 0..WordSize - 1 => a % WordSize = a
         /\ a \in WordSize..2 * WordSize - 1 => a % WordSize = a - WordSize
         /\ a \in -WordSize..-1 => a % WordSize = a + WordSize
<1> DEFINE W == WordSize
           q == a \div W
           r == a % W
<1>1. W \in Nat \ {0}
  BY Sizes
<1>2. q \in Int /\ r \in 0..W - 1 /\ a = W * q + r
  BY <1>1
<1> HIDE DEF W, q, r
<1>3. ASSUME NEW k \in Int, a \in k * W..(k + 1) * W - 1 PROVE q = k
  <2>1. CASE q > k
    <3>1. W * q >= W * (k + 1)
      BY <1>1, <1>2, <2>1
    <3> QED BY <1>1, <1>2, <1>3, <3>1
  <2>2. CASE q < k
    <3>1. W * (q + 1) <= W * k
      BY <1>1, <1>2, <2>2
    <3> QED BY <1>1, <1>2, <1>3, <3>1
  <2> QED BY <1>2, <2>1, <2>2
<1>4. a \in 0..W - 1 => r = a
  BY <1>1, <1>2, <1>3
<1>5. a \in W..2 * W - 1 => r = a - W
  <2> SUFFICES ASSUME a \in W..2 * W - 1 PROVE r = a - W
    OBVIOUS
  <2>1. a \in 1 * W..(1 + 1) * W - 1
    BY <1>1
  <2>2. q = 1
    BY <1>3, <2>1
  <2> QED BY <1>1, <1>2, <2>2
<1>6. a \in -W..-1 => r = a + W
  <2> SUFFICES ASSUME a \in -W..-1 PROVE r = a + W
    OBVIOUS
  <2>1. a \in (-1) * W..(-1 + 1) * W - 1
    BY <1>1
  <2>2. q = -1
    BY <1>3, <2>1
  <2> QED BY <1>1, <1>2, <2>2
<1> QED BY <1>4, <1>5, <1>6 DEF W, r

\* An entry made now is its delay ahead of the clock, and stays so as the clock runs.
LEMMA AheadOfClock ==
  ASSUME NEW c \in 0..WordSize - 1, NEW d \in 0..Half - 1
  PROVE  /\ minus((c + d) % WordSize, c) = d
         /\ \A ms \in 0..d, t \in 0..WordSize - 1 :
              minus(t, c) = d => minus(t, (c + ms) % WordSize) = d - ms
<1> DEFINE W == WordSize
           m(a) == a % W
<1>1. W \in Nat \ {0} /\ W = 2 * Half /\ Half \in Nat /\ c \in Nat /\ d \in Nat /\ d < W /\ c < W
  BY Sizes, ClockAssumption DEF Half
<1>2. \A a \in Int : /\ a \in 0..W - 1 => m(a) = a
                     /\ a \in W..2 * W - 1 => m(a) = a - W
                     /\ a \in -W..-1 => m(a) = a + W
  BY Wraps
<1> HIDE DEF W, m
<1>3. \A k \in 0..d : m(c + k) = IF c + k < W THEN c + k ELSE c + k - W
  <2> SUFFICES ASSUME NEW k \in 0..d PROVE m(c + k) = IF c + k < W THEN c + k ELSE c + k - W
    OBVIOUS
  <2>1. c + k \in Int /\ c + k \in 0..2 * W - 1
    BY <1>1
  <2> QED BY <1>1, <1>2, <2>1
<1>4. m(m(c + d) - c) = d
  <2>1. m(c + d) - c = IF c + d < W THEN d ELSE d - W
    BY <1>1, <1>3
  <2>2. CASE c + d < W
    <3>1. m(c + d) - c = d /\ d \in Int /\ d \in 0..W - 1
      BY <1>1, <2>1, <2>2
    <3> QED BY <1>2, <3>1
  <2>3. CASE ~(c + d < W)
    <3>1. m(c + d) - c = d - W /\ d - W \in Int /\ d - W \in -W..-1 /\ (d - W) + W = d
      BY <1>1, <2>1, <2>3
    <3> QED BY <1>2, <3>1
  <2> QED BY <2>2, <2>3
<1>5. ASSUME NEW ms \in 0..d, NEW t \in 0..W - 1, m(t - c) = d
      PROVE  m(t - m(c + ms)) = d - ms
  <2> DEFINE x == t - m(c + ms)
  <2>1. x = IF c + ms < W THEN t - c - ms ELSE t - c - ms + W
    <3>1. m(c + ms) = IF c + ms < W THEN c + ms ELSE c + ms - W
      BY <1>3
    <3>2. c \in Nat /\ ms \in Nat /\ t \in Nat
      BY <1>1
    <3> QED BY <1>1, <3>1, <3>2
  <2>2. d = IF t >= c THEN t - c ELSE t - c + W
    <3>1. t - c \in Int /\ t - c \in -W..W - 1
      BY <1>1
    <3> QED BY <1>1, <1>2, <1>5, <3>1
  <2>3. x \in Int /\ (x = d - ms \/ x = d - ms - W)
    BY <1>1, <2>1, <2>2
  <2> HIDE DEF x
  <2>4. CASE x = d - ms
    <3>1. x \in 0..W - 1
      BY <1>1, <2>4
    <3>2. m(x) = x
      BY <1>2, <2>3, <3>1
    <3> QED BY <2>4, <3>2 DEF x
  <2>5. CASE x = d - ms - W
    <3>1. x \in -W..-1
      BY <1>1, <2>5
    <3>2. m(x) = x + W
      BY <1>2, <2>3, <3>1
    <3> QED BY <1>1, <2>5, <3>2 DEF x
  <2> QED BY <2>3, <2>4, <2>5
<1> QED BY <1>4, <1>5, Zenon DEF minus, m, W

\* An entry that get() may return has no delay left.
LEMMA DueNow ==
  ASSUME IInv, ScheduleInv, NEW e \in Range(send_queue) \union Range(rx_queue), due(e)
  PROVE  due_in[e.packet] = 0
<1>1. e \in Entry
  BY DEF IInv, TypeOK, Range
<1>2. due_in[e.packet] \in Nat
  BY <1>1 DEF IInv, TypeOK, Entry
<1>3. due_in[e.packet] > 0 =>
        due_in[e.packet] < Half /\ minus(e.scheduled_for, clock) = due_in[e.packet]
  BY DEF ScheduleInv, Scheduled
<1>4. minus(e.scheduled_for, clock) \notin 1..Half - 1
  BY DEF due
<1>5. Half \in Int
  BY Sizes DEF Half
<1> QED BY <1>2, <1>3, <1>4, <1>5

\* Steps that queue nothing and do not move the clock.
LEMMA DueKept ==
  ASSUME ScheduleInv, clock' = clock, due_in' = due_in,
         Range(send_queue') \subseteq Range(send_queue),
         Range(rx_queue') \subseteq Range(rx_queue)
  PROVE  ScheduleInv'
<1>1. \A e : Scheduled(e)' <=> Scheduled(e)
  BY DEF Scheduled, minus
<1>2. Range(send_queue)' = Range(send_queue') /\ Range(rx_queue)' = Range(rx_queue')
  BY DEF Range
<1> QED BY <1>1, <1>2 DEF ScheduleInv

\* Steps that queue a packet which no table holds yet.
LEMMA DueQueued ==
  ASSUME IInv, ScheduleInv, NEW p \in Packet, NEW delay \in 0..Half - 1, NEW e,
         e.packet = p, e.scheduled_for = futureMillis(delay),
         p \notin Packets(send_queue) \union Packets(rx_queue),
         clock' = clock, due_in' = [due_in EXCEPT ![p] = delay],
         Range(send_queue') \union Range(rx_queue')
           \subseteq Range(send_queue) \union Range(rx_queue) \union {e}
  PROVE  ScheduleInv'
<1> DEFINE kept == Range(send_queue) \union Range(rx_queue)
<1>1. Range(send_queue)' = Range(send_queue') /\ Range(rx_queue)' = Range(rx_queue')
  BY DEF Range
<1>2. due_in \in [Packet -> Nat] /\ clock \in 0..WordSize - 1
  BY DEF IInv, TypeOK
<1>3. ASSUME NEW x \in kept PROVE Scheduled(x)'
  <2>1. x.packet \in Packet
    <3>1. x \in Entry
      BY DEF IInv, TypeOK, Range
    <3> QED BY <3>1 DEF Entry
  <2>2. x.packet # p
    BY PacketsOf
  <2>3. due_in'[x.packet] = due_in[x.packet]
    BY <1>2, <2>1, <2>2
  <2>4. Scheduled(x)
    BY DEF ScheduleInv
  <2> QED BY <2>3, <2>4 DEF Scheduled, minus
<1>4. Scheduled(e)'
  <2>1. due_in'[p] = delay
    BY <1>2
  <2>2. minus((clock + delay) % WordSize, clock) = delay
    BY <1>2, AheadOfClock
  <2>3. minus(e.scheduled_for, clock)' = minus(e.scheduled_for, clock)
    BY DEF minus
  <2>4. delay < Half
    BY Sizes DEF Half
  <2> QED BY <2>1, <2>2, <2>3, <2>4 DEF Scheduled, futureMillis, minus
<1>5. \A x \in Range(send_queue)' \union Range(rx_queue)' : Scheduled(x)'
  BY <1>1, <1>3, <1>4
<1> QED BY <1>5 DEF ScheduleInv

\* A table after queue->add().
LEMMA AddedRange ==
  ASSUME NEW q \in Seq(Entry), NEW e \in Entry
  PROVE  Range(add(q, e)) \subseteq Range(q) \union {e}
<1>1. Range(Append(q, e)) = Range(q) \union {e}
  BY Appended
<1> QED BY <1>1 DEF add

\* queueOutbound() and queueInbound() of a packet that no table holds yet.
LEMMA DueAdded ==
  ASSUME IInv, ScheduleInv, NEW p \in Packet, NEW priority \in 0..255, NEW delay \in 0..Half - 1,
         p \notin Packets(send_queue) \union Packets(rx_queue), clock' = clock,
         \/ queueOutbound(p, priority, delay) /\ rx_queue' = rx_queue
         \/ queueInbound(p, delay) /\ send_queue' = send_queue
  PROVE  /\ ScheduleInv'
         /\ due_in' = [due_in EXCEPT ![p] = delay]
<1>1. send_queue \in Seq(Entry) /\ rx_queue \in Seq(Entry) /\ clock \in 0..WordSize - 1
  BY DEF IInv, TypeOK
<1>2. futureMillis(delay) \in 0..WordSize - 1
  BY <1>1, Readings
<1>3. CASE queueOutbound(p, priority, delay) /\ rx_queue' = rx_queue
  <2> DEFINE e == [packet |-> p, priority |-> priority, scheduled_for |-> futureMillis(delay)]
  <2>1. e \in Entry
    BY <1>2 DEF Entry
  <2>2. e.packet = p /\ e.scheduled_for = futureMillis(delay)
    OBVIOUS
  <2>3. send_queue' = add(send_queue, e) /\ due_in' = [due_in EXCEPT ![p] = delay]
    BY <1>3 DEF queueOutbound
  <2> HIDE DEF e
  <2>4. Range(send_queue') \subseteq Range(send_queue) \union {e}
    BY <1>1, <2>1, <2>3, AddedRange
  <2>5. ScheduleInv'
    BY <1>3, <2>2, <2>3, <2>4, DueQueued
  <2> QED BY <2>3, <2>5
<1>4. CASE queueInbound(p, delay) /\ send_queue' = send_queue
  <2> DEFINE e == [packet |-> p, priority |-> 0, scheduled_for |-> futureMillis(delay)]
  <2>1. e \in Entry
    BY <1>2 DEF Entry
  <2>2. e.packet = p /\ e.scheduled_for = futureMillis(delay)
    OBVIOUS
  <2>3. rx_queue' = add(rx_queue, e) /\ due_in' = [due_in EXCEPT ![p] = delay]
    BY <1>4 DEF queueInbound
  <2> HIDE DEF e
  <2>4. Range(rx_queue') \subseteq Range(rx_queue) \union {e}
    BY <1>1, <2>1, <2>3, AddedRange
  <2>5. ScheduleInv'
    BY <1>4, <2>2, <2>3, <2>4, DueQueued
  <2> QED BY <2>3, <2>5
<1> QED BY <1>3, <1>4

LEMMA DueInit == Init => DueInv
<1> SUFFICES ASSUME Init PROVE DueInv
  OBVIOUS
<1>1. Range(send_queue) = {} /\ Range(rx_queue) = {}
  BY DEF Init, Range
<1> QED BY <1>1 DEF Init, DueInv, ScheduleInv, NeverEarly, HandlerInv

\* Time passes: delays run down with the clock.
LEMMA DueTick ==
  ASSUME IInv, DueInv, NEW ms \in Steps, Tick(ms)
  PROVE  DueInv'
<1>1. /\ ms \in Nat /\ clock \in 0..WordSize - 1 /\ due_in \in [Packet -> Nat]
      /\ due_in' = [p \in Packet |-> IF due_in[p] <= ms THEN 0 ELSE due_in[p] - ms]
      /\ clock' = (clock + ms) % WordSize /\ send_queue' = send_queue /\ rx_queue' = rx_queue
      /\ phase = "idle" /\ phase' = "loop" /\ received' = received
  BY ClockAssumption DEF Tick, queues, IInv, TypeOK
<1>2. ASSUME NEW e \in Range(send_queue) \union Range(rx_queue) PROVE Scheduled(e)'
  <2>1. e \in Entry
    BY DEF IInv, TypeOK, Range
  <2>2. e.packet \in Packet /\ e.scheduled_for \in 0..WordSize - 1
    BY <2>1 DEF Entry
  <2> DEFINE d == due_in[e.packet]
             t == e.scheduled_for
  <2>3. d \in Nat /\ due_in'[e.packet] = IF d <= ms THEN 0 ELSE d - ms
    BY <1>1, <2>2
  <2>4. d > 0 => d < Half /\ minus(t, clock) = d
    BY DEF DueInv, ScheduleInv, Scheduled
  <2>5. t \in 0..WordSize - 1 /\ Half \in Nat
    BY <2>2, ClockAssumption, Sizes DEF Half
  <2> HIDE DEF d, t
  <2>6. CASE d <= ms
    <3>1. due_in'[e.packet] = 0
      BY <2>3, <2>6
    <3> QED BY <3>1 DEF Scheduled
  <2>7. CASE ~(d <= ms)
    <3>1. d \in 0..Half - 1 /\ ms \in 0..d /\ d > 0
      BY <1>1, <2>3, <2>4, <2>5, <2>7
    <3>2. minus(t, (clock + ms) % WordSize) = d - ms
      BY <1>1, <2>4, <2>5, <3>1, AheadOfClock
    <3>3. d - ms < Half
      BY <2>5, <3>1, <1>1
    <3> QED BY <1>1, <2>3, <2>7, <3>2, <3>3 DEF Scheduled, minus, t
  <2> QED BY <1>1, <2>3, <2>6, <2>7
<1>3. ScheduleInv'
  BY <1>1, <1>2 DEF ScheduleInv, Range
<1>4. NeverEarly'
  <2>1. received' = {}
    BY <1>1 DEF DueInv, HandlerInv
  <2>2. ASSUME NEW o \in outbound' PROVE due_in'[o.packet] = 0
    <3>1. PICK x \in outbound : o = [x EXCEPT !.left = IF @ <= ms THEN 0 ELSE @ - ms]
      BY DEF Tick
    <3>2. x \in Send
      BY DEF IInv, TypeOK
    <3>3. o.packet = x.packet /\ x.packet \in Packet
      BY <3>1, <3>2 DEF Send
    <3>4. due_in[x.packet] = 0
      BY DEF DueInv, NeverEarly
    <3> QED BY <1>1, <3>3, <3>4
  <2> QED BY <2>1, <2>2 DEF NeverEarly
<1> QED BY <1>1, <1>3, <1>4 DEF DueInv, HandlerInv

\* A packet that is queued leaves the others' schedules as they are.
LEMMA DueElsewhere ==
  ASSUME IInv, DueInv, NEW p \in Packet, NEW delay \in Nat, p \notin Sent \union received,
         due_in' = [due_in EXCEPT ![p] = delay], outbound' = outbound,
         received' \subseteq received, phase' = "loop" => phase = "loop"
  PROVE  NeverEarly'
<1>1. due_in \in [Packet -> Nat] /\ outbound \subseteq Send /\ received \subseteq Packet
  BY DEF IInv, TypeOK
<1>2. \A o \in outbound : o.packet # p /\ o.packet \in Packet
  BY <1>1 DEF Sent, Send
<1>3. \A x \in received : x # p
  OBVIOUS
<1>4. \A o \in outbound : due_in'[o.packet] = 0
  BY <1>1, <1>2 DEF DueInv, NeverEarly
<1>5. phase = "loop" => \A x \in received : due_in'[x] = 0
  BY <1>1, <1>3 DEF DueInv, NeverEarly
<1> QED BY <1>4, <1>5 DEF NeverEarly

LEMMA DueProcess ==
  ASSUME IInv, DueInv, processRecvPacket
  PROVE  DueInv'
<1>1. PICK p \in received :
        \/ free(p) /\ UNCHANGED <<send_queue, due_in>>
        \/ /\ \E priority \in Priorities, delay \in TxDelays : queueOutbound(p, priority, delay)
           /\ UNCHANGED unused
  BY DEF processRecvPacket
<1>2. /\ clock' = clock /\ rx_queue' = rx_queue /\ outbound' = outbound /\ received' = {}
      /\ phase' \in {"recv", "send"}
  BY DEF processRecvPacket
<1>3. outbound = {}
  BY DEF IInv, SingleSend
<1>4. NeverEarly' /\ HandlerInv'
  BY <1>2, <1>3 DEF NeverEarly, HandlerInv
<1>5. ScheduleInv'
  <2>1. CASE free(p) /\ UNCHANGED <<send_queue, due_in>>
    <3>1. send_queue' = send_queue /\ due_in' = due_in
      BY <2>1
    <3> QED BY <1>2, <3>1, DueKept DEF DueInv
  <2>2. CASE \E priority \in Priorities, delay \in TxDelays : queueOutbound(p, priority, delay)
    <3>1. PICK priority \in Priorities, delay \in TxDelays : queueOutbound(p, priority, delay)
      BY <2>2
    <3>2. priority \in 0..255 /\ delay \in 0..Half - 1
      BY DelayAssumption
    <3>3. p \in Packet /\ p \notin Packets(send_queue) \union Packets(rx_queue)
      BY HandlerOwns DEF IInv, TypeOK
    <3> QED BY <1>2, <3>1, <3>2, <3>3, DueAdded DEF DueInv
  <2> QED BY <1>1, <2>1, <2>2
<1> QED BY <1>4, <1>5 DEF DueInv

LEMMA DueOriginate ==
  ASSUME IInv, DueInv, Originate
  PROVE  DueInv'
<1> DEFINE p == Head(unused)
<1>1. /\ clock' = clock /\ rx_queue' = rx_queue /\ outbound' = outbound /\ received' = received
      /\ phase' = phase /\ unused # <<>>
  BY DEF Originate
<1>2. HandlerInv'
  BY <1>1 DEF DueInv, HandlerInv
<1>3. CASE UNCHANGED <<send_queue, due_in>>
  <2>1. send_queue' = send_queue /\ due_in' = due_in
    BY <1>3
  <2>2. ScheduleInv'
    BY <1>1, <2>1, DueKept DEF DueInv
  <2>3. NeverEarly'
    BY <1>1, <2>1 DEF DueInv, NeverEarly
  <2> QED BY <1>2, <2>2, <2>3 DEF DueInv
<1>4. CASE \E priority \in Priorities, delay \in TxDelays : queueOutbound(p, priority, delay)
  <2>1. PICK priority \in Priorities, delay \in TxDelays : queueOutbound(p, priority, delay)
    BY <1>4
  <2>2. priority \in 0..255 /\ delay \in 0..Half - 1 /\ delay \in Nat
    BY DelayAssumption
  <2>3. p \in Packet /\ p \notin Packets(send_queue) \union Packets(rx_queue) \union Sent \union received
    BY <1>1, PoolOwns, Taken DEF IInv, TypeOK
  <2>4. ScheduleInv' /\ due_in' = [due_in EXCEPT ![p] = delay]
    <3> HIDE DEF p
    <3> QED BY <1>1, <2>1, <2>2, <2>3, DueAdded DEF DueInv
  <2>5. NeverEarly'
    <3> HIDE DEF p
    <3> QED BY <1>1, <2>2, <2>3, <2>4, DueElsewhere
  <2> QED BY <1>2, <2>4, <2>5 DEF DueInv
<1> QED BY <1>3, <1>4 DEF Originate

LEMMA DueRecvDelayed ==
  ASSUME IInv, DueInv, RecvDelayed
  PROVE  DueInv'
<1> DEFINE p == Head(unused)
<1>1. /\ clock' = clock /\ send_queue' = send_queue /\ outbound' = outbound
      /\ received = {} /\ received' = {} /\ phase' = "send" /\ unused # <<>>
  BY DEF RecvDelayed
<1>2. PICK delay \in RxDelays : queueInbound(p, delay)
  BY DEF RecvDelayed
<1>3. delay \in 0..Half - 1 /\ delay \in Nat /\ 0 \in 0..255
  BY DelayAssumption
<1>4. p \in Packet /\ p \notin Packets(send_queue) \union Packets(rx_queue) \union Sent \union received
  BY <1>1, PoolOwns, Taken DEF IInv, TypeOK
<1> HIDE DEF p
<1>5. ScheduleInv' /\ due_in' = [due_in EXCEPT ![p] = delay]
  BY <1>1, <1>2, <1>3, <1>4, DueAdded DEF DueInv
<1>6. NeverEarly'
  BY <1>1, <1>3, <1>4, <1>5, DueElsewhere
<1> QED BY <1>1, <1>5, <1>6 DEF DueInv, HandlerInv

\* What get() takes from a table is due; the rest stays as it is.
LEMMA TakenDue ==
  ASSUME NEW q \in Seq(Entry), Eligible(q) # {}
  PROVE  /\ q[Best(q)] \in Range(q) /\ due(q[Best(q)])
         /\ Range(RemoveAt(q, Best(q))) \subseteq Range(q)
<1>1. Best(q) \in Eligible(q) /\ Best(q) \in 1..Len(q)
  BY BestEligible
<1>2. Range(q) = Range(RemoveAt(q, Best(q))) \union {q[Best(q)]}
  BY <1>1, Removed
<1> QED BY <1>1, <1>2 DEF Eligible, Range

LEMMA DueCheckInbound ==
  ASSUME IInv, DueInv, CheckInbound
  PROVE  DueInv'
<1>1. /\ clock' = clock /\ send_queue' = send_queue /\ outbound = {} /\ outbound' = {}
      /\ due_in' = due_in /\ phase = "loop" /\ received = {}
  BY DEF CheckInbound
<1>2. CASE Eligible(rx_queue) = {}
  <2>1. rx_queue' = rx_queue /\ received' = {} /\ phase' = "recv"
    BY <1>1, <1>2 DEF CheckInbound
  <2>2. ScheduleInv'
    BY <1>1, <2>1, DueKept DEF DueInv
  <2> QED BY <1>1, <2>1, <2>2 DEF DueInv, NeverEarly, HandlerInv
<1>3. CASE Eligible(rx_queue) # {}
  <2> DEFINE e == rx_queue[Best(rx_queue)]
  <2>1. received' = {e.packet} /\ rx_queue' = RemoveAt(rx_queue, Best(rx_queue)) /\ phase' = phase
    BY <1>3 DEF CheckInbound
  <2>2. e \in Range(rx_queue) /\ due(e) /\ Range(rx_queue') \subseteq Range(rx_queue)
    BY <1>3, <2>1, TakenDue DEF IInv, TypeOK
  <2> HIDE DEF e
  <2>3. due_in[e.packet] = 0
    BY <2>2, DueNow DEF DueInv
  <2>4. ScheduleInv'
    BY <1>1, <2>2, DueKept DEF DueInv
  <2> QED BY <1>1, <2>1, <2>3, <2>4 DEF DueInv, NeverEarly, HandlerInv
<1> QED BY <1>2, <1>3

LEMMA DueTransmit ==
  ASSUME IInv, DueInv, NEW busy \in BOOLEAN, Transmit(busy)
  PROVE  DueInv'
<1>1. /\ clock' = clock /\ rx_queue' = rx_queue /\ due_in' = due_in
      /\ received = {} /\ received' = {} /\ phase' = "idle"
  BY DEF Transmit, MayTransmit, Budgeted, CheckSend
<1>2. outbound = {}
  BY DEF Transmit, MayTransmit, Budgeted, CheckSend, IInv, SingleSend
<1>3. CASE Eligible(send_queue) = {}
  <2>1. send_queue' = send_queue /\ outbound' = outbound
    BY <1>3 DEF Transmit
  <2>2. ScheduleInv'
    BY <1>1, <2>1, DueKept DEF DueInv
  <2> QED BY <1>1, <1>2, <2>1, <2>2 DEF DueInv, NeverEarly, HandlerInv
<1>4. CASE Eligible(send_queue) # {}
  <2> DEFINE e == send_queue[Best(send_queue)]
  <2>1. send_queue' = RemoveAt(send_queue, Best(send_queue))
    BY <1>4 DEF Transmit
  <2>2. \A o \in outbound' : o.packet = e.packet
    BY <1>2, <1>4 DEF Transmit
  <2>3. e \in Range(send_queue) /\ due(e) /\ Range(send_queue') \subseteq Range(send_queue)
    BY <1>4, <2>1, TakenDue DEF IInv, TypeOK
  <2> HIDE DEF e
  <2>4. due_in[e.packet] = 0
    BY <2>3, DueNow DEF DueInv
  <2>5. ScheduleInv'
    BY <1>1, <2>3, DueKept DEF DueInv
  <2> QED BY <1>1, <2>2, <2>4, <2>5 DEF DueInv, NeverEarly, HandlerInv
<1> QED BY <1>3, <1>4

\* The steps that leave the queues alone.
LEMMA DueOther ==
  ASSUME IInv, DueInv,
         \/ SendComplete \/ SendTimedOut \/ StillSending \/ RecvNothing
         \/ NothingToSend \/ BudgetShort \/ TooEarly \/ BackOff
         \/ UNCHANGED vars
  PROVE  DueInv'
<1>1. CASE UNCHANGED vars
  <2>1. /\ clock' = clock /\ due_in' = due_in /\ send_queue' = send_queue /\ rx_queue' = rx_queue
        /\ outbound' = outbound /\ received' = received /\ phase' = phase
    BY <1>1 DEF vars, queues
  <2>2. ScheduleInv'
    BY <2>1, DueKept DEF DueInv
  <2> QED BY <2>1, <2>2 DEF DueInv, NeverEarly, HandlerInv
<1>2. CASE ~UNCHANGED vars
  <2>1. /\ clock' = clock /\ due_in' = due_in /\ send_queue' = send_queue /\ rx_queue' = rx_queue
        /\ outbound' \subseteq outbound /\ received' = {}
    <3>1. CASE SendComplete \/ SendTimedOut
      BY <3>1 DEF SendComplete, SendTimedOut
    <3>2. CASE StillSending \/ RecvNothing
      BY <3>2 DEF StillSending, RecvNothing, queues
    <3>3. CASE NothingToSend \/ BudgetShort \/ TooEarly \/ BackOff
      BY <3>3 DEF NothingToSend, BudgetShort, TooEarly, BackOff, MayTransmit, Budgeted, CheckSend
    <3> QED BY <1>2, <3>1, <3>2, <3>3
  <2>2. ScheduleInv'
    BY <2>1, DueKept DEF DueInv
  <2> QED BY <2>1, <2>2 DEF DueInv, NeverEarly, HandlerInv
<1> QED BY <1>1, <1>2

LEMMA DueRecvNow ==
  ASSUME IInv, DueInv, RecvNow
  PROVE  DueInv'
<1>1. /\ clock' = clock /\ send_queue' = send_queue /\ rx_queue' = rx_queue /\ due_in' = due_in
      /\ outbound' = outbound /\ phase = "recv" /\ phase' = "recv"
  BY DEF RecvNow
<1>2. ScheduleInv'
  BY <1>1, DueKept DEF DueInv
<1> QED BY <1>1, <1>2 DEF DueInv, NeverEarly, HandlerInv

LEMMA DueNext == IInv /\ DueInv /\ [Next]_vars => DueInv'
<1> SUFFICES ASSUME IInv, DueInv, [Next]_vars PROVE DueInv'
  OBVIOUS
<1>1. CASE \E ms \in Steps : Tick(ms)
  BY <1>1, DueTick
<1>2. CASE loop
  BY <1>2, DueOther, DueCheckInbound, DueProcess, DueRecvNow, DueRecvDelayed, DueTransmit
  DEF loop, checkSend
<1>3. CASE Originate
  BY <1>3, DueOriginate
<1>4. CASE UNCHANGED vars
  BY <1>4, DueOther
<1> QED BY <1>1, <1>2, <1>3, <1>4 DEF Next

LEMMA Schedules == Spec => []DueInv
<1>1. Spec => [](IInv /\ DueInv)
  BY DueInit, DueNext, Invariance, PTL DEF Spec
<1> QED BY <1>1, PTL

\* A delay is never cut short: neither the send queue nor the delayed inbound
\* queue gives up a packet before its time, however often millis() wraps.
THEOREM NeverTooEarly == Spec => []NeverEarly
<1>1. DueInv => NeverEarly
  BY DEF DueInv
<1> QED BY <1>1, Schedules, PTL

-----------------------------------------------------------------------------
(***************************************************************************)
(* The order in which packets leave the send queue.                        *)
(***************************************************************************)

\* queue->add() takes nothing out of a table.
LEMMA AddedKeeps ==
  ASSUME NEW q \in Seq(Entry), NEW e \in Entry
  PROVE  Packets(q) \subseteq Packets(add(q, e))
<1>1. Range(Append(q, e)) = Range(q) \union {e}
  BY Appended
<1>2. Range(q) \subseteq Range(add(q, e))
  BY <1>1 DEF add
<1> QED BY <1>2, PacketsOf

LEMMA QueueKeeps ==
  ASSUME IInv, NEW p \in Packet, NEW priority \in Priorities, NEW delay \in TxDelays,
         queueOutbound(p, priority, delay)
  PROVE  Packets(send_queue) \subseteq Packets(send_queue')
<1> DEFINE e == [packet |-> p, priority |-> priority, scheduled_for |-> futureMillis(delay)]
<1>1. e \in Entry /\ send_queue \in Seq(Entry)
  <2>1. delay \in Int /\ priority \in 0..255
    BY DelayAssumption
  <2>2. futureMillis(delay) \in 0..WordSize - 1
    BY <2>1, Readings DEF IInv, TypeOK
  <2> QED BY <2>1, <2>2 DEF Entry, IInv, TypeOK
<1>2. send_queue' = add(send_queue, e)
  BY DEF queueOutbound
<1> HIDE DEF e
<1> QED BY <1>1, <1>2, AddedKeeps

\* Only a transmission takes a packet from the send queue.
LEMMA OthersKeep ==
  ASSUME IInv, [Next]_vars
  PROVE  \/ Packets(send_queue) \subseteq Packets(send_queue')
         \/ Eligible(send_queue) # {} /\ send_queue' = RemoveAt(send_queue, Best(send_queue))
<1>1. CASE \E p \in Packet, priority \in Priorities, delay \in TxDelays : queueOutbound(p, priority, delay)
  BY <1>1, QueueKeeps
<1>2. CASE send_queue' = send_queue
  BY <1>2 DEF Packets
<1>3. CASE \E busy \in BOOLEAN : Transmit(busy)
  BY <1>2, <1>3 DEF Transmit
<1>4. CASE processRecvPacket
  <2>1. received \subseteq Packet
    BY DEF IInv, TypeOK
  <2> QED BY <1>1, <1>2, <1>4, <2>1 DEF processRecvPacket
<1>5. CASE Originate
  <2>1. Head(unused) \in Packet
    BY <1>5, Taken DEF Originate, IInv, TypeOK
  <2> QED BY <1>1, <1>2, <1>5, <2>1 DEF Originate
<1>6. CASE \E ms \in Steps : Tick(ms)
  BY <1>2, <1>6 DEF Tick, queues
<1>7. CASE SendComplete \/ SendTimedOut \/ StillSending \/ CheckInbound
  BY <1>2, <1>7 DEF SendComplete, SendTimedOut, StillSending, CheckInbound, queues
<1>8. CASE RecvNothing \/ RecvNow \/ RecvDelayed
  BY <1>2, <1>8 DEF RecvNothing, RecvNow, RecvDelayed
<1>9. CASE NothingToSend \/ BudgetShort \/ TooEarly \/ BackOff
  BY <1>2, <1>9 DEF NothingToSend, BudgetShort, TooEarly, BackOff
<1>10. CASE UNCHANGED vars
  BY <1>2, <1>10 DEF vars, queues
<1> QED BY <1>3, <1>4, <1>5, <1>6, <1>7, <1>8, <1>9, <1>10 DEF Next, loop, checkSend

\* get() never serves a packet before one that is as urgent and was queued
\* first, nor before a more urgent one, as long as both are due.
THEOREM UrgentFirst == Spec => MostUrgentFirst
<1> DEFINE before(i, j) ==
      \/ send_queue[i].priority < send_queue[j].priority
      \/ send_queue[i].priority = send_queue[j].priority /\ i <= j
<1>1. ASSUME IInv, [Next]_vars, NEW i \in DOMAIN send_queue,
             send_queue[i].packet \notin Packets(send_queue'),
             NEW j \in DOMAIN send_queue, due(send_queue[j])
      PROVE  before(i, j)
  <2>1. send_queue \in Seq(Entry) /\ DOMAIN send_queue = 1..Len(send_queue)
    BY <1>1 DEF IInv, TypeOK
  <2>2. send_queue[i].packet \in Packets(send_queue)
    BY DEF Packets
  <2>3. Eligible(send_queue) # {} /\ send_queue' = RemoveAt(send_queue, Best(send_queue))
    <3>1. ~(Packets(send_queue) \subseteq Packets(send_queue'))
      BY <1>1, <2>2
    <3>2. IInv /\ [Next]_vars
      BY <1>1
    <3> QED BY <3>1, <3>2, OthersKeep, Zenon
  <2> DEFINE b == Best(send_queue)
  <2>4. /\ b \in Eligible(send_queue) /\ b \in 1..Len(send_queue)
        /\ \A k \in Eligible(send_queue) : before(b, k)
    BY <2>1, <2>3, BestEligible DEF Foremost
  <2> HIDE DEF b
  <2>5. i = b
    <3>1. i = b \/ send_queue[i] \in Range(RemoveAt(send_queue, b))
      BY <2>1, <2>4, Removed
    <3>2. Packets(send_queue') = {e.packet : e \in Range(RemoveAt(send_queue, b))}
      BY <2>3, PacketsOf DEF b
    <3> QED BY <1>1, <3>1, <3>2
  <2>6. CASE j \in Eligible(send_queue)
    BY <2>4, <2>5, <2>6
  <2>7. CASE j \notin Eligible(send_queue)
    <3>1. ~(send_queue[j].priority < 255)
      BY <1>1, <2>7 DEF Eligible
    <3>2. send_queue[i].priority < 255
      BY <2>4, <2>5 DEF Eligible
    <3>3. send_queue[i].priority \in 0..255 /\ send_queue[j].priority \in 0..255
      <4>1. send_queue[i] \in Entry /\ send_queue[j] \in Entry
        BY <2>1
      <4> QED BY <4>1 DEF Entry
    <3> QED BY <3>1, <3>2, <3>3
  <2> QED BY <2>6, <2>7
<1>2. IInv /\ [Next]_vars =>
        [\A i \in DOMAIN send_queue :
           send_queue[i].packet \notin Packets(send_queue') =>
             \A j \in DOMAIN send_queue : due(send_queue[j]) => before(i, j)]_vars
  BY <1>1
<1> QED BY <1>2, Invariance, PTL DEF Spec, MostUrgentFirst

=============================================================================
