----------------------------- MODULE MediumProofs -----------------------------
(***************************************************************************)
(* Theorems about module Medium: type correctness, the inductive invariant *)
(* behind the safety properties, the refinement of Ether, and the balance  *)
(* of the totals the simulator prints.                                     *)
(***************************************************************************)
EXTENDS Medium, FiniteSetTheorems, SequenceTheorems, TLAPS

active == transmissions \ finalised

\* Every recorded transmission started by now and lasts; an active one is
\* still on air, a finalised one has ended.
TimesInv ==
  /\ \A t \in log : t.started_at <= now /\ t.started_at < t.ends_at
  /\ \A t \in active : now < t.ends_at
  /\ \A t \in finalised : t.ends_at <= now

\* transmissions_ is a part of the history, and ordinals name transmissions.
LogInv ==
  /\ transmissions \subseteq log
  /\ \A t \in log : t.id <= stats.transmissions
  /\ \A t, u \in log : t.id = u.id => t = u

\* Why forgetting is harmless: what was forgotten ended before every
\* transmission still on air began.
ForgottenInv ==
  \A t \in log \ transmissions :
    t.ends_at <= now /\ \A a \in active : t.ends_at <= a.started_at

\* Verdicts are about transmissions that are no longer active.
JudgedInv == \A v \in verdicts : \E t \in log \ active : t.id = v.tx

\* A radio is sending exactly while its own transmission is on air.
RadioInv ==
  \A n \in Node :
    /\ \A a \in active : a.sender = n => transmitting_until[n] = a.ends_at
    /\ transmitting_until[n] > now => \E a \in active : a.sender = n

FiniteInv == IsFiniteSet(transmissions)

BackOffInv == \A n \in Node : cad_busy_start[n] <= now

IInv ==
  /\ TypeOK
  /\ TimesInv
  /\ LogInv
  /\ ForgottenInv
  /\ JudgedInv
  /\ RadioInv
  /\ BackOffInv
  /\ FiniteInv
  /\ VerdictsExact
  /\ KeptOnlyWhileOverlapping
  /\ InboxDrained
  /\ DeliveredWhileListening
  /\ ListenBeforeTalk

-----------------------------------------------------------------------------

\* In a set of at most one ordinal, delivery order is trivial: InOrder gives
\* the empty sequence or the sequence of the one element.
LEMMA InOrderSmall ==
  ASSUME NEW S \in SUBSET Nat, \A i, j \in S : i = j
  PROVE  /\ InOrder(S) \in Seq(Nat)
         /\ S = {} => InOrder(S) = <<>>
         /\ Len(InOrder(S)) <= 1
<1>1. CASE S = {}
  <2>1. Cardinality(S) = 0
    BY <1>1, FS_EmptySet
  <2>2. <<>> \in [1..Cardinality(S) -> S]
    BY <1>1, <2>1
  <2>3. \A i, j \in DOMAIN <<>> : i < j => <<>>[i] < <<>>[j]
    OBVIOUS
  <2>4. InOrder(S) \in [1..Cardinality(S) -> S]
    BY <2>2, <2>3 DEF InOrder
  <2>5. InOrder(S) = <<>>
    BY <1>1, <2>1, <2>4
  <2> QED BY <2>5
<1>2. CASE S # {}
  <2>1. PICK x \in S : S = {x}
    BY <1>2
  <2>2. Cardinality(S) = 1
    BY <2>1, FS_Singleton
  <2>3. [i \in 1..1 |-> x] \in [1..Cardinality(S) -> S]
    BY <2>1, <2>2
  <2>4. \A i, j \in DOMAIN [k \in 1..1 |-> x] :
          i < j => [k \in 1..1 |-> x][i] < [k \in 1..1 |-> x][j]
    OBVIOUS
  <2>5. InOrder(S) \in [1..Cardinality(S) -> S]
    BY <2>3, <2>4 DEF InOrder
  <2>6. InOrder(S) \in [1..1 -> Nat]
    BY <2>2, <2>5
  <2>7. InOrder(S) = [i \in 1..1 |-> InOrder(S)[i]] /\ \A i \in 1..1 : InOrder(S)[i] \in Nat
    BY <2>6
  <2>8. [i \in 1..1 |-> InOrder(S)[i]] \in Seq(Nat)
    BY <2>7
  <2>9. Len([i \in 1..1 |-> InOrder(S)[i]]) = 1
    OBVIOUS
  <2> QED BY <1>2, <2>7, <2>8, <2>9
<1> QED BY <1>1, <1>2

\* A nonempty sequence of at most one element has one.
LEMMA OneLong ==
  ASSUME NEW s \in Seq(Nat), s # <<>>, Len(s) <= 1
  PROVE  Len(s) = 1
<1>1. Len(s) # 0
  BY EmptySeq
<1>2. \A k \in Nat : k # 0 /\ k <= 1 => k = 1
  OBVIOUS
<1>3. Len(s) \in Nat
  BY LenProperties
<1> QED BY <1>1, <1>2, <1>3, Zenon

\* Two transmissions active at the same time overlap.
LEMMA ActiveOverlap ==
  ASSUME IInv
  PROVE  \A a, b \in active : overlapping(a, b)
<1> SUFFICES ASSUME NEW a \in active, NEW b \in active
             PROVE  a.started_at < b.ends_at
  BY DEF overlapping
<1>1. a \in log /\ a.started_at \in Nat /\ b.ends_at \in Nat /\ now \in Nat
  BY DEF IInv, TypeOK, LogInv, active, Transmission
<1> QED BY <1>1 DEF IInv, TimesInv

\* What is forgotten overlaps no active transmission, so judging against the
\* transmissions kept is judging against the whole history.
LEMMA ForgottenSpoilsNothing ==
  ASSUME IInv, NEW t \in active, NEW r \in Node, NEW o \in log, Spoils(o, t, r)
  PROVE  o \in transmissions
<1>1. t \in Transmission /\ o \in Transmission /\ overlapping(t, o)
  BY DEF IInv, TypeOK, LogInv, active, Spoils
<1>2. ~(o.ends_at <= t.started_at)
  BY <1>1 DEF overlapping, Transmission
<1> QED BY <1>2 DEF IInv, ForgottenInv

\* A delivered reception found its channel clear and its receiver listening.
LEMMA DeliveredClear ==
  ASSUME IInv, NEW time \in Nat, NEW lost, NEW n \in Node,
         NEW i \in Received(Decision(time, lost), n)
  PROVE  \E t \in Due(time) :
           /\ t.id = i
           /\ connected(t.sender, n)
           /\ receiverCompatible(t.config, config[n])
           /\ \A o \in transmissions : ~Spoils(o, t, n)
<1>1. PICK v \in Decision(time, lost) : v.receiver = n /\ v.verdict = "delivered" /\ v.tx = i
  BY DEF Received
<1>2. PICK x \in Receptions(time) :
        v = [tx |-> x[1].id, receiver |-> x[2], verdict |-> VerdictOf(x[1], x[2], lost)]
  BY <1>1 DEF Decision
<1>3. x[1] \in Due(time) /\ x[2] = n /\ connected(x[1].sender, n) /\ x[1].id = i
  BY <1>1, <1>2 DEF Receptions
<1>4. VerdictOf(x[1], n, lost) = "delivered"
  BY <1>1, <1>2, <1>3
<1>5. receiverCompatible(x[1].config, config[n]) /\ \A o \in transmissions : ~Spoils(o, x[1], n)
  BY <1>4 DEF VerdictOf
<1> QED BY <1>3, <1>5

\* At most one datagram per receiver in one advance().
LEMMA OneDelivery ==
  ASSUME IInv, NEW time \in Nat, NEW lost, NEW n \in Node
  PROVE  /\ Received(Decision(time, lost), n) \in SUBSET Nat
         /\ \A i, j \in Received(Decision(time, lost), n) : i = j
         /\ Received(Decision(time, lost), n) # {} => transmitting_until[n] <= now
<1> DEFINE R == Received(Decision(time, lost), n)
<1>0. \A t \in Due(time) : t \in active /\ t \in Transmission /\ t \in log
  BY DEF Due, active, IInv, TypeOK, LogInv
<1>1. R \in SUBSET Nat
  BY <1>0, DeliveredClear DEF Transmission
<1>2. ASSUME NEW i \in R, NEW j \in R PROVE i = j
  <2>1. PICK t \in Due(time) : /\ t.id = i
                               /\ connected(t.sender, n)
                               /\ receiverCompatible(t.config, config[n])
                               /\ \A o \in transmissions : ~Spoils(o, t, n)
    BY <1>2, DeliveredClear
  <2>2. PICK u \in Due(time) : /\ u.id = j
                               /\ connected(u.sender, n)
                               /\ receiverCompatible(u.config, config[n])
    BY <1>2, DeliveredClear
  <2>3. overlapping(t, u) /\ u \in transmissions
    BY <1>0, ActiveOverlap DEF active
  <2>4. sameChannel(t.config, u.config)
    BY <2>1, <2>2 DEF receiverCompatible, sameChannel
  <2>5. ~Spoils(u, t, n)
    BY <2>1, <2>3
  <2> QED BY <2>1, <2>2, <2>3, <2>4, <2>5 DEF Spoils
<1>3. ASSUME NEW i \in R, transmitting_until[n] > now PROVE FALSE
  <2>1. PICK t \in Due(time) : /\ t.id = i
                               /\ connected(t.sender, n)
                               /\ \A o \in transmissions : ~Spoils(o, t, n)
    BY <1>3, DeliveredClear
  <2>2. PICK a \in active : a.sender = n
    BY <1>3 DEF IInv, RadioInv
  <2>3. t.sender # n
    BY <1>0, <2>1, LinksAssumption DEF connected, Transmission
  <2>4. a.id # t.id
    BY <1>0, <2>2, <2>3 DEF IInv, LogInv, active
  <2>5. overlapping(t, a) /\ a \in transmissions
    BY <1>0, <2>2, ActiveOverlap DEF active
  <2> QED BY <2>1, <2>2, <2>4, <2>5 DEF Spoils
<1>4. R # {} => transmitting_until[n] <= now
  BY <1>3 DEF IInv, TypeOK
<1> QED BY <1>1, <1>2, <1>4

-----------------------------------------------------------------------------
(***************************************************************************)
(* Each step preserves IInv.                                               *)
(***************************************************************************)

LEMMA InitInv == Init => IInv
<1> SUFFICES ASSUME Init PROVE IInv
  OBVIOUS
<1>1. TypeOK
  BY NodeAssumption, ConfigAssumption DEF Init, TypeOK, Node, MediumStats
<1> QED
  BY <1>1, FS_EmptySet DEF Init, IInv, TypeOK, TimesInv, LogInv, ForgottenInv, JudgedInv, RadioInv, BackOffInv,
     FiniteInv, VerdictsExact, KeptOnlyWhileOverlapping, InboxDrained, DeliveredWhileListening,
     ListenBeforeTalk, active

\* The image of a finite set under a function is finite.
LEMMA ImageFinite ==
  ASSUME NEW S, NEW f, IsFiniteSet(S)
  PROVE  IsFiniteSet({f[x] : x \in S})
<1> DEFINE T == {f[x] : x \in S}
           g == [x \in S |-> f[x]]
<1>1. g \in Surjection(S, T)
  BY DEF Surjection
<1> QED BY <1>1, FS_Surjection

LEMMA DecisionType ==
  ASSUME IInv, NEW time, NEW lost
  PROVE  Decision(time, lost) \subseteq [tx : Nat, receiver : Node, verdict : Verdict]
<1> SUFFICES ASSUME NEW x \in Receptions(time)
             PROVE  x[1].id \in Nat /\ x[2] \in Node /\ VerdictOf(x[1], x[2], lost) \in Verdict
  BY DEF Decision
<1>1. x[1] \in Transmission /\ x[2] \in Node
  BY DEF Receptions, Due, IInv, TypeOK
<1>2. VerdictOf(x[1], x[2], lost) \in Verdict
  BY DEF VerdictOf, Verdict
<1> QED BY <1>1, <1>2 DEF Transmission

\* The counters are incremented by finite amounts.
LEMMA CountsFinite ==
  ASSUME IInv, NEW time, NEW lost, NEW w
  PROVE  /\ Cardinality(WithVerdict(Decision(time, lost), w)) \in Nat
         /\ Cardinality({v.tx : v \in WithVerdict(Decision(time, lost), w)}) \in Nat
<1> DEFINE D == Decision(time, lost)
           W == WithVerdict(D, w)
           f == [x \in Receptions(time) |->
                   [tx |-> x[1].id, receiver |-> x[2], verdict |-> VerdictOf(x[1], x[2], lost)]]
           g == [v \in W |-> v.tx]
<1>1. IsFiniteSet(Node)
  BY NodeAssumption, FS_Interval DEF Node
<1>2. IsFiniteSet(Due(time))
  BY FS_Subset DEF Due, IInv, FiniteInv
<1>3. IsFiniteSet(Receptions(time))
  BY <1>1, <1>2, FS_Product, FS_Subset DEF Receptions
<1>4. D = {f[x] : x \in Receptions(time)}
  BY DEF Decision
<1>5. W \subseteq D
  BY DEF WithVerdict
<1>6. {v.tx : v \in W} = {g[v] : v \in W}
  OBVIOUS
<1> HIDE DEF D, W, f, g
<1>7. IsFiniteSet(W)
  <2>1. IsFiniteSet(D)
    BY <1>3, <1>4, ImageFinite
  <2> QED BY <1>5, <2>1, FS_Subset
<1>8. IsFiniteSet({v.tx : v \in W})
  BY <1>6, <1>7, ImageFinite
<1> QED BY <1>7, <1>8, FS_CardinalityType DEF D, W

LEMMA TickType ==
  ASSUME IInv, Tick
  PROVE  TypeOK'
<1> DEFINE time == now + TickMillis
           done == finalised \union Due(time)
<1>1. PICK lost \in Draws(time) :
        /\ verdicts' = verdicts \union Decision(time, lost)
        /\ inbox' = [n \in Node |-> inbox[n] \o InOrder(Received(Decision(time, lost), n))]
        /\ stats' = Count(stats, Decision(time, lost))
  BY DEF Tick, advance
<1>2. time \in Nat /\ now' = time
  BY TimeAssumption DEF IInv, TypeOK, Tick
<1>3. transmissions' \subseteq transmissions /\ finalised' \subseteq transmissions'
  BY DEF Tick, advance, Due, IInv, TypeOK
<1>4. Decision(time, lost) \subseteq [tx : Nat, receiver : Node, verdict : Verdict]
  BY DecisionType
<1>5. inbox' \in [Node -> Seq(Nat)]
  <2>1. ASSUME NEW n \in Node
        PROVE  inbox[n] \o InOrder(Received(Decision(time, lost), n)) \in Seq(Nat)
    <3>1. InOrder(Received(Decision(time, lost), n)) \in Seq(Nat)
      BY <1>2, OneDelivery, InOrderSmall
    <3> QED BY <3>1, ConcatProperties DEF IInv, TypeOK
  <2> QED BY <1>1, <2>1
<1>6. stats' \in MediumStats
  <2> DEFINE D == Decision(time, lost)
  <2>1. stats \in MediumStats /\ stats' = Count(stats, D)
    BY <1>1 DEF IInv, TypeOK
  <2>2. /\ Cardinality(WithVerdict(D, "delivered")) \in Nat
        /\ Cardinality(WithVerdict(D, "collision")) \in Nat
        /\ Cardinality(WithVerdict(D, "incompatible")) \in Nat
        /\ Cardinality(WithVerdict(D, "interference")) \in Nat
        /\ Cardinality({v.tx : v \in WithVerdict(D, "collision")}) \in Nat
    BY CountsFinite, Zenon
  <2> HIDE DEF D
  <2>3. Count(stats, D) \in MediumStats
    BY <2>1, <2>2 DEF Count, MediumStats
  <2> QED BY <2>1, <2>3
<1>7. turn' \in 1..NodeCount + 1
  BY NodeAssumption DEF Tick
<1> QED
  BY <1>1, <1>2, <1>3, <1>4, <1>5, <1>6, <1>7 DEF IInv, TypeOK, Tick

LEMMA TickInv ==
  ASSUME IInv, Tick
  PROVE  IInv'
<1> DEFINE time == now + TickMillis
           done == finalised \union Due(time)
           act == transmissions \ done
<1>1. PICK lost \in Draws(time) :
        /\ verdicts' = verdicts \union Decision(time, lost)
        /\ inbox' = [n \in Node |-> inbox[n] \o InOrder(Received(Decision(time, lost), n))]
  BY DEF Tick, advance
<1>2. /\ now \in Nat /\ time \in Nat /\ now < time /\ now' = time
      /\ transmissions' = act \union {t \in done : ~Forgettable(t, act)}
      /\ finalised' = {t \in done : ~Forgettable(t, act)}
      /\ log' = log /\ config' = config /\ transmitting_until' = transmitting_until
      /\ cad_busy_start' = cad_busy_start
      /\ turn = NodeCount + 1 /\ turn' = 1
      /\ stats'.transmissions = stats.transmissions
  BY TimeAssumption DEF Tick, advance, IInv, TypeOK, Count
<1>3. /\ log \subseteq Transmission /\ transmissions \subseteq log /\ finalised \subseteq transmissions
      /\ done \subseteq transmissions /\ act \subseteq active
      /\ \A t \in act : t.ends_at > time
      /\ \A t \in done : t.ends_at <= time
      /\ \A t \in log : t.id \in Nat /\ t.sender \in Node /\ t.started_at \in Nat /\ t.ends_at \in Nat
  BY <1>2 DEF IInv, TypeOK, LogInv, TimesInv, Due, active, Transmission
<1>4. active' = act
  BY <1>2, <1>3 DEF active
<1> HIDE DEF act, done, time
<1>5. TypeOK'
  BY TickType
<1>6. TimesInv'
  BY <1>2, <1>3, <1>4 DEF IInv, TimesInv
<1>7. LogInv'
  BY <1>2, <1>3 DEF IInv, LogInv, act
<1>8. ForgottenInv'
  <2>1. ASSUME NEW t \in log, t \notin transmissions'
        PROVE  t.ends_at <= time /\ \A a \in act : t.ends_at <= a.started_at
    <3>1. CASE t \in transmissions
      BY <1>2, <1>3, <2>1, <3>1 DEF act, Forgettable
    <3>2. CASE t \notin transmissions
      BY <1>2, <1>3, <2>1, <3>2 DEF IInv, ForgottenInv
    <3> QED BY <3>1, <3>2
  <2> QED BY <1>2, <1>4, <2>1 DEF ForgottenInv
<1>9. JudgedInv'
  <2>1. ASSUME NEW v \in Decision(time, lost)
        PROVE  \E t \in log \ act : t.id = v.tx
    BY <1>3 DEF Decision, Receptions, done, act
  <2>2. ASSUME NEW v \in verdicts
        PROVE  \E t \in log \ act : t.id = v.tx
    BY <1>3, <2>2 DEF IInv, JudgedInv
  <2> QED BY <1>1, <1>2, <1>4, <2>1, <2>2 DEF JudgedInv
<1>10. RadioInv'
  <2> SUFFICES ASSUME NEW n \in Node
               PROVE  /\ \A a \in act : a.sender = n => transmitting_until[n] = a.ends_at
                      /\ transmitting_until[n] > time => \E a \in act : a.sender = n
    BY <1>2, <1>4 DEF RadioInv
  <2>1. \A a \in act : a.sender = n => transmitting_until[n] = a.ends_at
    BY <1>3 DEF IInv, RadioInv
  <2>2. ASSUME transmitting_until[n] > time PROVE \E a \in act : a.sender = n
    <3>1. transmitting_until[n] > now
      BY <1>2, <2>2 DEF IInv, TypeOK
    <3>2. PICK a \in active : a.sender = n /\ transmitting_until[n] = a.ends_at
      BY <3>1 DEF IInv, RadioInv
    <3>3. a \in act
      BY <1>2, <1>3, <2>2, <3>2 DEF act, active
    <3> QED BY <3>2, <3>3
  <2> QED BY <2>1, <2>2
<1>11. BackOffInv'
  BY <1>2 DEF IInv, TypeOK, BackOffInv
<1>12. FiniteInv'
  BY <1>2, <1>3, FS_Subset DEF IInv, FiniteInv, act
<1>13. VerdictsExact'
  <2>1. ASSUME NEW v \in Decision(time, lost), NEW t \in log, v.tx = t.id
        PROVE  /\ v.verdict = "collision" => \E o \in log : Spoils(o, t, v.receiver)
               /\ v.verdict \in {"delivered", "interference"} =>
                    ~ \E o \in log : Spoils(o, t, v.receiver)
    <3>1. PICK x \in Receptions(time) :
            v = [tx |-> x[1].id, receiver |-> x[2], verdict |-> VerdictOf(x[1], x[2], lost)]
      BY DEF Decision
    <3>2. x[1] \in active /\ x[1] \in log /\ x[2] \in Node
      BY <1>3 DEF Receptions, Due, active
    <3>3. x[1] = t
      BY <2>1, <3>1, <3>2 DEF IInv, LogInv
    <3>4. v.receiver = x[2] /\ v.verdict = VerdictOf(t, x[2], lost)
      BY <3>1, <3>3
    <3>5. v.verdict = "collision" => \E o \in transmissions : Spoils(o, t, x[2])
      BY <3>4 DEF VerdictOf
    <3>6. v.verdict \in {"delivered", "interference"} =>
            ~ \E o \in transmissions : Spoils(o, t, x[2])
      BY <3>4 DEF VerdictOf
    <3>7. \A o \in log : Spoils(o, t, x[2]) => o \in transmissions
      BY <3>2, <3>3, ForgottenSpoilsNothing
    <3> QED BY <1>3, <3>4, <3>5, <3>6, <3>7
  <2> QED BY <1>1, <1>2, <2>1 DEF IInv, VerdictsExact
<1>14. KeptOnlyWhileOverlapping'
  <2>1. ASSUME NEW t \in finalised' PROVE \E a \in act : overlapping(t, a)
    <3>1. PICK a \in act : ~(t.ends_at <= a.started_at)
      BY <1>2, <2>1 DEF Forgettable
    <3>2. t \in log /\ a \in log /\ a \in active
      BY <1>2, <1>3, <2>1 DEF active
    <3>3. /\ t.started_at \in Nat /\ t.ends_at \in Nat
          /\ a.started_at \in Nat /\ a.ends_at \in Nat
      BY <1>3, <3>2
    <3>4. t.started_at <= now /\ now < a.ends_at
      BY <3>2 DEF IInv, TimesInv
    <3>5. a.started_at < t.ends_at /\ t.started_at < a.ends_at
      BY <1>2, <3>1, <3>3, <3>4
    <3> QED BY <3>5 DEF overlapping
  <2> QED BY <1>4, <2>1 DEF KeptOnlyWhileOverlapping, active
<1>15. \A n \in Node : inbox'[n] # <<>> =>
         Len(inbox'[n]) = 1 /\ transmitting_until[n] <= now
  <2> SUFFICES ASSUME NEW n \in Node, inbox'[n] # <<>>
               PROVE  Len(inbox'[n]) = 1 /\ transmitting_until[n] <= now
    OBVIOUS
  <2> DEFINE R == Received(Decision(time, lost), n)
  <2>1. inbox[n] = <<>>
    BY <1>2, NodeAssumption DEF IInv, TypeOK, InboxDrained, Node
  <2>2. InOrder(R) \in Seq(Nat) /\ Len(InOrder(R)) <= 1 /\ (R = {} => InOrder(R) = <<>>)
    BY <1>2, OneDelivery, InOrderSmall
  <2> HIDE DEF R
  <2>3. inbox'[n] = InOrder(R)
    BY <1>1, <2>1, <2>2, ConcatEmptySeq DEF R
  <2>4. InOrder(R) # <<>> /\ R # {}
    BY <2>2, <2>3
  <2>6. Len(InOrder(R)) = 1
    BY <2>2, <2>4, OneLong
  <2>5. transmitting_until[n] <= now
    BY <1>2, <2>4, OneDelivery DEF R
  <2> QED BY <2>3, <2>5, <2>6
<1>16. InboxDrained'
  BY <1>2, <1>15 DEF InboxDrained, Node
<1>17. DeliveredWhileListening'
  BY <1>2, <1>15 DEF IInv, TypeOK, DeliveredWhileListening, isInRecvMode
<1>18. ListenBeforeTalk'
  BY <1>2 DEF IInv, ListenBeforeTalk
<1> QED
  BY <1>5, <1>6, <1>7, <1>8, <1>9, <1>10, <1>11, <1>12, <1>13, <1>14, <1>16, <1>17, <1>18
     DEF IInv

\* A step of node n's loop that starts no send: it leaves the medium alone,
\* reads at most one datagram and moves on to the next node.
Quiet(n) ==
  /\ turn = n /\ turn' = n + 1
  /\ UNCHANGED <<now, config, mediumVars, historyVars>>
  /\ \/ UNCHANGED <<transmitting_until, inbox>> /\ transmitting_until[n] > now
     \/ /\ FinishAndReceive(n)
        /\ transmitting_until' = [transmitting_until EXCEPT ![n] = 0]
  /\ cad_busy_start' \in [Node -> Nat]
  /\ \A m \in Node : cad_busy_start'[m] <= now
  /\ retunes' \in Nat

LEMMA LoopsAreQuiet ==
  ASSUME IInv, NEW n \in Node, StillSending(n) \/ LoopIdle(n) \/ LoopBackOff(n)
  PROVE  Quiet(n)
<1>1. CASE StillSending(n)
  BY <1>1 DEF StillSending, isSendComplete, Quiet, radioVars, IInv, TypeOK, BackOffInv
<1>2. CASE LoopIdle(n)
  BY <1>2 DEF LoopIdle, FinishAndReceive, Quiet, IInv, TypeOK, BackOffInv
<1>3. CASE LoopBackOff(n)
  BY <1>3 DEF LoopBackOff, FinishAndReceive, CadStart, Quiet, IInv, TypeOK, BackOffInv
<1> QED BY <1>1, <1>2, <1>3

\* Reading leaves the inbox of the node whose turn it is empty.
LEMMA ReadingDrains ==
  ASSUME IInv, NEW n \in Node, turn = n, FinishAndReceive(n)
  PROVE  /\ inbox'[n] = <<>>
         /\ inbox' = [inbox EXCEPT ![n] = <<>>]
         /\ inbox' \in [Node -> Seq(Nat)]
<1>1. inbox \in [Node -> Seq(Nat)] /\ inbox[n] \in Seq(Nat)
  BY DEF IInv, TypeOK
<1>2. CASE inbox[n] = <<>>
  BY <1>1, <1>2, EmptySeq DEF FinishAndReceive
<1>3. CASE inbox[n] # <<>>
  <2>1. Len(inbox[n]) = 1
    BY <1>3 DEF IInv, InboxDrained
  <2>2. Tail(inbox[n]) \in Seq(Nat) /\ Len(Tail(inbox[n])) = 0
    BY <1>1, <1>3, <2>1, HeadTailProperties
  <2>3. Tail(inbox[n]) = <<>>
    BY <2>2, EmptySeq
  <2> QED BY <1>1, <1>3, <2>2, <2>3 DEF FinishAndReceive
<1> QED BY <1>2, <1>3

LEMMA QuietInv ==
  ASSUME IInv, NEW n \in Node, Quiet(n)
  PROVE  IInv'
<1>1. /\ now' = now /\ config' = config /\ log' = log /\ verdicts' = verdicts
      /\ transmissions' = transmissions /\ finalised' = finalised /\ stats' = stats
      /\ turn = n /\ turn' = n + 1 /\ n \in 1..NodeCount /\ now \in Nat
      /\ active' = active
  BY DEF Quiet, mediumVars, historyVars, Node, active, IInv, TypeOK
<1>2. /\ inbox' \in [Node -> Seq(Nat)]
      /\ \A m \in Node : inbox'[m] # <<>> => inbox'[m] = inbox[m] /\ (m = n => transmitting_until[n] > now)
      /\ transmitting_until' \in [Node -> Nat]
      /\ \A m \in Node : \/ transmitting_until'[m] = transmitting_until[m]
                         \/ m = n /\ transmitting_until[n] <= now /\ transmitting_until'[n] = 0
  <2>1. CASE UNCHANGED <<transmitting_until, inbox>> /\ transmitting_until[n] > now
    BY <2>1 DEF IInv, TypeOK
  <2>2. CASE FinishAndReceive(n) /\ transmitting_until' = [transmitting_until EXCEPT ![n] = 0]
    <3>1. inbox' = [inbox EXCEPT ![n] = <<>>] /\ inbox' \in [Node -> Seq(Nat)]
      BY <1>1, <2>2, ReadingDrains
    <3>2. transmitting_until[n] <= now
      BY <1>1, <2>2 DEF FinishAndReceive, isSendComplete, IInv, TypeOK
    <3> QED BY <2>2, <3>1, <3>2 DEF IInv, TypeOK
  <2> QED BY <2>1, <2>2 DEF Quiet
<1>3. TypeOK'
  BY <1>1, <1>2, NodeAssumption DEF IInv, TypeOK, Quiet
<1>4. /\ TimesInv' /\ LogInv' /\ ForgottenInv' /\ JudgedInv' /\ FiniteInv'
      /\ VerdictsExact' /\ KeptOnlyWhileOverlapping' /\ ListenBeforeTalk' /\ BackOffInv'
  BY <1>1 DEF IInv, TimesInv, LogInv, ForgottenInv, JudgedInv, FiniteInv, VerdictsExact,
     KeptOnlyWhileOverlapping, ListenBeforeTalk, BackOffInv, Quiet
<1>5. RadioInv'
  <2> SUFFICES ASSUME NEW m \in Node
               PROVE  /\ \A a \in active : a.sender = m => transmitting_until'[m] = a.ends_at
                      /\ transmitting_until'[m] > now => \E a \in active : a.sender = m
    BY <1>1 DEF RadioInv
  <2>1. CASE transmitting_until'[m] = transmitting_until[m]
    BY <2>1 DEF IInv, RadioInv
  <2>2. CASE m = n /\ transmitting_until[n] <= now /\ transmitting_until'[n] = 0
    <3>1. \A a \in active : a.sender # n
      BY <1>1, <2>2 DEF IInv, RadioInv, TimesInv, TypeOK, active, Transmission
    <3> QED BY <1>1, <2>2, <3>1
  <2> QED BY <1>2, <2>1, <2>2
<1>6. InboxDrained' /\ DeliveredWhileListening'
  <2> SUFFICES ASSUME NEW m \in Node, inbox'[m] # <<>>
               PROVE  turn' <= m /\ Len(inbox'[m]) = 1 /\ isInRecvMode(m)'
    BY DEF InboxDrained, DeliveredWhileListening
  <2>1. inbox'[m] = inbox[m] /\ turn <= m /\ Len(inbox[m]) = 1 /\ isInRecvMode(m)
    BY <1>2 DEF IInv, InboxDrained, DeliveredWhileListening
  <2>2. m # n
    BY <1>1, <1>2, <2>1 DEF isInRecvMode, IInv, TypeOK
  <2>3. turn' <= m
    BY <1>1, <2>1, <2>2 DEF Node
  <2>4. transmitting_until'[m] = transmitting_until[m]
    BY <1>2, <2>2
  <2>5. isInRecvMode(m)'
    BY <1>1, <2>1, <2>4 DEF isInRecvMode
  <2> QED BY <2>1, <2>3, <2>5
<1> QED
  BY <1>3, <1>4, <1>5, <1>6 DEF IInv

\* Starting a send: the new transmission is the youngest, so nothing already
\* decided can overlap it, and it starts over one it can hear only after the
\* back-off has run out.
LEMMA SendInv ==
  ASSUME IInv, NEW n \in Node, LoopSend(n)
  PROVE  IInv'
<1>1. PICK airtime \in Airtimes : transmit(n, airtime)
  BY DEF LoopSend
<1> DEFINE t0 == [id |-> stats.transmissions + 1, sender |-> n, started_at |-> now,
                  ends_at |-> now + airtime, config |-> config[n],
                  observable |-> {r \in outgoing(n) : receiverCompatible(config[n], config[r])},
                  waited |-> IF cad_busy_start[n] = 0 THEN 0 ELSE now - cad_busy_start[n]]
<1>2. /\ now \in Nat /\ stats \in MediumStats /\ stats.transmissions \in Nat
      /\ airtime \in Nat \ {0} /\ turn = n /\ n \in 1..NodeCount
      /\ config \in [Node -> Config] /\ transmitting_until \in [Node -> Nat]
      /\ cad_busy_start \in [Node -> Nat] /\ cad_busy_start[n] <= now
      /\ CadMax \in Nat
  BY TimeAssumption DEF IInv, TypeOK, BackOffInv, MediumStats, LoopSend, FinishAndReceive, Node
<1>3. /\ t0 \in Transmission
      /\ t0.id = stats.transmissions + 1 /\ t0.sender = n /\ t0.started_at = now
      /\ t0.ends_at = now + airtime /\ t0.config = config[n]
      /\ t0.waited = IF cad_busy_start[n] = 0 THEN 0 ELSE now - cad_busy_start[n]
  BY <1>2 DEF Transmission, outgoing
<1>4. /\ transmissions' = transmissions \union {t0} /\ log' = log \union {t0}
      /\ stats' = [stats EXCEPT !.transmissions = @ + 1]
      /\ transmitting_until' = [transmitting_until EXCEPT ![n] = t0.ends_at]
  BY <1>1 DEF transmit
<1> HIDE DEF t0
<1>5. /\ now' = now /\ config' = config /\ finalised' = finalised /\ verdicts' = verdicts
      /\ turn' = n + 1 /\ cad_busy_start' = [cad_busy_start EXCEPT ![n] = 0]
      /\ retunes' = retunes
      /\ transmitting_until[n] <= now
      /\ isReceiving(n) => now - CadStart(n) > CadMax
  BY <1>2 DEF LoopSend, FinishAndReceive, isSendComplete
<1>6. /\ inbox'[n] = <<>> /\ inbox' = [inbox EXCEPT ![n] = <<>>]
      /\ inbox' \in [Node -> Seq(Nat)]
  BY <1>2, ReadingDrains DEF LoopSend
<1>7. /\ log \subseteq Transmission /\ transmissions \subseteq log
      /\ finalised \subseteq transmissions /\ active \subseteq log
      /\ \A t \in log : t.id # t0.id
  BY <1>2, <1>3 DEF IInv, TypeOK, LogInv, active, Transmission
<1>8. active' = active \union {t0}
  BY <1>4, <1>5, <1>7 DEF active
<1>9. \A t \in log : t.started_at \in Nat /\ t.ends_at \in Nat /\ t.id \in Nat
  BY <1>7 DEF Transmission
<1>10. \A t \in log \ active : t.ends_at <= now
  BY DEF IInv, TimesInv, ForgottenInv, active
<1>11. TypeOK'
  <2>1. stats' \in MediumStats
    BY <1>2, <1>4 DEF MediumStats
  <2>2. transmitting_until' \in [Node -> Nat] /\ cad_busy_start' \in [Node -> Nat]
    BY <1>2, <1>3, <1>4, <1>5
  <2>3. turn' \in 1..NodeCount + 1
    BY <1>2, <1>5, NodeAssumption
  <2> QED BY <1>3, <1>4, <1>5, <1>6, <2>1, <2>2, <2>3 DEF IInv, TypeOK
<1>12. TimesInv'
  BY <1>2, <1>3, <1>4, <1>5, <1>8 DEF IInv, TimesInv
<1>13. LogInv'
  <2>1. stats'.transmissions = stats.transmissions + 1
    BY <1>2, <1>4 DEF MediumStats
  <2> QED BY <1>2, <1>3, <1>4, <1>7, <1>9, <2>1 DEF IInv, LogInv
<1>14. ForgottenInv'
  <2>1. log' \ transmissions' \subseteq log \ transmissions
    BY <1>4
  <2> QED BY <1>3, <1>5, <1>8, <2>1 DEF IInv, ForgottenInv
<1>15. JudgedInv'
  BY <1>4, <1>5, <1>7, <1>8 DEF IInv, JudgedInv
<1>16. RadioInv'
  <2> SUFFICES ASSUME NEW m \in Node
               PROVE  /\ \A a \in active' : a.sender = m => transmitting_until'[m] = a.ends_at
                      /\ transmitting_until'[m] > now => \E a \in active' : a.sender = m
    BY <1>5 DEF RadioInv
  <2>1. \A a \in active : a.sender # n
    BY <1>2, <1>5, <1>7, <1>9 DEF IInv, RadioInv, TimesInv
  <2>2. CASE m = n
    BY <1>2, <1>3, <1>4, <1>8, <2>1, <2>2
  <2>3. CASE m # n
    <3>1. transmitting_until'[m] = transmitting_until[m]
      BY <1>2, <1>4, <2>3
    <3> QED BY <1>3, <1>8, <2>3, <3>1 DEF IInv, RadioInv
  <2> QED BY <2>2, <2>3
<1>17. BackOffInv' /\ FiniteInv'
  BY <1>2, <1>4, <1>5, FS_AddElement DEF IInv, BackOffInv, FiniteInv
<1>18. VerdictsExact'
  <2> SUFFICES ASSUME NEW v \in verdicts, NEW t \in log', v.tx = t.id
               PROVE  /\ v.verdict = "collision" => \E o \in log' : Spoils(o, t, v.receiver)
                      /\ v.verdict \in {"delivered", "interference"} =>
                           ~ \E o \in log' : Spoils(o, t, v.receiver)
    BY <1>5 DEF VerdictsExact
  <2>1. PICK u \in log \ active : u.id = v.tx
    BY DEF IInv, JudgedInv
  <2>2. t = u
    BY <1>4, <1>7, <2>1 DEF IInv, LogInv
  <2>3. ~Spoils(t0, t, v.receiver)
    BY <1>2, <1>3, <1>9, <1>10, <2>1, <2>2 DEF Spoils, overlapping
  <2> QED BY <1>4, <2>1, <2>2, <2>3 DEF IInv, VerdictsExact
<1>19. KeptOnlyWhileOverlapping'
  BY <1>4, <1>5, <1>8 DEF IInv, KeptOnlyWhileOverlapping, active
<1>20. InboxDrained' /\ DeliveredWhileListening'
  <2> SUFFICES ASSUME NEW m \in Node, inbox'[m] # <<>>
               PROVE  turn' <= m /\ Len(inbox'[m]) = 1 /\ isInRecvMode(m)'
    BY DEF InboxDrained, DeliveredWhileListening
  <2>1. m # n
    BY <1>6
  <2>2. inbox'[m] = inbox[m] /\ transmitting_until'[m] = transmitting_until[m]
    BY <1>2, <1>4, <1>6, <2>1 DEF IInv, TypeOK
  <2>3. turn <= m /\ Len(inbox[m]) = 1 /\ isInRecvMode(m)
    BY <2>2 DEF IInv, InboxDrained, DeliveredWhileListening
  <2> QED BY <1>2, <1>5, <2>1, <2>2, <2>3 DEF Node, isInRecvMode
<1>21. ListenBeforeTalk'
  <2> SUFFICES ASSUME NEW a \in log', NEW b \in log',
                      overlapping(a, b), a.started_at < b.started_at,
                      connected(a.sender, b.sender), sameChannel(a.config, b.config)
               PROVE  b.waited > CadMax
    BY DEF ListenBeforeTalk
  <2>1. CASE a \in log /\ b \in log
    BY <2>1 DEF IInv, ListenBeforeTalk
  <2>2. CASE a = t0
    BY <1>2, <1>3, <1>4, <1>9, <2>2 DEF IInv, TimesInv
  <2>3. CASE a \in log /\ b = t0
    <3>1. a \in active
      BY <1>2, <1>3, <1>9, <1>10, <2>3 DEF overlapping
    <3>2. a.sender # n
      BY <1>3, <2>3, LinksAssumption DEF connected
    <3>3. channelBusy(n)
      BY <1>3, <2>3, <3>1, <3>2 DEF channelBusy, active
    <3>4. now - CadStart(n) > CadMax
      BY <1>5, <3>3 DEF isReceiving
    <3>5. cad_busy_start[n] # 0
      BY <1>2, <3>4 DEF CadStart
    <3> QED BY <1>2, <1>3, <2>3, <3>4, <3>5 DEF CadStart
  <2> QED BY <1>4, <2>1, <2>2, <2>3
<1> QED
  BY <1>11, <1>12, <1>13, <1>14, <1>15, <1>16, <1>17, <1>18, <1>19, <1>20, <1>21 DEF IInv

\* Retuning a radio changes only its configuration; what is already on air
\* keeps the configuration it was sent with.
LEMMA RetuneInv ==
  ASSUME IInv, NEW n \in Node, setParams(n)
  PROVE  IInv'
<1>1. /\ now' = now /\ turn' = turn /\ log' = log /\ verdicts' = verdicts
      /\ transmissions' = transmissions /\ finalised' = finalised /\ stats' = stats
      /\ inbox' = inbox /\ cad_busy_start' = cad_busy_start
      /\ transmitting_until' = transmitting_until /\ retunes' = retunes + 1
      /\ active' = active
  BY DEF setParams, mediumVars, historyVars, active
<1>4. PICK c \in Channel, r \in CodingRate :
        config' = [config EXCEPT ![n].channel = c, ![n].rate = r]
  BY DEF setParams
<1>5. config \in [Node -> Config]
  BY DEF IInv, TypeOK
<1>2. config' \in [Node -> Config]
  BY <1>4, <1>5 DEF Config
<1>3. TypeOK'
  BY <1>1, <1>2 DEF IInv, TypeOK
<1> QED
  BY <1>1, <1>3 DEF IInv, TimesInv, LogInv, ForgottenInv, JudgedInv, RadioInv, BackOffInv,
     FiniteInv, VerdictsExact, KeptOnlyWhileOverlapping, InboxDrained, DeliveredWhileListening,
     isInRecvMode, ListenBeforeTalk

LEMMA StepInv ==
  ASSUME IInv, [Next]_vars
  PROVE  IInv'
<1>1. CASE Tick
  BY <1>1, TickInv
<1>2. ASSUME NEW n \in Node, loop(n) PROVE IInv'
  BY <1>2, LoopsAreQuiet, QuietInv, SendInv DEF loop
<1>3. ASSUME NEW n \in Node, setParams(n) PROVE IInv'
  BY <1>3, RetuneInv
<1>4. CASE UNCHANGED vars
  <2>1. /\ now' = now /\ turn' = turn /\ log' = log /\ verdicts' = verdicts
        /\ transmissions' = transmissions /\ finalised' = finalised /\ stats' = stats
        /\ inbox' = inbox /\ cad_busy_start' = cad_busy_start /\ config' = config
        /\ transmitting_until' = transmitting_until /\ retunes' = retunes
        /\ active' = active
    BY <1>4 DEF vars, radioVars, mediumVars, historyVars, active
  <2> QED
    BY <2>1 DEF IInv, TypeOK, TimesInv, LogInv, ForgottenInv, JudgedInv, RadioInv, BackOffInv,
       FiniteInv, VerdictsExact, KeptOnlyWhileOverlapping, InboxDrained,
       DeliveredWhileListening, isInRecvMode, ListenBeforeTalk
<1> QED BY <1>1, <1>2, <1>3, <1>4 DEF Next

-----------------------------------------------------------------------------
(***************************************************************************)
(* The theorems.                                                           *)
(***************************************************************************)

THEOREM Invariance == Spec => []IInv
<1>1. Init => IInv
  BY InitInv
<1>2. IInv /\ [Next]_vars => IInv'
  BY StepInv
<1> QED BY <1>1, <1>2, PTL DEF Spec

\* Every variable of the medium and its radios keeps its type, whatever the
\* topology, the airtimes, the tick and the back-off.
THEOREM TypeCorrect == Spec => []TypeOK
<1>1. IInv => TypeOK
  BY DEF IInv
<1> QED BY <1>1, Invariance, PTL

\* Forgetting finalised transmissions never changes a verdict (advance()).
THEOREM VerdictsAreExact == Spec => []VerdictsExact
<1>1. IInv => VerdictsExact
  BY DEF IInv
<1> QED BY <1>1, Invariance, PTL

\* A completed transmission is kept only while it overlaps an active one.
THEOREM MemoryIsBounded == Spec => []KeptOnlyWhileOverlapping
<1>1. IInv => KeptOnlyWhileOverlapping
  BY DEF IInv
<1> QED BY <1>1, Invariance, PTL

\* One datagram at a time: an inbox_ never outlives its node's turn.
THEOREM InboxIsDrained == Spec => []InboxDrained
<1>1. IInv => InboxDrained
  BY DEF IInv
<1> QED BY <1>1, Invariance, PTL

\* No datagram reaches a radio that is still sending.
THEOREM HalfDuplex == Spec => []DeliveredWhileListening
<1>1. IInv => DeliveredWhileListening
  BY DEF IInv
<1> QED BY <1>1, Invariance, PTL

\* A node talks over one it hears only after backing off longer than CadMax.
THEOREM TalksAfterListening == Spec => []ListenBeforeTalk
<1>1. IInv => ListenBeforeTalk
  BY DEF IInv
<1> QED BY <1>1, Invariance, PTL

\* The initial state of the medium is one of Ether's.
LEMMA AirInit == Init => Air!Init
BY ConfigAssumption DEF Init, Air!Init

\* A tick judges, against the whole history, exactly what has just ended.
LEMMA TickPasses ==
  ASSUME IInv, Tick
  PROVE  Air!Pass
<1> DEFINE time == now + TickMillis
<1>1. PICK lost \in Draws(time) : verdicts' = verdicts \union Decision(time, lost)
  BY DEF Tick, advance
<1>2. now' = time /\ time > now /\ time \in Nat /\ config' = config /\ log' = log
  BY TimeAssumption DEF Tick, IInv, TypeOK
<1>3. \A t \in log : (t.ends_at > now /\ t.ends_at <= time) <=> t \in Due(time)
  <2> SUFFICES ASSUME NEW t \in log
               PROVE  (t.ends_at > now /\ t.ends_at <= time) <=> t \in Due(time)
    OBVIOUS
  <2>1. t.ends_at \in Nat /\ now \in Nat
    BY DEF IInv, TypeOK, Transmission
  <2>2. t \in active <=> t.ends_at > now
    BY <2>1 DEF IInv, TimesInv, ForgottenInv, active
  <2> QED BY <2>2 DEF Due, active
<1>4. Due(time) \subseteq active /\ Due(time) \subseteq log
  BY DEF Due, active, IInv, LogInv
<1> HIDE DEF time
<1>5. ASSUME NEW v \in Decision(time, lost)
      PROVE  \E t \in log : /\ t.id = v.tx /\ t.ends_at > now /\ t.ends_at <= time
                            /\ connected(t.sender, v.receiver)
                            /\ v.verdict \in Air!Possible(t, v.receiver)
  <2>1. PICK x \in Receptions(time) :
          v = [tx |-> x[1].id, receiver |-> x[2], verdict |-> VerdictOf(x[1], x[2], lost)]
    BY DEF Decision
  <2>2. /\ x[1] \in Due(time) /\ x[2] \in Node /\ connected(x[1].sender, x[2])
        /\ v.tx = x[1].id /\ v.receiver = x[2] /\ v.verdict = VerdictOf(x[1], x[2], lost)
    BY <2>1 DEF Receptions
  <2>3. (\E o \in log : Spoils(o, x[1], x[2])) <=> (\E o \in transmissions : Spoils(o, x[1], x[2]))
    <3>1. \A o \in log : Spoils(o, x[1], x[2]) => o \in transmissions
      BY <1>4, <2>2, ForgottenSpoilsNothing
    <3> QED BY <3>1 DEF IInv, LogInv
  <2>4. v.verdict \in Air!Possible(x[1], x[2])
    BY <2>2, <2>3 DEF Air!Possible, VerdictOf
  <2> QED BY <1>3, <1>4, <2>2, <2>4
<1>6. ASSUME NEW t \in log, NEW r \in Node, t.ends_at > now, t.ends_at <= time,
             connected(t.sender, r)
      PROVE  \E v \in Decision(time, lost) : v.tx = t.id /\ v.receiver = r
  <2>1. <<t, r>> \in Receptions(time)
    BY <1>3, <1>6 DEF Receptions
  <2>2. [tx |-> t.id, receiver |-> r, verdict |-> VerdictOf(t, r, lost)] \in Decision(time, lost)
    BY <2>1 DEF Decision
  <2> QED BY <2>2
<1> QED
  BY <1>1, <1>2, <1>5, <1>6 DEF Air!Pass

\* A send of the node is a send of the ether.
LEMMA SendSends ==
  ASSUME IInv, NEW n \in Node, LoopSend(n)
  PROVE  Air!Send
<1>1. PICK airtime \in Airtimes : transmit(n, airtime)
  BY DEF LoopSend
<1>2. /\ now \in Nat /\ airtime \in Nat \ {0} /\ now' = now /\ config' = config
      /\ verdicts' = verdicts
  BY TimeAssumption DEF IInv, TypeOK, LoopSend
<1>3. LogInv' /\ TypeOK'
  BY SendInv DEF IInv
<1>4. \A t, u \in log' : t.id = u.id => t = u
  BY <1>3 DEF LogInv
<1>5. \A t \in log' \ log : /\ t.started_at = now /\ t.ends_at > now
                            /\ t.config = config[t.sender] /\ t \in Transmission
  <2>1. \A t \in log' \ log : t \in Transmission
    BY <1>3 DEF TypeOK
  <2> QED BY <1>1, <1>2, <2>1 DEF transmit
<1>6. log \subseteq log'
  BY <1>1 DEF transmit
<1> QED BY <1>2, <1>4, <1>5, <1>6 DEF Air!Send

LEMMA RetuneRetunes ==
  ASSUME IInv, NEW n \in Node, setParams(n)
  PROVE  Air!Retune(n)
<1>1. TypeOK'
  BY RetuneInv DEF IInv
<1>2. config \in [Node -> Config] /\ config' \in [Node -> Config]
  BY <1>1 DEF IInv, TypeOK
<1>3. \A m \in Node \ {n} : config'[m] = config[m]
  BY <1>2 DEF setParams
<1> QED BY <1>2, <1>3 DEF Air!Retune, setParams, historyVars

\* The run loop, the pruned transmissions_ and the half-duplex radios together
\* implement Ether, in which each transmission is judged once per link against
\* everything that was ever on the air.
THEOREM Refinement == Spec => ImplementsEther
<1>1. Init => Air!Init
  BY AirInit
<1>2. IInv /\ [Next]_vars => [Air!Next]_Air!vars
  <2> SUFFICES ASSUME IInv, [Next]_vars PROVE [Air!Next]_Air!vars
    OBVIOUS
  <2>1. CASE Tick
    BY <2>1, TickPasses DEF Air!Next
  <2>2. ASSUME NEW n \in Node, loop(n) PROVE [Air!Next]_Air!vars
    <3>1. CASE LoopSend(n)
      BY <3>1, SendSends DEF Air!Next
    <3>2. CASE ~LoopSend(n)
      BY <2>2, <3>2 DEF loop, StillSending, LoopIdle, LoopBackOff, radioVars, historyVars, Air!vars
    <3> QED BY <3>1, <3>2
  <2>3. ASSUME NEW n \in Node, setParams(n) PROVE [Air!Next]_Air!vars
    BY <2>3, RetuneRetunes DEF Air!Next
  <2>4. CASE UNCHANGED vars
    BY <2>4 DEF vars, radioVars, historyVars, Air!vars
  <2> QED BY <2>1, <2>2, <2>3, <2>4 DEF Next
<1> QED BY <1>1, <1>2, Invariance, PTL DEF Spec, ImplementsEther, Air!Spec

-----------------------------------------------------------------------------
(***************************************************************************)
(* The totals.  Each link of each decided transmission is one record of    *)
(* Decision, and Count puts each record into one total.                    *)
(***************************************************************************)

\* The links of the transmissions already decided.
DecidedLinks == {x \in log \X Node : connected(x[1].sender, x[2]) /\ x[1] \notin active}

\* What makes the totals balance: the log holds one transmission per ordinal
\* given out, and no transmission is counted as collided before it is decided.
StatsInv ==
  /\ IsFiniteSet(log)
  /\ Cardinality(log) = stats.transmissions
  /\ stats.delivered + stats.collision_drops + stats.incompatible_drops
       + stats.interference_drops = Cardinality(DecidedLinks)
  /\ stats.collided_transmissions <= stats.collision_drops
  /\ stats.collided_transmissions <= Cardinality(log \ active)

LEMMA StatsInvBalances ==
  ASSUME IInv, StatsInv
  PROVE  StatsBalance
<1>1. Cardinality(log \ active) <= stats.transmissions
  BY FS_Subset DEF StatsInv
<1>2. stats.collided_transmissions \in Nat /\ stats.transmissions \in Nat
  BY DEF IInv, TypeOK, MediumStats
<1>3. Cardinality(log \ active) \in Nat
  BY FS_Subset, FS_CardinalityType DEF StatsInv
<1>4. stats.collided_transmissions <= stats.transmissions
  BY <1>1, <1>2, <1>3 DEF StatsInv
<1> QED BY <1>4 DEF StatsInv, StatsBalance, DecidedLinks, active

\* The image of a finite set is no larger than the set.
LEMMA ImageSmaller ==
  ASSUME NEW S, NEW f, IsFiniteSet(S)
  PROVE  /\ IsFiniteSet({f[x] : x \in S})
         /\ Cardinality({f[x] : x \in S}) <= Cardinality(S)
         /\ (\A x, y \in S : f[x] = f[y] => x = y) =>
              Cardinality({f[x] : x \in S}) = Cardinality(S)
<1> DEFINE T == {f[x] : x \in S}
           g == [x \in S |-> f[x]]
<1>1. g \in Surjection(S, T)
  BY DEF Surjection
<1>2. (\A x, y \in S : f[x] = f[y] => x = y) => g \in Injection(S, T)
  BY DEF Injection, IsInjective
<1> QED BY <1>1, <1>2, FS_Surjection

\* Finite sets that have nothing in common: the sizes add up.
LEMMA DisjointUnion ==
  ASSUME NEW S, NEW T, IsFiniteSet(S), IsFiniteSet(T), S \intersect T = {}
  PROVE  /\ IsFiniteSet(S \union T)
         /\ Cardinality(S \union T) = Cardinality(S) + Cardinality(T)
<1>1. Cardinality(S \intersect T) = 0
  BY FS_EmptySet
<1>2. Cardinality(S) \in Nat /\ Cardinality(T) \in Nat
  BY FS_CardinalityType
<1>3. /\ IsFiniteSet(S \union T)
      /\ Cardinality(S \union T)
           = Cardinality(S) + Cardinality(T) - Cardinality(S \intersect T)
  BY FS_Union, Zenon
<1> QED BY <1>1, <1>2, <1>3

\* The records of a finite decision fall into four classes.
LEMMA FourVerdicts ==
  ASSUME NEW d, IsFiniteSet(d), \A v \in d : v.verdict \in Verdict
  PROVE  Cardinality(d) = Cardinality(WithVerdict(d, "delivered"))
                          + Cardinality(WithVerdict(d, "collision"))
                          + Cardinality(WithVerdict(d, "incompatible"))
                          + Cardinality(WithVerdict(d, "interference"))
<1> DEFINE A == WithVerdict(d, "delivered")
           B == WithVerdict(d, "collision")
           C == WithVerdict(d, "incompatible")
           E == WithVerdict(d, "interference")
<1>1. /\ A \subseteq d /\ B \subseteq d /\ C \subseteq d /\ E \subseteq d
      /\ A \intersect B = {} /\ (A \union B) \intersect C = {}
      /\ ((A \union B) \union C) \intersect E = {}
      /\ d = ((A \union B) \union C) \union E
  BY DEF WithVerdict, Verdict
<1> HIDE DEF A, B, C, E
<1>2. IsFiniteSet(A) /\ IsFiniteSet(B) /\ IsFiniteSet(C) /\ IsFiniteSet(E)
  BY <1>1, FS_Subset
<1>3. IsFiniteSet(A \union B) /\ Cardinality(A \union B) = Cardinality(A) + Cardinality(B)
  BY <1>1, <1>2, DisjointUnion
<1>4. /\ IsFiniteSet((A \union B) \union C)
      /\ Cardinality((A \union B) \union C) = Cardinality(A \union B) + Cardinality(C)
  BY <1>1, <1>2, <1>3, DisjointUnion
<1>5. Cardinality(d) = Cardinality((A \union B) \union C) + Cardinality(E)
  BY <1>1, <1>2, <1>4, DisjointUnion
<1>6. Cardinality(d) = Cardinality(A) + Cardinality(B) + Cardinality(C) + Cardinality(E)
  BY <1>3, <1>4, <1>5
<1> QED BY <1>6 DEF A, B, C, E

\* finalise() records each reception it decides once, and marks as collided
\* only transmissions it decides.
LEMMA DecisionSize ==
  ASSUME IInv, NEW time, NEW lost
  PROVE  LET d == Decision(time, lost)
             collided == WithVerdict(d, "collision")
         IN  /\ IsFiniteSet(Due(time)) /\ IsFiniteSet(Receptions(time)) /\ IsFiniteSet(d)
             /\ Cardinality(d) = Cardinality(Receptions(time))
             /\ Cardinality({v.tx : v \in collided}) <= Cardinality(collided)
             /\ Cardinality({v.tx : v \in collided}) <= Cardinality(Due(time))
<1> DEFINE d == Decision(time, lost)
           W == WithVerdict(d, "collision")
           f == [x \in Receptions(time) |->
                   [tx |-> x[1].id, receiver |-> x[2], verdict |-> VerdictOf(x[1], x[2], lost)]]
           g == [v \in W |-> v.tx]
           h == [t \in Due(time) |-> t.id]
           Ids == {h[t] : t \in Due(time)}
           Hit == {v.tx : v \in W}
<1>1. IsFiniteSet(Node)
  BY NodeAssumption, FS_Interval DEF Node
<1>2. IsFiniteSet(Due(time))
  BY FS_Subset DEF Due, IInv, FiniteInv
<1>3. IsFiniteSet(Receptions(time))
  BY <1>1, <1>2, FS_Product, FS_Subset DEF Receptions
<1>4. d = {f[x] : x \in Receptions(time)}
  BY DEF Decision
<1>5. \A x, y \in Receptions(time) : f[x] = f[y] => x = y
  <2> SUFFICES ASSUME NEW x \in Receptions(time), NEW y \in Receptions(time), f[x] = f[y]
               PROVE  x = y
    OBVIOUS
  <2>1. x \in log \X Node /\ y \in log \X Node
    BY DEF Receptions, Due, IInv, LogInv
  <2>2. x[1].id = y[1].id /\ x[2] = y[2]
    OBVIOUS
  <2>3. x[1] = y[1]
    BY <2>1, <2>2 DEF IInv, LogInv
  <2>4. x = <<x[1], x[2]>> /\ y = <<y[1], y[2]>>
    BY <2>1
  <2> QED BY <2>2, <2>3, <2>4
<1>6. W \subseteq d
  BY DEF WithVerdict
<1>7. Hit = {g[v] : v \in W}
  OBVIOUS
<1>8. Hit \subseteq Ids
  BY DEF WithVerdict, Decision, Receptions
<1> HIDE DEF d, W, f, g, h, Ids, Hit
<1>9. IsFiniteSet(d) /\ Cardinality(d) = Cardinality(Receptions(time))
  BY <1>3, <1>4, <1>5, ImageSmaller
<1>10. IsFiniteSet(W)
  BY <1>6, <1>9, FS_Subset
<1>11. Cardinality(Hit) <= Cardinality(W)
  BY <1>7, <1>10, ImageSmaller
<1>12. IsFiniteSet(Ids) /\ Cardinality(Ids) <= Cardinality(Due(time))
  BY <1>2, ImageSmaller DEF Ids
<1>13. Cardinality(Hit) <= Cardinality(Due(time))
  <2>1. Cardinality(Hit) <= Cardinality(Ids)
    BY <1>8, <1>12, FS_Subset
  <2>2. Cardinality(Hit) \in Nat /\ Cardinality(Ids) \in Nat /\ Cardinality(Due(time)) \in Nat
    BY <1>2, <1>8, <1>12, FS_Subset, FS_CardinalityType
  <2> QED BY <1>12, <2>1, <2>2
<1> QED BY <1>2, <1>3, <1>9, <1>11, <1>13 DEF d, W, Hit

\* advance(): the links of what it decides are new, and their number is what
\* the four totals grow by.
LEMMA TickStats ==
  ASSUME IInv, StatsInv, Tick
  PROVE  StatsInv'
<1> DEFINE time == now + TickMillis
           new == Receptions(time)
           due == Due(time)
<1>1. PICK lost \in Draws(time) : stats' = Count(stats, Decision(time, lost))
  BY DEF Tick, advance
<1> DEFINE d == Decision(time, lost)
           W == WithVerdict(d, "collision")
           Hit == {v.tx : v \in W}
<1>2. log' = log /\ active' = active \ due /\ due \subseteq active
  <2>1. /\ finalised' \subseteq finalised \union due
        /\ transmissions' = (transmissions \ (finalised \union due)) \union finalised'
    BY DEF Tick, advance
  <2> QED BY <2>1 DEF Tick, active, Due
<1>3. active \subseteq log /\ due \subseteq log
  BY <1>2 DEF IInv, LogInv, active
<1>4. /\ IsFiniteSet(due) /\ IsFiniteSet(new) /\ IsFiniteSet(d)
      /\ Cardinality(d) = Cardinality(new)
      /\ Cardinality(Hit) <= Cardinality(W)
      /\ Cardinality(Hit) <= Cardinality(due)
  BY DecisionSize
<1>5. \A v \in d : v.verdict \in Verdict
  BY DecisionType
<1>6. DecidedLinks' = DecidedLinks \union new /\ DecidedLinks \intersect new = {}
  BY <1>2, <1>3 DEF DecidedLinks, Receptions
<1>7. log' \ active' = (log \ active) \union due /\ (log \ active) \intersect due = {}
  BY <1>2, <1>3
<1>8. DecidedLinks \subseteq log \X Node
  BY DEF DecidedLinks
<1>9. /\ Cardinality(W) \in Nat
      /\ Cardinality(Hit) \in Nat
      /\ Cardinality(WithVerdict(d, "delivered")) \in Nat
      /\ Cardinality(WithVerdict(d, "incompatible")) \in Nat
      /\ Cardinality(WithVerdict(d, "interference")) \in Nat
  BY CountsFinite, Zenon
<1>10. stats \in MediumStats
  BY DEF IInv, TypeOK
<1>11. stats' = Count(stats, d)
  BY <1>1
<1>12. /\ stats'.transmissions = stats.transmissions
       /\ stats'.delivered = stats.delivered + Cardinality(WithVerdict(d, "delivered"))
       /\ stats'.collision_drops = stats.collision_drops + Cardinality(W)
       /\ stats'.incompatible_drops
            = stats.incompatible_drops + Cardinality(WithVerdict(d, "incompatible"))
       /\ stats'.interference_drops
            = stats.interference_drops + Cardinality(WithVerdict(d, "interference"))
       /\ stats'.collided_transmissions = stats.collided_transmissions + Cardinality(Hit)
  BY <1>11 DEF Count
<1> HIDE DEF d, W, Hit, new, due, time
<1>13. IsFiniteSet(DecidedLinks) /\ IsFiniteSet(log \ active)
  <2>1. IsFiniteSet(Node)
    BY NodeAssumption, FS_Interval DEF Node
  <2>2. IsFiniteSet(log \X Node)
    BY <2>1, FS_Product DEF StatsInv
  <2> QED BY <1>8, <2>2, FS_Subset DEF StatsInv
<1>14. Cardinality(DecidedLinks') = Cardinality(DecidedLinks) + Cardinality(new)
  BY <1>4, <1>6, <1>13, DisjointUnion
<1>15. Cardinality(log' \ active') = Cardinality(log \ active) + Cardinality(due)
  BY <1>4, <1>7, <1>13, DisjointUnion
<1>16. Cardinality(new) = Cardinality(WithVerdict(d, "delivered")) + Cardinality(W)
                          + Cardinality(WithVerdict(d, "incompatible"))
                          + Cardinality(WithVerdict(d, "interference"))
  BY <1>4, <1>5, FourVerdicts DEF W
<1>17. /\ Cardinality(DecidedLinks) \in Nat /\ Cardinality(log \ active) \in Nat
       /\ Cardinality(due) \in Nat
  BY <1>4, <1>13, FS_CardinalityType
<1>18. /\ stats.delivered \in Nat /\ stats.collision_drops \in Nat
       /\ stats.incompatible_drops \in Nat /\ stats.interference_drops \in Nat
       /\ stats.collided_transmissions \in Nat
  BY <1>10 DEF MediumStats
<1>19. stats'.delivered + stats'.collision_drops + stats'.incompatible_drops
         + stats'.interference_drops = Cardinality(DecidedLinks')
  BY <1>9, <1>12, <1>14, <1>16, <1>17, <1>18 DEF StatsInv
<1>20. stats'.collided_transmissions <= stats'.collision_drops
  BY <1>4, <1>9, <1>12, <1>18 DEF StatsInv
<1>21. stats'.collided_transmissions <= Cardinality(log' \ active')
  BY <1>4, <1>9, <1>12, <1>15, <1>17, <1>18 DEF StatsInv
<1> QED BY <1>2, <1>12, <1>19, <1>20, <1>21 DEF StatsInv

\* A send adds one transmission to the log; it is still on air.
LEMMA SendStats ==
  ASSUME IInv, StatsInv, NEW n \in Node, LoopSend(n)
  PROVE  StatsInv'
<1>1. PICK airtime \in Airtimes : transmit(n, airtime)
  BY DEF LoopSend
<1>2. PICK t0 :
        /\ t0.id = stats.transmissions + 1
        /\ log' = log \union {t0}
        /\ transmissions' = transmissions \union {t0}
        /\ stats' = [stats EXCEPT !.transmissions = @ + 1]
  <2> DEFINE t == [id |-> stats.transmissions + 1, sender |-> n, started_at |-> now,
                   ends_at |-> now + airtime, config |-> config[n],
                   observable |-> {r \in outgoing(n) : receiverCompatible(config[n], config[r])},
                   waited |-> IF cad_busy_start[n] = 0 THEN 0 ELSE now - cad_busy_start[n]]
  <2>1. t.id = stats.transmissions + 1
    OBVIOUS
  <2> QED BY <1>1, <2>1 DEF transmit
<1>3. stats \in MediumStats /\ finalised' = finalised
  BY DEF IInv, TypeOK, LoopSend
<1>4. t0 \notin log
  BY <1>2, <1>3 DEF IInv, LogInv, MediumStats
<1>5. active' = active \union {t0}
  BY <1>2, <1>3, <1>4 DEF active, IInv, LogInv, TypeOK
<1>6. DecidedLinks' = DecidedLinks /\ log' \ active' = log \ active
  BY <1>2, <1>4, <1>5 DEF DecidedLinks
<1>7. IsFiniteSet(log') /\ Cardinality(log') = stats.transmissions + 1
  BY <1>2, <1>4, FS_AddElement DEF StatsInv
<1>8. /\ stats'.transmissions = stats.transmissions + 1
      /\ stats'.delivered = stats.delivered
      /\ stats'.collision_drops = stats.collision_drops
      /\ stats'.incompatible_drops = stats.incompatible_drops
      /\ stats'.interference_drops = stats.interference_drops
      /\ stats'.collided_transmissions = stats.collided_transmissions
  BY <1>2, <1>3 DEF MediumStats
<1> QED BY <1>6, <1>7, <1>8 DEF StatsInv

LEMMA StepStats ==
  ASSUME IInv, StatsInv, [Next]_vars
  PROVE  StatsInv'
<1>1. ASSUME UNCHANGED <<log, stats, active>> PROVE StatsInv'
  BY <1>1 DEF StatsInv, DecidedLinks
<1>2. ASSUME NEW n \in Node, loop(n) PROVE StatsInv'
  <2>1. CASE LoopSend(n)
    BY <2>1, SendStats
  <2>2. CASE ~LoopSend(n)
    BY <1>1, <1>2, <2>2
       DEF loop, StillSending, LoopIdle, LoopBackOff, mediumVars, historyVars, active
  <2> QED BY <2>1, <2>2
<1>3. ASSUME NEW n \in Node, setParams(n) PROVE StatsInv'
  BY <1>1, <1>3 DEF setParams, mediumVars, historyVars, active
<1>4. CASE UNCHANGED vars
  BY <1>1, <1>4 DEF vars, mediumVars, historyVars, active
<1> QED BY <1>2, <1>3, <1>4, TickStats DEF Next

\* Every link of every decided transmission is counted in exactly one of the
\* totals the simulator prints (finalise()), and a transmission is counted as
\* collided at most once.
THEOREM TotalsBalance == Spec => []StatsBalance
<1>1. Init => StatsInv
  <2> SUFFICES ASSUME Init PROVE StatsInv
    OBVIOUS
  <2>1. DecidedLinks = {} /\ log = {}
    BY DEF Init, DecidedLinks
  <2>2. Cardinality(DecidedLinks) = 0 /\ Cardinality(log) = 0 /\ Cardinality(log \ active) = 0
    BY <2>1, FS_EmptySet
  <2> QED BY <2>1, <2>2, FS_EmptySet DEF Init, StatsInv
<1>2. IInv /\ StatsInv /\ [Next]_vars => StatsInv'
  BY StepStats
<1>3. IInv /\ StatsInv => StatsBalance
  BY StatsInvBalances
<1> QED BY <1>1, <1>2, <1>3, Invariance, PTL DEF Spec
=============================================================================
