-------------------------------- MODULE Ether --------------------------------
(***************************************************************************)
(* What the simulated medium promises, without transmissions_, finalised   *)
(* flags, pruning, inboxes or the run loop: transmissions are made, radios *)
(* are retuned, and each transmission that has ended is judged once at     *)
(* each of the sender's links, against every transmission ever made.       *)
(* Module Medium implements it.                                            *)
(***************************************************************************)
EXTENDS Integers

CONSTANTS Node, Config, Verdict, Transmission,
          Connected(_, _),       \* the receiver is in range of the sender
          Compatible(_, _),      \* transmitter's and receiver's configuration
          Spoils(_, _, _)        \* a transmission spoils another at a receiver

VARIABLES clock, config, sent, judged

vars == <<clock, config, sent, judged>>

Init ==
  /\ clock = 0
  /\ config \in [Node -> Config]
  /\ sent = {}
  /\ judged = {}

\* A transmission starts now, in its sender's configuration.
Send ==
  /\ sent \subseteq sent'
  /\ \A t \in sent' \ sent :
       /\ t \in Transmission
       /\ t.started_at = clock
       /\ t.ends_at > clock
       /\ t.config = config[t.sender]
  /\ \A t, u \in sent' : t.id = u.id => t = u
  /\ UNCHANGED <<clock, config, judged>>

Retune(n) ==
  /\ config' \in [Node -> Config]
  /\ \A m \in Node \ {n} : config'[m] = config[m]
  /\ UNCHANGED <<clock, sent, judged>>

\* The verdicts the medium may give on t at r.
Possible(t, r) ==
  IF ~Compatible(t.config, config[r]) THEN {"incompatible"}
  ELSE IF \E o \in sent : Spoils(o, t, r) THEN {"collision"}
  ELSE {"interference", "delivered"}

Judged(t) == \E v \in judged : v.tx = t.id

\* Time passes, and exactly the transmissions that have ended are judged.
Pass ==
  /\ clock' \in Nat /\ clock' > clock
  /\ judged \subseteq judged'
  /\ \A v \in judged' \ judged :
       \E t \in sent : /\ t.id = v.tx /\ t.ends_at > clock /\ t.ends_at <= clock'
                       /\ Connected(t.sender, v.receiver)
                       /\ v.verdict \in Possible(t, v.receiver)
  /\ \A t \in sent : \A r \in Node :
       t.ends_at > clock /\ t.ends_at <= clock' /\ Connected(t.sender, r)
       => \E v \in judged' : v.tx = t.id /\ v.receiver = r
  /\ UNCHANGED <<config, sent>>

Next ==
  \/ Send
  \/ \E n \in Node : Retune(n)
  \/ Pass

Spec == Init /\ [][Next]_vars
=============================================================================
