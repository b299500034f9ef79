------------------------------- MODULE Mailbox -------------------------------
(***************************************************************************)
(* What sending a message promises the two applications: an attempt is     *)
(* delivered at most once, and no message is reported as confirmed that    *)
(* was not delivered. It does not promise that an attempt is delivered, or *)
(* that a message retried is delivered only once.                          *)
(***************************************************************************)
EXTENDS Integers

CONSTANT Message

VARIABLES
  attempts,      \* how often the sender's application has sent the message
  delivered,     \* how often the recipient's application was given it
  confirmed      \* how often the sender's application was told so

vars == <<attempts, delivered, confirmed>>

TypeOK ==
  /\ attempts \in [Message -> Nat]
  /\ delivered \in [Message -> Nat]
  /\ confirmed \in [Message -> Nat]

Init ==
  /\ attempts = [m \in Message |-> 0]
  /\ delivered = [m \in Message |-> 0]
  /\ confirmed = [m \in Message |-> 0]

Send(m) ==
  /\ attempts' = [attempts EXCEPT ![m] = @ + 1]
  /\ UNCHANGED <<delivered, confirmed>>

Deliver(m) ==
  /\ delivered[m] < attempts[m]
  /\ delivered' = [delivered EXCEPT ![m] = @ + 1]
  /\ UNCHANGED <<attempts, confirmed>>

Confirm(m) ==
  /\ delivered[m] > 0
  /\ confirmed[m] < attempts[m]
  /\ confirmed' = [confirmed EXCEPT ![m] = @ + 1]
  /\ UNCHANGED <<attempts, delivered>>

Next == \E m \in Message : Send(m) \/ Deliver(m) \/ Confirm(m)

Spec == Init /\ [][Next]_vars
=============================================================================
