----------------------------- MODULE MCChatNet -----------------------------
(* Two companions and two repeaters for TLC. *)
EXTENDS ChatNet, TLC

CONSTANTS a, b, r, q, text

Both(pairs) == pairs \union {<<l[2], l[1]>> : l \in pairs}

\* From a to b by r and q, or by r alone.
Shortcut == Both({<<a, r>>, <<r, q>>, <<q, b>>}) \union {<<r, b>>}
\* One multipart ACK from r and from b.
AtRB == [n \in Node |-> IF n \in {r, b} THEN 1 ELSE 0]

Keys == [n \in Node |-> CASE n = a -> <<1, 1, 1>> [] n = b -> <<2, 1, 1>>
                         [] n = r -> <<3, 1, 1>> [] n = q -> <<4, 1, 1>>]

Minimal == [n \in Node |-> <<4, 2, 1>>]

From == [x \in Message |-> a]
To == [x \in Message |-> b]

Twice == [x \in Message |-> 2]

\* Payloads of messages, ACKs and paths of up to two hops.
Chat == {a, b}
Unique3 == Chat \X (0..3)
Payloads1 ==
  [type : {"TXT_MSG"}, msg : Message, attempt : 0..2] \union
  [type : {"ACK", "MULTIPART"}, ack : Acks, unique : Unique3] \union
  [type : {"MULTIPART"}, ack : Acks, unique : Unique3, remaining : {1}] \union
  [type : {"PATH"}, from : Chat, to : Chat, ack : Acks \union {Nothing}, unique : Unique3,
   route : [size : 1..3, path : UNION {[1..k -> Hash] : k \in 0..2}]]
=============================================================================
