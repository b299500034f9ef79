-------------------------------- MODULE Mesh --------------------------------
(***************************************************************************)
(* Routing (MeshCore/src/Mesh.cpp), the path encoding it works on          *)
(* (MeshCore/src/Packet.h) and the table of recently seen packets          *)
(* (MeshCore/src/helpers/SimpleMeshTables.h), for nodes that are repeaters *)
(* (MeshCore/examples/simple_repeater) or not. Packets are floods of a     *)
(* type that every node routes on after handling it, such as GRP_TXT.      *)
(*                                                                         *)
(* A payload stands for its packet hash: calculatePacketHash() hashes the  *)
(* payload and its type, not the path.                                     *)
(***************************************************************************)
EXTENDS Integers, FiniteSets, Sequences

CONSTANTS
  Node,
  Links,         \* pairs <<sender, receiver>> of nodes in range
  Repeater,      \* nodes with forwarding enabled
  PubKey,        \* Node -> the first three bytes of its public key
  LoopMax,       \* Node -> isLooped()'s maximum per hash size
  Payload,
  Nothing,       \* an empty entry of a table
  TableSize,     \* MAX_PACKET_HASHES
  CountLimit,    \* 64: the hash count of a path has six bits
  MaxPathSize,   \* MAX_PATH_SIZE, in hashes of one byte
  FloodMax       \* the least of the flood_max preferences that apply

ASSUME TopologyAssumption == IsFiniteSet(Node) /\ Links \subseteq Node \X Node /\ Repeater \subseteq Node
ASSUME PrefsAssumption == LoopMax \in [Node -> [1..3 -> Nat]] /\ FloodMax \in Nat
ASSUME PayloadAssumption == Nothing \notin Payload
ASSUME SizeAssumption == /\ TableSize \in Nat \ {0} /\ MaxPathSize \in Nat
                         /\ CountLimit \in Nat \ {0} /\ MaxPathSize <= CountLimit
ASSUME KeyAssumption == PubKey \in [Node -> [1..3 -> Nat]]

\* copyHashTo(): a node's hash in a path is a prefix of its public key.
hashOf(n, size) == SubSeq(PubKey[n], 1, size)

Hash == {hashOf(n, size) : n \in Node, size \in 1..3}

\* hops is history: the nodes that have forwarded the packet.
Packet == [payload : Payload, size : 1..3, path : Seq(Hash), hops : Seq(Node)]

inRange(n) == {r \in Node : <<n, r>> \in Links}

-----------------------------------------------------------------------------
(***************************************************************************)
(* SimpleMeshTables.                                                       *)
(***************************************************************************)

Table == [hashes : [0..TableSize - 1 -> Payload \union {Nothing}], next_idx : 0..TableSize - 1]

NewTable == [hashes |-> [i \in 0..TableSize - 1 |-> Nothing], next_idx |-> 0]

wasSeen(table, payload) == \E i \in 0..TableSize - 1 : table.hashes[i] = payload

\* Slips: the index not wrapped, and a packet not remembered.
markSeenUnwrapped(table, payload) ==
  [hashes |-> [table.hashes EXCEPT ![table.next_idx] = payload], next_idx |-> table.next_idx + 1]
markSeenNot(table, payload) == table

markSeen(table, payload) ==
  [hashes |-> [table.hashes EXCEPT ![table.next_idx] = payload],
   next_idx |-> (table.next_idx + 1) % TableSize]

-----------------------------------------------------------------------------
(***************************************************************************)
(* Paths.                                                                  *)
(***************************************************************************)

getPathHashCount(pkt) == Len(pkt.path)

\* setPathHashCount(): a count of CountLimit, which only hashes of one byte
\* reach, carries into the bits of the hash size and leaves a count of zero.
withPath(pkt, path) ==
  IF Len(path) < CountLimit THEN [pkt EXCEPT !.path = path]
  ELSE [pkt EXCEPT !.path = <<>>, !.size = @ + 1]

\* How often the node is in the path already, and whether that is too often.
TimesInPath(n, pkt) ==
  Cardinality({i \in DOMAIN pkt.path : pkt.path[i] = hashOf(n, pkt.size)})

\* Slip: one turn too many.
isLoopedLate(n, pkt) == TimesInPath(n, pkt) > LoopMax[n][pkt.size]

isLooped(n, pkt) == TimesInPath(n, pkt) >= LoopMax[n][pkt.size]

\* Slip: the hop that would reach the limit is refused.
allowPacketForwardShort(n, pkt) ==
  n \in Repeater /\ getPathHashCount(pkt) + 1 < FloodMax /\ ~isLooped(n, pkt)

allowPacketForward(n, pkt) ==
  n \in Repeater /\ getPathHashCount(pkt) < FloodMax /\ ~isLooped(n, pkt)

\* Slip: the path's end is not checked.

PathHasRoomUnchecked(pkt) == TRUE

\* One more hash fits into the path of MAX_PATH_SIZE bytes.
PathHasRoom(pkt) == (getPathHashCount(pkt) + 1) * pkt.size <= MaxPathSize

withSelf(n, pkt) ==
  withPath([pkt EXCEPT !.hops = Append(@, n)], Append(pkt.path, hashOf(n, pkt.size)))

\* routeRecvPacket(): the packet node n sends on, if any.
routeRecvPacket(n, pkt) ==
  IF PathHasRoom(pkt) /\ allowPacketForward(n, pkt) THEN {withSelf(n, pkt)} ELSE {}

\* The queue priority of a flood sent on: the lower, the more urgent.
priority(pkt) == getPathHashCount(pkt)
=============================================================================
