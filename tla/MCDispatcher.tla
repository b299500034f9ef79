---------------------------- MODULE MCDispatcher ----------------------------
(* Instances of Dispatcher for TLC. *)
EXTENDS Dispatcher

\* The packets of the pool are alike.
PacketSymmetry == Permutations(Packet)
=============================================================================
