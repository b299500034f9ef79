------------------------------ MODULE MCMedium ------------------------------
(* Instances of Medium for TLC. *)
EXTENDS Medium

CONSTANTS c1, c2

\* 1 and 3 cannot hear each other; both are heard by 2 (a hidden terminal).
HiddenTerminalLinks == {<<1, 2>>, <<2, 1>>, <<2, 3>>, <<3, 2>>}

\* An observed direction with no reverse (--links directed).
DirectedLinks == {<<1, 2>>, <<2, 3>>, <<3, 1>>}

StartOnC1 == [channel |-> c1, explicit |-> TRUE, rate |-> 5]
=============================================================================
