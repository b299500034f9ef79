----------------------------- MODULE MCFloodNet -----------------------------
(* Instances of FloodNet for TLC. *)
EXTENDS FloodNet, TLC

CONSTANTS a, b, c, d, e, p1, p2

Both(pairs) == pairs \union {<<l[2], l[1]>> : l \in pairs}

\* A ring, one link of which works in one direction only.
Ring == Both({<<a, b>>, <<b, c>>}) \union {<<c, a>>}

\* Two ways from a to d, and e beyond d.
SquareAndTail == Both({<<a, b>>, <<b, d>>, <<a, c>>, <<c, d>>, <<d, e>>})

Line == Both({<<a, b>>, <<b, c>>, <<c, d>>, <<d, e>>})

\* a and d share the first byte of their keys.
Keys == [n \in Node |-> CASE n = a -> <<1, 1, 1>> [] n = b -> <<2, 1, 1>>
                         [] n = c -> <<3, 1, 1>> [] n = d -> <<1, 2, 1>> [] n = e -> <<4, 1, 1>>]

TwoFloods == {<<a, p1, 2>>, <<b, p2, 1>>}
OppositeFloods == {<<a, p1, 1>>, <<e, p2, 2>>}
OneFlood == {<<a, p1, 1>>}

\* max_loop_strict at a, max_loop_moderate elsewhere; and LOOP_DETECT_OFF.
Moderate == [n \in Node |-> IF n = a THEN <<1, 1, 1>> ELSE <<2, 1, 1>>]
Off == [n \in Node |-> [size \in 1..3 |-> MaxPathSize]]
=============================================================================
