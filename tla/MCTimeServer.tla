--------------------------- MODULE MCTimeServer ---------------------------
(* Times that overlap, that share a bound, and that differ only in their    *)
(* distribution.  One atom may have any of them, so that the index can lag  *)
(* behind the list, another one only two, so that a time can have two atoms.*)
EXTENDS TimeServer

CONSTANTS h1, h2, game, default, k1, k2

Time(lower, upper, normal) == [lower |-> lower, upper |-> upper, normal |-> normal]

MCTemporals == {Time(1, 1, FALSE), Time(1, 3, FALSE), Time(2, 2, TRUE),
                Time(2, 2, FALSE), Time(3, 5, FALSE)}

MCTimedPairs == ({h1} \X MCTemporals) \cup {<<h2, Time(1, 3, FALSE)>>}
=============================================================================
