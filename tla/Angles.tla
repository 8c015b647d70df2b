------------------------------- MODULE Angles -------------------------------
(***************************************************************************)
(* Signed numbers and headings, of which there are `full' in a turn, as    *)
(* std::copysign, std::abs and the angles package have them for radians.   *)
(***************************************************************************)
EXTENDS Integers

Magnitude(n) == IF n < 0 THEN -n ELSE n
Sign(n) == IF n < 0 THEN -1 ELSE 1                        \* copysign(1, n)
Least(a, b) == IF a < b THEN a ELSE b
Most(a, b) == IF a < b THEN b ELSE a

\* angles::shortest_angular_distance: half a turn is positive
ShortestTurn(full, from, to) ==
  LET d == (to - from) % full IN IF 2 * d > full THEN d - full ELSE d
=============================================================================
