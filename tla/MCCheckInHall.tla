---------------------------- MODULE MCCheckInHall ----------------------------
(* A small instance of CheckInHall for TLC: two people, two filters.         *)
EXTENDS CheckInHall, TLC

\* Nothing in the specification or in the invariants tells one person apart.
Symmetry == Permutations(People)
=============================================================================
