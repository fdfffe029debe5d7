---------------------------- MODULE MCAdminConsole ----------------------------
(* A small instance of AdminConsole for TLC: two people, two requests out. *)
EXTENDS AdminConsole, TLC

Symmetry == Permutations(People)
=============================================================================
