----------------------------- MODULE MCRegistration ---------------------------
(* Small instances of Registration for TLC. *)
EXTENDS Registration, TLC

Symmetry == Permutations(Ids) \cup Permutations(Emails)
              \cup Permutations(Visitors) \cup Permutations(Officers)
=============================================================================
