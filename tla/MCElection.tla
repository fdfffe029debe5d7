------------------------------ MODULE MCElection -----------------------------
(* Small instances of Election for TLC. *)
EXTENDS Election, TLC

\* The people, candidates and request slots are interchangeable: nothing in the
\* specification or in the properties of the runs that use this tells one apart.
Symmetry == Permutations(Participants) \cup Permutations(Candidates)
              \cup Permutations(Requests) \cup Permutations(Admins)
=============================================================================
