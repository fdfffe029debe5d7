----------------------------- MODULE MCSignUpPage -----------------------------
(* A small instance of SignUpPage for TLC: two e-mails, two requests out. *)
EXTENDS SignUpPage, TLC

Symmetry == Permutations(Emails)
=============================================================================
