---------------------------- MODULE MCSessionPage -----------------------------
(* A small instance of SessionPage for TLC: three fetches or updates at once. *)
EXTENDS SessionPage
=============================================================================
