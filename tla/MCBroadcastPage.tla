---------------------------- MODULE MCBroadcastPage ---------------------------
(* A small instance of BroadcastPage for TLC: two recipients, two requests out. *)
EXTENDS BroadcastPage
=============================================================================
