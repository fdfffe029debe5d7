------------------------------- MODULE MCKiosk -------------------------------
(* A small instance of Kiosk for TLC: two voters, two requests out at once.  *)
EXTENDS Kiosk
=============================================================================
