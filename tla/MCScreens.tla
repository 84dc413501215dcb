------------------------------ MODULE MCScreens ------------------------------
(* A small instance of Screens for TLC.                                      *)
EXTENDS Screens, MCBilling
=============================================================================
