----------------------------- MODULE MCScreens -----------------------------
(* Constants of the run of Screens. *)
EXTENDS Screens
=============================================================================
