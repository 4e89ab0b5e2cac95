------------------------------- MODULE MCRelay -------------------------------
(* Relay under TLC: two tabs behind one extension, two requests, one break   *)
(* of the link.                                                              *)
EXTENDS Relay, TLC

CONSTANTS t1, t2

Symmetry == Permutations({t1, t2})
=============================================================================
