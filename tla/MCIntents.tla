------------------------------ MODULE MCIntents ------------------------------
(* Intents under TLC: two intents, an initiator and two solvers, two         *)
(* recipients with a third and two thirds of the output.                     *)
EXTENDS Intents, TLC

CONSTANTS a, b, c, i1, i2

MCShares == <<1, 2>>
IntentsSymmetry == Permutations({b, c}) \cup Permutations({i1, i2})
=============================================================================
