------------------------- MODULE MCEncryptedLedger -------------------------
(* The ledger under TLC.  Half a unit is the smallest amount, so that one   *)
(* record can be rounded away and two can make a unit.                      *)
EXTENDS EncryptedLedger

CONSTANTS p1, p2, a, b, c, d, i

MCSymmetry == Permutations({p1, p2}) \cup Permutations({a, b, c, d})
MCLimits == {1, NaN}
MCCapacity == [x \in Collections |-> 1]
=============================================================================
