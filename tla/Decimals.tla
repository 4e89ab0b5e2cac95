------------------------------ MODULE Decimals ------------------------------
(***************************************************************************)
(* Amounts that the ledger keeps to six decimal places.  They are numbers  *)
(* of parts, so that what is less than 0.000001 can be told from nothing.  *)
(***************************************************************************)
EXTENDS Integers

CONSTANT Unit  \* parts in 0.000001

ASSUME DecimalsAssumption == Unit \in Nat \ {0}

\* Mutant: one place less is kept.
RoundedCoarse(x) == {2 * Unit * ((x + Unit) \div (2 * Unit))}

\* toFixed(6): to the nearest unit, and from the middle to either side, since
\* what lies in the middle in decimal seldom does in binary
Rounded(x) == {u \in {Unit * (x \div Unit), Unit * ((x \div Unit) + 1)} :
                   2 * (x - u) <= Unit /\ 2 * (u - x) <= Unit}
=============================================================================
