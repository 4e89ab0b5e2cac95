---------------------------- MODULE MCFreshAuth ----------------------------
(* The gate under TLC.  The curve has the shape of the code's, a failure    *)
(* without lockout and two levels of growing length, brought closer         *)
(* together so that the longest lockout ends within MaxNow.                 *)
EXTENDS FreshAuth

MCThresholds == {2, 3}
MCLockout == [t \in MCThresholds |-> t - 1]
=============================================================================
