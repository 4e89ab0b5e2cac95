--------------------------- MODULE MCSocialRecovery --------------------------
(* SocialRecovery under TLC: two of three guardians, and a list that names   *)
(* one guardian twice.                                                       *)
EXTENDS SocialRecovery

CONSTANTS g1, g2, g3, new

MCLists == {<<g1, g2, g3>>, <<g2, g3>>, <<g1, g1>>}
=============================================================================
