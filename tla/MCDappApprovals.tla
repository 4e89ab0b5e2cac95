--------------------------- MODULE MCDappApprovals ---------------------------
(* DappApprovals under TLC: two dApps, two requests, a second thought.      *)
EXTENDS DappApprovals

CONSTANTS p, q
=============================================================================
