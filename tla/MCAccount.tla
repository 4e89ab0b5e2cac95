------------------------------ MODULE MCAccount ------------------------------
(* Account under TLC: two hooks, a session key and two vaults, a limit of    *)
(* two over two seconds, a session that begins at once and one that waits.   *)
EXTENDS Account, TLC

CONSTANTS h1, h2, v1, v2, o1, o2, k1

MCLimits == {[limit |-> 2, period |-> 2]}
MCWindows == {[after |-> 0, until |-> 1], [after |-> 1, until |-> 2]}
AccountSymmetry == Permutations({h1, h2}) \cup Permutations({v1, v2}) \cup Permutations({o1, o2})
=============================================================================
