----------------------------- MODULE MCSigning -----------------------------
(* Signing under TLC: two wallets, a payment of half a unit and a call of a  *)
(* contract, a limit that the payment fits in once, or twice when it is      *)
(* rounded away, and settings that lower it and bar the destination.         *)
EXTENDS Signing, TLC

CONSTANTS a, b, x, d

MCPayments == {[to |-> x, amt |-> 1, data |-> NoData], [to |-> x, amt |-> 0, data |-> d]}
MCDefault  == [limit |-> 1, barred |-> {}]
MCSettings == {MCDefault, [limit |-> 0, barred |-> {x}]}
MCSymmetry == Permutations({a, b})
=============================================================================
