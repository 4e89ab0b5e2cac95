----------------------------- MODULE MCSendForm -----------------------------
(* Constants of the runs of SendForm. *)
EXTENDS SendForm, TLC

Senders == Permutations(Wallets)
=============================================================================
