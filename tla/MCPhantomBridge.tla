--------------------------- MODULE MCPhantomBridge ---------------------------
(* PhantomBridge under TLC: two requests of two origins.                    *)
EXTENDS PhantomBridge

CONSTANTS p, q
=============================================================================
