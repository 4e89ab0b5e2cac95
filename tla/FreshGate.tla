----------------------------- MODULE FreshGate -----------------------------
(***************************************************************************)
(* What the fresh-auth gate promises to the handlers behind it, without    *)
(* tokens, failures or nonces: a request passes within one window of a     *)
(* proof of the password, or with such a proof.  FreshAuth implements it;  *)
(* Signing is built on it.                                                 *)
(***************************************************************************)
EXTENDS Integers

CONSTANTS FreshWindow,  \* FRESH_WINDOW_MS
          MaxNow,       \* bound on the clock
          MaxPassed     \* bound on the requests that pass

VARIABLES
    now,     \* Date.now()
    open,    \* the ledger is unlocked: only then a password can be verified
    proof,   \* when the password was last verified, NoProof if never or revoked
    passed   \* how many requests have passed

gateVars == <<now, open, proof, passed>>

NoProof == -1

GateInit == now = 0 /\ open = FALSE /\ proof = NoProof /\ passed = 0

Fresh == proof # NoProof /\ now < proof + FreshWindow

Prove ==
    /\ open
    /\ proof' = now
    /\ UNCHANGED <<now, open, passed>>

\* requireFresh lets a request through; `open' is left to the caller
Pass ==
    /\ passed < MaxPassed
    /\ passed' = passed + 1
    /\ \/ Fresh /\ UNCHANGED proof
       \/ open /\ proof' = now
    /\ UNCHANGED now

Forget == proof' = NoProof /\ UNCHANGED <<now, open, passed>>

LockOrUnlock == open' = ~open /\ UNCHANGED <<now, proof, passed>>

Restart == open' = FALSE /\ proof' = NoProof /\ UNCHANGED <<now, passed>>

Tick == now < MaxNow /\ now' = now + 1 /\ UNCHANGED <<open, proof, passed>>

GateNext ==
    \/ Prove
    \/ Pass /\ UNCHANGED open
    \/ Forget
    \/ LockOrUnlock
    \/ Restart
    \/ Tick

GateSpec == GateInit /\ [][GateNext]_gateVars
=============================================================================
