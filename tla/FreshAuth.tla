----------------------------- MODULE FreshAuth -----------------------------
(***************************************************************************)
(* The fresh-auth gate of the main process (electron/fresh-auth.js): a     *)
(* password proof opens a short window during which one opaque token       *)
(* stands for the password; repeated failures start a cooldown; every      *)
(* granted request gets a nonce that may be consumed once.                 *)
(*                                                                         *)
(* One time unit stands for the 30 s fresh window of the code.  The token  *)
(* of the code is 32 random bytes: here the tokens ever issued are         *)
(* numbered, and 0 is the null of the code.  Whoever calls the gate may    *)
(* present the password, something else, nothing, or any token that was    *)
(* ever issued.                                                            *)
(***************************************************************************)
EXTENDS Integers, Sequences

CONSTANTS FreshWindow,  \* FRESH_WINDOW_MS
          NonceExpiry,  \* NONCE_EXPIRY_MS
          Thresholds,   \* the thresholds of COOLDOWN_CURVE
          LockoutMs,    \* threshold -> length of its lockout
          MaxNow,       \* bound on the clock
          MaxTokens,    \* bound on the tokens issued
          MaxNonces,    \* bound on the requests granted
          MaxFails      \* bound on the failures in a row

ASSUME FreshAuthAssumption ==
    /\ FreshWindow \in Nat \ {0}
    /\ NonceExpiry \in Nat
    /\ Thresholds \subseteq Nat \ {0}
    /\ LockoutMs \in [Thresholds -> Nat \ {0}]
    /\ MaxNow \in Nat /\ MaxTokens \in Nat /\ MaxNonces \in Nat /\ MaxFails \in Nat
    \* a finite list of numbers: every part of it that is not empty has a largest
    /\ \A S \in SUBSET Thresholds : S # {} => \E m \in S : \A t \in S : t <= m

VARIABLES
    now,          \* Date.now()
    open,         \* the ledger is unlocked (ledger._initialized)
    token,        \* the current token, 0 for null
    issued,       \* how many tokens were generated so far
    expiresAt,
    failCount,
    lockedUntil,
    nonces,       \* the nonce registry: records [id, createdAt, used]
    nonceCount,   \* how many nonces were generated so far
    \* history, read by the properties only
    lastProof,    \* when the password was last verified, NoProof if never or revoked
    streak,       \* the times of the failures since the last success or the start
    granted,      \* the grants of requireFresh, in order
    consumed      \* the ids for which consumeNonce answered true, in order

tokenVars == <<token, issued, expiresAt, lastProof>>
failVars  == <<failCount, lockedUntil, streak>>
nonceVars == <<nonces, nonceCount, granted>>
authVars  == <<tokenVars, failVars, nonceVars, consumed>>
vars      == <<now, open, authVars>>

NoProof == -1

\* What a caller can present: the password, another string, no string at all,
\* or a token.  A token of the past is a string like any other.
Kinds == {"password", "wrong", "empty", "token"}

Cred == [kind : Kinds \ {"token"}, id : {0}]
            \cup [kind : {"token"}, id : 1..issued]

-----------------------------------------------------------------------------
(* The cooldown curve: of the levels that were reached the last one wins.   *)

Reached(n) == {t \in Thresholds : n >= t}

Lockout(n) ==
    IF Reached(n) = {} THEN 0
    ELSE LockoutMs[CHOOSE t \in Reached(n) : \A u \in Reached(n) : u <= t]

\* Mutant: the curve is consulted before the failure is counted.
RecordFailureLate ==
    /\ failCount < MaxFails
    /\ failCount' = failCount + 1
    /\ lockedUntil' = IF Reached(failCount) = {} THEN lockedUntil
                      ELSE now + Lockout(failCount)
    /\ streak' = Append(streak, now)
    /\ UNCHANGED tokenVars

RecordFailure ==
    /\ failCount < MaxFails
    /\ failCount' = failCount + 1
    /\ lockedUntil' = IF Reached(failCount + 1) = {} THEN lockedUntil
                      ELSE now + Lockout(failCount + 1)
    /\ streak' = Append(streak, now)
    /\ UNCHANGED tokenVars

IssueToken ==
    /\ issued < MaxTokens
    /\ issued' = issued + 1
    /\ token' = issued + 1
    /\ expiresAt' = now + FreshWindow
    /\ lastProof' = now
    /\ failCount' = 0
    /\ streak' = <<>>
    /\ UNCHANGED lockedUntil

-----------------------------------------------------------------------------
(* authenticate(password)                                                   *)

CoolingDown == now < lockedUntil

\* verifyPassword throws for another string, and also when the ledger is locked
Verified(c) == open /\ c.kind = "password"

AuthRefused(c) ==
    /\ CoolingDown \/ c.kind = "empty"
    /\ UNCHANGED <<tokenVars, failVars>>

\* Mutant: the cooldown check is left out.
AuthFailedUnpaced(c) == c.kind # "empty" /\ ~Verified(c) /\ RecordFailure

AuthFailed(c) == ~CoolingDown /\ c.kind # "empty" /\ ~Verified(c) /\ RecordFailure

AuthPassed(c) == ~CoolingDown /\ Verified(c) /\ IssueToken

Authenticate(c) ==
    /\ AuthRefused(c) \/ AuthFailed(c) \/ AuthPassed(c)
    /\ UNCHANGED <<now, open, nonceVars, consumed>>

-----------------------------------------------------------------------------
(* requireFresh(action, tokenOrPassword)                                    *)

\* Mutant: the expiry is compared with <=.
TokenValidLong(c) == token # 0 /\ c = [kind |-> "token", id |-> token] /\ now <= expiresAt

TokenValid(c) == token # 0 /\ c = [kind |-> "token", id |-> token] /\ now < expiresAt

Live(n) == now <= n.createdAt + NonceExpiry

\* Mutant: the registry is filled, its counter is not advanced.
IssueNonceUncounted(c, proof) ==
    /\ nonceCount < MaxNonces
    /\ UNCHANGED nonceCount
    /\ nonces' = {n \in nonces : Live(n)}
                    \cup {[id |-> nonceCount + 1, createdAt |-> now, used |-> FALSE]}
    /\ granted' = Append(granted, [cred |-> c, at |-> now, proof |-> proof])

IssueNonce(c, proof) ==
    /\ nonceCount < MaxNonces
    /\ nonceCount' = nonceCount + 1
    /\ nonces' = {n \in nonces : Live(n)}
                    \cup {[id |-> nonceCount + 1, createdAt |-> now, used |-> FALSE]}
    /\ granted' = Append(granted, [cred |-> c, at |-> now, proof |-> proof])

GrantByToken(c) ==
    /\ TokenValid(c)
    /\ IssueNonce(c, lastProof)
    /\ UNCHANGED <<tokenVars, failVars>>

GrantByPassword(c) ==
    /\ ~TokenValid(c)
    /\ AuthPassed(c)
    /\ IssueNonce(c, now)

\* the two ways the gate lets a request pass
Granted(c) ==
    /\ c.kind # "empty"
    /\ GrantByToken(c) \/ GrantByPassword(c)
    /\ UNCHANGED <<now, consumed>>

\* a stale token falls through to authenticate and fails there as a password
Denied(c) ==
    /\ c.kind = "empty" \/ ~TokenValid(c)
    /\ AuthRefused(c) \/ AuthFailed(c)
    /\ UNCHANGED <<now, nonceVars, consumed>>

RequireFresh(c) == (Granted(c) \/ Denied(c)) /\ UNCHANGED open

-----------------------------------------------------------------------------

\* Mutant: the entry is not marked used.
ConsumeNonceAgain(id) ==
    /\ \E n \in nonces : n.id = id /\ ~n.used /\ Live(n)
    /\ Len(consumed) < MaxNonces + 1
    /\ consumed' = Append(consumed, id)
    /\ UNCHANGED <<now, open, tokenVars, failVars, nonceVars>>

ConsumeNonce(id) ==
    /\ \E n \in nonces :
        /\ n.id = id
        /\ ~n.used
        /\ IF Live(n)
           THEN /\ nonces' = (nonces \ {n}) \cup {[n EXCEPT !.used = TRUE]}
                /\ consumed' = Append(consumed, id)
           ELSE /\ nonces' = nonces \ {n}
                /\ UNCHANGED consumed
    /\ UNCHANGED <<now, open, tokenVars, failVars, nonceCount, granted>>

Revoke ==
    /\ token' = 0
    /\ expiresAt' = 0
    /\ lastProof' = NoProof
    /\ UNCHANGED <<now, open, issued, failVars, nonceVars, consumed>>

\* vault:lock, the auto-lock, the screen lock ... and vault:unlock
LockOrUnlock ==
    /\ open' = ~open
    /\ UNCHANGED <<now, authVars>>

\* The program ends and starts again: the gate lives in memory only, its failures
\* and its cooldown too.
ForgetAuth ==
    /\ token' = 0 /\ expiresAt' = 0 /\ lastProof' = NoProof
    /\ failCount' = 0 /\ lockedUntil' = 0 /\ streak' = <<>>
    /\ nonces' = {}
    /\ UNCHANGED <<now, issued, nonceCount, granted, consumed>>

Restart == open' = FALSE /\ ForgetAuth

Tick ==
    /\ now < MaxNow
    /\ now' = now + 1
    /\ UNCHANGED <<open, authVars>>

AuthInit ==
    /\ token = 0 /\ issued = 0 /\ expiresAt = 0 /\ lastProof = NoProof
    /\ failCount = 0 /\ lockedUntil = 0 /\ streak = <<>>
    /\ nonces = {} /\ nonceCount = 0 /\ granted = <<>> /\ consumed = <<>>

Init == now = 0 /\ open = FALSE /\ AuthInit

Next ==
    \/ \E c \in Cred : Authenticate(c) \/ RequireFresh(c)
    \/ \E id \in 1..nonceCount : ConsumeNonce(id)
    \/ Revoke
    \/ LockOrUnlock
    \/ Restart
    \/ Tick

Spec == Init /\ [][Next]_vars

-----------------------------------------------------------------------------
(* Properties                                                               *)

TypeOK ==
    /\ now \in Nat /\ open \in BOOLEAN
    /\ issued \in Nat /\ token \in 0..issued
    /\ expiresAt \in Nat /\ lastProof \in Nat \cup {NoProof}
    /\ failCount \in Nat /\ lockedUntil \in Nat /\ streak \in Seq(Nat)
    /\ nonceCount \in Nat
    /\ nonces \in SUBSET [id : 1..nonceCount, createdAt : Nat, used : BOOLEAN]
    /\ granted \in Seq([cred : [kind : Kinds, id : Nat], at : Nat,
                        proof : Nat \cup {NoProof}])
    /\ consumed \in Seq(Nat)

\* While the program runs guesses are paced by the curve: the failure after the
\* i-th failure in a row comes at least the i-th lockout later, whatever was
\* tried in between, tokens and locked vaults included.
GuessesArePaced ==
    \A i \in 1..(Len(streak) - 1) : streak[i + 1] >= streak[i] + Lockout(i)

\* A request is let through only within the fresh window of a verification of
\* the password that was not revoked since: using the token does not stretch
\* the window, and neither a failed attempt nor a cooldown brings a token back.
GrantFollowsProof ==
    \A i \in 1..Len(granted) :
        LET g == granted[i]
        IN  g.proof # NoProof /\ g.proof <= g.at /\ g.at < g.proof + FreshWindow

\* An attempt during the cooldown neither ends nor extends it, and is not
\* counted: only its passing ends it, and a restart of the program.
CooldownIsFixed ==
    [][now < lockedUntil => UNCHANGED <<lockedUntil, failCount>> \/ Restart]_vars

\* consumeNonce answers true at most once for a request id, although the
\* registry forgets expired entries.
NonceIsSingleUse ==
    \A i, j \in 1..Len(consumed) : consumed[i] = consumed[j] => i = j

\* Tokens, failures, cooldowns and nonces add up to the plain gate: a request
\* passes within the window of a proof of the password, or with one, and every
\* other step of the gate goes unnoticed behind it.
Gate == INSTANCE FreshGate WITH proof <- lastProof, passed <- Len(granted),
                                MaxPassed <- MaxNonces

ImplementsGate == Gate!GateSpec
=============================================================================
