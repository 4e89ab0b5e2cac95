-------------------------- MODULE FreshAuth_proofs --------------------------
(***************************************************************************)
(* The gate of FreshAuth.tla for every window, every cooldown curve and    *)
(* every bound.  Each invariant gets a step lemma with one case per        *)
(* action; what two of them need (the type invariant) is proved first.     *)
(***************************************************************************)
EXTENDS FreshAuth, TLAPS

-----------------------------------------------------------------------------
(* The curve                                                                *)

\* What the cooldown curve yields is a length of time, never an undefined
\* choice: the level that counts exists as soon as one is reached.
LEMMA LockoutIsNat ==
    ASSUME NEW n \in Nat
    PROVE  Lockout(n) \in Nat
<1>1. CASE Reached(n) = {}
  BY <1>1 DEF Lockout
<1>2. CASE Reached(n) # {}
  <2>1. Reached(n) \in SUBSET Thresholds
    BY DEF Reached
  <2>2. PICK m \in Reached(n) : \A u \in Reached(n) : u <= m
    BY <1>2, <2>1, FreshAuthAssumption
  <2>3. (CHOOSE t \in Reached(n) : \A u \in Reached(n) : u <= t) \in Thresholds
    BY <2>1, <2>2
  <2>. QED
    BY <1>2, <2>3, FreshAuthAssumption DEF Lockout
<1>. QED
  BY <1>1, <1>2

-----------------------------------------------------------------------------
(* Type correctness                                                         *)

\* What one recorded failure leaves behind is well typed.
LEMMA RecordFailureType ==
    ASSUME TypeOK, RecordFailure
    PROVE  /\ failCount' \in Nat /\ lockedUntil' \in Nat /\ streak' \in Seq(Nat)
           /\ UNCHANGED tokenVars
<1>1. failCount + 1 \in Nat
  BY DEF TypeOK
<1>2. Lockout(failCount + 1) \in Nat
  BY <1>1, LockoutIsNat
<1>. QED
  BY <1>1, <1>2 DEF TypeOK, RecordFailure

\* What one issued token leaves behind is well typed.
LEMMA IssueTokenType ==
    ASSUME TypeOK, IssueToken
    PROVE  /\ issued' \in Nat /\ token' \in 0..issued' /\ expiresAt' \in Nat
           /\ lastProof' \in Nat \cup {NoProof}
           /\ failCount' \in Nat /\ lockedUntil' \in Nat /\ streak' \in Seq(Nat)
BY FreshAuthAssumption DEF TypeOK, IssueToken

\* What one grant leaves in the nonce registry is well typed.
LEMMA IssueNonceType ==
    ASSUME TypeOK, NEW c \in Cred, NEW p \in Nat \cup {NoProof}, IssueNonce(c, p)
    PROVE  /\ nonceCount' \in Nat
           /\ nonces' \in SUBSET [id : 1..nonceCount', createdAt : Nat, used : BOOLEAN]
           /\ granted' \in Seq([cred : [kind : Kinds, id : Nat], at : Nat,
                                proof : Nat \cup {NoProof}])
<1>. DEFINE Grants == [cred : [kind : Kinds, id : Nat], at : Nat,
                       proof : Nat \cup {NoProof}]
<1>1. nonceCount' \in Nat /\ nonceCount' = nonceCount + 1
  BY DEF TypeOK, IssueNonce
<1>2. nonces \in SUBSET [id : 1..nonceCount', createdAt : Nat, used : BOOLEAN]
  BY <1>1 DEF TypeOK
<1>3. [id |-> nonceCount + 1, createdAt |-> now, used |-> FALSE]
          \in [id : 1..nonceCount', createdAt : Nat, used : BOOLEAN]
  BY <1>1 DEF TypeOK
<1>4. c \in [kind : Kinds, id : Nat]
  <2>1. c \in [kind : Kinds \ {"token"}, id : {0}]
             \/ c \in [kind : {"token"}, id : 1..issued]
    BY DEF Cred
  <2>2. c = [kind |-> c.kind, id |-> c.id] /\ c.kind \in Kinds /\ c.id \in Nat
    BY <2>1 DEF TypeOK, Kinds
  <2>. QED
    BY <2>2
<1>5. [cred |-> c, at |-> now, proof |-> p]
          \in Grants
  BY <1>4 DEF TypeOK
<1>6. nonces' \in SUBSET [id : 1..nonceCount', createdAt : Nat, used : BOOLEAN]
  BY <1>2, <1>3 DEF IssueNonce
<1>7. granted' \in Seq(Grants)
  <2>. HIDE DEF Grants
  <2>1. granted \in Seq(Grants)
    BY DEF TypeOK, Grants
  <2>. QED
    BY <2>1, <1>5 DEF IssueNonce
<1>. QED
  BY <1>1, <1>6, <1>7

\* Every step of the gate, and of what surrounds it, keeps the types.
LEMMA TypeStep == TypeOK /\ [Next]_vars => TypeOK'
<1>. SUFFICES ASSUME TypeOK, [Next]_vars
              PROVE  TypeOK'
  OBVIOUS
<1>1. ASSUME NEW c \in Cred, Authenticate(c)
      PROVE  TypeOK'
  <2>1. CASE AuthRefused(c)
    BY <1>1, <2>1 DEF Authenticate, AuthRefused, TypeOK, tokenVars, failVars, nonceVars
  <2>2. CASE AuthFailed(c)
    BY <1>1, <2>2, RecordFailureType
       DEF Authenticate, AuthFailed, TypeOK, tokenVars, nonceVars
  <2>3. CASE AuthPassed(c)
    BY <1>1, <2>3, IssueTokenType DEF Authenticate, AuthPassed, TypeOK, nonceVars
  <2>. QED
    BY <1>1, <2>1, <2>2, <2>3 DEF Authenticate
<1>2. ASSUME NEW c \in Cred, RequireFresh(c)
      PROVE  TypeOK'
  <2>1. CASE GrantByToken(c) /\ UNCHANGED <<now, open, consumed>>
    <3>1. lastProof \in Nat \cup {NoProof}
      BY DEF TypeOK
    <3>. QED
      BY <2>1, <3>1, IssueNonceType DEF GrantByToken, TypeOK, tokenVars, failVars
  <2>2. CASE GrantByPassword(c) /\ UNCHANGED <<now, open, consumed>>
    <3>1. now \in Nat \cup {NoProof}
      BY DEF TypeOK
    <3>. QED
      BY <2>2, <3>1, IssueNonceType, IssueTokenType
         DEF GrantByPassword, AuthPassed, TypeOK
  <2>3. CASE AuthRefused(c) /\ UNCHANGED <<now, open, nonceVars, consumed>>
    BY <2>3 DEF AuthRefused, TypeOK, tokenVars, failVars, nonceVars
  <2>4. CASE AuthFailed(c) /\ UNCHANGED <<now, open, nonceVars, consumed>>
    BY <2>4, RecordFailureType DEF AuthFailed, TypeOK, tokenVars, nonceVars
  <2>. QED
    BY <1>2, <2>1, <2>2, <2>3, <2>4 DEF RequireFresh, Granted, Denied
<1>3. ASSUME NEW id \in 1..nonceCount, ConsumeNonce(id)
      PROVE  TypeOK'
  <2>1. PICK n \in nonces : n.id = id /\ ~n.used
            /\ IF Live(n)
               THEN /\ nonces' = (nonces \ {n}) \cup {[n EXCEPT !.used = TRUE]}
                    /\ consumed' = Append(consumed, id)
               ELSE /\ nonces' = nonces \ {n}
                    /\ UNCHANGED consumed
    BY <1>3 DEF ConsumeNonce
  <2>2. [n EXCEPT !.used = TRUE] \in [id : 1..nonceCount, createdAt : Nat, used : BOOLEAN]
    BY <2>1 DEF TypeOK
  <2>3. nonces' \in SUBSET [id : 1..nonceCount, createdAt : Nat, used : BOOLEAN]
    BY <2>1, <2>2 DEF TypeOK
  <2>4. id \in Nat /\ consumed \in Seq(Nat)
    BY DEF TypeOK
  <2>5. consumed' \in Seq(Nat)
    BY <2>1, <2>4
  <2>. QED
    BY <1>3, <2>3, <2>5 DEF ConsumeNonce, TypeOK, tokenVars, failVars
<1>4. ASSUME Revoke
      PROVE  TypeOK'
  BY <1>4 DEF Revoke, TypeOK, failVars, nonceVars
<1>5. ASSUME LockOrUnlock
      PROVE  TypeOK'
  BY <1>5 DEF LockOrUnlock, TypeOK, authVars, tokenVars, failVars, nonceVars
<1>6. ASSUME Tick
      PROVE  TypeOK'
  BY <1>6 DEF Tick, TypeOK, authVars, tokenVars, failVars, nonceVars
<1>7. ASSUME UNCHANGED vars
      PROVE  TypeOK'
  BY <1>7 DEF vars, TypeOK, authVars, tokenVars, failVars, nonceVars
<1>8. ASSUME Restart
      PROVE  TypeOK'
  <2>1. /\ token' = 0 /\ expiresAt' = 0 /\ lastProof' = NoProof
        /\ failCount' = 0 /\ lockedUntil' = 0 /\ streak' = <<>> /\ nonces' = {}
        /\ open' \in BOOLEAN
        /\ UNCHANGED <<now, issued, nonceCount, granted, consumed>>
    BY <1>8 DEF Restart, ForgetAuth
  <2>. QED
    BY <2>1 DEF TypeOK
<1>. QED
  BY <1>1, <1>2, <1>3, <1>4, <1>5, <1>6, <1>7, <1>8 DEF Next

\* The gate keeps its variables in their types under every order of calls.
THEOREM TypeCorrect == Spec => []TypeOK
<1>1. ASSUME Init
      PROVE  TypeOK
  <2>1. \A S : <<>> \in Seq(S) /\ {} \in SUBSET S
    OBVIOUS
  <2>2. nonces \in SUBSET [id : 1..nonceCount, createdAt : Nat, used : BOOLEAN]
    BY <1>1, <2>1 DEF Init, AuthInit
  <2>3. granted \in Seq([cred : [kind : Kinds, id : Nat], at : Nat,
                         proof : Nat \cup {NoProof}])
    BY <1>1, <2>1 DEF Init, AuthInit
  <2>4. streak \in Seq(Nat) /\ consumed \in Seq(Nat)
    BY <1>1, <2>1 DEF Init, AuthInit
  <2>5. open \in BOOLEAN
    BY <1>1, Zenon DEF Init
  <2>6. /\ now \in Nat /\ issued \in Nat /\ token \in 0..issued
        /\ expiresAt \in Nat /\ lastProof \in Nat \cup {NoProof}
        /\ failCount \in Nat /\ lockedUntil \in Nat /\ nonceCount \in Nat
    BY <1>1 DEF Init, AuthInit
  <2>. QED
    BY <2>2, <2>3, <2>4, <2>5, <2>6 DEF TypeOK
<1>. QED
  BY <1>1, TypeStep, PTL DEF Spec

-----------------------------------------------------------------------------
(* Pacing                                                                   *)

\* What the pacing rests on: the counter counts the streak, and the lockout in
\* force was reckoned from the last failure of it.  Without the second part a
\* failure could follow another before the lockout it earned has passed.
PaceInv ==
    /\ GuessesArePaced
    /\ failCount = Len(streak)
    /\ Len(streak) > 0 =>
           /\ streak[Len(streak)] <= now
           /\ \/ Lockout(Len(streak)) = 0
              \/ lockedUntil >= streak[Len(streak)] + Lockout(Len(streak))

\* A failure is recorded outside the cooldown only, and keeps the pacing.
LEMMA FailurePaced ==
    ASSUME TypeOK, PaceInv, ~CoolingDown, RecordFailure, UNCHANGED now
    PROVE  PaceInv'
<1>. DEFINE n == Len(streak)
<1>1. n \in Nat /\ streak \in Seq(Nat) /\ now \in Nat /\ lockedUntil \in Nat
  BY DEF TypeOK
<1>2. streak' = Append(streak, now) /\ Len(streak') = n + 1
  BY <1>1 DEF RecordFailure
<1>3. streak'[n + 1] = now /\ \A i \in 1..n : streak'[i] = streak[i]
  BY <1>1, <1>2
<1>4. Lockout(n) \in Nat /\ Lockout(n + 1) \in Nat
  BY <1>1, LockoutIsNat
<1>5. ASSUME n > 0
      PROVE  now >= streak[n] + Lockout(n)
  <2>1. streak[n] \in Nat
    BY <1>1, <1>5
  <2>2. streak[n] <= now /\ (Lockout(n) = 0 \/ lockedUntil >= streak[n] + Lockout(n))
    BY <1>5 DEF PaceInv
  <2>3. now >= lockedUntil
    BY <1>1 DEF CoolingDown
  <2>. QED
    BY <1>1, <1>4, <2>1, <2>2, <2>3
<1>6. GuessesArePaced'
  <2>0. (Len(streak') - 1) = n
    BY <1>1, <1>2
  <2>. SUFFICES ASSUME NEW i \in 1..n
                PROVE  streak'[i + 1] >= streak'[i] + Lockout(i)
    BY <2>0 DEF GuessesArePaced, Lockout, Reached
  <2>1. CASE i = n
    BY <2>1, <1>1, <1>3, <1>5
  <2>2. CASE i # n
    <3>1. i \in 1..(n - 1) /\ i + 1 \in 1..n
      BY <2>2, <1>1
    <3>2. streak[i + 1] >= streak[i] + Lockout(i)
      BY <3>1 DEF PaceInv, GuessesArePaced
    <3>. QED
      BY <3>1, <3>2, <1>3
  <2>. QED
    BY <2>1, <2>2
<1>7. failCount' = n + 1
  BY DEF RecordFailure, PaceInv
<1>8. Lockout(n + 1) = 0 \/ lockedUntil' = now + Lockout(n + 1)
  <2>1. failCount = n
    BY DEF PaceInv
  <2>2. CASE Reached(n + 1) = {}
    BY <2>2 DEF Lockout
  <2>3. CASE Reached(n + 1) # {}
    BY <2>1, <2>3 DEF RecordFailure
  <2>. QED
    BY <2>2, <2>3
<1>9. streak'[Len(streak')] <= now'
  BY <1>1, <1>2, <1>3
<1>10. \/ Lockout(Len(streak'))  = 0
       \/ lockedUntil' >= streak'[Len(streak')] + Lockout(Len(streak'))
  BY <1>1, <1>2, <1>3, <1>4, <1>8
<1>. QED
  BY <1>2, <1>6, <1>7, <1>9, <1>10 DEF PaceInv, Lockout, Reached

\* A success starts the count afresh.
LEMMA SuccessPaced ==
    ASSUME TypeOK, IssueToken
    PROVE  PaceInv'
BY DEF IssueToken, PaceInv, GuessesArePaced

\* Every step keeps the failures in a row paced: those of the gate record a
\* failure only outside the cooldown, the others leave the failures alone.
LEMMA PaceStep == TypeOK /\ PaceInv /\ [Next]_vars => PaceInv'
<1>. SUFFICES ASSUME TypeOK, PaceInv, [Next]_vars
              PROVE  PaceInv'
  OBVIOUS
<1>0. ASSUME UNCHANGED failVars, now' \in Nat, now' >= now
      PROVE  PaceInv'
  <2>1. UNCHANGED <<failCount, lockedUntil, streak>>
    BY <1>0 DEF failVars
  <2>2. GuessesArePaced' /\ failCount' = Len(streak')
    BY <2>1 DEF PaceInv, GuessesArePaced, Lockout, Reached
  <2>3. Len(streak) > 0 => streak[Len(streak)] \in Nat
    BY DEF TypeOK
  <2>4. ASSUME Len(streak) > 0
        PROVE  /\ streak[Len(streak)] <= now'
               /\ \/ Lockout(Len(streak)) = 0
                  \/ lockedUntil >= streak[Len(streak)] + Lockout(Len(streak))
    BY <1>0, <2>3, <2>4 DEF PaceInv, TypeOK
  <2>. QED
    BY <2>1, <2>2, <2>4 DEF PaceInv, Lockout, Reached
<1>00. now \in Nat
  BY DEF TypeOK
<1>1. ASSUME NEW c \in Cred, Authenticate(c)
      PROVE  PaceInv'
  BY <1>0, <1>00, <1>1, FailurePaced, SuccessPaced
     DEF Authenticate, AuthRefused, AuthFailed, AuthPassed
<1>2. ASSUME NEW c \in Cred, RequireFresh(c)
      PROVE  PaceInv'
  BY <1>0, <1>00, <1>2, FailurePaced, SuccessPaced
     DEF RequireFresh, Granted, Denied, GrantByToken, GrantByPassword,
         AuthRefused, AuthFailed, AuthPassed
<1>3. ASSUME NEW id \in 1..nonceCount, ConsumeNonce(id)
      PROVE  PaceInv'
  BY <1>0, <1>00, <1>3 DEF ConsumeNonce
<1>4. ASSUME Revoke
      PROVE  PaceInv'
  BY <1>0, <1>00, <1>4 DEF Revoke
<1>5. ASSUME LockOrUnlock
      PROVE  PaceInv'
  BY <1>0, <1>00, <1>5 DEF LockOrUnlock, authVars
<1>6. ASSUME Tick
      PROVE  PaceInv'
  BY <1>0, <1>00, <1>6 DEF Tick, authVars
<1>7. ASSUME UNCHANGED vars
      PROVE  PaceInv'
  BY <1>0, <1>00, <1>7 DEF vars, authVars
<1>8. ASSUME Restart
      PROVE  PaceInv'
  <2>1. streak' = <<>> /\ failCount' = 0
    BY <1>8 DEF Restart, ForgetAuth
  <2>. QED
    BY <2>1 DEF PaceInv, GuessesArePaced
<1>. QED
  BY <1>1, <1>2, <1>3, <1>4, <1>5, <1>6, <1>7, <1>8 DEF Next

\* Whatever is presented to the gate and in whatever order, failures in a row
\* are at least the lockouts of the curve apart while the program runs.
THEOREM Pacing == Spec => []GuessesArePaced
<1>1. Init => PaceInv
  BY DEF Init, AuthInit, PaceInv, GuessesArePaced
<1>2. PaceInv => GuessesArePaced
  BY DEF PaceInv
<1>. QED
  BY <1>1, <1>2, PaceStep, TypeCorrect, PTL DEF Spec

-----------------------------------------------------------------------------
(* The window                                                               *)

\* The token and its expiry always stem from one verification of the password.
WindowInv ==
    /\ GrantFollowsProof
    /\ token # 0 =>
           /\ lastProof # NoProof /\ lastProof <= now
           /\ expiresAt = lastProof + FreshWindow

\* A step that keeps the token and grants nothing keeps the invariant.
LEMMA WindowKept ==
    ASSUME TypeOK, WindowInv, UNCHANGED <<tokenVars, granted>>, now' \in Nat, now' >= now
    PROVE  WindowInv'
<1>1. UNCHANGED <<token, expiresAt, lastProof, granted>>
  BY DEF tokenVars
<1>2. now \in Nat /\ lastProof \in Nat \cup {NoProof}
  BY DEF TypeOK
<1>. QED
  BY <1>1, <1>2 DEF WindowInv, GrantFollowsProof

\* A fresh proof starts a fresh window.
LEMMA WindowOpened ==
    ASSUME TypeOK, WindowInv, IssueToken, UNCHANGED now
    PROVE  /\ token' # 0 => /\ lastProof' # NoProof /\ lastProof' <= now'
                            /\ expiresAt' = lastProof' + FreshWindow
           /\ now # NoProof /\ now < now + FreshWindow
BY FreshAuthAssumption DEF TypeOK, IssueToken, NoProof

\* A grant within a window is recorded with the proof that opened it.
LEMMA GrantRecorded ==
    ASSUME TypeOK, WindowInv, NEW c \in Cred, NEW p \in Nat \cup {NoProof},
           IssueNonce(c, p), p # NoProof, p <= now, now < p + FreshWindow
    PROVE  GrantFollowsProof'
<1>. DEFINE g == [cred |-> c, at |-> now, proof |-> p]
            Grants == [cred : [kind : Kinds, id : Nat], at : Nat,
                       proof : Nat \cup {NoProof}]
<1>1. granted \in Seq(Grants) /\ granted' = Append(granted, g)
  BY DEF TypeOK, IssueNonce
<1>. HIDE DEF g, Grants
<1>2. /\ Len(granted) \in Nat /\ Len(granted') = Len(granted) + 1
      /\ granted'[Len(granted) + 1] = g
      /\ \A i \in 1..Len(granted) : granted'[i] = granted[i]
  BY <1>1
<1>3. g.proof = p /\ g.at = now
  BY DEF g
<1>4. SUFFICES ASSUME NEW i \in 1..Len(granted')
               PROVE  /\ granted'[i].proof # NoProof /\ granted'[i].proof <= granted'[i].at
                      /\ granted'[i].at < granted'[i].proof + FreshWindow
  BY DEF GrantFollowsProof
<1>5. CASE i = Len(granted) + 1
  BY <1>2, <1>3, <1>5
<1>6. CASE i # Len(granted) + 1
  <2>1. i \in 1..Len(granted)
    BY <1>2, <1>6
  <2>. QED
    BY <1>2, <2>1 DEF WindowInv, GrantFollowsProof
<1>. QED
  BY <1>5, <1>6

\* Every step keeps token, expiry and proof together.
LEMMA WindowStep == TypeOK /\ WindowInv /\ [Next]_vars => WindowInv'
<1>. SUFFICES ASSUME TypeOK, WindowInv, [Next]_vars
              PROVE  WindowInv'
  OBVIOUS
<1>0. now \in Nat /\ now >= now
  BY DEF TypeOK
<1>1. ASSUME NEW c \in Cred, Authenticate(c)
      PROVE  WindowInv'
  <2>1. CASE AuthRefused(c)
    BY <1>0, <1>1, <2>1, WindowKept DEF Authenticate, AuthRefused, nonceVars
  <2>2. CASE AuthFailed(c)
    BY <1>0, <1>1, <2>2, WindowKept DEF Authenticate, AuthFailed, RecordFailure, nonceVars
  <2>3. CASE AuthPassed(c)
    <3>1. IssueToken /\ UNCHANGED now /\ UNCHANGED granted
      BY <1>1, <2>3 DEF Authenticate, AuthPassed, nonceVars
    <3>2. GrantFollowsProof'
      BY <3>1 DEF WindowInv, GrantFollowsProof
    <3>. QED
      BY <3>1, <3>2, WindowOpened DEF WindowInv
  <2>. QED
    BY <1>1, <2>1, <2>2, <2>3 DEF Authenticate
<1>2. ASSUME NEW c \in Cred, RequireFresh(c)
      PROVE  WindowInv'
  <2>1. CASE GrantByToken(c) /\ UNCHANGED now
    <3>1. /\ lastProof # NoProof /\ lastProof <= now /\ now < lastProof + FreshWindow
          /\ lastProof \in Nat \cup {NoProof} /\ IssueNonce(c, lastProof)
      BY <2>1 DEF GrantByToken, TokenValid, WindowInv, TypeOK
    <3>2. GrantFollowsProof'
      BY <3>1, GrantRecorded
    <3>3. UNCHANGED <<token, expiresAt, lastProof, now>>
      BY <2>1 DEF GrantByToken, tokenVars
    <3>. QED
      BY <3>2, <3>3 DEF WindowInv
  <2>2. CASE GrantByPassword(c) /\ UNCHANGED now
    <3>1. IssueToken /\ IssueNonce(c, now) /\ now \in Nat \cup {NoProof} /\ now <= now
      BY <1>0, <2>2 DEF GrantByPassword, AuthPassed
    <3>2. GrantFollowsProof'
      BY <2>2, <3>1, WindowOpened, GrantRecorded
    <3>. QED
      BY <2>2, <3>1, <3>2, WindowOpened DEF WindowInv
  <2>3. CASE AuthRefused(c) /\ UNCHANGED <<now, nonceVars>>
    BY <1>0, <2>3, WindowKept DEF AuthRefused, nonceVars
  <2>4. CASE AuthFailed(c) /\ UNCHANGED <<now, nonceVars>>
    BY <1>0, <2>4, WindowKept DEF AuthFailed, RecordFailure, nonceVars
  <2>. QED
    BY <1>2, <2>1, <2>2, <2>3, <2>4 DEF RequireFresh, Granted, Denied
<1>3. ASSUME NEW id \in 1..nonceCount, ConsumeNonce(id)
      PROVE  WindowInv'
  BY <1>0, <1>3, WindowKept DEF ConsumeNonce
<1>4. ASSUME Revoke
      PROVE  WindowInv'
  <2>1. token' = 0 /\ UNCHANGED granted
    BY <1>4 DEF Revoke, nonceVars
  <2>. QED
    BY <2>1 DEF WindowInv, GrantFollowsProof
<1>5. ASSUME LockOrUnlock
      PROVE  WindowInv'
  BY <1>0, <1>5, WindowKept DEF LockOrUnlock, authVars, nonceVars
<1>6. ASSUME Tick
      PROVE  WindowInv'
  BY <1>0, <1>6, WindowKept DEF Tick, authVars, nonceVars
<1>7. ASSUME UNCHANGED vars
      PROVE  WindowInv'
  BY <1>0, <1>7, WindowKept DEF vars, authVars, nonceVars
<1>8. ASSUME Restart
      PROVE  WindowInv'
  <2>1. token' = 0 /\ UNCHANGED granted
    BY <1>8 DEF Restart, ForgetAuth
  <2>. QED
    BY <2>1 DEF WindowInv, GrantFollowsProof
<1>. QED
  BY <1>1, <1>2, <1>3, <1>4, <1>5, <1>6, <1>7, <1>8 DEF Next

\* No request passes the gate later than one window after the password was
\* last verified, however often the token is used.
THEOREM FreshGrants == Spec => []GrantFollowsProof
<1>1. Init => WindowInv
  BY DEF Init, AuthInit, WindowInv, GrantFollowsProof
<1>2. WindowInv => GrantFollowsProof
  BY DEF WindowInv
<1>. QED
  BY <1>1, <1>2, WindowStep, TypeCorrect, PTL DEF Spec

-----------------------------------------------------------------------------
(* The cooldown                                                             *)

\* During a cooldown a step leaves it alone, or is a restart.
LEMMA CooldownStep ==
    ASSUME [Next]_vars, CoolingDown, ~Restart
    PROVE  UNCHANGED <<lockedUntil, failCount>>
<1>1. ASSUME NEW c \in Cred, Authenticate(c)
      PROVE  UNCHANGED failVars
  BY <1>1 DEF Authenticate, AuthRefused, AuthFailed, AuthPassed
<1>2. ASSUME NEW c \in Cred, RequireFresh(c)
      PROVE  UNCHANGED failVars
  BY <1>2 DEF RequireFresh, Granted, Denied, GrantByToken, GrantByPassword,
              AuthRefused, AuthFailed, AuthPassed
<1>3. ASSUME NEW id \in 1..nonceCount, ConsumeNonce(id)
      PROVE  UNCHANGED failVars
  BY <1>3 DEF ConsumeNonce
<1>. QED
  BY <1>1, <1>2, <1>3
     DEF Next, Revoke, LockOrUnlock, Tick, vars, authVars, failVars

\* Nothing a caller does while the program runs moves the end of a cooldown or
\* the count behind it.
THEOREM FixedCooldown == Spec => CooldownIsFixed
<1>1. [Next]_vars => [now < lockedUntil => UNCHANGED <<lockedUntil, failCount>> \/ Restart]_vars
  BY CooldownStep DEF CoolingDown
<1>. QED
  BY <1>1, PTL DEF Spec, CooldownIsFixed

-----------------------------------------------------------------------------
(* Nonces                                                                   *)

\* The registry forgets entries, and what it forgets never comes back: ids are
\* drawn from a counter, no two entries share one, and an entry that still
\* reads unused was never consumed.
NonceInv ==
    /\ NonceIsSingleUse
    /\ \A m, n \in nonces : m.id = n.id => m = n
    /\ \A i \in 1..Len(consumed) : consumed[i] <= nonceCount
    /\ \A n \in nonces : ~n.used => \A i \in 1..Len(consumed) : consumed[i] # n.id

\* A grant adds an entry with an id that was never there.
LEMMA NonceIssued ==
    ASSUME TypeOK, NonceInv, NEW c, NEW p, IssueNonce(c, p), UNCHANGED consumed
    PROVE  NonceInv'
<1>. DEFINE e == [id |-> nonceCount + 1, createdAt |-> now, used |-> FALSE]
<1>1. /\ nonceCount \in Nat /\ nonceCount' = nonceCount + 1 /\ e.id = nonceCount + 1
      /\ \A n \in nonces' : n \in nonces \/ n = e
  BY DEF IssueNonce, TypeOK
<1>2. \A n \in nonces : n.id \in 1..nonceCount
  BY DEF TypeOK
<1>3. \A i \in 1..Len(consumed) : consumed[i] \in Nat
  BY DEF TypeOK
<1>. HIDE DEF e
<1>4. \A m, n \in nonces' : m.id = n.id => m = n
  BY <1>1, <1>2 DEF NonceInv
<1>5. \A i \in 1..Len(consumed) : consumed[i] <= nonceCount' /\ consumed[i] # e.id
  BY <1>1, <1>3 DEF NonceInv
<1>6. \A n \in nonces' : ~n.used => \A i \in 1..Len(consumed) : consumed[i] # n.id
  BY <1>1, <1>5 DEF NonceInv
<1>. QED
  BY <1>4, <1>5, <1>6 DEF NonceInv, NonceIsSingleUse

\* A consumed entry is marked in the step that consumes it.
LEMMA NonceConsumed ==
    ASSUME TypeOK, NonceInv, NEW id \in 1..nonceCount, ConsumeNonce(id)
    PROVE  NonceInv'
<1>1. PICK n \in nonces : n.id = id /\ ~n.used
          /\ IF Live(n)
             THEN /\ nonces' = (nonces \ {n}) \cup {[n EXCEPT !.used = TRUE]}
                  /\ consumed' = Append(consumed, id)
             ELSE /\ nonces' = nonces \ {n}
                  /\ UNCHANGED consumed
  BY DEF ConsumeNonce
<1>2. UNCHANGED nonceCount
  BY DEF ConsumeNonce
<1>3. CASE nonces' = nonces \ {n} /\ UNCHANGED consumed
  BY <1>2, <1>3 DEF NonceInv, NonceIsSingleUse
<1>4. CASE /\ nonces' = (nonces \ {n}) \cup {[n EXCEPT !.used = TRUE]}
           /\ consumed' = Append(consumed, id)
  <2>. DEFINE e == [n EXCEPT !.used = TRUE]
              k == Len(consumed)
  <2>1. e.id = id /\ e.used
    BY <1>1 DEF TypeOK
  <2>2. \A m \in nonces' : (m \in nonces /\ m # n) \/ m = e
    BY <1>4
  <2>3. /\ k \in Nat /\ Len(consumed') = k + 1 /\ consumed'[k + 1] = id
        /\ \A i \in 1..k : consumed'[i] = consumed[i]
    BY <1>4 DEF TypeOK
  <2>. HIDE DEF e, k
  <2>4. \A i \in 1..k : consumed[i] # id
    BY <1>1 DEF NonceInv, k
  <2>5. NonceIsSingleUse'
    <3>. SUFFICES ASSUME NEW i \in 1..(k + 1), NEW j \in 1..(k + 1),
                         consumed'[i] = consumed'[j]
                  PROVE  i = j
      BY <2>3 DEF NonceIsSingleUse
    <3>1. CASE i \in 1..k /\ j \in 1..k
      BY <2>3, <3>1 DEF NonceInv, NonceIsSingleUse, k
    <3>2. CASE i = k + 1 \/ j = k + 1
      <4>1. \A l \in 1..k : consumed'[l] # consumed'[k + 1]
        BY <2>3, <2>4
      <4>. QED
        BY <2>3, <3>2, <4>1
    <3>. QED
      BY <2>3, <3>1, <3>2
  <2>6. \A l, m \in nonces' : l.id = m.id => l = m
    BY <1>1, <2>1, <2>2 DEF NonceInv
  <2>7. \A i \in 1..(k + 1) : consumed'[i] <= nonceCount
    <3>. SUFFICES ASSUME NEW i \in 1..(k + 1)
                  PROVE  consumed'[i] <= nonceCount
      OBVIOUS
    <3>1. CASE i = k + 1
      BY <2>3, <3>1 DEF TypeOK
    <3>2. CASE i # k + 1
      <4>1. i \in 1..k
        BY <2>3, <3>2
      <4>. QED
        BY <2>3, <4>1 DEF NonceInv, k
    <3>. QED
      BY <3>1, <3>2
  <2>8. \A m \in nonces' : ~m.used => \A i \in 1..(k + 1) : consumed'[i] # m.id
    <3>. SUFFICES ASSUME NEW m \in nonces', ~m.used, NEW i \in 1..(k + 1)
                  PROVE  consumed'[i] # m.id
      OBVIOUS
    <3>1. m \in nonces /\ m # n
      BY <2>1, <2>2
    <3>2. m.id # id
      BY <1>1, <3>1 DEF NonceInv
    <3>3. CASE i = k + 1
      BY <2>3, <3>2, <3>3
    <3>4. CASE i # k + 1
      <4>1. i \in 1..k
        BY <2>3, <3>4
      <4>. QED
        BY <2>3, <3>1, <4>1 DEF NonceInv, k
    <3>. QED
      BY <3>3, <3>4
  <2>. QED
    BY <1>2, <2>3, <2>5, <2>6, <2>7, <2>8 DEF NonceInv
<1>. QED
  BY <1>1, <1>3, <1>4

\* Every step keeps unused entries apart from what was consumed.
LEMMA NonceStep == TypeOK /\ NonceInv /\ [Next]_vars => NonceInv'
<1>. SUFFICES ASSUME TypeOK, NonceInv, [Next]_vars
              PROVE  NonceInv'
  OBVIOUS
<1>0. ASSUME UNCHANGED <<nonceVars, consumed>>
      PROVE  NonceInv'
  BY <1>0 DEF NonceInv, NonceIsSingleUse, nonceVars
<1>1. ASSUME NEW c \in Cred, RequireFresh(c)
      PROVE  NonceInv'
  <2>1. CASE Granted(c)
    BY <2>1, NonceIssued DEF Granted, GrantByToken, GrantByPassword
  <2>2. CASE Denied(c)
    BY <1>0, <2>2 DEF Denied
  <2>. QED
    BY <1>1, <2>1, <2>2 DEF RequireFresh
<1>2. ASSUME NEW c \in Cred, Authenticate(c)
      PROVE  NonceInv'
  BY <1>0, <1>2 DEF Authenticate
<1>3. CASE \/ Revoke \/ LockOrUnlock \/ Tick \/ UNCHANGED vars
  BY <1>0, <1>3 DEF Revoke, LockOrUnlock, Tick, vars, authVars
<1>4. CASE Restart
  BY <1>4 DEF Restart, ForgetAuth, NonceInv, NonceIsSingleUse
<1>. QED
  BY <1>1, <1>2, <1>3, <1>4, NonceConsumed DEF Next

\* A request id is consumed at most once, whatever expires in between.
THEOREM SingleUseNonces == Spec => []NonceIsSingleUse
<1>1. Init => NonceInv
  BY DEF Init, AuthInit, NonceInv, NonceIsSingleUse
<1>2. NonceInv => NonceIsSingleUse
  BY DEF NonceInv
<1>. QED
  BY <1>1, <1>2, NonceStep, TypeCorrect, PTL DEF Spec

-----------------------------------------------------------------------------
(* The gate behind which the handlers stand                                 *)

\* every grant draws one nonce
CountInv == Len(granted) = nonceCount

\* A grant is one more request passed.
LEMMA GrantCounted ==
    ASSUME TypeOK, CountInv, NEW c, NEW p, IssueNonce(c, p)
    PROVE  /\ Len(granted) < MaxNonces /\ Len(granted') = Len(granted) + 1
           /\ CountInv'
<1>. DEFINE g == [cred |-> c, at |-> now, proof |-> p]
<1>1. Len(granted) \in Nat /\ granted' = Append(granted, g)
  BY DEF TypeOK, IssueNonce
<1>. DEFINE Grants == [cred : [kind : Kinds, id : Nat], at : Nat,
                       proof : Nat \cup {NoProof}]
<1>2. granted \in Seq(Grants)
  BY DEF TypeOK
<1>. HIDE DEF g, Grants
<1>3. Len(granted') = Len(granted) + 1
  BY <1>1, <1>2
<1>. QED
  BY <1>3 DEF IssueNonce, CountInv

\* Every step counts the grants as the nonces it issues.
LEMMA CountStep == TypeOK /\ CountInv /\ [Next]_vars => CountInv'
<1>. SUFFICES ASSUME TypeOK, CountInv, [Next]_vars
              PROVE  CountInv'
  OBVIOUS
<1>0. ASSUME UNCHANGED <<granted, nonceCount>>
      PROVE  CountInv'
  BY <1>0 DEF CountInv
<1>1. ASSUME NEW c \in Cred, RequireFresh(c)
      PROVE  CountInv'
  <2>1. CASE Granted(c)
    BY <2>1, GrantCounted DEF Granted, GrantByToken, GrantByPassword
  <2>2. CASE Denied(c)
    BY <1>0, <2>2 DEF Denied, nonceVars
  <2>. QED
    BY <1>1, <2>1, <2>2 DEF RequireFresh
<1>2. ASSUME NEW c \in Cred, Authenticate(c)
      PROVE  CountInv'
  BY <1>0, <1>2 DEF Authenticate, nonceVars
<1>3. ASSUME NEW id \in 1..nonceCount, ConsumeNonce(id)
      PROVE  CountInv'
  BY <1>0, <1>3 DEF ConsumeNonce
<1>4. CASE Revoke \/ LockOrUnlock \/ Restart \/ Tick \/ UNCHANGED vars
  BY <1>0, <1>4 DEF Revoke, LockOrUnlock, Restart, ForgetAuth, Tick, vars, authVars, nonceVars
<1>. QED
  BY <1>1, <1>2, <1>3, <1>4 DEF Next

\* Each step of the detailed gate is a step of the plain one or none.
LEMMA GateStep ==
    ASSUME TypeOK, WindowInv, CountInv, [Next]_vars
    PROVE  [Gate!GateNext]_(Gate!gateVars)
<1>0. ASSUME UNCHANGED <<now, open, lastProof, granted>>
      PROVE  UNCHANGED Gate!gateVars
  BY <1>0 DEF Gate!gateVars
<1>1. ASSUME NEW c \in Cred, Authenticate(c)
      PROVE  Gate!Prove \/ UNCHANGED Gate!gateVars
  <2>1. CASE AuthRefused(c)
    BY <1>0, <1>1, <2>1 DEF Authenticate, AuthRefused, tokenVars, nonceVars
  <2>2. CASE AuthFailed(c)
    BY <1>0, <1>1, <2>2 DEF Authenticate, AuthFailed, RecordFailure, tokenVars, nonceVars
  <2>3. CASE AuthPassed(c)
    BY <1>1, <2>3 DEF Authenticate, AuthPassed, Verified, IssueToken, nonceVars, Gate!Prove
  <2>. QED
    BY <1>1, <2>1, <2>2, <2>3 DEF Authenticate
<1>2. ASSUME NEW c \in Cred, RequireFresh(c)
      PROVE  (Gate!Pass /\ UNCHANGED open) \/ UNCHANGED Gate!gateVars
  <2>1. CASE GrantByToken(c) /\ UNCHANGED <<now, open>>
    <3>1. lastProof # NoProof /\ now < lastProof + FreshWindow
      BY <2>1 DEF GrantByToken, TokenValid, WindowInv
    <3>2. Len(granted) < MaxNonces /\ Len(granted') = Len(granted) + 1
      BY <2>1, GrantCounted DEF GrantByToken
    <3>3. UNCHANGED lastProof
      BY <2>1 DEF GrantByToken, tokenVars
    <3>. QED
      BY <2>1, <3>1, <3>2, <3>3 DEF Gate!Pass, Gate!Fresh, Gate!NoProof, NoProof
  <2>2. CASE GrantByPassword(c) /\ UNCHANGED <<now, open>>
    <3>1. Len(granted) < MaxNonces /\ Len(granted') = Len(granted) + 1
      BY <2>2, GrantCounted DEF GrantByPassword
    <3>2. open /\ lastProof' = now
      BY <2>2 DEF GrantByPassword, AuthPassed, Verified, IssueToken
    <3>. QED
      BY <2>2, <3>1, <3>2 DEF Gate!Pass
  <2>3. CASE AuthRefused(c) /\ UNCHANGED <<now, open, nonceVars>>
    BY <1>0, <2>3 DEF AuthRefused, tokenVars, nonceVars
  <2>4. CASE AuthFailed(c) /\ UNCHANGED <<now, open, nonceVars>>
    BY <1>0, <2>4 DEF AuthFailed, RecordFailure, tokenVars, nonceVars
  <2>. QED
    BY <1>2, <2>1, <2>2, <2>3, <2>4 DEF RequireFresh, Granted, Denied
<1>3. ASSUME NEW id \in 1..nonceCount, ConsumeNonce(id)
      PROVE  UNCHANGED Gate!gateVars
  BY <1>0, <1>3 DEF ConsumeNonce, tokenVars
<1>4. ASSUME Revoke
      PROVE  Gate!Forget
  BY <1>4 DEF Revoke, nonceVars, Gate!Forget, Gate!NoProof, NoProof
<1>5. ASSUME LockOrUnlock
      PROVE  Gate!LockOrUnlock
  BY <1>5 DEF LockOrUnlock, authVars, tokenVars, nonceVars, Gate!LockOrUnlock
<1>6. ASSUME Restart
      PROVE  Gate!Restart
  BY <1>6 DEF Restart, ForgetAuth, Gate!Restart, Gate!NoProof, NoProof
<1>7. ASSUME Tick
      PROVE  Gate!Tick
  BY <1>7 DEF Tick, authVars, tokenVars, nonceVars, Gate!Tick
<1>8. ASSUME UNCHANGED vars
      PROVE  UNCHANGED Gate!gateVars
  BY <1>0, <1>8 DEF vars, authVars, tokenVars, nonceVars
<1>. QED
  BY <1>1, <1>2, <1>3, <1>4, <1>5, <1>6, <1>7, <1>8 DEF Next, Gate!GateNext

\* The gate with its tokens, cooldowns and nonces implements the plain gate the
\* handlers are modelled behind.
THEOREM GateImplemented == Spec => ImplementsGate
<1>1. Init => WindowInv /\ CountInv /\ Gate!GateInit
  BY DEF Init, AuthInit, WindowInv, GrantFollowsProof, CountInv, Gate!GateInit,
         Gate!NoProof, NoProof
<1>. QED
  BY <1>1, TypeCorrect, WindowStep, CountStep, GateStep, PTL
     DEF Spec, ImplementsGate, Gate!GateSpec
=============================================================================
