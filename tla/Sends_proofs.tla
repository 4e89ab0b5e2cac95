---------------------------- MODULE Sends_proofs ----------------------------
(***************************************************************************)
(* What is asked of the main process, and what it sends.                   *)
(*                                                                         *)
(* Two-phase signing of Signing.tla for every set of wallets, payments and *)
(* settings, every window, expiry and bound.  A send on its way may still  *)
(* be signed at any later moment, so what the properties say of the chain  *)
(* has to hold of the sends under way already; and a prepareId must be out *)
(* of the store for good once a send carries it.                           *)
(*                                                                         *)
(* The requests of pages of Relay.tla for any pages, origins and number of *)
(* requests, clicks and breaks of the link: what a page that has the       *)
(* extension to itself gets for an answer, and that no yes of the user     *)
(* grants two requests.                                                    *)
(***************************************************************************)
EXTENDS Signing, Relay, Sums, TLAPS

-----------------------------------------------------------------------------
(* The inductive invariant                                                  *)

\* What is signed, and what may still be.
Started == flights \cup chain

\* A prepare is simulated first and stored then.
StoreInv == \A id \in simulating : id \notin prepareStore

\* The prepareId of a send was taken from the store, after its simulation and
\* before its expiry, with a fresh proof; the send is what was prepared.
TakenInv ==
    \A f \in Started : f.prep # NoPrepare =>
        /\ f.prep \in 1..Len(prepared)
        /\ f.prep \notin simulating /\ f.prep \notin prepareStore
        /\ f.from = prepared[f.prep].from
        /\ f.to = prepared[f.prep].to
        /\ f.amt = prepared[f.prep].amt
        /\ f.at <= prepared[f.prep].createdAt + PrepareExpiry
        /\ f.proof # NoProof
        /\ f.at < f.proof + FreshWindow

\* No two sends carry one prepareId.
OnceInv == \A f, g \in Started : f.prep = g.prep /\ f.prep # NoPrepare => f = g

SignInv == TypeOK /\ StoreInv /\ TakenInv /\ OnceInv

GateType ==
    /\ now \in Nat /\ open \in BOOLEAN /\ proof \in Nat \cup {NoProof} /\ passed \in Nat

LedgerType ==
    /\ vault \in (SUBSET Wallets) \ {{}} /\ active \in vault
    /\ spent \in Nat /\ settings \in Settings

Transaction == [from : Wallets, to : Destinations, amt : Nat, data : Calldata \cup {NoData},
                createdAt : Nat \cup {NotStored}]

-----------------------------------------------------------------------------
(* What the handlers are built from                                         *)

\* A request that passes leaves a clock and a proof, and the proof is fresh.
LEMMA PassIsFresh ==
    ASSUME TypeOK, Pass
    PROVE  /\ now' = now /\ proof' \in Nat /\ passed' \in Nat
           /\ proof' # NoProof
           /\ now < proof' + FreshWindow
BY SigningAssumption DEF TypeOK, Pass, Fresh, NoProof

\* A payment has a destination, an amount and data.
LEMMA PaymentIsPaid ==
    ASSUME NEW p \in Payments
    PROVE  p.to \in Destinations /\ p.amt \in Nat /\ p.data \in Calldata \cup {NoData}
BY SigningAssumption

\* A send that was not prepared is a send.
LEMMA SendIsSend ==
    ASSUME TypeOK, NEW w \in Wallets, NEW to \in Destinations, NEW amt \in Nat,
           NEW data \in Calldata \cup {NoData}
    PROVE  Send(w, to, amt, data) \in Sends /\ Send(w, to, amt, data).prep = NoPrepare
BY DEF TypeOK, Send, Sends, NoPrepare, NoProof

\* A confirmed send is a send, and carries addresses and amount of what was
\* prepared.
LEMMA ConfirmedIsSend ==
    ASSUME TypeOK, Pass, NEW id \in 1..Len(prepared)
    PROVE  LET f == Confirmed(id, prepared[id].from)
           IN  /\ f \in Sends /\ f.prep = id
               /\ f.from = prepared[id].from /\ f.to = prepared[id].to
               /\ f.amt = prepared[id].amt
               /\ f.at = now /\ f.proof = proof'
<1>1. prepared[id] \in Transaction
  <2>1. prepared \in Seq(Transaction)
    BY DEF TypeOK, Transaction
  <2>. QED
    BY <2>1
<1>2. now \in Nat /\ sends \in Nat
  BY DEF TypeOK
<1>. QED
  BY <1>1, <1>2, PassIsFresh DEF Confirmed, Sends, Transaction

-----------------------------------------------------------------------------
(* Steps                                                                    *)

\* What is given to sums is rounded to numbers.
LEMMA RoundedIsNat ==
    ASSUME NEW n \in Nat, NEW u \in Rounded(n)
    PROVE  u \in Nat
<1>1. Unit \in Nat \ {0}
  BY DecimalsAssumption
<1>2. n \div Unit \in Nat
  BY <1>1
<1>3. \A q \in Nat : Unit * q \in Nat
  BY <1>1
<1>4. u = Unit * (n \div Unit) \/ u = Unit * ((n \div Unit) + 1)
  BY DEF Rounded
<1>. QED
  BY <1>2, <1>3, <1>4

\* One more transaction, which no send carries yet, is simulated or stored.
LEMMA PrepareStep ==
    ASSUME SignInv, NEW w \in Wallets, NEW p \in Payments, Prepare(w, p)
    PROVE  SignInv'
<1>. DEFINE id == Len(prepared) + 1
            t(at) == [from |-> w, to |-> p.to, amt |-> p.amt, data |-> p.data, createdAt |-> at]
<1>1. PICK at \in Nat \cup {NotStored} :
        /\ prepared' = Append(prepared, t(at))
        /\ \/ simulating' = simulating /\ prepareStore' \subseteq prepareStore \cup {id}
           \/ simulating' = simulating \cup {id} /\ prepareStore' = prepareStore
  <2>1. CASE p.data = NoData
    <3>1. /\ prepared' = Append(prepared, t(now))
          /\ simulating' = simulating /\ prepareStore' \subseteq prepareStore \cup {id}
      BY <2>1 DEF Prepare, Store
    <3>. QED
      BY <3>1 DEF SignInv, TypeOK
  <2>2. CASE p.data # NoData
    BY <2>2 DEF Prepare
  <2>. QED
    BY <2>1, <2>2
<1>2. prepared \in Seq(Transaction) /\ t(at) \in Transaction
  BY PaymentIsPaid DEF SignInv, TypeOK, Transaction
<1>. HIDE DEF t
<1>3. /\ prepared' \in Seq(Transaction) /\ Len(prepared') = Len(prepared) + 1
      /\ \A i \in 1..Len(prepared) : prepared'[i] = prepared[i]
  BY <1>1, <1>2
<1>4. Len(prepared) \in Nat
  BY <1>2
<1>5. /\ simulating \subseteq 1..Len(prepared) /\ prepareStore \subseteq 1..Len(prepared)
      /\ UNCHANGED <<gateVars, ledgerVars, flights, sends, chain>>
  BY DEF SignInv, TypeOK, Prepare
<1>6. TypeOK'
  <2>1. 1..Len(prepared) \subseteq 1..Len(prepared') /\ id \in 1..Len(prepared')
    BY <1>3, <1>4
  <2>2. simulating' \subseteq 1..Len(prepared') /\ prepareStore' \subseteq 1..Len(prepared')
    BY <1>1, <1>5, <2>1
  <2>. QED
    BY <1>3, <1>5, <2>2 DEF SignInv, TypeOK, gateVars, ledgerVars, Transaction
<1>7. StoreInv'
  <2>1. id \notin simulating /\ id \notin prepareStore
    BY <1>4, <1>5
  <2>2. \A i \in simulating : i \notin prepareStore
    BY DEF SignInv, StoreInv
  <2>. HIDE DEF id
  <2>. QED
    BY <1>1, <2>1, <2>2 DEF StoreInv
<1>8. TakenInv' /\ OnceInv'
  <2>1. id \notin 1..Len(prepared) /\ 1..Len(prepared) \subseteq 1..Len(prepared')
    BY <1>3, <1>4
  <2>. QED
    BY <1>1, <1>3, <1>5, <2>1 DEF SignInv, TakenInv, OnceInv, Started
<1>. QED
  BY <1>6, <1>7, <1>8 DEF SignInv

\* The simulation ends: no send carries the prepareId that is stored now, so
\* that none changes its time.
LEMMA StoreStep ==
    ASSUME SignInv, NEW id \in 1..Len(prepared), StorePrepared(id)
    PROVE  SignInv'
<1>1. prepared \in Seq(Transaction)
  BY DEF SignInv, TypeOK, Transaction
<1>2. prepared[id] \in Transaction /\ now \in Nat
  BY <1>1 DEF SignInv, TypeOK
<1>3. /\ prepared' \in Seq(Transaction) /\ Len(prepared') = Len(prepared)
      /\ \A i \in 1..Len(prepared) : i # id => prepared'[i] = prepared[i]
  <2>. DEFINE t == [prepared[id] EXCEPT !.createdAt = now]
  <2>1. t \in Transaction
    BY <1>2 DEF Transaction
  <2>2. prepared' = [prepared EXCEPT ![id] = t]
    BY DEF StorePrepared
  <2>. HIDE DEF t
  <2>. QED
    BY <1>1, <2>1, <2>2
<1>4. prepareStore' \subseteq prepareStore \cup {id} /\ simulating' = simulating \ {id}
  BY DEF StorePrepared, Store
<1>5. TypeOK'
  BY <1>3, <1>4 DEF SignInv, TypeOK, StorePrepared, gateVars, ledgerVars, Transaction
<1>6. StoreInv'
  BY <1>4 DEF SignInv, StoreInv
<1>7. TakenInv' /\ OnceInv'
  BY <1>3, <1>4 DEF SignInv, TakenInv, OnceInv, Started, StorePrepared, ledgerVars
<1>. QED
  BY <1>5, <1>6, <1>7 DEF SignInv

\* A send that was not prepared disturbs nothing.
LEMMA UnpreparedStep ==
    ASSUME SignInv, NEW w \in Wallets, NEW to \in Destinations, NEW amt \in Nat,
           NEW data \in Calldata \cup {NoData}, StartUnprepared(w, to, amt, data)
    PROVE  SignInv'
<1>. DEFINE f == Send(w, to, amt, data)
<1>1. f \in Sends /\ f.prep = NoPrepare
  BY SendIsSend DEF SignInv
<1>2. /\ flights' = flights \cup {f} /\ sends' = sends + 1
      /\ UNCHANGED <<gateVars, ledgerVars, prepared, simulating, prepareStore, chain>>
  BY DEF StartUnprepared, StartSend
<1>. HIDE DEF f
<1>3. TypeOK'
  BY <1>1, <1>2 DEF SignInv, TypeOK, gateVars, ledgerVars
<1>4. StoreInv' /\ TakenInv' /\ OnceInv'
  BY <1>1, <1>2 DEF SignInv, StoreInv, TakenInv, OnceInv, Started, ledgerVars
<1>. QED
  BY <1>3, <1>4 DEF SignInv

\* Recording a spend leaves a number.
LEMMA RecordedIsNat ==
    ASSUME TypeOK, NEW amt \in Nat, Recorded(amt)
    PROVE  spent' \in Nat
<1>1. spent \in Nat /\ spent + amt \in Nat
  BY DEF TypeOK
<1>2. CASE spent' \in Rounded(spent + amt)
  BY <1>1, <1>2, RoundedIsNat
<1>. QED
  BY <1>1, <1>2 DEF Recorded

\* The end of a handler: the ledger may record the send if it was signed.
LEMMA AnsweredStep ==
    ASSUME SignInv, NEW f \in flights, Answered(f)
    PROVE  SignInv'
<1>1. f \in Sends /\ f \in chain /\ f.amt \in Nat
  BY DEF SignInv, TypeOK, Answered, Sends
<1>2. spent' \in Nat
  BY <1>1, RecordedIsNat DEF SignInv, Answered
<1>3. TypeOK'
  BY <1>1, <1>2 DEF SignInv, TypeOK, Answered, gateVars
<1>4. StoreInv' /\ TakenInv' /\ OnceInv'
  BY <1>1, <1>2 DEF SignInv, StoreInv, TakenInv, OnceInv, Started, Answered
<1>. QED
  BY <1>3, <1>4 DEF SignInv

\* A spend that the renderer reports changes the total and nothing else.
LEMMA RecordStep ==
    ASSUME SignInv, NEW p \in Payments, RecordSpend(p.amt)
    PROVE  SignInv'
<1>1. spent' \in Nat
  BY PaymentIsPaid, RecordedIsNat DEF SignInv, RecordSpend
<1>2. TypeOK'
  BY <1>1 DEF SignInv, TypeOK, RecordSpend, gateVars, signVars
<1>3. StoreInv' /\ TakenInv' /\ OnceInv'
  BY DEF SignInv, StoreInv, TakenInv, OnceInv, Started, RecordSpend, signVars
<1>. QED
  BY <1>2, <1>3 DEF SignInv

\* A confirmation: its prepareId leaves the store, and the send that carries it
\* is the only one.
LEMMA ConfirmStep ==
    ASSUME SignInv, NEW id \in 1..Len(prepared), Confirm(id)
    PROVE  SignInv'
<1>1. /\ Pass /\ ConfirmGranted(id)
      /\ UNCHANGED <<open, ledgerVars, prepared, simulating, chain>>
  BY DEF Confirm
<1>2. /\ now' = now /\ now \in Nat /\ proof' \in Nat /\ passed' \in Nat
      /\ proof' # NoProof /\ now < proof' + FreshWindow
  BY <1>1, PassIsFresh DEF SignInv, TypeOK
<1>3. prepareStore' \subseteq prepareStore
  BY <1>1 DEF ConfirmGranted, UsePrepared
<1>4. CASE UNCHANGED <<flights, sends>>
  <2>1. TypeOK'
    BY <1>1, <1>2, <1>3, <1>4 DEF SignInv, TypeOK, ledgerVars
  <2>2. StoreInv' /\ TakenInv' /\ OnceInv'
    BY <1>1, <1>3, <1>4 DEF SignInv, StoreInv, TakenInv, OnceInv, Started,
                            ledgerVars
  <2>. QED
    BY <2>1, <2>2 DEF SignInv
<1>5. CASE /\ id \in prepareStore /\ ~Expired(id)
           /\ prepareStore' = prepareStore \ {id}
           /\ StartSend(Confirmed(id, prepared[id].from))
  <2>. DEFINE f == Confirmed(id, prepared[id].from)
  <2>1. /\ f \in Sends /\ f.prep = id
        /\ f.from = prepared[id].from /\ f.to = prepared[id].to /\ f.amt = prepared[id].amt
        /\ f.at = now /\ f.proof = proof'
    BY <1>1, ConfirmedIsSend DEF SignInv
  <2>2. flights' = flights \cup {f} /\ sends' = sends + 1
    BY <1>5 DEF StartSend
  <2>. HIDE DEF f
  <2>3. prepared[id].createdAt \in Int /\ PrepareExpiry \in Nat
    <3>1. prepared \in Seq(Transaction)
      BY DEF SignInv, TypeOK, Transaction
    <3>2. prepared[id] \in Transaction
      BY <3>1
    <3>. QED
      BY <3>2, SigningAssumption DEF Transaction, NotStored
  <2>4. f.at <= prepared[id].createdAt + PrepareExpiry
    BY <1>2, <1>5, <2>1, <2>3 DEF Expired
  <2>5. id \notin simulating
    BY <1>5 DEF SignInv, StoreInv
  <2>6. TypeOK'
    <3>1. flights' \in SUBSET Sends /\ sends' \in Nat
      BY <2>1, <2>2 DEF SignInv, TypeOK
    <3>. QED
      BY <1>1, <1>2, <1>3, <3>1 DEF SignInv, TypeOK, ledgerVars
  <2>7. StoreInv'
    BY <1>1, <1>3 DEF SignInv, StoreInv, ledgerVars
  <2>8. TakenInv'
    BY <1>1, <1>2, <1>3, <1>5, <2>1, <2>2, <2>4, <2>5 DEF SignInv, TakenInv, Started
  <2>9. OnceInv'
    BY <1>1, <1>5, <2>1, <2>2 DEF SignInv, TakenInv, OnceInv, Started
  <2>. QED
    BY <2>6, <2>7, <2>8, <2>9 DEF SignInv
<1>. QED
  BY <1>1, <1>4, <1>5 DEF ConfirmGranted, UsePrepared

\* Locks, wallets, days, the clock and the end of the program start no send.
LEMMA AroundStep ==
    ASSUME SignInv,
           \/ \E w \in Wallets :
                 SetActiveWallet(w) \/ AddWallet(w) \/ RemoveWallet(w) \/ CreateVault(w)
           \/ \E s \in Settings : UpdateSettings(s)
           \/ NextDay
           \/ Around
           \/ RestartAll
    PROVE  SignInv'
<1>1. /\ prepared' = prepared /\ chain' = chain /\ flights' \subseteq flights
      /\ simulating' \subseteq simulating /\ prepareStore' \subseteq prepareStore
      /\ sends' = sends
  BY DEF SetActiveWallet, AddWallet, RemoveWallet, CreateVault, UpdateSettings, NextDay, Around,
         RestartAll, signVars, ledgerVars
<1>2. ASSUME NEW w \in Wallets, SetActiveWallet(w) \/ AddWallet(w) \/ CreateVault(w)
      PROVE  GateType' /\ LedgerType'
  <2>1. GateType'
    BY <1>2 DEF GateType, SignInv, TypeOK, SetActiveWallet, AddWallet, CreateVault, gateVars
  <2>2. CASE SetActiveWallet(w)
    BY <2>1, <2>2 DEF LedgerType, SignInv, TypeOK, SetActiveWallet
  <2>3. CASE AddWallet(w)
    BY <2>1, <2>3 DEF LedgerType, SignInv, TypeOK, AddWallet
  <2>4. CASE CreateVault(w)
    BY <2>1, <2>4, SigningAssumption DEF LedgerType, CreateVault
  <2>. QED
    BY <1>2, <2>2, <2>3, <2>4
<1>3. ASSUME NEW w \in Wallets, RemoveWallet(w)
      PROVE  GateType' /\ LedgerType'
  BY <1>3, PassIsFresh DEF GateType, LedgerType, SignInv, TypeOK, RemoveWallet
<1>4. ASSUME NEW s \in Settings, UpdateSettings(s)
      PROVE  GateType' /\ LedgerType'
  BY <1>4 DEF GateType, LedgerType, SignInv, TypeOK, UpdateSettings, gateVars
<1>5. ASSUME NextDay \/ Around \/ RestartAll
      PROVE  GateType' /\ LedgerType'
  <2>1. GateType'
    <3>1. CASE NextDay \/ RestartAll
      BY <3>1 DEF GateType, SignInv, TypeOK, NextDay, RestartAll, gateVars, Restart
    <3>2. CASE Around
      <4>1. CASE Prove \/ Tick
        BY <4>1 DEF GateType, SignInv, TypeOK, Prove, Tick
      <4>2. CASE LockOrUnlock
        <5>1. open' \in BOOLEAN
          BY <4>2, Zenon DEF LockOrUnlock
        <5>. QED
          BY <4>2, <5>1 DEF GateType, SignInv, TypeOK, LockOrUnlock
      <4>. QED
        BY <3>2, <4>1, <4>2 DEF Around
    <3>. QED
      BY <1>5, <3>1, <3>2
  <2>2. LedgerType'
    BY <1>5, SigningAssumption
       DEF LedgerType, SignInv, TypeOK, NextDay, Around, RestartAll, ledgerVars
  <2>. QED
    BY <2>1, <2>2
<1>6. GateType' /\ LedgerType'
  BY <1>2, <1>3, <1>4, <1>5
<1>7. TypeOK'
  BY <1>1, <1>6 DEF GateType, LedgerType, SignInv, TypeOK
<1>8. StoreInv' /\ TakenInv' /\ OnceInv'
  BY <1>1 DEF SignInv, StoreInv, TakenInv, OnceInv, Started
<1>. QED
  BY <1>7, <1>8 DEF SignInv

-----------------------------------------------------------------------------
(* The invariant                                                            *)

\* Nothing was prepared or sent at the start.
LEMMA SignInit == Init => SignInv
<1>. SUFFICES ASSUME Init PROVE SignInv
  OBVIOUS
<1>1. now \in Nat /\ open \in BOOLEAN /\ proof \in Nat \cup {NoProof} /\ passed \in Nat
  BY DEF Init, GateInit
<1>2. /\ vault \in (SUBSET Wallets) \ {{}} /\ active \in vault
      /\ spent \in Nat /\ settings \in Settings
  BY SigningAssumption DEF Init
<1>3. TypeOK
  BY <1>1, <1>2 DEF Init, TypeOK
<1>4. StoreInv /\ TakenInv /\ OnceInv
  BY DEF Init, StoreInv, TakenInv, OnceInv, Started
<1>. QED
  BY <1>3, <1>4 DEF SignInv

\* Every step keeps the invariant.
LEMMA SignStep == SignInv /\ [Next]_vars => SignInv'
<1>. SUFFICES ASSUME SignInv, [Next]_vars
              PROVE  SignInv'
  OBVIOUS
<1>. active \in Wallets
  BY DEF SignInv, TypeOK
<1>1. ASSUME NEW w \in Wallets, NEW p \in Payments, Prepare(w, p)
      PROVE  SignInv'
  BY <1>1, PrepareStep
<1>2. ASSUME NEW w \in Wallets, NEW p \in Payments, Submit(w, p) \/ BridgeSend(p)
      PROVE  SignInv'
  BY <1>2, PaymentIsPaid, UnpreparedStep DEF Submit, BridgeSend
<1>3. ASSUME NEW w \in Wallets, NEW to \in Destinations, NEW data \in Calldata,
             TransferToken(to, data) \/ RevokeApproval(to, data)
      PROVE  SignInv'
  BY <1>3, UnpreparedStep DEF TransferToken, RevokeApproval
<1>9. ASSUME NEW w \in Wallets, NEW to \in Destinations, SendCoins(w, to)
      PROVE  SignInv'
  BY <1>9, UnpreparedStep DEF SendCoins
<1>10. ASSUME NEW p \in Payments, RecordSpend(p.amt)
       PROVE  SignInv'
  BY <1>10, RecordStep
<1>4. ASSUME NEW id \in 1..Len(prepared), StorePrepared(id) \/ Confirm(id)
      PROVE  SignInv'
  BY <1>4, StoreStep, ConfirmStep
<1>5. ASSUME NEW f \in flights, SignAndBroadcast(f) \/ Failed(f)
      PROVE  SignInv'
  <2>1. Started' \subseteq Started /\ chain \subseteq chain'
    BY <1>5 DEF SignAndBroadcast, Failed, Started
  <2>2. TypeOK'
    BY <1>5 DEF SignInv, TypeOK, SignAndBroadcast, Failed, gateVars, ledgerVars
  <2>3. StoreInv' /\ TakenInv' /\ OnceInv'
    BY <1>5, <2>1 DEF SignInv, StoreInv, TakenInv, OnceInv, SignAndBroadcast,
                      Failed, ledgerVars
  <2>. QED
    BY <2>2, <2>3 DEF SignInv
<1>6. ASSUME NEW f \in flights, Answered(f)
      PROVE  SignInv'
  BY <1>6, AnsweredStep
<1>7. CASE \/ \E w \in Wallets :
                 SetActiveWallet(w) \/ AddWallet(w) \/ RemoveWallet(w) \/ CreateVault(w)
           \/ \E s \in Settings : UpdateSettings(s)
           \/ NextDay \/ Around \/ RestartAll
  BY <1>7, AroundStep
<1>8. CASE UNCHANGED vars
  BY <1>8 DEF vars, gateVars, ledgerVars, signVars, SignInv, TypeOK, StoreInv, TakenInv,
              OnceInv, Started
<1>. QED
  BY <1>1, <1>2, <1>3, <1>4, <1>5, <1>6, <1>7, <1>8, <1>9, <1>10 DEF Next

\* The invariant holds throughout.
LEMMA SignInvariant == Spec => []SignInv
BY SignInit, SignStep, PTL DEF Spec

-----------------------------------------------------------------------------
(* Theorems                                                                 *)

\* Ledger, store and sends are well typed: the active wallet is one of the
\* vault, and the store holds ids of transactions that were prepared.
THEOREM TypeCorrect == Spec => []TypeOK
<1>1. SignInv => TypeOK
  BY DEF SignInv
<1>. QED
  BY <1>1, SignInvariant, PTL

\* A prepareId is good for one transaction.
THEOREM OncePerPrepare == Spec => []PreparedOnce
<1>1. SignInv => PreparedOnce
  BY DEF SignInv, OnceInv, Started, PreparedOnce
<1>. QED
  BY <1>1, SignInvariant, PTL

\* A confirmation moves the amount that was prepared between the addresses that
\* were prepared.
THEOREM PaymentKept == Spec => []PaymentIsKept
<1>1. SignInv => PaymentIsKept
  BY DEF SignInv, TakenInv, Started, PaymentIsKept
<1>. QED
  BY <1>1, SignInvariant, PTL

\* A prepared transaction is signed on a timely and fresh confirmation only.
THEOREM ConfirmationInTime == Spec => []ConfirmedInTime
<1>1. SignInv => ConfirmedInTime
  BY DEF SignInv, TakenInv, Started, ConfirmedInTime
<1>. QED
  BY <1>1, SignInvariant, PTL

\* The handlers do with the gate only what it allows: what a request may pass on
\* is what FreshAuth grants (requireFresh in ipc-handlers.js, fresh-auth.js).
THEOREM HandlersKeepGate == Spec => GateSpec
<1>1. Init => GateInit
  BY DEF Init
<1>2. SignInv /\ [Next]_vars => [GateNext]_gateVars
  <2>. SUFFICES ASSUME SignInv, [Next]_vars
                PROVE  [GateNext]_gateVars
    OBVIOUS
  <2>1. CASE \/ \E w \in Wallets, p \in Payments : Prepare(w, p) \/ Submit(w, p)
             \/ \E id \in 1..Len(prepared) : StorePrepared(id)
             \/ \E p \in Payments : BridgeSend(p) \/ RecordSpend(p.amt)
             \/ \E to \in Destinations, data \in Calldata :
                   TransferToken(to, data) \/ RevokeApproval(to, data)
             \/ \E to \in Destinations, w \in Wallets : SendCoins(w, to)
             \/ \E f \in flights : SignAndBroadcast(f) \/ Answered(f) \/ Failed(f)
             \/ \E w \in Wallets : SetActiveWallet(w) \/ AddWallet(w)
             \/ \E s \in Settings : UpdateSettings(s)
             \/ NextDay
             \/ UNCHANGED vars
    <3>1. UNCHANGED gateVars
      BY <2>1 DEF Prepare, Submit, StorePrepared, BridgeSend, TransferToken, RevokeApproval,
                  SendCoins, RecordSpend, StartUnprepared, SignAndBroadcast, Answered, Failed,
                  SetActiveWallet, AddWallet, UpdateSettings, NextDay, vars
    <3>. QED
      BY <3>1
  <2>2. CASE \/ \E id \in 1..Len(prepared) : Confirm(id)
             \/ \E w \in Wallets : RemoveWallet(w)
    <3>1. Pass /\ UNCHANGED open
      BY <2>2 DEF Confirm, RemoveWallet
    <3>. QED
      BY <3>1 DEF GateNext
  <2>3. ASSUME NEW w \in Wallets, CreateVault(w)
        PROVE  [GateNext]_gateVars
    <3>1. open' = TRUE /\ UNCHANGED <<now, proof, passed>> /\ open \in BOOLEAN
      BY <2>3 DEF CreateVault, SignInv, TypeOK
    <3>2. CASE open
      BY <3>1, <3>2 DEF gateVars
    <3>3. CASE ~open
      BY <3>1, <3>3 DEF GateNext, LockOrUnlock
    <3>. QED
      BY <3>2, <3>3
  <2>4. CASE Around \/ RestartAll
    BY <2>4 DEF Around, RestartAll, GateNext
  <2>. QED
    BY <2>1, <2>2, <2>3, <2>4 DEF Next
<1>. QED
  BY <1>1, <1>2, SignInvariant, PTL DEF Spec, GateSpec

-----------------------------------------------------------------------------
(* The relay: what a page gets                                              *)

\* What is on its way, anywhere between page and wallet, is a request that a
\* page made.
Made == 1..Len(made)
MadeInv ==
    /\ made \in Seq([tab : Tabs, id : Nat, kind : {"read", "accounts", "send"}])
    /\ Len(made) <= MaxRequests
    /\ conn \in Nat /\ lone \in BOOLEAN
    /\ toWallet \in Seq(Nat) /\ \A i \in 1..Len(toWallet) : toWallet[i] \in Made
    /\ toExtension \in Seq(Nat) /\ \A i \in 1..Len(toExtension) : toExtension[i] \in Made
    /\ tickets \in Seq([request : Nat, conn : Nat])
    /\ asked \in Seq(Bridge!Request) /\ Len(tickets) = Len(asked)
    /\ \A i \in 1..Len(tickets) : tickets[i].request \in Made
    /\ \A t \in exempt : t.request \in Made
    /\ acted \in SUBSET Made

\* A page on its own has a number of its own for each request, and the extension
\* has the request under it, if any.
LoneInv ==
    /\ count \in [Tabs -> Nat]
    /\ pending \in [Requests -> Nat] /\ got \in [Requests -> Nat]
    /\ lone => /\ \A r \in Made : made[r].id = r /\ count[made[r].tab] = Len(made)
               /\ Len(made) = 0 => \A tab \in Tabs : count[tab] = 0
               /\ \A id \in Requests : pending[id] \in {None, id} /\ got[id] \in {None, id}

\* The head is one of a queue, and so are all of its tail.
LEMMA Heard ==
    ASSUME NEW q \in Seq(Nat), NEW S, \A i \in 1..Len(q) : q[i] \in S, q # <<>>
    PROVE  /\ Head(q) \in S /\ Tail(q) \in Seq(Nat)
           /\ \A i \in 1..Len(Tail(q)) : Tail(q)[i] \in S
<1>1. Len(q) \in Nat \ {0} /\ Head(q) = q[1]
  OBVIOUS
<1>2. Len(Tail(q)) = Len(q) - 1 /\ \A i \in 1..Len(Tail(q)) : Tail(q)[i] = q[i + 1]
  OBVIOUS
<1>. QED
  BY <1>1, <1>2

\* What is appended is all that comes to a queue.
LEMMA Said ==
    ASSUME NEW q \in Seq(Nat), NEW S, \A i \in 1..Len(q) : q[i] \in S, NEW e \in Nat, e \in S
    PROVE  /\ Append(q, e) \in Seq(Nat)
           /\ \A i \in 1..Len(Append(q, e)) : Append(q, e)[i] \in S
<1>1. /\ Len(q) \in Nat /\ Len(Append(q, e)) = Len(q) + 1
      /\ \A i \in 1..(Len(q) + 1) : Append(q, e)[i] = IF i = Len(q) + 1 THEN e ELSE q[i]
  OBVIOUS
<1>. QED
  BY <1>1

\* At the start nothing was made.
LEMMA MadeInit == RelayInit => MadeInv /\ LoneInv
<1>. SUFFICES ASSUME RelayInit PROVE MadeInv /\ LoneInv
  OBVIOUS
<1>1. MadeInv
  BY RelayAssumption DEF RelayInit, Bridge!Init, MadeInv
<1>2. LoneInv
  BY RelayAssumption DEF RelayInit, LoneInv, Made, None
<1>. QED
  BY <1>1, <1>2

\* A page calls.
LEMMA CallKeepsMade ==
    ASSUME MadeInv, LoneInv, NEW tab \in Tabs, NEW kind \in {"read", "accounts", "send"},
           Call(tab, kind)
    PROVE  MadeInv' /\ LoneInv'
<1>. DEFINE r == Len(made) + 1
            id == IdOf(tab)
            e == [tab |-> tab, id |-> id, kind |-> kind]
<1>1. /\ Len(made) < MaxRequests
      /\ lone => \A s \in DOMAIN made : made[s].tab = tab
      /\ made' = Append(made, e) /\ pending' = [pending EXCEPT ![id] = r]
      /\ toWallet' = Append(toWallet, r) /\ count' = [count EXCEPT ![tab] = @ + 1]
      /\ asked' = asked
      /\ UNCHANGED <<conn, lone, toExtension, tickets, exempt, acted, got>>
  BY DEF Call, bridgeVars, ticketVars, linkVars
<1>2. id = count[tab] + 1 /\ id \in Nat /\ r \in Nat
  BY DEF IdOf, LoneInv, MadeInv
<1>3. /\ made' \in Seq([tab : Tabs, id : Nat, kind : {"read", "accounts", "send"}])
      /\ Len(made') = r /\ Len(made') <= MaxRequests /\ made'[r] = e
      /\ \A s \in Made : made'[s] = made[s]
      /\ Made' = Made \cup {r}
  <2>1. e \in [tab : Tabs, id : Nat, kind : {"read", "accounts", "send"}]
    BY <1>2
  <2>. HIDE DEF e, id
  <2>2. /\ made' \in Seq([tab : Tabs, id : Nat, kind : {"read", "accounts", "send"}])
        /\ Len(made') = r /\ made'[r] = e /\ \A s \in 1..Len(made) : made'[s] = made[s]
    BY <1>1, <2>1 DEF MadeInv
  <2>3. Len(made) \in Nat /\ 1..r = (1..Len(made)) \cup {r} /\ r <= MaxRequests
    BY <1>1, RelayAssumption DEF MadeInv
  <2>. QED
    BY <2>2, <2>3 DEF Made
<1>. HIDE DEF r, id, e
<1>4. MadeInv'
  <2>1. \A i \in 1..Len(toWallet) : toWallet[i] \in Made'
    BY <1>3 DEF MadeInv
  <2>2. /\ toWallet' \in Seq(Nat) /\ \A i \in 1..Len(toWallet') : toWallet'[i] \in Made'
    BY <1>1, <1>2, <1>3, <2>1, Said DEF MadeInv
  <2>. QED
    BY <1>1, <1>3, <2>2 DEF MadeInv
<1>5. LoneInv'
  <2>1. /\ count' \in [Tabs -> Nat] /\ pending' \in [Requests -> Nat] /\ got' \in [Requests -> Nat]
    BY <1>1, <1>2 DEF LoneInv
  <2>2. ASSUME lone
        PROVE  /\ \A s \in Made' : made'[s].id = s /\ count'[made'[s].tab] = Len(made')
               /\ \A i \in Requests : pending'[i] \in {None, i}
    <3>1. count[tab] = Len(made)
      <4>1. CASE Len(made) = 0
        BY <2>2, <4>1 DEF LoneInv
      <4>2. CASE Len(made) # 0
        <5>1. 1 \in Made /\ 1 \in DOMAIN made
          BY <4>2 DEF MadeInv, Made
        <5>. QED
          BY <1>1, <2>2, <5>1 DEF LoneInv
      <4>. QED
        BY <4>1, <4>2
    <3>2. id = r /\ count'[tab] = r
      BY <1>1, <1>2, <3>1 DEF LoneInv, r
    <3>3. e.id = id /\ e.tab = tab
      BY DEF e
    <3>4. \A s \in Made : made[s].tab = tab /\ made[s].id = s
      <4>1. Made = DOMAIN made
        BY DEF MadeInv, Made
      <4>2. \A s \in Made : made[s].id = s
        BY <2>2 DEF LoneInv
      <4>. QED
        BY <1>1, <2>2, <4>1, <4>2
    <3>5. \A s \in Made' : made'[s].id = s /\ made'[s].tab = tab
      BY <1>3, <3>2, <3>3, <3>4
    <3>6. \A i \in Requests : pending'[i] \in {None, i}
      BY <1>1, <2>2, <3>2 DEF LoneInv
    <3>. QED
      BY <1>3, <3>2, <3>5, <3>6
  <2>3. Len(made') # 0
    BY <1>3 DEF MadeInv, r
  <2>. QED
    BY <1>1, <2>1, <2>2, <2>3 DEF LoneInv
<1>. QED
  BY <1>4, <1>5

\* An answer arrives: on its own, a page gets it for the request it is for.
LEMMA AnswerKeepsMade ==
    ASSUME MadeInv, LoneInv, AnswerArrives
    PROVE  MadeInv' /\ LoneInv'
<1>. DEFINE of == Head(toExtension)
            r == pending[made[of].id]
<1>1. /\ toExtension # <<>> /\ toExtension' = Tail(toExtension)
      /\ pending' = [pending EXCEPT ![made[of].id] = None]
      /\ got' = got \/ got' = [got EXCEPT ![r] = of]
      /\ asked' = asked
      /\ UNCHANGED <<made, count, toWallet, tickets, exempt, acted, conn, lone>>
  BY DEF AnswerArrives, bridgeVars, ticketVars, linkVars
<1>2. /\ of \in Made /\ toExtension' \in Seq(Nat)
      /\ \A i \in 1..Len(toExtension') : toExtension'[i] \in Made
  BY <1>1, Heard DEF MadeInv
<1>3. of \in Requests /\ of \in Nat
  <2>1. Len(made) \in Nat /\ Len(made) <= MaxRequests
    BY DEF MadeInv
  <2>. HIDE DEF of
  <2>. QED
    BY <1>2, <2>1, RelayAssumption DEF Made, Requests
<1>. HIDE DEF of
<1>4. MadeInv'
  BY <1>1, <1>2 DEF MadeInv, Made
<1>5. lone => r \in {None, of}
  BY <1>2, <1>3 DEF LoneInv
<1>. HIDE DEF r
<1>6. /\ pending' \in [Requests -> Nat] /\ got' \in [Requests -> Nat]
      /\ lone => \A id \in Requests : pending'[id] \in {None, id} /\ got'[id] \in {None, id}
  <2>1. None \notin Requests /\ None \in Nat
    BY RelayAssumption DEF None, Requests
  <2>2. pending' \in [Requests -> Nat] /\ got' \in [Requests -> Nat]
    BY <1>1, <1>3, <2>1 DEF LoneInv
  <2>3. ASSUME lone, NEW id \in Requests PROVE pending'[id] \in {None, id}
    BY <1>1, <2>3 DEF LoneInv
  <2>4. ASSUME lone, NEW id \in Requests PROVE got'[id] \in {None, id}
    BY <1>1, <1>5, <2>1, <2>4 DEF LoneInv
  <2>. QED
    BY <2>2, <2>3, <2>4
<1>7. LoneInv'
  BY <1>1, <1>6 DEF LoneInv, Made
<1>. QED
  BY <1>4, <1>7

\* The bridge receives a request.
LEMMA ReceiveKeepsMade ==
    ASSUME MadeInv, LoneInv, NEW origin \in Origins, Receive(origin)
    PROVE  MadeInv' /\ LoneInv'
<1>. DEFINE r == Head(toWallet)
            ticket == [request |-> r, conn |-> conn]
<1>1. /\ toWallet # <<>> /\ toWallet' = Tail(toWallet)
      /\ UNCHANGED <<made, count, got, conn, pending, toExtension, lone>>
  BY DEF Receive, pageVars, linkVars
<1>2. /\ r \in Made /\ toWallet' \in Seq(Nat)
      /\ \A i \in 1..Len(toWallet') : toWallet'[i] \in Made
  BY <1>1, Heard DEF MadeInv
<1>3. ticket \in [request : Nat, conn : Nat] /\ ticket.request = r
  BY <1>2 DEF MadeInv, Made
<1>4. LoneInv'
  BY <1>1 DEF LoneInv, Made
<1>5. CASE /\ Bridge!Ask([origin |-> origin, accounts |-> made[r].kind = "accounts"])
           /\ tickets' = Append(tickets, ticket)
           /\ UNCHANGED <<exempt, acted>>
  <2>1. asked' \in Seq(Bridge!Request) /\ Len(asked') = Len(asked) + 1
    <3>1. [origin |-> origin, accounts |-> made[r].kind = "accounts"] \in Bridge!Request
      BY DEF Bridge!Request
    <3>. QED
      BY <1>5, <3>1 DEF Bridge!Ask, MadeInv
  <2>2. /\ tickets' \in Seq([request : Nat, conn : Nat]) /\ Len(tickets') = Len(tickets) + 1
        /\ \A i \in 1..Len(tickets') : tickets'[i] = IF i = Len(tickets) + 1 THEN ticket
                                                     ELSE tickets[i]
        /\ Len(tickets) \in Nat
    BY <1>3, <1>5 DEF MadeInv
  <2>. HIDE DEF ticket, r
  <2>3. ASSUME NEW i \in 1..Len(tickets') PROVE tickets'[i].request \in Made
    <3>1. CASE i = Len(tickets) + 1
      BY <1>2, <1>3, <2>2, <3>1
    <3>2. CASE i # Len(tickets) + 1
      <4>1. i \in 1..Len(tickets) /\ tickets'[i] = tickets[i]
        BY <2>2, <2>3, <3>2
      <4>. QED
        BY <4>1 DEF MadeInv
    <3>. QED
      BY <3>1, <3>2
  <2>. QED
    BY <1>1, <1>2, <1>4, <1>5, <2>1, <2>2, <2>3 DEF MadeInv, Made
<1>6. CASE /\ exempt' = exempt \cup {ticket} /\ acted' = acted \cup {r}
           /\ UNCHANGED <<bridgeVars, tickets>>
  <2>. HIDE DEF ticket, r
  <2>1. asked' = asked /\ tickets' = tickets
    BY <1>6 DEF bridgeVars
  <2>. QED
    BY <1>1, <1>2, <1>3, <1>4, <1>6, <2>1 DEF MadeInv, Made
<1>. QED
  BY <1>5, <1>6 DEF Receive

\* Whatever else happens.
LEMMA OthersKeepMade ==
    ASSUME MadeInv, LoneInv,
           \/ \E tab \in Tabs : Reload(tab) \/ \E r \in Requests : PageTimeout(tab, r)
           \/ \E r \in Requests : Timeout(r)
           \/ Close \/ RestartExtension
           \/ Handshake("down", "challenged") \/ Handshake("challenged", "up")
           \/ \E ticket \in exempt : ReplyPassed(ticket)
           \/ \E i \in DOMAIN asked : ReplyAsked(i)
           \/ Approvals \/ UNCHANGED relayVars
    PROVE  MadeInv' /\ LoneInv'
<1>1. ASSUME UNCHANGED <<asked, made, lone, tickets, toWallet>>, conn' \in Nat,
             exempt' \in SUBSET exempt, acted' \in SUBSET Made, toExtension' \in Seq(Nat),
             \A i \in 1..Len(toExtension') : toExtension'[i] \in Made
      PROVE  MadeInv'
  BY <1>1 DEF MadeInv, Made
<1>2. ASSUME UNCHANGED <<made, lone, count, got>>, pending' \in [Requests -> Nat],
             \A id \in Requests : pending'[id] \in {None, pending[id]}
      PROVE  LoneInv'
  BY <1>2 DEF LoneInv, Made
<1>3. ASSUME NEW tab \in Tabs, Reload(tab)
      PROVE  MadeInv' /\ LoneInv'
  <2>1. /\ ~lone /\ asked' = asked /\ count' = [count EXCEPT ![tab] = 0]
        /\ UNCHANGED <<made, lone, tickets, toWallet, conn, exempt, acted, toExtension,
                       pending, got>>
    BY <1>3 DEF Reload, bridgeVars, ticketVars, linkVars
  <2>2. MadeInv'
    BY <2>1 DEF MadeInv, Made
  <2>3. LoneInv'
    BY <2>1 DEF LoneInv
  <2>. QED
    BY <2>2, <2>3
<1>4. CASE \/ \E tab \in Tabs, r \in Requests : PageTimeout(tab, r)
           \/ Handshake("down", "challenged") \/ Handshake("challenged", "up")
           \/ UNCHANGED relayVars
  <2>1. /\ asked' = asked
        /\ UNCHANGED <<made, lone, tickets, toWallet, conn, exempt, acted, toExtension,
                       pending, got, count>>
    BY <1>4 DEF PageTimeout, Handshake, relayVars, bridgeVars, ticketVars, pageVars, linkVars
  <2>. QED
    BY <2>1 DEF MadeInv, LoneInv, Made
<1>5. ASSUME NEW r \in Requests, Timeout(r)
      PROVE  MadeInv' /\ LoneInv'
  <2>1. /\ asked' = asked /\ pending' = [pending EXCEPT ![made[r].id] = None]
        /\ UNCHANGED <<made, lone, tickets, toWallet, conn, exempt, acted, toExtension,
                       got, count>>
    BY <1>5 DEF Timeout, bridgeVars, ticketVars, pageVars, linkVars
  <2>2. /\ pending' \in [Requests -> Nat]
        /\ \A id \in Requests : pending'[id] \in {None, pending[id]}
    BY <2>1 DEF LoneInv, None
  <2>3. MadeInv'
    BY <2>1 DEF MadeInv, Made
  <2>. QED
    BY <1>2, <2>1, <2>2, <2>3
<1>6. CASE Close \/ RestartExtension
  <2>1. /\ asked' = asked /\ conn' = conn + 1 /\ toWallet' = <<>> /\ toExtension' = <<>>
        /\ pending' = pending \/ pending' = [id \in Requests |-> None]
        /\ UNCHANGED <<made, lone, tickets, exempt, acted, got, count>>
    BY <1>6 DEF Close, RestartExtension, Disconnected, bridgeVars, ticketVars, pageVars
  <2>2. /\ pending' \in [Requests -> Nat]
        /\ \A id \in Requests : pending'[id] \in {None, pending[id]}
    BY <2>1 DEF LoneInv, None
  <2>3. MadeInv'
    BY <2>1 DEF MadeInv, Made
  <2>. QED
    BY <1>2, <2>1, <2>2, <2>3
<1>7. ASSUME NEW ticket, ticket.request \in Made, Reply(ticket)
      PROVE  /\ toExtension' \in Seq(Nat)
             /\ \A i \in 1..Len(toExtension') : toExtension'[i] \in Made
  <2>1. /\ toExtension \in Seq(Nat) /\ \A i \in 1..Len(toExtension) : toExtension[i] \in Made
        /\ ticket.request \in Nat
    <3>1. Made \subseteq Nat
      BY DEF Made
    <3>. QED
      BY <1>7, <3>1 DEF MadeInv
  <2>2. CASE toExtension' = toExtension
    BY <2>1, <2>2
  <2>3. CASE toExtension' = Append(toExtension, ticket.request)
    BY <1>7, <2>1, <2>3, Said
  <2>. QED
    BY <1>7, <2>2, <2>3 DEF Reply
<1>8. ASSUME NEW ticket \in exempt, ReplyPassed(ticket)
      PROVE  MadeInv' /\ LoneInv'
  <2>1. /\ asked' = asked /\ exempt' = exempt \ {ticket} /\ Reply(ticket)
        /\ UNCHANGED <<made, lone, tickets, toWallet, conn, acted, pending, got, count>>
    BY <1>8 DEF ReplyPassed, bridgeVars, pageVars, linkVars
  <2>2. MadeInv'
    BY <1>1, <1>7, <2>1 DEF MadeInv
  <2>. QED
    BY <2>1, <2>2 DEF LoneInv, Made
<1>9. ASSUME NEW i \in DOMAIN asked, ReplyAsked(i), i \in 1..Len(tickets)
      PROVE  MadeInv' /\ LoneInv'
  <2>1. /\ asked' = asked /\ Reply(tickets[i])
        /\ acted' = acted \/ acted' = acted \cup {tickets[i].request}
        /\ UNCHANGED <<made, lone, tickets, toWallet, conn, exempt, pending, got, count>>
    BY <1>9 DEF ReplyAsked, bridgeVars, pageVars, linkVars
  <2>2. MadeInv'
    BY <1>1, <1>7, <1>9, <2>1 DEF MadeInv
  <2>. QED
    BY <2>1, <2>2 DEF LoneInv, Made
<1>10. CASE Approvals
  <2>1. /\ asked' = asked
        /\ UNCHANGED <<made, lone, tickets, toWallet, conn, exempt, acted, toExtension,
                       pending, got, count>>
    BY <1>10 DEF Approvals, Bridge!Respond, Bridge!Expire, Bridge!Show, Bridge!Click,
                 ticketVars, pageVars, linkVars
  <2>. QED
    BY <2>1 DEF MadeInv, LoneInv, Made
<1>11. DOMAIN asked = 1..Len(tickets)
  BY DEF MadeInv
<1>. QED
  BY <1>3, <1>4, <1>5, <1>6, <1>8, <1>9, <1>10, <1>11

\* A page that has the extension to itself gets for each request the answer to
\* that request, or none (background.js, provider.js).
THEOREM LonePagesAreAnswered == RelaySpec => []AnswersMatch
<1>1. MadeInv /\ LoneInv /\ [RelayNext]_relayVars => MadeInv' /\ LoneInv'
  BY CallKeepsMade, AnswerKeepsMade, ReceiveKeepsMade, OthersKeepMade DEF RelayNext
<1>2. LoneInv => AnswersMatch
  BY DEF LoneInv, AnswersMatch
<1>. QED
  BY <1>1, <1>2, MadeInit, PTL DEF RelaySpec

-----------------------------------------------------------------------------
(* The relay: what takes a yes                                              *)

\* What is asked has an outcome, and what has the slot waits.
SlotInv ==
    /\ asked \in Seq(Bridge!Request)
    /\ outcome \in Seq({"waiting", "approved", "rejected"}) /\ Len(outcome) = Len(asked)
    /\ pendingApproval \in 0..Len(asked)
    /\ pendingApproval # None => outcome[pendingApproval] = "waiting"
    /\ toMain \in Seq(BOOLEAN)

\* The user said yes once at most to what the modal showed: it shows a request
\* once.
ShownOnceInv ==
    /\ toUI \in Seq(Nat)
    /\ \A i \in 1..Len(toUI) :
         /\ toUI[i] \in 1..Len(asked) /\ toUI[i] # modal /\ toUI[i] \notin consent
         /\ \A j \in 1..Len(toUI) : toUI[j] = toUI[i] => j = i
    /\ modal \in 0..Len(asked) /\ modal \notin consent
    /\ consent \in SUBSET (1..Len(asked))

\* A yes is on its way, or has approved something, or has come too late.
Approved == {j \in 1..Len(outcome) : outcome[j] = "approved"}
Yeses(q) == {i \in 1..Len(q) : q[i] = TRUE}
YesInv == Cardinality(Approved) + Cardinality(Yeses(toMain)) <= Cardinality(consent)

BridgeInv == SlotInv /\ ShownOnceInv /\ YesInv

\* A transaction goes on when its request is approved.
GrantInv ==
    \A r \in acted : made[r].kind = "send" => \E j \in Approved : tickets[j].request = r

\* Sets of places in a list are finite.
LEMMA PlacesFinite ==
    ASSUME NEW n \in Nat, NEW S \in SUBSET (1..n)
    PROVE  IsFiniteSet(S) /\ Cardinality(S) \in Nat
<1>1. 1 \in Int /\ n \in Int
  OBVIOUS
<1>2. IsFiniteSet(1..n)
  BY ONLY <1>1, FS_Interval
<1>3. IsFiniteSet(S)
  BY <1>2, FS_Subset
<1>. QED
  BY <1>3, FS_CardinalityType

\* An answer more.
LEMMA YesSaid ==
    ASSUME NEW q \in Seq(BOOLEAN), NEW yes \in BOOLEAN
    PROVE  Cardinality(Yeses(Append(q, yes))) =
             IF yes THEN Cardinality(Yeses(q)) + 1 ELSE Cardinality(Yeses(q))
<1>1. /\ Len(q) \in Nat /\ Len(Append(q, yes)) = Len(q) + 1
      /\ Append(q, yes)[Len(q) + 1] = yes
      /\ \A i \in 1..Len(q) : Append(q, yes)[i] = q[i]
      /\ 1..(Len(q) + 1) = (1..Len(q)) \cup {Len(q) + 1}
  OBVIOUS
<1>2. IsFiniteSet(Yeses(q)) /\ Len(q) + 1 \notin Yeses(q)
  <2>1. Yeses(q) \in SUBSET (1..Len(q)) /\ Len(q) + 1 \notin 1..Len(q)
    BY <1>1 DEF Yeses
  <2>. QED
    BY <1>1, <2>1, PlacesFinite
<1>3. CASE yes = TRUE
  <2>1. Yeses(Append(q, yes)) = Yeses(q) \cup {Len(q) + 1}
    BY <1>1, <1>3 DEF Yeses
  <2>. QED
    BY <1>2, <1>3, <2>1, FS_AddElement
<1>4. CASE yes = FALSE
  <2>1. Yeses(Append(q, yes)) = Yeses(q)
    BY <1>1, <1>4 DEF Yeses
  <2>. QED
    BY <1>4, <2>1
<1>. QED
  BY <1>3, <1>4

\* An answer less: the places of those behind it are one nearer.
LEMMA YesHeard ==
    ASSUME NEW q \in Seq(BOOLEAN), q # <<>>
    PROVE  Cardinality(Yeses(q)) =
             IF Head(q) THEN Cardinality(Yeses(Tail(q))) + 1 ELSE Cardinality(Yeses(Tail(q)))
<1>1. /\ Len(q) \in Nat \ {0} /\ Head(q) = q[1] /\ Head(q) \in BOOLEAN
      /\ Len(Tail(q)) = Len(q) - 1
      /\ \A i \in 1..(Len(q) - 1) : Tail(q)[i] = q[i + 1]
  OBVIOUS
<1>. DEFINE S == Yeses(Tail(q))
            T == Yeses(q) \ {1}
            f == [i \in S |-> i + 1]
<1>2. IsFiniteSet(S) /\ IsFiniteSet(Yeses(q)) /\ Cardinality(Yeses(q)) \in Nat
  <2>1. Len(q) \in Nat /\ Len(Tail(q)) \in Nat
    BY <1>1
  <2>. QED
    BY <2>1, PlacesFinite DEF Yeses
<1>3. Cardinality(T) = Cardinality(S)
  <2>1. \A i \in S : i \in Nat /\ i + 1 \in T
    BY <1>1 DEF Yeses
  <2>2. \A j \in T : j \in Nat /\ j - 1 \in S /\ (j - 1) + 1 = j
    BY <1>1 DEF Yeses
  <2>. HIDE DEF S, T
  <2>3. f \in [S -> T]
    BY <2>1
  <2>4. \A a, b \in S : f[a] = f[b] => a = b
    BY <2>1
  <2>5. \A j \in T : \E i \in S : f[i] = j
    BY <2>2
  <2>. HIDE DEF f
  <2>6. f \in Bijection(S, T)
    BY <2>3, <2>4, <2>5 DEF Bijection, Injection, Surjection, IsInjective
  <2>7. ExistsBijection(S, T)
    BY <2>6 DEF ExistsBijection
  <2>. QED
    BY <1>2, <2>7, FS_Bijection
<1>4. 1 \in Yeses(q) <=> Head(q) = TRUE
  <2>1. 1 \in 1..Len(q)
    BY <1>1
  <2>. QED
    BY <1>1, <2>1, Zenon DEF Yeses
<1>5. Cardinality(T) = IF 1 \in Yeses(q) THEN Cardinality(Yeses(q)) - 1
                                         ELSE Cardinality(Yeses(q))
  BY <1>2, FS_RemoveElement
<1>. HIDE DEF S, T
<1>6. CASE Head(q) = TRUE
  <2>1. Cardinality(Yeses(q)) = Cardinality(S) + 1
    <3>1. 1 \in Yeses(q)
      BY <1>4, <1>6, Zenon
    <3>. QED
      BY <1>2, <1>3, <1>5, <3>1
  <2>. QED
    BY <1>6, <2>1, Zenon DEF S
<1>7. CASE Head(q) = FALSE
  <2>1. Cardinality(Yeses(q)) = Cardinality(S)
    BY <1>2, <1>3, <1>4, <1>5, <1>7
  <2>. QED
    BY <1>7, <2>1, Zenon DEF S
<1>. QED
  BY <1>1, <1>6, <1>7

\* The promise in the slot resolves: a yes approves one request at most, and
\* nothing that was approved is undone.
LEMMA ResolvedOnce ==
    ASSUME SlotInv, NEW yes \in BOOLEAN, Bridge!Resolve(yes), asked' = asked,
           toMain' \in Seq(BOOLEAN)
    PROVE  /\ SlotInv' /\ Approved \subseteq Approved'
           /\ Cardinality(Approved) \in Nat
           /\ Cardinality(Approved') <= IF yes THEN Cardinality(Approved) + 1
                                               ELSE Cardinality(Approved)
<1>. DEFINE p == pendingApproval
<1>1. IsFiniteSet(Approved) /\ Cardinality(Approved) \in Nat
  <2>1. Len(outcome) \in Nat /\ Approved \in SUBSET (1..Len(outcome))
    BY DEF SlotInv, Approved
  <2>. QED
    BY <2>1, PlacesFinite
<1>2. CASE p = None
  <2>1. outcome' = outcome /\ pendingApproval' = pendingApproval
    BY <1>2 DEF Bridge!Resolve, Bridge!None, None
  <2>2. Approved' = Approved
    BY <2>1 DEF Approved
  <2>3. SlotInv'
    BY <2>1 DEF SlotInv
  <2>. QED
    BY <1>1, <2>2, <2>3
<1>3. CASE p # None
  <2>. DEFINE o == IF yes THEN "approved" ELSE "rejected"
  <2>1. outcome' = [outcome EXCEPT ![p] = o] /\ pendingApproval' = 0
    BY <1>3 DEF Bridge!Resolve, Bridge!None, None
  <2>2. p \in 1..Len(outcome) /\ outcome[p] = "waiting" /\ p \notin Approved
    BY <1>3 DEF SlotInv, None, Approved
  <2>3. o \in {"approved", "rejected"} /\ (o = "approved" <=> yes = TRUE)
    OBVIOUS
  <2>. HIDE DEF o
  <2>4. /\ outcome' \in Seq({"waiting", "approved", "rejected"}) /\ Len(outcome') = Len(outcome)
        /\ outcome'[p] = o /\ \A i \in 1..Len(outcome) : i # p => outcome'[i] = outcome[i]
    BY <2>1, <2>2, <2>3 DEF SlotInv
  <2>5. SlotInv'
    BY <2>1, <2>4 DEF SlotInv, None
  <2>6. Approved' = IF yes THEN Approved \cup {p} ELSE Approved
    <3>1. CASE yes = TRUE
      BY <2>2, <2>3, <2>4, <3>1 DEF Approved
    <3>2. CASE yes = FALSE
      BY <2>2, <2>3, <2>4, <3>2 DEF Approved
    <3>. QED
      BY <3>1, <3>2
  <2>7. Cardinality(Approved \cup {p}) = Cardinality(Approved) + 1
    BY <1>1, <2>2, FS_AddElement
  <2>. QED
    BY <1>1, <2>5, <2>6, <2>7
<1>. QED
  BY <1>2, <1>3

\* Requests, messages, clicks and timers of the bridge.
BridgeStep ==
    \/ \E req \in Bridge!Request : Bridge!Ask(req)
    \/ Bridge!Respond \/ Bridge!Expire \/ Bridge!Show
    \/ \E yes \in BOOLEAN : Bridge!Click(yes)
    \/ UNCHANGED bridgeVars

\* Each keeps the invariant of the bridge, and what was approved.
LEMMA BridgeKeeps ==
    ASSUME BridgeInv, BridgeStep
    PROVE  BridgeInv' /\ Approved \subseteq Approved'
<1>1. SlotInv /\ ShownOnceInv /\ YesInv
  BY DEF BridgeInv
<1>2. /\ Len(asked) \in Nat /\ IsFiniteSet(consent) /\ Cardinality(consent) \in Nat
      /\ Cardinality(Approved) \in Nat /\ Cardinality(Yeses(toMain)) \in Nat
  <2>1. /\ Len(asked) \in Nat /\ Len(outcome) \in Nat /\ Len(toMain) \in Nat
        /\ consent \in SUBSET (1..Len(asked)) /\ Approved \in SUBSET (1..Len(outcome))
        /\ Yeses(toMain) \in SUBSET (1..Len(toMain))
    BY <1>1 DEF SlotInv, ShownOnceInv, Approved, Yeses
  <2>. QED
    BY <2>1, PlacesFinite
<1>3. ASSUME NEW req \in Bridge!Request, Bridge!Ask(req)
      PROVE  BridgeInv' /\ Approved \subseteq Approved'
  <2>. DEFINE n == Len(asked) + 1
  <2>1. /\ asked' = Append(asked, req) /\ outcome' = Append(outcome, "waiting")
        /\ pendingApproval' = n /\ toUI' = Append(toUI, n)
        /\ UNCHANGED <<modal, toMain, consent>>
    BY <1>3 DEF Bridge!Ask
  <2>2. /\ asked' \in Seq(Bridge!Request) /\ Len(asked') = n
        /\ outcome' \in Seq({"waiting", "approved", "rejected"}) /\ Len(outcome') = n
        /\ outcome'[n] = "waiting"
        /\ \A i \in 1..Len(outcome) : outcome'[i] = outcome[i]
        /\ n \in Nat /\ n # 0 /\ n \notin 1..Len(asked) /\ n \notin 0..Len(asked)
        /\ 1..n = (1..Len(asked)) \cup {n} /\ Len(outcome) = Len(asked)
    BY <1>1, <1>2, <2>1 DEF SlotInv
  <2>. HIDE DEF n
  <2>3. SlotInv'
    BY <1>1, <2>1, <2>2 DEF SlotInv, None
  <2>4. Approved' = Approved
    BY <2>2 DEF Approved
  <2>5. ShownOnceInv'
    <3>1. /\ Len(toUI) \in Nat /\ toUI' \in Seq(Nat) /\ Len(toUI') = Len(toUI) + 1
          /\ toUI'[Len(toUI) + 1] = n /\ \A i \in 1..Len(toUI) : toUI'[i] = toUI[i]
          /\ 1..(Len(toUI) + 1) = (1..Len(toUI)) \cup {Len(toUI) + 1}
          /\ Len(toUI) + 1 \notin 1..Len(toUI)
      BY <1>1, <2>1, <2>2 DEF ShownOnceInv
    <3>2. /\ \A i \in 1..Len(toUI) : toUI[i] # n
          /\ n # modal /\ n \notin consent
      BY <1>1, <2>2 DEF ShownOnceInv
    <3>3. \A i \in 1..Len(toUI') :
             /\ toUI'[i] \in 1..Len(asked') /\ toUI'[i] # modal /\ toUI'[i] \notin consent
             /\ \A j \in 1..Len(toUI') : toUI'[j] = toUI'[i] => j = i
      <4>1. \A i \in 1..Len(toUI) :
               /\ toUI[i] \in 1..Len(asked) /\ toUI[i] # modal /\ toUI[i] \notin consent
               /\ \A j \in 1..Len(toUI) : toUI[j] = toUI[i] => j = i
        BY <1>1 DEF ShownOnceInv
      <4>. SUFFICES ASSUME NEW i \in 1..Len(toUI')
                    PROVE  /\ /\ toUI'[i] \in 1..Len(asked') /\ toUI'[i] # modal
                              /\ toUI'[i] \notin consent
                           /\ \A j \in 1..Len(toUI') : toUI'[j] = toUI'[i] => j = i
        OBVIOUS
      <4>2. CASE i = Len(toUI) + 1
        BY <2>2, <3>1, <3>2, <4>2
      <4>3. CASE i \in 1..Len(toUI)
        <5>1. toUI'[i] = toUI[i]
          BY <3>1, <4>3
        <5>2. /\ toUI'[i] \in 1..Len(asked') /\ toUI'[i] # modal
              /\ toUI'[i] \notin consent
          BY <2>2, <4>1, <4>3, <5>1
        <5>3. ASSUME NEW j \in 1..Len(toUI'), toUI'[j] = toUI'[i] PROVE j = i
          <6>1. j \in 1..Len(toUI)
            BY <3>1, <3>2, <4>3, <5>1, <5>3
          <6>2. toUI[j] = toUI[i]
            BY <3>1, <5>1, <5>3, <6>1
          <6>. QED
            BY <4>1, <4>3, <6>1, <6>2
        <5>. QED
          BY <5>2, <5>3
      <4>. QED
        BY <3>1, <4>2, <4>3
    <3>4. modal \in 0..Len(asked') /\ consent \in SUBSET (1..Len(asked'))
      BY <1>1, <1>2, <2>2 DEF ShownOnceInv, n
    <3>. QED
      BY <1>1, <2>1, <3>1, <3>3, <3>4 DEF ShownOnceInv
  <2>6. YesInv'
    BY <1>1, <2>1, <2>4 DEF YesInv, Yeses
  <2>. QED
    BY <2>3, <2>4, <2>5, <2>6 DEF BridgeInv
<1>4. CASE Bridge!Respond
  <2>. DEFINE yes == Head(toMain)
  <2>1. /\ toMain # <<>> /\ toMain' = Tail(toMain) /\ Bridge!Resolve(yes)
        /\ UNCHANGED <<asked, modal, toUI, consent>>
    BY <1>4 DEF Bridge!Respond
  <2>2. yes \in BOOLEAN /\ toMain' \in Seq(BOOLEAN)
    BY <1>1, <2>1 DEF SlotInv
  <2>3. Cardinality(Yeses(toMain)) =
          IF yes THEN Cardinality(Yeses(toMain')) + 1 ELSE Cardinality(Yeses(toMain'))
    BY <1>1, <2>1, YesHeard DEF SlotInv
  <2>. HIDE DEF yes
  <2>4. /\ SlotInv' /\ Approved \subseteq Approved'
        /\ Cardinality(Approved') <= IF yes THEN Cardinality(Approved) + 1
                                            ELSE Cardinality(Approved)
    BY <1>1, <2>1, <2>2, ResolvedOnce
  <2>5. ShownOnceInv'
    BY <1>1, <2>1 DEF ShownOnceInv
  <2>6. YesInv'
    <3>1. Cardinality(Approved') \in Nat /\ Cardinality(Yeses(toMain')) \in Nat
      <4>1. /\ Len(outcome') \in Nat /\ Len(toMain') \in Nat
            /\ Approved' \in SUBSET (1..Len(outcome'))
            /\ Yeses(toMain') \in SUBSET (1..Len(toMain'))
        BY <2>2, <2>4 DEF SlotInv, Approved, Yeses
      <4>. QED
        BY <4>1, PlacesFinite
    <3>2. Cardinality(Yeses(toMain))' = Cardinality(Yeses(toMain'))
      BY DEF Yeses
    <3>3. Cardinality(Approved) + Cardinality(Yeses(toMain)) <= Cardinality(consent)
      BY <1>1 DEF YesInv
    <3>4. CASE yes = TRUE
      <4>1. /\ Cardinality(Yeses(toMain)) = Cardinality(Yeses(toMain')) + 1
            /\ Cardinality(Approved') <= Cardinality(Approved) + 1
        BY <2>3, <2>4, <3>4
      <4>2. Cardinality(Approved') + Cardinality(Yeses(toMain')) <= Cardinality(consent)
        BY <1>2, <3>1, <3>3, <4>1
      <4>. QED
        BY <2>1, <3>2, <4>2 DEF YesInv
    <3>5. CASE yes = FALSE
      <4>1. /\ Cardinality(Yeses(toMain)) = Cardinality(Yeses(toMain'))
            /\ Cardinality(Approved') <= Cardinality(Approved)
        BY <2>3, <2>4, <3>5
      <4>2. Cardinality(Approved') + Cardinality(Yeses(toMain')) <= Cardinality(consent)
        BY <1>2, <3>1, <3>3, <4>1
      <4>. QED
        BY <2>1, <3>2, <4>2 DEF YesInv
    <3>. QED
      BY <2>2, <3>4, <3>5
  <2>. QED
    BY <2>4, <2>5, <2>6 DEF BridgeInv
<1>5. CASE Bridge!Expire
  <2>1. Bridge!Resolve(FALSE) /\ UNCHANGED <<asked, modal, toUI, toMain, consent>>
    BY <1>5 DEF Bridge!Expire
  <2>2. toMain' \in Seq(BOOLEAN) /\ FALSE \in BOOLEAN
    BY <1>1, <2>1 DEF SlotInv
  <2>3. /\ SlotInv' /\ Approved \subseteq Approved'
        /\ Cardinality(Approved') <= IF FALSE THEN Cardinality(Approved) + 1
                                              ELSE Cardinality(Approved)
    BY <1>1, <2>1, <2>2, ResolvedOnce
  <2>4. ShownOnceInv'
    BY <1>1, <2>1 DEF ShownOnceInv
  <2>5. YesInv'
    <3>1. Cardinality(Approved') \in Nat
      <4>1. Len(outcome') \in Nat /\ Approved' \in SUBSET (1..Len(outcome'))
        BY <2>3 DEF SlotInv, Approved
      <4>. QED
        BY <4>1, PlacesFinite
    <3>2. Cardinality(Approved') <= Cardinality(Approved)
      BY <2>3
    <3>3. Cardinality(Approved) + Cardinality(Yeses(toMain)) <= Cardinality(consent)
      BY <1>1 DEF YesInv
    <3>4. Cardinality(Approved') + Cardinality(Yeses(toMain)) <= Cardinality(consent)
      BY <1>2, <3>1, <3>2, <3>3
    <3>5. Yeses(toMain)' = Yeses(toMain)
      BY <2>1 DEF Yeses
    <3>. QED
      BY <2>1, <3>4, <3>5 DEF YesInv
  <2>. QED
    BY <2>3, <2>4, <2>5 DEF BridgeInv
<1>6. CASE Bridge!Show
  <2>1. /\ toUI # <<>> /\ toUI' = Tail(toUI) /\ modal' = Head(toUI)
        /\ UNCHANGED <<asked, outcome, pendingApproval, toMain, consent>>
    BY <1>6 DEF Bridge!Show
  <2>2. SlotInv' /\ Approved' = Approved /\ YesInv'
    BY <1>1, <2>1 DEF SlotInv, Approved, YesInv, Yeses
  <2>3. /\ Len(toUI) \in Nat \ {0} /\ toUI' \in Seq(Nat) /\ Len(toUI') = Len(toUI) - 1
        /\ modal' = toUI[1] /\ \A i \in 1..Len(toUI') : toUI'[i] = toUI[i + 1]
    BY <1>1, <2>1 DEF ShownOnceInv
  <2>4. 1 \in 1..Len(toUI) /\ \A i \in 1..Len(toUI') : i + 1 \in 1..Len(toUI) /\ i + 1 # 1
    BY <2>3
  <2>5. \A i \in 1..Len(toUI') :
             /\ toUI'[i] \in 1..Len(asked) /\ toUI'[i] # modal' /\ toUI'[i] \notin consent
             /\ \A j \in 1..Len(toUI') : toUI'[j] = toUI'[i] => j = i
    <3>1. \A i \in 1..Len(toUI) :
             /\ toUI[i] \in 1..Len(asked) /\ toUI[i] # modal /\ toUI[i] \notin consent
             /\ \A j \in 1..Len(toUI) : toUI[j] = toUI[i] => j = i
      BY <1>1 DEF ShownOnceInv
    <3>. SUFFICES ASSUME NEW i \in 1..Len(toUI')
                  PROVE  /\ toUI'[i] \in 1..Len(asked) /\ toUI'[i] # modal'
                         /\ toUI'[i] \notin consent
                         /\ \A j \in 1..Len(toUI') : toUI'[j] = toUI'[i] => j = i
      OBVIOUS
    <3>2. i + 1 \in 1..Len(toUI) /\ i + 1 # 1 /\ toUI'[i] = toUI[i + 1]
      BY <2>3, <2>4
    <3>3. /\ toUI'[i] \in 1..Len(asked) /\ toUI'[i] # modal'
          /\ toUI'[i] \notin consent
      BY <2>3, <2>4, <3>1, <3>2
    <3>4. ASSUME NEW j \in 1..Len(toUI'), toUI'[j] = toUI'[i] PROVE j = i
      <4>1. j + 1 \in 1..Len(toUI) /\ toUI[j + 1] = toUI[i + 1]
        BY <2>3, <2>4, <3>2, <3>4
      <4>2. j + 1 = i + 1
        BY <3>1, <3>2, <4>1
      <4>. QED
        BY <4>2
    <3>. QED
      BY <3>3, <3>4
  <2>6. modal' \in 0..Len(asked) /\ modal' \notin consent
    BY <1>1, <2>3, <2>4 DEF ShownOnceInv
  <2>7. ShownOnceInv'
    BY <1>1, <2>1, <2>3, <2>5, <2>6 DEF ShownOnceInv
  <2>. QED
    BY <2>2, <2>7 DEF BridgeInv
<1>7. ASSUME NEW yes \in BOOLEAN, Bridge!Click(yes)
      PROVE  BridgeInv' /\ Approved \subseteq Approved'
  <2>1. /\ modal # 0 /\ modal' = 0 /\ toMain' = Append(toMain, yes)
        /\ consent' = IF yes THEN consent \cup {modal} ELSE consent
        /\ UNCHANGED <<asked, outcome, pendingApproval, toUI>>
    BY <1>7 DEF Bridge!Click, Bridge!None
  <2>2. SlotInv' /\ Approved' = Approved
    <3>1. toMain' \in Seq(BOOLEAN)
      BY <1>1, <2>1 DEF SlotInv
    <3>2. SlotInv'
      BY <1>1, <2>1, <3>1 DEF SlotInv
    <3>3. Approved' = Approved
      BY <2>1 DEF Approved
    <3>. QED
      BY <3>2, <3>3
  <2>3. ShownOnceInv'
    <3>1. modal \in 1..Len(asked) /\ 0 \notin 1..Len(asked)
      BY <1>1, <1>2, <2>1 DEF ShownOnceInv
    <3>2. /\ consent' \in SUBSET (1..Len(asked)) /\ consent' \in SUBSET (consent \cup {modal})
          /\ modal' \in 0..Len(asked) /\ modal' \notin consent'
      BY <1>1, <1>2, <2>1, <3>1 DEF ShownOnceInv
    <3>3. \A i \in 1..Len(toUI) : toUI[i] # modal' /\ toUI[i] \notin consent'
      BY <1>1, <2>1, <3>1, <3>2 DEF ShownOnceInv
    <3>. QED
      BY <1>1, <2>1, <3>2, <3>3 DEF ShownOnceInv
  <2>4. YesInv'
    <3>1. Cardinality(Yeses(toMain')) = IF yes THEN Cardinality(Yeses(toMain)) + 1
                                               ELSE Cardinality(Yeses(toMain))
      BY <1>1, <2>1, YesSaid DEF SlotInv
    <3>2. Yeses(toMain)' = Yeses(toMain')
      BY DEF Yeses
    <3>3. Cardinality(Approved) + Cardinality(Yeses(toMain)) <= Cardinality(consent)
      BY <1>1 DEF YesInv
    <3>4. modal \notin consent
      BY <1>1 DEF ShownOnceInv
    <3>5. Cardinality(consent \cup {modal}) = Cardinality(consent) + 1
      BY <1>2, <3>4, FS_AddElement
    <3>6. CASE yes = TRUE
      <4>1. Cardinality(Approved) + Cardinality(Yeses(toMain')) <= Cardinality(consent')
        BY <1>2, <2>1, <3>1, <3>3, <3>5, <3>6
      <4>. QED
        BY <2>2, <3>2, <4>1 DEF YesInv
    <3>7. CASE yes = FALSE
      <4>1. Cardinality(Approved) + Cardinality(Yeses(toMain')) <= Cardinality(consent')
        BY <1>2, <2>1, <3>1, <3>3, <3>7
      <4>. QED
        BY <2>2, <3>2, <4>1 DEF YesInv
    <3>. QED
      BY <3>6, <3>7
  <2>. QED
    BY <2>2, <2>3, <2>4 DEF BridgeInv
<1>8. CASE UNCHANGED bridgeVars
  BY <1>1, <1>8 DEF bridgeVars, BridgeInv, SlotInv, ShownOnceInv, YesInv, Approved, Yeses
<1>. QED
  BY <1>3, <1>4, <1>5, <1>6, <1>7, <1>8 DEF BridgeStep

\* The relay does with the bridge what the bridge does, and moves on what it has
\* let through.
LEMMA RelayBridgeSteps ==
    ASSUME MadeInv, BridgeInv, GrantInv, [RelayNext]_relayVars
    PROVE  BridgeStep /\ GrantInv'
<1>. DEFINE Kept == /\ \A r \in Made : made'[r] = made[r]
                    /\ \A j \in 1..Len(tickets) : tickets'[j] = tickets[j]
<1>1. ASSUME BridgeStep, Kept,
             \A r \in acted' : \/ r \in acted
                               \/ r \in Made /\ made[r].kind # "send"
                               \/ \E j \in Approved : tickets[j].request = r
      PROVE  GrantInv'
  <2>1. Approved \subseteq Approved' /\ Approved \subseteq 1..Len(tickets) /\ acted \subseteq Made
    BY <1>1, BridgeKeeps DEF BridgeInv, SlotInv, MadeInv, Approved
  <2>2. ASSUME NEW r, \E j \in Approved : tickets[j].request = r
        PROVE  \E j \in Approved' : tickets'[j].request = r
    BY <1>1, <2>1, <2>2
  <2>3. ASSUME NEW r \in acted', made'[r].kind = "send"
        PROVE  \E j \in Approved : tickets[j].request = r
    <3>1. CASE r \in acted
      BY <1>1, <2>1, <2>3, <3>1 DEF GrantInv
    <3>2. CASE r \notin acted
      BY <1>1, <2>3, <3>2
    <3>. QED
      BY <3>1, <3>2
  <2>. QED
    BY <2>2, <2>3 DEF GrantInv
<1>2. ASSUME UNCHANGED <<made, tickets, acted>>, BridgeStep
      PROVE  GrantInv'
  BY <1>1, <1>2
<1>3. ASSUME UNCHANGED <<bridgeVars, made, tickets, acted>>
      PROVE  BridgeStep /\ GrantInv'
  <2>1. BridgeStep
    BY <1>3 DEF BridgeStep
  <2>. QED
    BY <1>2, <1>3, <2>1
<1>4. ASSUME NEW tab \in Tabs, NEW kind \in {"read", "accounts", "send"}, Call(tab, kind)
      PROVE  BridgeStep /\ GrantInv'
  <2>. DEFINE e == [tab |-> tab, id |-> IdOf(tab), kind |-> kind]
  <2>1. /\ UNCHANGED <<bridgeVars, tickets, acted>> /\ made' = Append(made, e)
    BY <1>4 DEF Call, ticketVars
  <2>. HIDE DEF e
  <2>2. \A r \in Made : made'[r] = made[r]
    BY <2>1 DEF MadeInv, Made
  <2>3. BridgeStep
    BY <2>1 DEF BridgeStep
  <2>4. Kept
    BY <2>1, <2>2
  <2>. HIDE DEF Kept
  <2>. QED
    BY <1>1, <2>1, <2>3, <2>4
<1>5. CASE \/ \E tab \in Tabs : Reload(tab) \/ \E r \in Requests : PageTimeout(tab, r)
           \/ AnswerArrives
           \/ \E r \in Requests : Timeout(r)
           \/ Close \/ RestartExtension
           \/ Handshake("down", "challenged") \/ Handshake("challenged", "up")
           \/ UNCHANGED relayVars
  <2>1. UNCHANGED <<bridgeVars, made, tickets, acted>>
    BY <1>5 DEF Reload, PageTimeout, AnswerArrives, Timeout, Close, RestartExtension, Handshake,
                relayVars, ticketVars, pageVars
  <2>. QED
    BY <1>3, <2>1
<1>6. ASSUME NEW origin \in Origins, Receive(origin)
      PROVE  BridgeStep /\ GrantInv'
  <2>. DEFINE r == Head(toWallet)
              ticket == [request |-> r, conn |-> conn]
              req == [origin |-> origin, accounts |-> made[r].kind = "accounts"]
  <2>1. made' = made /\ toWallet # <<>>
    BY <1>6 DEF Receive, pageVars
  <2>2. r \in Made
    BY <2>1, Heard DEF MadeInv
  <2>3. CASE Bridge!Ask(req) /\ tickets' = Append(tickets, ticket) /\ UNCHANGED acted
    <3>1. req \in Bridge!Request
      BY DEF Bridge!Request
    <3>2. BridgeStep
      BY <2>3, <3>1 DEF BridgeStep
    <3>3. \A j \in 1..Len(tickets) : tickets'[j] = tickets[j]
      BY <2>3 DEF MadeInv
    <3>4. Kept
      BY <2>1, <3>3
    <3>. HIDE DEF Kept
    <3>. QED
      BY <1>1, <2>3, <3>2, <3>4
  <2>4. CASE /\ ~NeedsApproval(made[r].kind, origin) /\ acted' = acted \cup {r}
             /\ UNCHANGED <<bridgeVars, tickets>>
    <3>1. made[r].kind # "send"
      BY <2>4 DEF NeedsApproval
    <3>2. BridgeStep /\ Kept
      BY <2>1, <2>4 DEF BridgeStep
    <3>. HIDE DEF Kept, r
    <3>. QED
      BY <1>1, <2>2, <2>4, <3>1, <3>2
  <2>. QED
    BY <1>6, <2>3, <2>4 DEF Receive
<1>7. ASSUME NEW ticket \in exempt, ReplyPassed(ticket)
      PROVE  BridgeStep /\ GrantInv'
  BY <1>3, <1>7 DEF ReplyPassed, pageVars
<1>8. ASSUME NEW i \in DOMAIN asked, ReplyAsked(i)
      PROVE  BridgeStep /\ GrantInv'
  <2>1. /\ UNCHANGED <<bridgeVars, made, tickets>>
        /\ acted' = IF outcome[i] = "approved" THEN acted \cup {tickets[i].request} ELSE acted
    BY <1>8 DEF ReplyAsked, pageVars
  <2>2. BridgeStep /\ Kept
    BY <2>1 DEF BridgeStep
  <2>. HIDE DEF Kept
  <2>3. CASE outcome[i] = "approved"
    <3>1. i \in Approved
      BY <1>8, <2>3 DEF BridgeInv, SlotInv, Approved
    <3>2. \A r \in acted' : r \in acted \/ \E j \in Approved : tickets[j].request = r
      BY <2>1, <2>3, <3>1
    <3>. QED
      BY <1>1, <2>2, <3>2
  <2>4. CASE outcome[i] # "approved"
    BY <1>2, <2>1, <2>2, <2>4
  <2>. QED
    BY <2>2, <2>3, <2>4
<1>9. CASE Approvals
  <2>1. UNCHANGED <<made, tickets, acted>>
    BY <1>9 DEF Approvals, ticketVars, pageVars
  <2>2. BridgeStep
    BY <1>9 DEF Approvals, BridgeStep
  <2>. QED
    BY <1>2, <2>1, <2>2
<1>. QED
  BY <1>4, <1>5, <1>6, <1>7, <1>8, <1>9 DEF RelayNext

\* At the start nothing is asked.
LEMMA BridgeInit == Bridge!Init => BridgeInv
<1>. SUFFICES ASSUME Bridge!Init PROVE BridgeInv
  OBVIOUS
<1>1. /\ asked = <<>> /\ outcome = <<>> /\ pendingApproval = 0 /\ modal = 0 /\ toUI = <<>>
      /\ toMain = <<>> /\ consent = {}
  BY DEF Bridge!Init, Bridge!None
<1>2. SlotInv /\ ShownOnceInv
  BY <1>1 DEF SlotInv, ShownOnceInv, None
<1>3. Approved = {} /\ Yeses(toMain) = {} /\ consent = {}
  BY <1>1 DEF Approved, Yeses
<1>4. YesInv
  BY <1>3, FS_EmptySet DEF YesInv
<1>. QED
  BY <1>2, <1>4 DEF BridgeInv

\* No more requests are granted than approved, and no more are approved than the
\* user said yes to.
LEMMA GrantsCounted == MadeInv /\ BridgeInv /\ GrantInv => EachGrantTakesAYes
<1>. SUFFICES ASSUME MadeInv, BridgeInv, GrantInv PROVE EachGrantTakesAYes
  OBVIOUS
<1>. DEFINE granted == {tickets[i].request : i \in {j \in DOMAIN asked : outcome[j] = "approved"}}
            spends == {r \in acted : made[r].kind = "send"}
            f == [j \in Approved |-> tickets[j].request]
<1>1. Approved = {j \in DOMAIN asked : outcome[j] = "approved"}
  BY DEF BridgeInv, SlotInv, Approved
<1>2. spends \subseteq granted
  BY <1>1 DEF GrantInv
<1>3. /\ IsFiniteSet(Approved) /\ Cardinality(Approved) \in Nat
      /\ Cardinality(Yeses(toMain)) \in Nat
      /\ IsFiniteSet(consent) /\ Cardinality(consent) \in Nat
  <2>1. /\ Len(asked) \in Nat /\ Len(outcome) \in Nat /\ Len(toMain) \in Nat
        /\ consent \in SUBSET (1..Len(asked)) /\ Approved \in SUBSET (1..Len(outcome))
        /\ Yeses(toMain) \in SUBSET (1..Len(toMain))
    BY DEF BridgeInv, SlotInv, ShownOnceInv, Approved, Yeses
  <2>. QED
    BY <2>1, PlacesFinite
<1>4. f \in Surjection(Approved, granted)
  <2>1. granted = {tickets[i].request : i \in Approved}
    BY <1>1
  <2>. HIDE DEF granted
  <2>. QED
    BY <2>1 DEF Surjection
<1>. HIDE DEF f
<1>5. IsFiniteSet(granted) /\ Cardinality(granted) <= Cardinality(Approved)
  BY <1>3, <1>4, FS_Surjection
<1>6. Cardinality(granted) \in Nat
  BY <1>5, FS_CardinalityType
<1>7. granted \cup spends = granted
  BY <1>2
<1>8. EachGrantTakesAYes <=> Cardinality(granted \cup spends) <= Cardinality(consent)
  BY DEF EachGrantTakesAYes
<1>9. Cardinality(Approved) + Cardinality(Yeses(toMain)) <= Cardinality(consent)
  BY DEF BridgeInv, YesInv
<1>. HIDE DEF granted, spends
<1>10. Cardinality(granted) <= Cardinality(consent)
  BY <1>3, <1>5, <1>6, <1>9
<1>. QED
  BY <1>7, <1>8, <1>10

RelayInv == MadeInv /\ LoneInv /\ BridgeInv /\ GrantInv

\* Every step of the relay keeps the invariants.
LEMMA RelayInvStep == RelayInv /\ [RelayNext]_relayVars => RelayInv'
<1>. SUFFICES ASSUME RelayInv, [RelayNext]_relayVars PROVE RelayInv'
  OBVIOUS
<1>1. MadeInv' /\ LoneInv'
  BY CallKeepsMade, AnswerKeepsMade, ReceiveKeepsMade, OthersKeepMade DEF RelayInv, RelayNext
<1>2. BridgeStep /\ GrantInv'
  BY RelayBridgeSteps DEF RelayInv
<1>3. BridgeInv'
  BY <1>2, BridgeKeeps DEF RelayInv
<1>. QED
  BY <1>1, <1>2, <1>3 DEF RelayInv

\* They hold throughout.
LEMMA RelayInvariant == RelaySpec => []RelayInv
<1>1. RelayInit => RelayInv
  BY MadeInit, BridgeInit DEF RelayInit, RelayInv, GrantInv
<1>. QED
  BY <1>1, RelayInvStep, PTL DEF RelaySpec

\* No yes of the user lets two requests through the one slot of the bridge
\* (ws-bridge.js).
THEOREM GrantsTakeYeses == RelaySpec => []EachGrantTakesAYes
<1>1. RelayInv => EachGrantTakesAYes
  BY GrantsCounted DEF RelayInv
<1>. QED
  BY <1>1, RelayInvariant, PTL

\* Of the bridge by itself, with any client on the socket: no more requests are
\* approved than the user said yes to, although a yes may approve another than
\* the one that was shown (ws-bridge.js).
THEOREM YesesApproveOnce == Bridge!Spec => [](Cardinality(Approved) <= Cardinality(consent))
<1>1. Bridge!Init => BridgeInv
  BY BridgeInit
<1>2. BridgeInv /\ [Bridge!Next]_(Bridge!vars) => BridgeInv'
  <2>. SUFFICES ASSUME BridgeInv, [Bridge!Next]_(Bridge!vars)
                PROVE  BridgeInv'
    OBVIOUS
  <2>1. BridgeStep
    BY DEF BridgeStep, Bridge!Next, Bridge!vars, bridgeVars
  <2>. QED
    BY <2>1, BridgeKeeps
<1>3. BridgeInv => Cardinality(Approved) <= Cardinality(consent)
  <2>. SUFFICES ASSUME BridgeInv
                PROVE  Cardinality(Approved) <= Cardinality(consent)
    OBVIOUS
  <2>1. /\ Len(outcome) \in Nat /\ Len(toMain) \in Nat /\ Len(asked) \in Nat
        /\ consent \in SUBSET (1..Len(asked))
        /\ Approved \in SUBSET (1..Len(outcome)) /\ Yeses(toMain) \in SUBSET (1..Len(toMain))
    BY DEF BridgeInv, SlotInv, ShownOnceInv, Approved, Yeses
  <2>2. /\ Cardinality(Approved) \in Nat /\ Cardinality(Yeses(toMain)) \in Nat
        /\ Cardinality(consent) \in Nat
    BY <2>1, PlacesFinite
  <2>. QED
    BY <2>2 DEF BridgeInv, YesInv
<1>. QED
  BY <1>1, <1>2, <1>3, PTL DEF Bridge!Spec

\* Whatever pages, extension and socket do, the bridge behind them goes only the
\* steps of PhantomBridge: what holds of it alone (ws-bridge.js) holds here.
THEOREM RelayKeepsBridge == RelaySpec => Bridge!Spec
<1>1. RelayInit => Bridge!Init
  BY DEF RelayInit
<1>2. RelayInv /\ [RelayNext]_relayVars => [Bridge!Next]_(Bridge!vars)
  <2>. SUFFICES ASSUME RelayInv, [RelayNext]_relayVars
                PROVE  [Bridge!Next]_(Bridge!vars)
    OBVIOUS
  <2>1. BridgeStep
    BY RelayBridgeSteps DEF RelayInv
  <2>2. CASE UNCHANGED bridgeVars
    BY <2>2 DEF bridgeVars, Bridge!vars
  <2>3. CASE ~UNCHANGED bridgeVars
    BY <2>1, <2>3 DEF BridgeStep, Bridge!Next
  <2>. QED
    BY <2>2, <2>3
<1>. QED
  BY <1>1, <1>2, RelayInvariant, PTL DEF RelaySpec, Bridge!Spec

=============================================================================
