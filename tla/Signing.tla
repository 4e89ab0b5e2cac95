------------------------------ MODULE Signing ------------------------------
(***************************************************************************)
(* Two-phase signing in the main process: bundler:prepare and              *)
(* bundler:confirm (electron/ipc-handlers.js) on top of the fresh-auth     *)
(* gate of FreshGate, next to the other ways to the chain that share the   *)
(* ledger with it: bundler:submit, eth_sendTransaction of a bridge after   *)
(* its approval, and the handlers that send tokens, NFTs, bitcoin and SOL  *)
(* and record a spend of '0' for them.  Every handler awaits the network   *)
(* between reading the ledger and writing it, so handlers interleave with  *)
(* each other, with the lock, with changes of the vault and of the         *)
(* settings, and with the end of the program.                              *)
(*                                                                         *)
(* Of the ledger what the handlers read and write is kept: whether it is   *)
(* open, the addresses in the vault, the active one, the total of the day, *)
(* the limit, and the destinations that strict mode bars.  EncryptedLedger *)
(* has the rest.  The rate limiter is left out: any send may be tried.     *)
(* Amounts are numbers of parts, as in EncryptedLedger.                    *)
(***************************************************************************)
EXTENDS FreshGate, Decimals, Sequences, FiniteSets, FiniteSetsExt

CONSTANTS Wallets,        \* addresses
          Destinations,   \* addresses that payments go to
          Calldata, NoData,  \* userOp.data, and '0x'
          Payments,       \* destination, amount and data of a native transaction
          Settings,       \* spend limits, and what strict mode bars with them
          DefaultSettings,
          PrepareExpiry,  \* PREPARE_EXPIRY_MS
          MaxPrepares,    \* bound on the transactions prepared
          MaxSends        \* bound on the sends started

ASSUME SigningAssumption ==
    /\ Wallets # {} /\ IsFiniteSet(Wallets)
    /\ NoData \notin Calldata
    /\ Payments \subseteq [to : Destinations, amt : Nat, data : Calldata \cup {NoData}]
    /\ Settings \subseteq [limit : Nat, barred : SUBSET Destinations]
    /\ DefaultSettings \in Settings /\ DefaultSettings.barred = {}
    /\ FreshWindow \in Nat \ {0} /\ PrepareExpiry \in Nat
    /\ MaxNow \in Nat /\ MaxPassed \in Nat
    /\ MaxPrepares \in Nat /\ MaxSends \in Nat

VARIABLES
    vault,      \* the addresses in the vault
    active,     \* the active one
    spent,      \* the total of today's entry
    settings,   \* spend limit and strict mode with its whitelist
    prepared,   \* everything ever prepared, in order: its place is its prepareId
    simulating, \* the prepare handlers that await simulateTx
    prepareStore,
    flights,    \* the handlers that await signer.sendTransaction
    sends,      \* how many were started
    \* history, read by the properties and by the network
    chain       \* what was signed and broadcast

ledgerVars == <<vault, active, spent, settings>>
signVars   == <<prepared, simulating, prepareStore, flights, sends, chain>>
vars       == <<gateVars, ledgerVars, signVars>>

NoPrepare == 0   \* the prepareId of a send that was not prepared
NotStored == -1  \* createdAt while the simulation runs

Within(amt) == spent + amt <= settings.limit

\* off, strict mode bars nothing; on, what the whitelist lacks
Admits(to) == to \notin settings.barred

-----------------------------------------------------------------------------
(* Phase 1: bundler:prepare                                                 *)

Expired(id) == now > prepared[id].createdAt + PrepareExpiry

\* What was prepared is stored, and the expired ones are swept.
Store(id) == prepareStore' = {p \in prepareStore : ~Expired(p)} \cup {id}

\* The checks, and for a payment with calldata an await on its simulation:
\* `from' is looked up now, and again at the confirmation.
Prepare(from, p) ==
    /\ open
    /\ from \in vault
    /\ Admits(p.to)
    /\ Within(p.amt)
    /\ Len(prepared) < MaxPrepares
    /\ LET id == Len(prepared) + 1
           Note(at) == prepared' = Append(prepared, [from |-> from, to |-> p.to, amt |-> p.amt,
                                                     data |-> p.data, createdAt |-> at])
       IN  \/ /\ p.data = NoData
              /\ Note(now)
              /\ Store(id)
              /\ UNCHANGED simulating
           \/ /\ p.data # NoData
              /\ Note(NotStored)
              /\ simulating' = simulating \cup {id}
              /\ UNCHANGED prepareStore
    /\ UNCHANGED <<gateVars, ledgerVars, flights, sends, chain>>

\* The simulation is advisory: however it ends, the prepare is stored.  The
\* ledger is not asked again.
StorePrepared(id) ==
    /\ id \in simulating
    /\ simulating' = simulating \ {id}
    /\ prepared' = [prepared EXCEPT ![id].createdAt = now]
    /\ Store(id)
    /\ UNCHANGED <<gateVars, ledgerVars, flights, sends, chain>>

-----------------------------------------------------------------------------
(* Phase 2: bundler:confirm                                                 *)

\* What a send carries: wallet, destination, amount and data, and for a
\* confirmation the prepareId, its time and that of the proof it rests on.
Send(from, to, amt, data) ==
    [no |-> sends + 1, from |-> from, to |-> to, amt |-> amt, data |-> data,
     prep |-> NoPrepare, at |-> 0, proof |-> NoProof]

\* destination and amount of what was prepared, and no data
Confirmed(id, from) ==
    [no |-> sends + 1, from |-> from, to |-> prepared[id].to, amt |-> prepared[id].amt,
     data |-> NoData, prep |-> id, at |-> now, proof |-> proof']

StartSend(f) ==
    /\ sends < MaxSends
    /\ sends' = sends + 1
    /\ flights' = flights \cup {f}

\* Mutant: the prepare stays in the store.
UsePreparedLate(id) ==
    /\ UNCHANGED prepareStore
    /\ IF open /\ prepared[id].from \in vault
       THEN StartSend(Confirmed(id, prepared[id].from))
       ELSE UNCHANGED <<flights, sends>>

\* Mutant: the active wallet signs.
UsePreparedActive(id) ==
    /\ prepareStore' = prepareStore \ {id}
    /\ IF open /\ prepared[id].from \in vault
       THEN StartSend(Confirmed(id, active))
       ELSE UNCHANGED <<flights, sends>>

\* The prepareId is gone before the vault is opened, so that a locked ledger or
\* a wallet removed in between uses it up.
UsePrepared(id) ==
    /\ prepareStore' = prepareStore \ {id}
    /\ IF open /\ prepared[id].from \in vault
       THEN StartSend(Confirmed(id, prepared[id].from))
       ELSE UNCHANGED <<flights, sends>>

\* Mutant: the age of the prepare is not looked at.
ConfirmStored(id) ==
    \/ /\ id \notin prepareStore
       /\ UNCHANGED <<prepareStore, flights, sends>>
    \/ /\ id \in prepareStore
       /\ UsePrepared(id)

ConfirmGranted(id) ==
    \/ /\ id \notin prepareStore
       /\ UNCHANGED <<prepareStore, flights, sends>>
    \/ /\ id \in prepareStore /\ Expired(id)
       /\ prepareStore' = prepareStore \ {id}
       /\ UNCHANGED <<flights, sends>>
    \/ /\ id \in prepareStore /\ ~Expired(id)
       /\ UsePrepared(id)

\* fresh auth comes first: a refusal changes nothing
Confirm(id) ==
    /\ Pass
    /\ ConfirmGranted(id)
    /\ UNCHANGED <<open, ledgerVars, prepared, simulating, chain>>

-----------------------------------------------------------------------------
(* The other ways to the chain                                              *)

\* a send that was not prepared
StartUnprepared(from, to, amt, data) ==
    /\ StartSend(Send(from, to, amt, data))
    /\ UNCHANGED <<gateVars, ledgerVars, prepared, simulating, prepareStore, chain>>

\* bundler:submit: no fresh auth, and no data either
Submit(from, p) ==
    /\ open
    /\ from \in vault
    /\ Admits(p.to)
    /\ Within(p.amt)
    /\ StartUnprepared(from, p.to, p.amt, NoData)

\* eth_sendTransaction of PhantomBridge, WCBridge and DAppBrowser, from the
\* moment the approval was given: the active wallet of that moment sends, and
\* strict mode is not asked
BridgeSend(p) ==
    /\ open
    /\ Within(p.amt)
    /\ StartUnprepared(active, p.to, p.amt, p.data)

\* token:transfer and nft:transfer: the active wallet, under strict mode, and
\* neither a limit nor fresh auth.  The question to the contract that comes
\* first is part of the await.
TransferToken(to, data) ==
    /\ open
    /\ Admits(to)
    /\ StartUnprepared(active, to, 0, data)

\* approval:revoke: a transaction to the token
RevokeApproval(to, data) ==
    /\ open
    /\ StartUnprepared(active, to, 0, data)

\* btc:send and sol:send: any wallet of the vault, without strict mode
SendCoins(from, to) ==
    /\ open
    /\ from \in vault
    /\ StartUnprepared(from, to, 0, NoData)

-----------------------------------------------------------------------------
(* The network, and what the handlers do after the await                    *)

\* sendTransaction has its own copy of the key: it signs whatever has become of
\* the ledger since, and may sign before or after anything else happens
SignAndBroadcast(f) ==
    /\ f \in flights /\ f \notin chain
    /\ chain' = chain \cup {f}
    /\ UNCHANGED <<gateVars, ledgerVars, prepared, simulating, prepareStore, flights, sends>>

\* recordSpend throws when the ledger is locked or the limit would be passed,
\* a limit lowered below the total even by '0'
Recorded(amt) ==
    \/ /\ open /\ Within(amt)
       /\ spent' \in Rounded(spent + amt)
    \/ /\ ~(open /\ Within(amt))
       /\ UNCHANGED spent

\* The transaction stays sent, recorded or not.
Answered(f) ==
    /\ f \in flights /\ f \in chain
    /\ flights' = flights \ {f}
    /\ Recorded(f.amt)
    /\ UNCHANGED <<gateVars, vault, active, settings, prepared, simulating, prepareStore,
                   sends, chain>>

\* the network reports an error, be the transaction on its way or not
Failed(f) ==
    /\ f \in flights
    /\ flights' = flights \ {f}
    /\ UNCHANGED <<gateVars, ledgerVars, prepared, simulating, prepareStore, sends, chain>>

\* ledger:recordSpend: a spend that the renderer reports, sent or not
RecordSpend(amt) ==
    /\ Recorded(amt)
    /\ UNCHANGED <<gateVars, vault, active, settings, signVars>>

-----------------------------------------------------------------------------
(* What happens around them                                                 *)

SetActiveWallet(w) ==
    /\ open /\ w \in vault
    /\ active' = w
    /\ UNCHANGED <<gateVars, vault, spent, settings, signVars>>

AddWallet(w) ==
    /\ open /\ w \notin vault
    /\ vault' = vault \cup {w}
    /\ UNCHANGED <<gateVars, active, spent, settings, signVars>>

UpdateSettings(s) ==
    /\ open
    /\ settings' = s
    /\ UNCHANGED <<gateVars, vault, active, spent, signVars>>

\* Mutant: the active wallet is removed and stays active.
RemoveWalletStale(w) ==
    /\ Pass
    /\ IF open /\ w \in vault /\ Cardinality(vault) > 1
       THEN vault' = vault \ {w}
       ELSE UNCHANGED vault
    /\ UNCHANGED <<open, active, spent, settings, signVars>>

\* the index may come to denote another wallet, whichever was removed
RemoveWallet(w) ==
    /\ Pass
    /\ IF open /\ w \in vault /\ Cardinality(vault) > 1
       THEN vault' = vault \ {w} /\ active' \in vault'
       ELSE UNCHANGED <<vault, active>>
    /\ UNCHANGED <<open, spent, settings, signVars>>

\* vault:create over whatever was there: its spend entries and settings are gone
CreateVault(w) ==
    /\ open' = TRUE
    /\ vault' = {w} /\ active' = w
    /\ spent' = 0 /\ settings' = DefaultSettings
    /\ UNCHANGED <<now, proof, passed, signVars>>

\* today's entry is a new one
NextDay ==
    /\ spent' = 0
    /\ UNCHANGED <<gateVars, vault, active, settings, signVars>>

\* auth:freshAuth, vault:lock and vault:unlock, and the clock
Around ==
    /\ Prove \/ LockOrUnlock \/ Tick
    /\ UNCHANGED <<ledgerVars, signVars>>

RestartAll ==
    /\ Restart
    /\ simulating' = {} /\ prepareStore' = {} /\ flights' = {}
    /\ UNCHANGED <<ledgerVars, prepared, sends, chain>>

Init ==
    /\ GateInit
    /\ active \in Wallets /\ vault = {active}
    /\ spent = 0 /\ settings = DefaultSettings
    /\ prepared = <<>> /\ simulating = {} /\ prepareStore = {}
    /\ flights = {} /\ sends = 0 /\ chain = {}

Next ==
    \/ \E w \in Wallets, p \in Payments : Prepare(w, p) \/ Submit(w, p)
    \/ \E id \in 1..Len(prepared) : StorePrepared(id) \/ Confirm(id)
    \/ \E p \in Payments : BridgeSend(p) \/ RecordSpend(p.amt)
    \/ \E to \in Destinations, data \in Calldata : TransferToken(to, data) \/ RevokeApproval(to, data)
    \/ \E to \in Destinations, w \in Wallets : SendCoins(w, to)
    \/ \E f \in flights : SignAndBroadcast(f) \/ Answered(f) \/ Failed(f)
    \/ \E w \in Wallets : SetActiveWallet(w) \/ AddWallet(w) \/ RemoveWallet(w) \/ CreateVault(w)
    \/ \E s \in Settings : UpdateSettings(s)
    \/ NextDay
    \/ Around
    \/ RestartAll

Spec == Init /\ [][Next]_vars

-----------------------------------------------------------------------------
(* Properties                                                               *)

Sends == [no : Nat, prep : Nat, from : Wallets, to : Destinations, amt : Nat,
          data : Calldata \cup {NoData}, at : Nat, proof : Nat \cup {NoProof}]

TypeOK ==
    /\ now \in Nat /\ open \in BOOLEAN /\ proof \in Nat \cup {NoProof} /\ passed \in Nat
    /\ vault \in (SUBSET Wallets) \ {{}} /\ active \in vault
    /\ spent \in Nat /\ settings \in Settings
    /\ prepared \in Seq([from : Wallets, to : Destinations, amt : Nat,
                         data : Calldata \cup {NoData},
                         createdAt : Nat \cup {NotStored}])
    /\ simulating \in SUBSET (1..Len(prepared))
    /\ prepareStore \in SUBSET (1..Len(prepared))
    /\ flights \in SUBSET Sends /\ sends \in Nat
    /\ chain \in SUBSET Sends

\* A prepareId is good for one transaction: two confirmations racing on it,
\* with whatever locks, failures and restarts in between, never sign twice.
PreparedOnce ==
    \A t, u \in chain : t.prep = u.prep /\ t.prep # NoPrepare => t = u

\* A confirmation moves the amount that was prepared, from the wallet and to the
\* destination that were prepared, although active wallet, vault and settings
\* may have changed since.
PaymentIsKept ==
    \A t \in chain : t.prep # NoPrepare =>
        /\ t.prep \in 1..Len(prepared)
        /\ t.from = prepared[t.prep].from
        /\ t.to = prepared[t.prep].to
        /\ t.amt = prepared[t.prep].amt

\* A prepared transaction is signed only on a confirmation made while the
\* prepare was valid and within the fresh window of a proof of the password.
ConfirmedInTime ==
    \A t \in chain : t.prep # NoPrepare =>
        /\ t.at <= prepared[t.prep].createdAt + PrepareExpiry
        /\ t.proof # NoProof
        /\ t.at < t.proof + FreshWindow

\* What is signed after a confirmation has the calldata that was prepared and
\* simulated.  It does not hold: bundler:confirm signs destination and amount.
CalldataIsSent ==
    \A t \in chain : t.prep # NoPrepare => t.data = prepared[t.prep].data

\* The transactions that are signed and about to be recorded are together within
\* the largest limit that is ever set.  It does not hold: each handler compares
\* the limit before its await, and recordSpend when the transaction is sent.
SentWithinLimit ==
    \E s \in Settings : MapThenSumSet(LAMBDA f : f.amt, flights \cap chain) <= s.limit
=============================================================================
