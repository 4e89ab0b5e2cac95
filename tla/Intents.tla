------------------------------- MODULE Intents -------------------------------
(***************************************************************************)
(* Intents (src/modules/IntentModule.sol): an account offers an amount,    *)
(* escrowed here if it is ETH, for an output to be delivered; a solver     *)
(* claims the intent with a bond and settles it, or is slashed; the        *)
(* initiator cancels it while it is open, and past the deadline anyone     *)
(* sends the escrow back.  Every call is one step, but settleIntent, which *)
(* pays the recipients of ETH before it notes that the intent is settled:  *)
(* they may call the module in between.  Other calls out come after every  *)
(* change of the state they could meet.                                    *)
(* A transaction that reverts leaves no trace and is not begun.            *)
(***************************************************************************)
EXTENDS Integers, Sequences, FiniteSets, SequencesExt, FiniteSetsExt

CONSTANTS Ids,         \* intent ids, hashes of what was asked for and when
          Initiators, Solvers,
          NoOne,       \* address(0)
          Offered, Wanted,  \* amounts offered and asked for
          Values,      \* values calls carry
          Shares,      \* recipientShares, parts of BpsDenominator that make
                       \* up the whole: createIntent refuses any others
          BpsDenominator,
          SolverBondBps,
          FillTime,    \* MAX_SOLVER_FILL_TIME
          Deadlines,
          MaxTimestamp,   \* bound on block.timestamp
          MaxClaims,      \* bound on the claims of an intent
          MaxNesting      \* bound on settleIntent within settleIntent

ASSUME IntentsAssumption ==
    /\ IsFiniteSet(Ids)
    /\ NoOne \notin Initiators \cup Solvers
    /\ Offered \subseteq Nat /\ Wanted \subseteq Nat /\ Values \subseteq Nat
    /\ Deadlines \subseteq Nat
    /\ Shares \in Seq(Nat) /\ BpsDenominator \in Nat \ {0}
    /\ MapThenSumSet(LAMBDA i : Shares[i], 1..Len(Shares)) = BpsDenominator
    /\ SolverBondBps \in Nat /\ FillTime \in Nat /\ MaxTimestamp \in Nat

VARIABLES
    timestamp,    \* block.timestamp
    intents,      \* what was asked for
    intentStatus,
    solverClaims,
    escrowedETH,
    slashedBonds,
    balance,      \* ETH the module holds
    settling,     \* the calls of settleIntent under way, innermost first
    \* history, read by the properties only
    claims,       \* how often an intent was claimed
    outcome,      \* who got the escrow, how much of it, and what recipients got
    paidAgain     \* bonds paid to solvers whose intent was settled already

intentsVars == <<timestamp, intents, intentStatus, solverClaims, escrowedETH, slashedBonds,
                 balance, settling, claims, outcome, paidAgain>>

NoClaim  == [solver |-> NoOne, bondAmount |-> 0, claimedAt |-> 0]
NoIntent == [initiator |-> NoOne, ethIn |-> FALSE, inputAmount |-> 0,
             ethOut |-> FALSE, minOutputAmount |-> 0, deadline |-> 0]
NoOutcome == [to |-> NoOne, paid |-> 0, delivered |-> 0]

Live(id) == intentStatus[id] \in {"OPEN", "FILLED"}

\* Only recipients who are being paid ETH may call while settleIntent runs.
MayCall == settling # <<>> => intents[Head(settling)].ethOut

-----------------------------------------------------------------------------
(* The initiator                                                            *)

\* what msg.value exceeds inputAmount by, or all of it for a token, stays here
CreateIntent(id, who, ethIn, amount, ethOut, min, deadline, value) ==
    /\ MayCall
    /\ intentStatus[id] = "NONE"
    /\ deadline > timestamp
    /\ ethIn => value >= amount
    /\ intents' = [intents EXCEPT ![id] =
           [initiator |-> who, ethIn |-> ethIn, inputAmount |-> amount,
            ethOut |-> ethOut, minOutputAmount |-> min, deadline |-> deadline]]
    /\ intentStatus' = [intentStatus EXCEPT ![id] = "OPEN"]
    /\ escrowedETH' = [escrowedETH EXCEPT ![id] = IF ethIn THEN amount ELSE 0]
    /\ balance' = balance + value
    /\ UNCHANGED <<timestamp, solverClaims, slashedBonds, settling, claims, outcome, paidAgain>>

\* Mutant: the escrow is still noted after it was paid.
PayEscrowKept(id, to) ==
    /\ balance >= escrowedETH[id]
    /\ escrowedETH' = escrowedETH
    /\ outcome' = [outcome EXCEPT ![id].to = to, ![id].paid = @ + escrowedETH[id]]

\* the escrow, if there is any, leaves for one address
PayEscrow(id, to) ==
    /\ balance >= escrowedETH[id]
    /\ escrowedETH' = [escrowedETH EXCEPT ![id] = 0]
    /\ outcome' = [outcome EXCEPT ![id].to = IF escrowedETH[id] > 0 THEN to ELSE @,
                                  ![id].paid = @ + escrowedETH[id]]

CancelIntent(id) ==
    /\ MayCall
    /\ intentStatus[id] = "OPEN"
    /\ intentStatus' = [intentStatus EXCEPT ![id] = "CANCELLED"]
    /\ PayEscrow(id, intents[id].initiator)
    /\ balance' = balance - escrowedETH[id]
    /\ UNCHANGED <<timestamp, intents, solverClaims, slashedBonds, settling, claims, paidAgain>>

-----------------------------------------------------------------------------
(* Solvers                                                                  *)

RequiredBond(id) == (intents[id].inputAmount * SolverBondBps) \div BpsDenominator

ClaimIntent(id, who, value) ==
    /\ MayCall
    /\ intentStatus[id] = "OPEN"
    /\ timestamp < intents[id].deadline
    /\ value >= RequiredBond(id)
    /\ claims[id] < MaxClaims
    /\ solverClaims' = [solverClaims EXCEPT ![id] =
           [solver |-> who, bondAmount |-> value, claimedAt |-> timestamp]]
    /\ intentStatus' = [intentStatus EXCEPT ![id] = "FILLED"]
    /\ balance' = balance + value
    /\ claims' = [claims EXCEPT ![id] = @ + 1]
    /\ UNCHANGED <<timestamp, intents, escrowedETH, slashedBonds, settling, outcome, paidAgain>>

\* Mutant: shares are rounded up.
DeliveredUp(value) ==
    LET share(i) == (value * Shares[i] + BpsDenominator - 1) \div BpsDenominator
    IN  MapThenSumSet(share, 1..Len(Shares))

\* what recipients get of a value: their shares, each rounded down
Delivered(value) ==
    LET share(i) == (value * Shares[i]) \div BpsDenominator
    IN  MapThenSumSet(share, 1..Len(Shares))

\* Mutant: too little is accepted.
SufficientAlways(id, value) == TRUE

Sufficient(id, value) == intents[id].ethOut => value >= intents[id].minOutputAmount

\* settleIntent up to the payment of the last recipient; what the solver has
\* transferred of a token output is not looked at
SettleDeliver(id, value, transferred) ==
    /\ MayCall
    /\ Len(settling) < MaxNesting
    /\ intentStatus[id] = "FILLED"
    /\ timestamp < intents[id].deadline
    /\ Sufficient(id, value)
    /\ settling' = <<id>> \o settling
    /\ IF intents[id].ethOut
       THEN /\ balance' = balance + value - Delivered(value)
            /\ outcome' = [outcome EXCEPT ![id].delivered = @ + Delivered(value)]
       ELSE /\ balance' = balance + value
            /\ outcome' = [outcome EXCEPT ![id].delivered = @ + transferred]
    /\ UNCHANGED <<timestamp, intents, intentStatus, solverClaims, escrowedETH, slashedBonds,
                   claims, paidAgain>>

\* settleIntent after that, whatever the status is by now: bond and escrow go to
\* the solver of the claim that stands, to address(0) if none does
SettleFinish ==
    /\ settling # <<>>
    /\ LET id    == Head(settling)
           claim == solverClaims[id]
           spent == claim.bondAmount + escrowedETH[id]
       IN  /\ balance >= spent
           /\ intentStatus' = [intentStatus EXCEPT ![id] = "SETTLED"]
           /\ PayEscrow(id, claim.solver)
           /\ balance' = balance - spent
           /\ paidAgain' = IF intentStatus[id] = "SETTLED"
                           THEN paidAgain + claim.bondAmount ELSE paidAgain
    /\ settling' = Tail(settling)
    /\ UNCHANGED <<timestamp, intents, solverClaims, slashedBonds, claims>>

-----------------------------------------------------------------------------
(* Anyone                                                                   *)

\* Mutant: the slashed claim stays.
SlashSolverKept(id) ==
    /\ MayCall
    /\ intentStatus[id] = "FILLED"
    /\ timestamp >= solverClaims[id].claimedAt + FillTime
    /\ slashedBonds' = slashedBonds + 2 * solverClaims[id].bondAmount
    /\ intentStatus' = [intentStatus EXCEPT ![id] = "OPEN"]
    /\ UNCHANGED <<timestamp, intents, solverClaims, escrowedETH, balance, settling, claims,
                   outcome, paidAgain>>

SlashSolver(id) ==
    /\ MayCall
    /\ intentStatus[id] = "FILLED"
    /\ timestamp >= solverClaims[id].claimedAt + FillTime
    /\ slashedBonds' = slashedBonds + solverClaims[id].bondAmount
    /\ intentStatus' = [intentStatus EXCEPT ![id] = "OPEN"]
    /\ solverClaims' = [solverClaims EXCEPT ![id] = NoClaim]
    /\ UNCHANGED <<timestamp, intents, escrowedETH, balance, settling, claims, outcome,
                   paidAgain>>

\* the bond of a claim that stands is slashed, and the claim kept
ReclaimExpired(id) ==
    /\ MayCall
    /\ Live(id)
    /\ timestamp >= intents[id].deadline
    /\ intentStatus' = [intentStatus EXCEPT ![id] = "EXPIRED"]
    /\ PayEscrow(id, intents[id].initiator)
    /\ balance' = balance - escrowedETH[id]
    /\ slashedBonds' = slashedBonds + solverClaims[id].bondAmount
    /\ UNCHANGED <<timestamp, intents, solverClaims, settling, claims, paidAgain>>

\* between transactions
NextBlock ==
    /\ settling = <<>>
    /\ timestamp < MaxTimestamp
    /\ timestamp' = timestamp + 1
    /\ UNCHANGED <<intents, intentStatus, solverClaims, escrowedETH, slashedBonds, balance,
                   settling, claims, outcome, paidAgain>>

IntentsInit ==
    /\ timestamp = 0
    /\ intents = [id \in Ids |-> NoIntent]
    /\ intentStatus = [id \in Ids |-> "NONE"]
    /\ solverClaims = [id \in Ids |-> NoClaim]
    /\ escrowedETH = [id \in Ids |-> 0]
    /\ slashedBonds = 0 /\ balance = 0
    /\ settling = <<>>
    /\ claims = [id \in Ids |-> 0]
    /\ outcome = [id \in Ids |-> NoOutcome]
    /\ paidAgain = 0

IntentsNext ==
    \/ \E id \in Ids, who \in Initiators, ethIn, ethOut \in BOOLEAN, amount \in Offered,
          min \in Wanted, deadline \in Deadlines, value \in Values :
           CreateIntent(id, who, ethIn, amount, ethOut, min, deadline, value)
    \/ \E id \in Ids : CancelIntent(id)
    \/ \E id \in Ids, who \in Solvers, value \in Values : ClaimIntent(id, who, value)
    \/ \E id \in Ids, value \in Values, transferred \in {0} \cup Wanted :
           SettleDeliver(id, value, transferred)
    \/ SettleFinish
    \/ \E id \in Ids : SlashSolver(id) \/ ReclaimExpired(id)
    \/ NextBlock

IntentsSpec == IntentsInit /\ [][IntentsNext]_intentsVars

-----------------------------------------------------------------------------
(* Properties                                                               *)

Statuses == {"NONE", "OPEN", "FILLED", "SETTLED", "EXPIRED", "CANCELLED"}

IntentsTypeOK ==
    /\ timestamp \in Nat
    /\ intents \in [Ids -> [initiator : Initiators \cup {NoOne}, ethIn : BOOLEAN,
                            inputAmount : Nat, ethOut : BOOLEAN,
                            minOutputAmount : Nat, deadline : Nat]]
    /\ intentStatus \in [Ids -> Statuses]
    /\ solverClaims \in [Ids -> [solver : Solvers \cup {NoOne}, bondAmount : Nat,
                                 claimedAt : Nat]]
    /\ escrowedETH \in [Ids -> Nat]
    /\ slashedBonds \in Nat /\ balance \in Nat
    /\ settling \in Seq(Ids)
    /\ claims \in [Ids -> Nat]
    /\ paidAgain \in Nat
    /\ outcome \in [Ids -> [to : Initiators \cup Solvers \cup {NoOne}, paid : Nat, delivered : Nat]]

\* Whatever recipients call while they are paid, the escrow of an intent leaves
\* the module once, whole, and not before the intent is over.
EscrowPaidOnce ==
    \A id \in Ids :
        /\ intents[id].ethIn => escrowedETH[id] + outcome[id].paid = intents[id].inputAmount
        /\ escrowedETH[id] > 0 \/ Live(id) => outcome[id].paid = 0

\* Whatever recipients call while they are paid, the escrow of a settled intent
\* went to the solver whose claim stands, and if recipients had that claim
\* slashed, to nobody or back to the initiator; recipients of an ETH output have
\* it, less what rounding takes from each.  A cancelled or expired intent has
\* paid its initiator, and nobody settled it.
SettledAsAgreed ==
    \A id \in Ids :
        /\ intentStatus[id] = "SETTLED" =>
             /\ outcome[id].paid > 0 =>
                  \/ outcome[id].to = solverClaims[id].solver
                  \/ solverClaims[id] = NoClaim /\ outcome[id].to = intents[id].initiator
             /\ intents[id].ethOut =>
                  outcome[id].delivered + Len(Shares) > intents[id].minOutputAmount
        /\ intentStatus[id] \in {"CANCELLED", "EXPIRED"} =>
             /\ outcome[id].paid > 0 => outcome[id].to = intents[id].initiator
             /\ id \notin ToSet(settling) => outcome[id].delivered = 0

Bond(id) == IF intentStatus[id] = "FILLED" THEN solverClaims[id].bondAmount ELSE 0

\* The module holds every escrow, every bond of a claim that stands and all the
\* bonds it has slashed, but for bonds it paid a second time: a settlement within
\* the settlement of the same intent is the only way it comes to hold less.
Backed ==
    LET Owed(id) == escrowedETH[id] + Bond(id)
    IN  balance + paidAgain >= MapThenSumSet(Owed, Ids) + slashedBonds

\* "Fulfillment verified on-chain before funds released" (IntentModule.sol:24):
\* an intent is settled only if what it asked for was delivered.  Not so: for a
\* token output settleIntent looks at nothing.
FulfillmentVerified ==
    \A id \in Ids : intentStatus[id] = "SETTLED" =>
        outcome[id].delivered + Len(Shares) > intents[id].minOutputAmount

\* "If solver fails to fill within MAX_SOLVER_FILL_TIME, bond is slashed"
\* (IntentModule.sol:220): a claim is settled only within the fill time.  Not so:
\* until somebody slashes the claim, its solver settles it and is paid.
LateBondIsSlashed ==
    [][\A id \in Ids : intentStatus[id] = "FILLED" /\ intentStatus'[id] = "SETTLED"
                        => timestamp < solverClaims[id].claimedAt + FillTime]_intentsVars

\* "Timeout: if unfulfilled, user's funds auto-return" (IntentModule.sol:25): the
\* module holds what it would have to return.  Not so: settleIntent called by a
\* recipient of the same intent pays the bond twice, out of any other escrow.
EscrowsAreBacked ==
    LET Escrowed(id) == escrowedETH[id] IN balance >= MapThenSumSet(Escrowed, Ids)
=============================================================================
