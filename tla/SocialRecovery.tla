--------------------------- MODULE SocialRecovery ---------------------------
(***************************************************************************)
(* The guardians of one account (src/modules/SocialRecoveryModule.sol):    *)
(* a guardian initiates a recovery, others confirm it, and after the       *)
(* timelock anyone may execute it, unless the account cancels it before.   *)
(* The account may set up other guardians, or uninstall the module, at any *)
(* time, during a recovery too.  A transaction is one step.                *)
(*                                                                         *)
(* What executeRecovery returns is calldata for the account; who has the   *)
(* account run it is not the module's business and not modelled here.      *)
(***************************************************************************)
EXTENDS Integers, Sequences, FiniteSets, SequencesExt

CONSTANTS Guardians,     \* addresses that may be set up as guardians
          GuardianLists, \* the lists of guardians the account sets up
          NewOwners,     \* addresses proposed as new owner
          NoOwner,       \* address(0)
          Timelock,      \* RECOVERY_TIMELOCK
          MaxBlockTime,  \* bound on block.timestamp
          MaxRecoveries  \* bound on the recoveries initiated

ASSUME RecoveryAssumption ==
    /\ GuardianLists \subseteq Seq(Guardians)
    /\ NoOwner \notin NewOwners
    /\ Timelock \in Nat /\ MaxBlockTime \in Nat /\ MaxRecoveries \in Nat

VARIABLES
    blockTime,     \* block.timestamp
    \* RecoveryConfig
    guardians,     \* the list; an address may be in it twice
    isGuardian,    \* the addresses mapped to true
    threshold,
    \* RecoveryRequest
    active,
    newOwner,
    confirmations,
    initiatedAt,
    confirmed,     \* the addresses mapped to true
    \* history, read by the properties only
    started,       \* how many recoveries were initiated
    votes,         \* of the last one: when each guardian initiated or confirmed it
    disturbed,     \* guardians were set up or the module uninstalled during a recovery
    executed       \* the recoveries executed, in order

configVars  == <<guardians, isGuardian, threshold>>
requestVars == <<active, newOwner, confirmations, initiatedAt, confirmed>>
historyVars == <<started, votes, disturbed, executed>>
recoveryVars == <<blockTime, configVars, requestVars, historyVars>>

NoVote == -1

Voting(v) == {g \in Guardians : v[g] # NoVote}
Voters    == Voting(votes)

-----------------------------------------------------------------------------
(* Called by the account                                                    *)

\* Mutant: the old guardians keep their rights.
SetupGuardiansKept(gs, t) ==
    /\ t # 0 /\ t <= Len(gs)
    /\ guardians' = gs
    /\ isGuardian' = isGuardian \cup ToSet(gs)
    /\ threshold' = t
    /\ disturbed' = (disturbed \/ active)
    /\ UNCHANGED <<blockTime, requestVars, started, votes, executed>>

\* setupGuardians, and onInstall with data: a recovery under way stays as it is
SetupGuardians(gs, t) ==
    /\ t # 0 /\ t <= Len(gs)
    /\ guardians' = gs
    /\ isGuardian' = (isGuardian \ ToSet(guardians)) \cup ToSet(gs)
    /\ threshold' = t
    /\ disturbed' = (disturbed \/ active)
    /\ UNCHANGED <<blockTime, requestVars, started, votes, executed>>

\* the flags of those who confirmed stay set
UninstallGuardians ==
    /\ guardians' = <<>>
    /\ isGuardian' = isGuardian \ ToSet(guardians)
    /\ threshold' = 0
    /\ active' = FALSE
    /\ disturbed' = (disturbed \/ active)
    /\ UNCHANGED <<blockTime, newOwner, confirmations, initiatedAt, confirmed, started, votes, executed>>

\* Mutant: the flags stay set.
ClearRecoveryKept ==
    /\ active' = FALSE
    /\ newOwner' = NoOwner
    /\ confirmations' = 0
    /\ initiatedAt' = 0
    /\ UNCHANGED confirmed

\* Mutant: the recovery stays active.
ClearRecoveryOpen ==
    /\ confirmed' = confirmed \ ToSet(guardians)
    /\ UNCHANGED <<active, newOwner, confirmations, initiatedAt>>

\* only the flags of the present guardians are cleared
ClearRecovery ==
    /\ active' = FALSE
    /\ newOwner' = NoOwner
    /\ confirmations' = 0
    /\ initiatedAt' = 0
    /\ confirmed' = confirmed \ ToSet(guardians)

CancelRecovery ==
    /\ active
    /\ ClearRecovery
    /\ UNCHANGED <<blockTime, configVars, historyVars>>

-----------------------------------------------------------------------------
(* Called by guardians, and by anyone                                       *)

InitiateRecovery(g, o) ==
    /\ g \in isGuardian
    /\ ~active
    /\ started < MaxRecoveries
    /\ active' = TRUE
    /\ newOwner' = o
    /\ confirmations' = 1
    /\ initiatedAt' = blockTime
    /\ confirmed' = confirmed \cup {g}
    /\ started' = started + 1
    /\ votes' = [h \in Guardians |-> IF h = g THEN blockTime ELSE NoVote]
    /\ UNCHANGED <<blockTime, configVars, disturbed, executed>>

\* Mutant: who has confirmed is not asked again.
ConfirmRecoveryAgain(g) ==
    /\ g \in isGuardian
    /\ active
    /\ confirmations < MaxRecoveries + 1
    /\ confirmed' = confirmed \cup {g}
    /\ confirmations' = confirmations + 1
    /\ votes' = [votes EXCEPT ![g] = blockTime]
    /\ UNCHANGED <<blockTime, configVars, active, newOwner, initiatedAt, started, disturbed, executed>>

ConfirmRecovery(g) ==
    /\ g \in isGuardian
    /\ active
    /\ g \notin confirmed
    /\ confirmed' = confirmed \cup {g}
    /\ confirmations' = confirmations + 1
    /\ votes' = [votes EXCEPT ![g] = blockTime]
    /\ UNCHANGED <<blockTime, configVars, active, newOwner, initiatedAt, started, disturbed, executed>>

\* Mutant: the timelock is not waited for.
ReadyEarly == confirmations >= threshold

Ready ==
    /\ confirmations >= threshold
    /\ blockTime >= initiatedAt + Timelock

ExecuteRecovery ==
    /\ active
    /\ Ready
    /\ executed' = Append(executed, [no |-> started, owner |-> newOwner, at |-> blockTime,
                                     threshold |-> threshold, votes |-> votes])
    /\ ClearRecovery
    /\ UNCHANGED <<blockTime, configVars, started, votes, disturbed>>

TimePasses ==
    /\ blockTime < MaxBlockTime
    /\ blockTime' = blockTime + 1
    /\ UNCHANGED <<configVars, requestVars, historyVars>>

RecoveryInit ==
    /\ blockTime = 0
    /\ guardians = <<>> /\ isGuardian = {} /\ threshold = 0
    /\ active = FALSE /\ newOwner = NoOwner /\ confirmations = 0
    /\ initiatedAt = 0 /\ confirmed = {}
    /\ started = 0 /\ votes = [h \in Guardians |-> NoVote] /\ disturbed = FALSE /\ executed = <<>>

RecoveryNext ==
    \/ \E gs \in GuardianLists : \E t \in 0..(Len(gs) + 1) : SetupGuardians(gs, t)
    \/ UninstallGuardians
    \/ CancelRecovery
    \/ \E g \in Guardians, o \in NewOwners : InitiateRecovery(g, o)
    \/ \E g \in Guardians : ConfirmRecovery(g)
    \/ ExecuteRecovery
    \/ TimePasses

RecoverySpec == RecoveryInit /\ [][RecoveryNext]_recoveryVars

-----------------------------------------------------------------------------
(* Properties                                                               *)

Ballots   == [Guardians -> Nat \cup {NoVote}]
Execution == [no : Nat, owner : NewOwners, at : Nat, threshold : Nat \ {0}, votes : Ballots]

\* The guardians are those on the list and the threshold can be reached by its
\* length; a recovery is executed with a positive threshold and a new owner,
\* even if the module was uninstalled and set up again while it was active.
RecoveryTypeOK ==
    /\ blockTime \in Nat
    /\ guardians \in Seq(Guardians) /\ threshold \in 0..Len(guardians)
    /\ isGuardian = ToSet(guardians)
    /\ active \in BOOLEAN
    /\ newOwner \in NewOwners \cup {NoOwner}
    /\ confirmations \in Nat /\ initiatedAt \in Nat
    /\ confirmed \in SUBSET Guardians
    /\ started \in Nat
    /\ votes \in Ballots
    /\ disturbed \in BOOLEAN
    /\ executed \in Seq(Execution)

\* The confirmations counted are those of different addresses, for this very
\* recovery: no flag left behind by another one, no guardian set up again and
\* no reinstallation makes one count that was not given.
VotesAreCounted ==
    active => confirmations = Cardinality(Voters) /\ Voters \subseteq confirmed

\* INV-5 as the code has it: a recovery is executed only with as many
\* confirmations as the threshold asks for at that moment, and a timelock after
\* the first of them; the others may come as late as they like.
RecoveryIsTimelocked ==
    \A i \in 1..Len(executed) :
        LET e == executed[i]
        IN  /\ Cardinality(Voting(e.votes)) >= e.threshold
            /\ \E g \in Voting(e.votes) : e.votes[g] + Timelock <= e.at

\* INV-5 as the constant is documented: a timelock passes between the moment the
\* threshold was reached and the execution.  It does not hold: readyAt counts
\* from the initiation.
TimelockFromThreshold ==
    \A i \in 1..Len(executed) :
        LET e == executed[i]
        IN  Cardinality({g \in Voting(e.votes) : e.votes[g] + Timelock <= e.at}) >= e.threshold

\* A recovery is executed once at most: the next execution takes a new one.
ExecutedOnce ==
    \A i, j \in 1..Len(executed) : executed[i].no = executed[j].no => i = j

\* As long as nobody touches the guardians during a recovery, whoever is marked
\* as having confirmed has: each guardian can confirm the next recovery.
FlagsAreVotes ==
    ~disturbed => confirmed = (IF active THEN Voters ELSE {})
=============================================================================
