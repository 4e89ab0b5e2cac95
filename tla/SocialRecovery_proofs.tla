----------------------- MODULE SocialRecovery_proofs -------------------------
(***************************************************************************)
(* The recovery of SocialRecovery.tla for every set of guardians, every    *)
(* list of them, every timelock and every bound.                           *)
(***************************************************************************)
EXTENDS SocialRecovery, FiniteSetTheorems, TLAPS

-----------------------------------------------------------------------------
(* The inductive invariant                                                  *)

\* While a recovery is active, its threshold is positive and its confirmations
\* are those of its voters, one of whom gave his at the very start.
RequestInv ==
    active => /\ threshold > 0
              /\ newOwner \in NewOwners
              /\ IsFiniteSet(Voters)
              /\ confirmations = Cardinality(Voters)
              /\ Voters \subseteq confirmed
              /\ \E g \in Voters : votes[g] = initiatedAt

\* With guardians there is a threshold to reach.
ConfigInv == guardians # <<>> => threshold > 0

\* What was executed is not the recovery now active.
HistoryInv ==
    \A i \in 1..Len(executed) :
        /\ executed[i].no <= started
        /\ active => executed[i].no < started

\* Voters of an undisturbed recovery are still guardians, so that clearing the
\* flags of the guardians clears theirs.
VoterInv == ~disturbed /\ active => Voters \subseteq ToSet(guardians)

RecoveryInv == RecoveryTypeOK /\ ConfigInv /\ RequestInv

-----------------------------------------------------------------------------
(* Lists of guardians                                                       *)

\* The guardians of a list are addresses, and a list not empty has some.
LEMMA ListGuardians ==
    ASSUME NEW gs \in Seq(Guardians)
    PROVE  /\ ToSet(gs) \in SUBSET Guardians
           /\ Len(gs) \in Nat
           /\ Len(gs) > 0 <=> gs # <<>>
           /\ ToSet(gs) # {} => gs # <<>>
BY DEF ToSet

-----------------------------------------------------------------------------
(* Type correctness                                                         *)

\* The module starts without guardians and without a recovery.
LEMMA TypeInit == RecoveryInit => RecoveryTypeOK
<1>. SUFFICES ASSUME RecoveryInit PROVE RecoveryTypeOK
  OBVIOUS
<1>1. ToSet(<<>>) = {}
  BY DEF ToSet
<1>2. guardians \in Seq(Guardians) /\ threshold \in 0..Len(guardians)
  BY DEF RecoveryInit
<1>3. votes \in Ballots
  BY DEF RecoveryInit, Ballots
<1>4. executed \in Seq(Execution)
  BY DEF RecoveryInit
<1>5. active \in BOOLEAN /\ disturbed \in BOOLEAN
  BY DEF RecoveryInit
<1>6. /\ blockTime \in Nat /\ confirmations \in Nat /\ initiatedAt \in Nat /\ started \in Nat
      /\ newOwner \in NewOwners \cup {NoOwner} /\ confirmed \in SUBSET Guardians
  BY DEF RecoveryInit
<1>7. isGuardian = ToSet(guardians)
  BY <1>1 DEF RecoveryInit
<1>. QED
  BY <1>2, <1>3, <1>4, <1>5, <1>6, <1>7 DEF RecoveryTypeOK

\* Setting up guardians leaves those of the new list, and no other.
LEMMA SetupType ==
    ASSUME RecoveryTypeOK, NEW gs \in GuardianLists, NEW t \in 0..(Len(gs) + 1), SetupGuardians(gs, t)
    PROVE  RecoveryTypeOK'
<1>1. gs \in Seq(Guardians)
  BY RecoveryAssumption
<1>2. threshold' \in 0..Len(guardians')
  BY <1>1 DEF SetupGuardians
<1>3. isGuardian' = ToSet(guardians')
  BY DEF SetupGuardians, RecoveryTypeOK
<1>. QED
  BY <1>1, <1>2, <1>3 DEF SetupGuardians, RecoveryTypeOK, requestVars

\* Uninstalling leaves no guardian.
LEMMA UninstallType ==
    ASSUME RecoveryTypeOK, UninstallGuardians
    PROVE  RecoveryTypeOK'
<1>1. isGuardian' = ToSet(guardians')
  BY DEF UninstallGuardians, RecoveryTypeOK, ToSet
<1>2. guardians' \in Seq(Guardians) /\ threshold' \in 0..Len(guardians')
  BY DEF UninstallGuardians
<1>. QED
  BY <1>1, <1>2 DEF UninstallGuardians, RecoveryTypeOK

\* Clearing a recovery leaves its fields well typed.
LEMMA ClearType ==
    ASSUME RecoveryTypeOK, ClearRecovery
    PROVE  /\ active' \in BOOLEAN
           /\ newOwner' \in NewOwners \cup {NoOwner}
           /\ confirmations' \in Nat /\ initiatedAt' \in Nat
           /\ confirmed' \in SUBSET Guardians
BY DEF RecoveryTypeOK, ClearRecovery

\* What an execution notes is a recovery met by a positive threshold.
LEMMA ExecuteType ==
    ASSUME RecoveryInv, ExecuteRecovery
    PROVE  RecoveryTypeOK'
<1>. DEFINE e == [no |-> started, owner |-> newOwner, at |-> blockTime,
                  threshold |-> threshold, votes |-> votes]
<1>1. threshold \in Nat \ {0}
  BY ListGuardians DEF RecoveryInv, RecoveryTypeOK, RequestInv, ExecuteRecovery
<1>2. e \in Execution
  BY <1>1 DEF RecoveryInv, RecoveryTypeOK, RequestInv, ExecuteRecovery, Execution
<1>3. executed' \in Seq(Execution)
  <2>. HIDE DEF e
  <2>1. executed \in Seq(Execution)
    BY DEF RecoveryInv, RecoveryTypeOK
  <2>2. executed' = Append(executed, e)
    BY DEF ExecuteRecovery, e
  <2>. QED
    BY <1>2, <2>1, <2>2
<1>4. RecoveryTypeOK
  BY DEF RecoveryInv
<1>5. ClearRecovery
  BY DEF ExecuteRecovery
<1>. QED
  BY <1>3, <1>4, <1>5, ClearType DEF ExecuteRecovery, RecoveryTypeOK, configVars

\* Every step keeps the types, given that a recovery has a threshold and an owner.
LEMMA TypeStep == RecoveryInv /\ [RecoveryNext]_recoveryVars => RecoveryTypeOK'
<1>. SUFFICES ASSUME RecoveryInv, [RecoveryNext]_recoveryVars
              PROVE  RecoveryTypeOK'
  OBVIOUS
<1>. USE DEF RecoveryInv
<1>1. ASSUME NEW gs \in GuardianLists, NEW t \in 0..(Len(gs) + 1), SetupGuardians(gs, t)
      PROVE  RecoveryTypeOK'
  BY <1>1, SetupType
<1>2. CASE UninstallGuardians
  BY <1>2, UninstallType
<1>3. CASE CancelRecovery
  BY <1>3, ClearType DEF CancelRecovery, RecoveryTypeOK, configVars, historyVars
<1>4. ASSUME NEW g \in Guardians, NEW o \in NewOwners, InitiateRecovery(g, o)
      PROVE  RecoveryTypeOK'
  <2>1. votes' \in Ballots
    BY <1>4 DEF InitiateRecovery, RecoveryTypeOK, Ballots
  <2>. QED
    BY <1>4, <2>1 DEF InitiateRecovery, RecoveryTypeOK, configVars
<1>5. ASSUME NEW g \in Guardians, ConfirmRecovery(g)
      PROVE  RecoveryTypeOK'
  <2>1. votes' \in Ballots
    BY <1>5 DEF ConfirmRecovery, RecoveryTypeOK, Ballots
  <2>. QED
    BY <1>5, <2>1 DEF ConfirmRecovery, RecoveryTypeOK, configVars
<1>6. CASE ExecuteRecovery
  BY <1>6, ExecuteType
<1>7. CASE TimePasses
  BY <1>7 DEF TimePasses, RecoveryTypeOK, configVars, requestVars, historyVars
<1>8. CASE UNCHANGED recoveryVars
  BY <1>8 DEF recoveryVars, RecoveryTypeOK, configVars, requestVars, historyVars
<1>. QED
  BY <1>1, <1>2, <1>3, <1>4, <1>5, <1>6, <1>7, <1>8 DEF RecoveryNext

-----------------------------------------------------------------------------
(* The invariant of a recovery                                              *)

\* At first there are neither guardians nor a recovery.
LEMMA RecoveryStart == RecoveryInit => RecoveryInv
<1>1. RecoveryInit => ConfigInv /\ RequestInv
  BY DEF RecoveryInit, ConfigInv, RequestInv
<1>. QED
  BY <1>1, TypeInit DEF RecoveryInv

\* The guardians change together with a threshold they can reach.
LEMMA ConfigStep == RecoveryInv /\ [RecoveryNext]_recoveryVars => ConfigInv'
<1>. SUFFICES ASSUME RecoveryInv, [RecoveryNext]_recoveryVars
              PROVE  ConfigInv'
  OBVIOUS
<1>1. ASSUME NEW gs \in GuardianLists, NEW t \in 0..(Len(gs) + 1), SetupGuardians(gs, t)
      PROVE  ConfigInv'
  <2>1. gs \in Seq(Guardians)
    BY RecoveryAssumption
  <2>2. t > 0
    BY <1>1, <2>1 DEF SetupGuardians
  <2>. QED
    BY <1>1, <2>2 DEF SetupGuardians, ConfigInv
<1>2. CASE UninstallGuardians
  BY <1>2 DEF UninstallGuardians, ConfigInv
<1>3. CASE UNCHANGED configVars
  BY <1>3 DEF RecoveryInv, configVars, ConfigInv
<1>. QED
  BY <1>1, <1>2, <1>3 DEF RecoveryNext, CancelRecovery, InitiateRecovery, ConfirmRecovery,
                           ExecuteRecovery, TimePasses, recoveryVars

\* A recovery starts with the vote of who initiates it.
LEMMA InitiateRequest ==
    ASSUME RecoveryInv, NEW g \in Guardians, NEW o \in NewOwners, InitiateRecovery(g, o)
    PROVE  RequestInv'
<1>1. blockTime # NoVote
  BY DEF RecoveryInv, RecoveryTypeOK, NoVote
<1>2. Voters' = {g}
  BY <1>1 DEF InitiateRecovery, Voters, Voting
<1>3. IsFiniteSet(Voters') /\ Cardinality(Voters') = 1
  BY <1>2, FS_Singleton
<1>4. votes'[g] = initiatedAt'
  BY DEF InitiateRecovery
<1>5. threshold' > 0
  <2>1. guardians # <<>>
    BY ListGuardians DEF InitiateRecovery, RecoveryInv, RecoveryTypeOK
  <2>. QED
    BY <2>1 DEF InitiateRecovery, RecoveryInv, ConfigInv, configVars
<1>. QED
  BY <1>2, <1>3, <1>4, <1>5 DEF InitiateRecovery, RequestInv

\* A confirmation adds one voter: who is not marked as confirmed has not voted.
LEMMA ConfirmRequest ==
    ASSUME RecoveryInv, NEW g \in Guardians, ConfirmRecovery(g)
    PROVE  RequestInv'
<1>. USE DEF RecoveryInv
<1>1. RequestInv /\ active
  BY DEF ConfirmRecovery
<1>2. g \notin Voters
  BY <1>1 DEF ConfirmRecovery, RequestInv
<1>3. Voters' = Voters \cup {g}
  BY DEF ConfirmRecovery, Voters, Voting, RecoveryTypeOK, Ballots, NoVote
<1>4. IsFiniteSet(Voters') /\ Cardinality(Voters') = Cardinality(Voters) + 1
  BY <1>1, <1>2, <1>3, FS_AddElement DEF RequestInv
<1>5. \E h \in Voters' : votes'[h] = initiatedAt'
  <2>1. PICK h \in Voters : votes[h] = initiatedAt
    BY <1>1 DEF RequestInv
  <2>2. h \in Guardians /\ h # g
    BY <1>2 DEF Voters, Voting
  <2>3. votes'[h] = votes[h]
    BY <2>2 DEF ConfirmRecovery, RecoveryTypeOK, Ballots
  <2>. QED
    BY <1>3, <2>1, <2>3 DEF ConfirmRecovery
<1>6. /\ threshold' = threshold /\ newOwner' = newOwner
      /\ confirmations' = confirmations + 1 /\ confirmed' = confirmed \cup {g}
  BY DEF ConfirmRecovery, configVars
<1>. QED
  BY <1>1, <1>3, <1>4, <1>5, <1>6 DEF RequestInv

\* Nothing else touches the votes of an active recovery.
LEMMA RequestStep == RecoveryInv /\ [RecoveryNext]_recoveryVars => RequestInv'
<1>. SUFFICES ASSUME RecoveryInv, [RecoveryNext]_recoveryVars
              PROVE  RequestInv'
  OBVIOUS
<1>1. ASSUME NEW gs \in GuardianLists, NEW t \in 0..(Len(gs) + 1), SetupGuardians(gs, t)
      PROVE  RequestInv'
  <2>1. gs \in Seq(Guardians)
    BY RecoveryAssumption
  <2>2. threshold' > 0
    BY <1>1, <2>1 DEF SetupGuardians
  <2>3. UNCHANGED <<requestVars, votes>>
    BY <1>1 DEF SetupGuardians
  <2>. QED
    BY <2>2, <2>3 DEF RecoveryInv, RequestInv, requestVars, Voters, Voting
<1>2. CASE UninstallGuardians
  BY <1>2 DEF UninstallGuardians, RequestInv
<1>3. CASE CancelRecovery \/ ExecuteRecovery
  BY <1>3 DEF CancelRecovery, ExecuteRecovery, ClearRecovery, RequestInv
<1>4. ASSUME NEW g \in Guardians, NEW o \in NewOwners, InitiateRecovery(g, o)
      PROVE  RequestInv'
  BY <1>4, InitiateRequest
<1>5. ASSUME NEW g \in Guardians, ConfirmRecovery(g)
      PROVE  RequestInv'
  BY <1>5, ConfirmRequest
<1>6. CASE TimePasses \/ UNCHANGED recoveryVars
  <2>1. UNCHANGED <<threshold, requestVars, votes>>
    BY <1>6 DEF TimePasses, recoveryVars, configVars, historyVars
  <2>. QED
    BY <2>1 DEF RecoveryInv, RequestInv, requestVars, Voters, Voting
<1>. QED
  BY <1>1, <1>2, <1>3, <1>4, <1>5, <1>6 DEF RecoveryNext

\* The three parts hold together.
LEMMA RecoveryInvariant == RecoverySpec => []RecoveryInv
<1>1. RecoveryInv /\ [RecoveryNext]_recoveryVars => RecoveryInv'
  BY TypeStep, ConfigStep, RequestStep DEF RecoveryInv
<1>. QED
  BY <1>1, RecoveryStart, PTL DEF RecoverySpec

\* Types, and the guardians are those of the list.
THEOREM TypeCorrect == RecoverySpec => []RecoveryTypeOK
<1>1. RecoveryInv => RecoveryTypeOK
  BY DEF RecoveryInv
<1>. QED
  BY <1>1, RecoveryInvariant, PTL

\* However guardians are set up and the module reinstalled, the confirmations
\* counted are votes of different guardians for this very recovery.
THEOREM CountedVotes == RecoverySpec => []VotesAreCounted
<1>1. RecoveryInv => VotesAreCounted
  BY DEF RecoveryInv, RequestInv, VotesAreCounted
<1>. QED
  BY <1>1, RecoveryInvariant, PTL

-----------------------------------------------------------------------------
(* What was executed                                                        *)

\* An execution finds the votes the threshold asks for, the first of them a
\* timelock old.
LEMMA ExecutedInTime ==
    ASSUME RecoveryInv, RecoveryIsTimelocked, ExecuteRecovery
    PROVE  RecoveryIsTimelocked'
<1>. DEFINE e == [no |-> started, owner |-> newOwner, at |-> blockTime,
                  threshold |-> threshold, votes |-> votes]
            InTime(x) == /\ Cardinality(Voting(x.votes)) >= x.threshold
                         /\ \E g \in Voting(x.votes) : x.votes[g] + Timelock <= x.at
<1>1. active /\ Ready /\ RequestInv
  BY DEF RecoveryInv, ExecuteRecovery
<1>2. \E g \in Voters : votes[g] + Timelock <= blockTime
  <2>1. PICK g \in Voters : votes[g] = initiatedAt
    BY <1>1 DEF RequestInv
  <2>2. initiatedAt + Timelock <= blockTime
    BY <1>1, RecoveryAssumption DEF Ready, RecoveryInv, RecoveryTypeOK
  <2>. QED
    BY <2>1, <2>2
<1>3. Cardinality(Voters) >= threshold
  BY <1>1 DEF RequestInv, Ready
<1>4. InTime(e)
  BY <1>2, <1>3 DEF Voters
<1>5. executed \in Seq(Execution) /\ executed' = Append(executed, e)
  BY DEF RecoveryInv, RecoveryTypeOK, ExecuteRecovery
<1>6. \A i \in 1..Len(executed) : InTime(executed[i])
  BY DEF RecoveryIsTimelocked
<1>7. \A i \in 1..Len(executed') : InTime(executed'[i])
  <2>. HIDE DEF e, InTime
  <2>1. TAKE i \in 1..Len(executed')
  <2>2. Len(executed') = Len(executed) + 1
    BY <1>5
  <2>3. CASE i = Len(executed) + 1
    <3>1. executed'[i] = e
      BY <1>5, <2>3
    <3>. QED
      BY <3>1, <1>4
  <2>4. CASE i \in 1..Len(executed)
    <3>1. executed'[i] = executed[i]
      BY <1>5, <2>4
    <3>. QED
      BY <3>1, <2>4, <1>6
  <2>. QED
    BY <1>5, <2>2, <2>3, <2>4
<1>. QED
  BY <1>7 DEF RecoveryIsTimelocked

\* The other steps execute nothing.
LEMMA OnlyExecuteExecutes ==
    [RecoveryNext]_recoveryVars => ExecuteRecovery \/ UNCHANGED executed
BY DEF RecoveryNext, SetupGuardians, UninstallGuardians, CancelRecovery, InitiateRecovery,
       ConfirmRecovery, TimePasses, recoveryVars, historyVars

\* INV-5 for every list of guardians, threshold and timelock: what is executed
\* has the confirmations of that moment's threshold, a timelock after the first.
THEOREM Timelocked == RecoverySpec => []RecoveryIsTimelocked
<1>1. RecoveryInit => RecoveryIsTimelocked
  BY DEF RecoveryInit, RecoveryIsTimelocked
<1>2. RecoveryInv /\ RecoveryIsTimelocked /\ [RecoveryNext]_recoveryVars => RecoveryIsTimelocked'
  <2>. SUFFICES ASSUME RecoveryInv, RecoveryIsTimelocked, [RecoveryNext]_recoveryVars
                PROVE  RecoveryIsTimelocked'
    OBVIOUS
  <2>1. CASE ExecuteRecovery
    BY <2>1, ExecutedInTime
  <2>2. CASE UNCHANGED executed
    BY <2>2 DEF RecoveryIsTimelocked
  <2>. QED
    BY <2>1, <2>2, OnlyExecuteExecutes
<1>. QED
  BY <1>1, <1>2, RecoveryInvariant, PTL DEF RecoverySpec

\* Executions are of recoveries that were initiated, and never of the active one.
LEMMA HistoryStep == RecoveryInv /\ HistoryInv /\ ExecutedOnce /\ [RecoveryNext]_recoveryVars
                       => HistoryInv' /\ ExecutedOnce'
<1>. SUFFICES ASSUME RecoveryInv, HistoryInv, ExecutedOnce, [RecoveryNext]_recoveryVars
              PROVE  HistoryInv' /\ ExecutedOnce'
  OBVIOUS
<1>1. started \in Nat /\ executed \in Seq(Execution)
  BY DEF RecoveryInv, RecoveryTypeOK
<1>2. \A i \in 1..Len(executed) : executed[i].no \in Nat
  <2>1. TAKE i \in 1..Len(executed)
  <2>2. executed[i] \in Execution
    BY <1>1
  <2>. QED
    BY <2>2 DEF Execution
<1>3. CASE ExecuteRecovery
  <2>. DEFINE e == [no |-> started, owner |-> newOwner, at |-> blockTime,
                    threshold |-> threshold, votes |-> votes]
  <2>1. e.no = started
    OBVIOUS
  <2>2. executed' = Append(executed, e) /\ started' = started /\ ~active' /\ active
    BY <1>3 DEF ExecuteRecovery, ClearRecovery
  <2>. HIDE DEF e
  <2>3. Len(executed') = Len(executed) + 1
    BY <1>1, <2>2
  <2>4. executed'[Len(executed) + 1] = e
    BY <1>1, <2>2
  <2>5. \A i \in 1..Len(executed) : executed'[i] = executed[i]
    BY <1>1, <2>2
  <2>6. \A i \in 1..Len(executed) : executed[i].no < started
    BY <2>2 DEF HistoryInv
  <2>7. HistoryInv'
    BY <1>1, <1>2, <2>1, <2>2, <2>3, <2>4, <2>5, <2>6 DEF HistoryInv
  <2>8. ExecutedOnce'
    BY <1>1, <1>2, <2>1, <2>3, <2>4, <2>5, <2>6 DEF ExecutedOnce
  <2>. QED
    BY <2>7, <2>8
<1>4. CASE UNCHANGED executed /\ active' /\ ~active
  <2>1. started' = started + 1
    BY <1>4 DEF RecoveryNext, SetupGuardians, UninstallGuardians, CancelRecovery, ClearRecovery,
                InitiateRecovery, ConfirmRecovery, ExecuteRecovery, TimePasses,
                recoveryVars, requestVars
  <2>. QED
    BY <1>1, <1>2, <1>4, <2>1 DEF HistoryInv, ExecutedOnce
<1>5. CASE UNCHANGED executed /\ (active' => active)
  <2>1. started' = started
    BY <1>1, <1>5 DEF RecoveryNext, SetupGuardians, UninstallGuardians, CancelRecovery,
                InitiateRecovery, ConfirmRecovery, ExecuteRecovery, TimePasses,
                recoveryVars, historyVars
  <2>. QED
    BY <1>5, <2>1 DEF HistoryInv, ExecutedOnce
<1>. QED
  BY <1>3, <1>4, <1>5, OnlyExecuteExecutes

\* No recovery is executed twice, however often one is initiated anew.
THEOREM SingleExecution == RecoverySpec => []ExecutedOnce
<1>1. RecoveryInit => HistoryInv /\ ExecutedOnce
  BY DEF RecoveryInit, HistoryInv, ExecutedOnce
<1>. QED
  BY <1>1, HistoryStep, RecoveryInvariant, PTL DEF RecoverySpec

-----------------------------------------------------------------------------
(* The flags                                                                *)

\* Clearing a recovery whose guardians nobody touched clears every flag.
LEMMA ClearedFlags ==
    ASSUME RecoveryInv, FlagsAreVotes, VoterInv, active, ClearRecovery, UNCHANGED disturbed
    PROVE  FlagsAreVotes' /\ VoterInv'
<1>1. ~active'
  BY DEF ClearRecovery
<1>2. ASSUME ~disturbed PROVE confirmed' = {}
  BY <1>2 DEF FlagsAreVotes, VoterInv, ClearRecovery
<1>. QED
  BY <1>1, <1>2 DEF FlagsAreVotes, VoterInv

\* A recovery starts with the flag of who initiates it, and no other is left.
LEMMA InitiateFlags ==
    ASSUME RecoveryInv, FlagsAreVotes, VoterInv,
           NEW g \in Guardians, NEW o \in NewOwners, InitiateRecovery(g, o)
    PROVE  FlagsAreVotes' /\ VoterInv'
<1>1. blockTime # NoVote
  BY DEF RecoveryInv, RecoveryTypeOK, NoVote
<1>2. Voters' = {g}
  BY <1>1 DEF InitiateRecovery, Voters, Voting
<1>3. active' /\ ~active /\ disturbed' = disturbed /\ confirmed' = confirmed \cup {g}
  BY DEF InitiateRecovery
<1>4. ToSet(guardians') = ToSet(guardians) /\ g \in ToSet(guardians)
  BY DEF InitiateRecovery, RecoveryInv, RecoveryTypeOK, configVars
<1>5. ~disturbed => confirmed' = {g}
  BY <1>3 DEF FlagsAreVotes
<1>. QED
  BY <1>2, <1>3, <1>4, <1>5 DEF FlagsAreVotes, VoterInv

\* A confirmation sets the flag of the guardian whose vote it is.
LEMMA ConfirmFlags ==
    ASSUME RecoveryInv, FlagsAreVotes, VoterInv, NEW g \in Guardians, ConfirmRecovery(g)
    PROVE  FlagsAreVotes' /\ VoterInv'
<1>1. Voters' = Voters \cup {g}
  BY DEF RecoveryInv, ConfirmRecovery, Voters, Voting, RecoveryTypeOK, Ballots, NoVote
<1>2. active /\ active' /\ disturbed' = disturbed /\ confirmed' = confirmed \cup {g}
  BY DEF ConfirmRecovery
<1>3. ToSet(guardians') = ToSet(guardians) /\ g \in ToSet(guardians)
  BY DEF ConfirmRecovery, RecoveryInv, RecoveryTypeOK, configVars
<1>4. ~disturbed => confirmed = Voters /\ Voters \subseteq ToSet(guardians)
  BY <1>2 DEF FlagsAreVotes, VoterInv
<1>. QED
  BY <1>1, <1>2, <1>3, <1>4 DEF FlagsAreVotes, VoterInv

\* No other step sets or clears a flag.
LEMMA FlagsStep == RecoveryInv /\ FlagsAreVotes /\ VoterInv /\ [RecoveryNext]_recoveryVars
                     => FlagsAreVotes' /\ VoterInv'
<1>. SUFFICES ASSUME RecoveryInv, FlagsAreVotes, VoterInv, [RecoveryNext]_recoveryVars
              PROVE  FlagsAreVotes' /\ VoterInv'
  OBVIOUS
<1>1. ASSUME NEW gs \in GuardianLists, NEW t \in 0..(Len(gs) + 1), SetupGuardians(gs, t)
      PROVE  FlagsAreVotes' /\ VoterInv'
  <2>1. disturbed' = (disturbed \/ active) /\ active' = active /\ confirmed' = confirmed
    BY <1>1 DEF SetupGuardians, requestVars
  <2>. QED
    BY <2>1 DEF FlagsAreVotes, VoterInv
<1>2. CASE UninstallGuardians
  BY <1>2 DEF UninstallGuardians, FlagsAreVotes, VoterInv
<1>3. CASE CancelRecovery \/ ExecuteRecovery
  BY <1>3, ClearedFlags DEF CancelRecovery, ExecuteRecovery, historyVars
<1>4. ASSUME NEW g \in Guardians, NEW o \in NewOwners, InitiateRecovery(g, o)
      PROVE  FlagsAreVotes' /\ VoterInv'
  BY <1>4, InitiateFlags
<1>5. ASSUME NEW g \in Guardians, ConfirmRecovery(g)
      PROVE  FlagsAreVotes' /\ VoterInv'
  BY <1>5, ConfirmFlags
<1>6. CASE TimePasses \/ UNCHANGED recoveryVars
  <2>1. UNCHANGED <<configVars, requestVars, historyVars>>
    BY <1>6 DEF TimePasses, recoveryVars
  <2>. QED
    BY <2>1 DEF configVars, requestVars, historyVars, FlagsAreVotes, VoterInv, Voters, Voting
<1>. QED
  BY <1>1, <1>2, <1>3, <1>4, <1>5, <1>6 DEF RecoveryNext

\* Without changes of the guardians during a recovery, a guardian is marked as
\* having confirmed exactly while a vote of his is counted.
THEOREM FlagsDenoteVotes == RecoverySpec => []FlagsAreVotes
<1>1. RecoveryInit => FlagsAreVotes /\ VoterInv
  BY DEF RecoveryInit, FlagsAreVotes, VoterInv
<1>. QED
  BY <1>1, FlagsStep, RecoveryInvariant, PTL DEF RecoverySpec

=============================================================================
