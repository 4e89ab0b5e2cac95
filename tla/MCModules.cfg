SPECIFICATION ModulesSpec
CONSTANTS
    g1 = g1
    g2 = g2
    g3 = g3
    new = new
    NoOwner = NoOwner
    Guardians = {g1, g2, g3}
    GuardianLists <- MCLists
    NewOwners = {new}
    Timelock = 2
    MaxBlockTime = 4
    MaxRecoveries = 2
    a = a
    b = b
    c = c
    i1 = i1
    i2 = i2
    NoOne = NoOne
    Ids = {i1, i2}
    Initiators = {a}
    Solvers = {b, c}
    Offered = {4}
    Wanted = {2}
    Values = {1, 2, 4}
    Shares <- MCShares
    BpsDenominator = 3
    SolverBondBps = 2
    FillTime = 1
    Deadlines = {2}
    MaxTimestamp = 2
    MaxClaims = 2
    MaxNesting = 2
SYMMETRY IntentsSymmetry
INVARIANTS
    RecoveryTypeOK VotesAreCounted RecoveryIsTimelocked ExecutedOnce
    IntentsTypeOK EscrowPaidOnce SettledAsAgreed Backed
CHECK_DEADLOCK FALSE
