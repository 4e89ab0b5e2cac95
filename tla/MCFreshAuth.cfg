SPECIFICATION Spec
CONSTANTS
    FreshWindow = 1
    NonceExpiry = 2
    Thresholds <- MCThresholds
    LockoutMs <- MCLockout
    MaxNow = 4
    MaxTokens = 2
    MaxNonces = 2
    MaxFails = 4
INVARIANTS TypeOK GuessesArePaced GrantFollowsProof NonceIsSingleUse
PROPERTIES ImplementsGate
