SPECIFICATION Spec
CONSTANTS
    FreshWindow = 1
    MaxNow = 2
    MaxPassed = 2
    a = a
    b = b
    Wallets = {a, b}
    x = x
    d = d
    Calldata = {d}
    NoData = NoData
    Unit = 2
    Destinations = {x}
    Payments <- MCPayments
    Settings <- MCSettings
    DefaultSettings <- MCDefault
    PrepareExpiry = 1
    MaxPrepares = 1
    MaxSends = 1
SYMMETRY MCSymmetry
INVARIANT CalldataIsSent
