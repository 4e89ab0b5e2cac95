SPECIFICATION Spec
CONSTANTS
    NoFile = NoFile
    Torn = Torn
    NoData = NoData
    Unsure = Unsure
    p1 = p1
    p2 = p2
    a = a
    b = b
    c = c
    d = d
    i = i
    Passwords = {p1, p2}
    Wallets = {a, b, c, d}
    MaxWallets = 3
    Unit = 2
    Amounts = {1, 2}
    Limits <- MCLimits
    DefaultLimit = 3
    Items = {i}
    Capacity <- MCCapacity
    MaxKept = 1
    MaxDay = 2
    MaxTxs = 2
    MaxFailures = 1
INVARIANTS TypeOK AckedIsOnDisk ActiveDenotesWallet SpentWithinCap
PROPERTY SenderIsKept
SYMMETRY MCSymmetry
