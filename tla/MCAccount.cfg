SPECIFICATION Spec
CONSTANTS
    h1 = h1
    h2 = h2
    v1 = v1
    v2 = v2
    o1 = o1
    o2 = o2
    k1 = k1
    SessionKeys = SessionKeys
    Duress = Duress
    NoVault = NoVault
    Nobody = Nobody
    Owners = {o1, o2}
    Hooks = {h1, h2}
    Keys = {k1}
    Vaults = {v1, v2}
    Limits <- MCLimits
    Windows <- MCWindows
    Amounts = {1, 2}
    MaxNow = 3
    MaxBundle = 2
    MaxCalls = 4
SYMMETRY AccountSymmetry
INVARIANTS TypeOK SpentWithinPeriod
PROPERTIES  SessionsEndWithModule
CHECK_DEADLOCK FALSE
