SPECIFICATION FormSpec
CONSTANTS
    Wallets = {a, b}
    Targets = {t}
    Blank = none
    MaxClicks = 1
    MaxConfirms = 1
    MaxMounts = 1
INVARIANT ShownIsSigned
