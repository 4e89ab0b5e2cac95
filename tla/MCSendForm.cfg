SPECIFICATION FormSpec
CONSTANTS
    Wallets = {a, b}
    Targets = {t}
    Blank = none
    MaxClicks = 2
    MaxConfirms = 2
    MaxMounts = 2
SYMMETRY Senders
INVARIANTS  OneSendPerClick
