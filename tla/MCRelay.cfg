SPECIFICATION RelaySpec
CONSTANTS
    t1 = t1
    t2 = t2
    Tabs = {t1, t2}
    Origins = {"chrome-extension://omega"}
    MaxRequests = 2
    MaxClicks = 2
    MaxBreaks = 1
SYMMETRY Symmetry
INVARIANTS AnswersMatch EachGrantTakesAYes
CHECK_DEADLOCK FALSE
