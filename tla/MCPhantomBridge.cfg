SPECIFICATION Spec
CONSTANTS
    p = p
    q = q
    Origins = {p, q}
    MaxRequests = 2
    MaxClicks = 2
INVARIANT ApprovedByUser
CHECK_DEADLOCK FALSE
