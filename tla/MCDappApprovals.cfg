SPECIFICATION Spec
CONSTANTS
    p = p
    q = q
    Origins = {p, q}
    MaxRequests = 2
    MaxClicks = 2
    MaxMounts = 2
    MaxRevokes = 1
INVARIANTS TypeOK PermissionHasConsent
PROPERTIES ImplementsApproval EveryRequestSettles
CHECK_DEADLOCK FALSE
