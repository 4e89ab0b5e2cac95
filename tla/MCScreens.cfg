SPECIFICATION Spec
CONSTANT MaxCalls = 4
INVARIANTS TypeOK UnlockedIsTimed LockIsShown
PROPERTY AutoLocks
CHECK_DEADLOCK FALSE
