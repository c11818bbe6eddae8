SPECIFICATION Spec
CONSTANTS
    Base = 2
    Message <- Messages
    MaxSent = 3
    MaxConnect = 2
    Failing = TRUE
INVARIANTS TypeOK NoByteLost
PROPERTY IsLink
CHECK_DEADLOCK FALSE
CONSTRAINT Bound
