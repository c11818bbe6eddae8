SPECIFICATION Spec
CONSTANTS
    MaxConnect = 2
    MaxPing = 1
INVARIANT DisconnectIsEarned
PROPERTIES SilenceIsNoticed CloseEndsThreads
CHECK_DEADLOCK FALSE
