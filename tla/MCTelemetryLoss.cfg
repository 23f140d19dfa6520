SPECIFICATION Spec
CONSTANTS
    Capacity = 2
    BatchMax = 2
    MaxEvents = 3
    MaxAttempts = 3
    MaxDrops = 1
    MaxRestarts = 0
    PersistMayFail = FALSE
INVARIANT NoSilentLoss
CHECK_DEADLOCK FALSE
