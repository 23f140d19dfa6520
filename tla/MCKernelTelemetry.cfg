SPECIFICATION Spec
CONSTANTS
    Capacity = 1
    BatchMax = 2
    MaxEvents = 4
    MaxAttempts = 2
    MaxDrops = 1
    MaxRestarts = 1
    PersistMayFail = TRUE
INVARIANT TypeOK
INVARIANT RecordedOnce
INVARIANT AcknowledgedIsDurable
INVARIANT QueueBounded
PROPERTY ImplementsLog
CHECK_DEADLOCK FALSE
