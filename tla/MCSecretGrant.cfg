SPECIFICATION Spec
CONSTANTS
    r1 = r1
    r2 = r2
    c1 = c1
    c2 = c2
    Requests = {r1, r2}
    Consumers = {c1, c2}
    NoRequest = NoRequest
    TTL = 2
    MaxClock = 3
    MaxRestarts = 1
SYMMETRY Symmetry
INVARIANTS
    TypeOK
    SingleUseWhileSaved
    ReceiptPerRelease
    ConsumingIsOwned
PROPERTY ImplementsVoucher
CHECK_DEADLOCK FALSE
