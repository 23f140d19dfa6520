SPECIFICATION Spec
CONSTANTS
    n1 = n1
    n2 = n2
    s = s
    t = t
    ns1 = ns1
    ns2 = ns2
    Nodes = {n1}
    NoNode = NoNode
    Profiles = {s}
    NoProfile = NoProfile
    Namespaces = {ns1}
    NamespaceOf <- OneProfile
    NoCell = NoCell
    NoPod = NoPod
    Off = Off
    Callers = {"destroy", "cluster", "review", "secret"}
    EarlyCallers = FALSE
    MaxPods = 1
    MaxRearms = 0
    MaxRestarts = 1
    PersistMayFail = FALSE
INVARIANTS
    TypeOK
    ReleasedHasReceipt
    FirstPodGated
CHECK_DEADLOCK FALSE
