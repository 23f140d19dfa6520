SPECIFICATION FairSpec
CONSTANTS
    n1 = n1
    n2 = n2
    s = s
    t = t
    ns1 = ns1
    ns2 = ns2
    Nodes = {n1}
    NoNode = NoNode
    Profiles = {s}
    NoProfile = NoProfile
    Namespaces = {ns1}
    NamespaceOf <- OneProfile
    NoCell = NoCell
    NoPod = NoPod
    Off = Off
    Callers = {"destroy"}
    EarlyCallers = FALSE
    MaxPods = 1
    MaxRearms = 0
    MaxRestarts = 1
    PersistMayFail = TRUE
PROPERTIES
    OrphanCollected
CHECK_DEADLOCK FALSE
