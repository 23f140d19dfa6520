SPECIFICATION Spec
CONSTANTS
    n1 = n1
    n2 = n2
    s = s
    t = t
    ns1 = ns1
    ns2 = ns2
    Nodes = {n1}
    NoNode = NoNode
    Profiles = {s, t}
    NoProfile = NoProfile
    Namespaces = {ns1}
    NamespaceOf <- OneNamespace
    NoCell = NoCell
    NoPod = NoPod
    Off = Off
    Callers = {"policy", "agent"}
    EarlyCallers = TRUE
    MaxPods = 1
    MaxRearms = 1
    MaxRestarts = 1
    PersistMayFail = FALSE
INVARIANTS
    AttestedProfileWasEnforced
CHECK_DEADLOCK FALSE
