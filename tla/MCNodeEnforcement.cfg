SPECIFICATION Spec
CONSTANTS
    u = u
    v = v
    u1 = u1
    u2 = u2
    v1 = v1
    s = s
    t = t
    w = w
    o = o
    a = a
    b = b
    m = m
    Cells = {c}
    Pods = {u, v}
    Cgroups = {u1, u2, v1}
    Policies = {s, t, w, o}
    Addresses = {a, b, m}
    Files = {f}
    PodOf <- PodOfCgroup
    Class <- ClassOfPolicy
    Egress <- EgressOfPolicy
    Family <- FamilyOfAddress
    Private = {m}
    Metadata = {m}
    None = none
    MaxChanges = 1
    MaxFaults = 2
INVARIANTS TypeOK Contained NothingLeftBehind
PROPERTIES ReceiptsAreTrue Converges

