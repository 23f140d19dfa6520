SPECIFICATION Spec
CONSTANTS
    u = u
    v = v
    u1 = u1
    u2 = u2
    v1 = v1
    s = s
    t = t
    w = w
    o = o
    a = a
    b = b
    m = m
    Cells = {c}
    Pods = {u}
    Cgroups = {u1}
    Policies = {s, o}
    Addresses = {a}
    Files = {f}
    PodOf <- PodOfCgroup
    Class <- ClassOfPolicy
    Egress <- EgressOfPolicy
    Family <- FamilyOfAddress
    Private = {}
    Metadata = {}
    None = none
    MaxChanges = 2
    MaxFaults = 0
INVARIANTS PassEnforces
