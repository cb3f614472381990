SPECIFICATION Spec
CONSTANTS
    c1 = c1
    o1 = o1
    o2 = o2
    n1 = n1
    n2 = n2
    k1 = k1
    k2 = k2
    w1 = w1
    w2 = w2
    BadRule = BadRule
    Replicas = {r1, r2}
    Clusters = {c1}
    Orgs = {o1, o2}
    Namespaces = {n1, n2}
    WorkloadRules = {k1, k2}
    Workloads = {w1, w2}
    Messages <- DvoMessages
    AllowedOrgs = {o1, o2}
    TicksPerSecond = 2
    Faults = {"statement", "commit"}
    MaxMessages = 3
    MaxCrashes = 1
    MaxRebalances = 1
    MaxLosses = 1
SYMMETRY ReplicaSymmetry
INVARIANTS
    DvoTypeOK
    DvoInv
    RowsAreOneReport
    DvoConverges
    TableIsCurrent
PROPERTIES
    ReportedAtIsKept
CHECK_DEADLOCK FALSE
