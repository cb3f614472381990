SPECIFICATION Spec
CONSTANTS
    p1 = p1
    c1 = c1
    o1 = o1
    o2 = o2
    h1 = h1
    h2 = h2
    v1 = v1
    v2 = v2
    toggle = toggle
    feedback = feedback
    NoVersion = NoVersion
    Orgs = {o1, o2}
    Rules = {h1, h2}
    Versions = {v1, v2}
    AllowedOrgs = {o1, o2}
    Partitions = {p1}
    Clusters = {c1}
    PartitionsOf <- OnePartition
    Replicas = {r1}
    UserTables = {}
    KeepsOrg = {}
    Debug = FALSE
    Messages <- ReportMessages
    Faults = {}
    MaxMessages = 2
    MaxInterruptions = 1
    MaxRequests = 0
    MaxNow = 1
INVARIANTS
    RecommendationsReplaced
CHECK_DEADLOCK FALSE
