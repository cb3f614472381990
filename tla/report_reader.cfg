SPECIFICATION ReaderSpec
CONSTANTS
    c1 = c1
    o1 = o1
    o2 = o2
    h1 = h1
    h2 = h2
    Clusters = {c1}
    Orgs = {o1, o2}
    Rules = {h1, h2}
    Reports <- SomeReports
    Clients = {k1, k2}
SYMMETRY ClientSymmetry
INVARIANTS
    ReaderInv
    ResponseIsOneReport
    TogglesAreShown
