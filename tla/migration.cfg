SPECIFICATION FairSpec
CONSTANTS
    m1 = m1
    m2 = m2
    s1 = s1
    s2 = s2
    NoOne = NoOne
    Migrators = {m1, m2}
    Services = {s1, s2}
    Max = 4
    Known <- OneBuild
    StrictUp <- DvoStrictUp
    UpNeeds <- DvoUpNeeds
    DownNeeds <- DvoDownNeeds
    Commands <- SameCommand
    InitialTables <- AnyTable
    MaxFaults = 2
INVARIANTS
    MigrationTypeOK
    MigrationInv
    VersionMatchesSchema
PROPERTIES
    ServiceStartsOnItsSchema
    MigrationCompletes
CHECK_DEADLOCK FALSE
