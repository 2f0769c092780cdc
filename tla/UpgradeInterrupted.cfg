\* Upgrades from every earlier version, stopped anywhere up to two times.
SPECIFICATION FairSpec
CONSTANTS
    Databases = {"sqlite", "postgres", "cockroach"}
    MaxStops = 2
\* The server is up, or a migration fails for good.
CHECK_DEADLOCK FALSE
INVARIANTS
    TypeOK
    NeverHalfMigrated
    FailsOnlyUnnoted
    UpgradeInv
PROPERTIES
    UpgradeCompletes
