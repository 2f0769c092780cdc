\* Requests of three connections on a wallet that is nearly full, full, or
\* over-full from before the limit, on either database.
SPECIFICATION Spec
CONSTANTS
    s1 = s1
    s2 = s2
    s3 = s3
    Sessions = {s1, s2, s3}
    Databases = {"sqlite", "postgres"}
    Limit = 2
    LogCap = 2
    Occurrences = {1, 2}
    MaxOthers = 3
    None = None
SYMMETRY Symmetry
INVARIANTS
    TypeOK
    LocksInv
    SerialDeletionComplete
PROPERTIES
    CreationWithinLimit
    CreationAtomic
    NoRecordAfterDeletion
