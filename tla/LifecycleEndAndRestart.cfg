\* End dates, deletions and an aborted task under fair scheduling: stale workers
\* and requests meet deleted, ended and advanced rows. No symmetry, since it is
\* not sound for liveness.
SPECIFICATION FairSpec
CONSTANTS
    Workers = {w1}
    Clients = {c1}
    Hashes = {h1}
    Details = {d1}
    Occurrences <- RecurringDates
    EndDates = {2}
    Horizon = 3
    RetryWindow = 1
    BackoffBase = 1
    BackoffCap = 2
    MaxRevision = 3
    MaxAborts = 1
    None = None
\* The clock stops at Horizon, and a deleted or finished allowance is left alone.
CHECK_DEADLOCK FALSE
INVARIANTS
    NoOrphanHistory
PROPERTIES
    ClaimReleasedTruthfully
    KeepsPromise
    SettledClaimReleased
    DueOccurrenceHandled
