\* Two schedulers at once, as when a new server process starts before the old
\* one has stopped, on an allowance that is due once and may be reactivated.
SPECIFICATION Spec
CONSTANTS
    Workers = {w1, w2}
    Clients = {c1}
    Hashes = {h1, h2}
    Details = {d1, d2}
    Occurrences <- OnceDate
    EndDates = {}
    Horizon = 2
    RetryWindow = 1
    BackoffBase = 1
    BackoffCap = 2
    MaxRevision = 2
    MaxAborts = 0
    None = None
SYMMETRY Symmetry
\* The clock stops at Horizon, and a deleted or finished allowance is left alone.
CHECK_DEADLOCK FALSE
INVARIANTS
    TypeOK
    SenderHoldsClaim
    OneSender
    ClaimInv
