\* An edit between the submission of a payment and its settlement.
SPECIFICATION Spec
CONSTANTS
    Workers = {w1}
    Clients = {c1}
    Hashes = {h1}
    Details = {d1, d2}
    Occurrences <- RecurringDates
    EndDates = {}
    Horizon = 2
    RetryWindow = 1
    BackoffBase = 1
    BackoffCap = 2
    MaxRevision = 2
    MaxAborts = 0
    None = None
SYMMETRY Symmetry
\* The clock stops at Horizon, and a deleted or finished allowance is left alone.
CHECK_DEADLOCK FALSE
INVARIANTS
    HistoryShowsPaidDetails
