\* Two schedulers at once on a recurring allowance whose first occurrence is
\* retried: one of them still holds the row of the earlier, regular attempt.
SPECIFICATION Spec
CONSTANTS
    Workers = {w1, w2}
    Clients = {c1}
    Hashes = {h1, h2}
    Details = {d1}
    Occurrences <- ShortDates
    EndDates = {}
    Horizon = 2
    RetryWindow = 1
    BackoffBase = 1
    BackoffCap = 2
    MaxRevision = 4
    MaxAborts = 0
    None = None
SYMMETRY Symmetry
\* The clock stops at Horizon, and a deleted or finished allowance is left alone.
CHECK_DEADLOCK FALSE
PROPERTIES
    ScheduleNeverMovesBack
