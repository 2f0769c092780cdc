\* Automatic and requested retries of a recurring allowance, with edits of its
\* details between and during them.
SPECIFICATION Spec
CONSTANTS
    Workers = {w1}
    Clients = {c1}
    Hashes = {h1, h2}
    Details = {d1, d2}
    Occurrences <- RecurringDates
    EndDates = {}
    Horizon = 4
    RetryWindow = 2
    BackoffBase = 1
    BackoffCap = 2
    MaxRevision = 4
    MaxAborts = 0
    None = None
SYMMETRY Symmetry
\* The clock stops at Horizon, and a deleted or finished allowance is left alone.
CHECK_DEADLOCK FALSE
INVARIANTS
    SubmittedOnce
    RetriableNeverSubmitted
    RetryKeepsDetails
    HistoryTruthful
    ScheduleInv
PROPERTIES
    ClaimUsesCurrentTerms
    ClaimBegunInWindow
    SubmittedHistoryFinal
    ScheduleNeverMovesBack
