SPECIFICATION MCSpec
CONSTANTS
    None = None
    Run = {r1, r2}
    Initial = r1
    Request = {q1, q2}
    MaxRetries = 1
    MaxReviews = 1
    Crashes = TRUE
    File = {1, 2}
    Ignored = {}
    Bulky = {4}
    MaxFiles = {1, 2}
    MaxShared = 1
    PageSize = 1
    Query = {c1, c2}
    MaxTurns = 4
    MaxPages = 2
SYMMETRY Symmetry
\* Every run request and call may have been used.
CHECK_DEADLOCK FALSE
INVARIANTS
    ReviewBudget
    IndexSound
PROPERTIES
    CancelledIsFinal
    RecordMatchesAnswer
    ApprovedCancelIsFresh
    OnlyRequestsCancel
    CancelledInvokesNoModel
