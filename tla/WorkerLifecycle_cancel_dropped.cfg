\* A cancellation between a failed attempt and its retry.
SPECIFICATION Spec
CONSTANTS
    None = None
    Run = {r1}
    Initial = r1
    Request = {q1}
    MaxRetries = 1
    MaxReviews = 3
    Crashes = FALSE
\* Every run and request has been used.
CHECK_DEADLOCK FALSE
PROPERTIES
    CancelStopsRuns
