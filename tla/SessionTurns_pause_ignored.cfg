\* A turn and its continuation after an approval.
SPECIFICATION Spec
CONSTANTS
    Process = {p}
    Session = {s}
    Task = {t1, t2}
    Interrupter = {}
    Call = {c1, c2}
    MaxAtWork = 1
    Attaches = FALSE
    None = None
PROPERTY PauseHolds
CHECK_DEADLOCK FALSE
