SPECIFICATION Spec
CONSTANTS
    Responder = {r1}
    Stale = 2
    Stalls = {}
    Crashes = {}
    None = None
    Answer = {a}
    Cancel = Cancel
    Interrupts = TRUE
    Attaches = FALSE
SYMMETRY Symmetry
PROPERTY InterruptStands
CHECK_DEADLOCK FALSE
