SPECIFICATION MCSpec
CONSTANTS
    Responder = {r1, r2, r3, r4}
    Stale = 2
    Stalls = {}
    Crashes = {"claim", "takeover", "work", "release"}
    None = None
    Answer = {a, b}
    Cancel = Cancel
    Interrupts = TRUE
    Attaches = TRUE
    MaxRequests = 3
    MaxTurns = 3
    MaxInterrupts = 1
SYMMETRY Symmetry
INVARIANTS
    LeaseIsExclusive
    LeftoversNeverRefuse
    AnsweredOnce
    
    
PROPERTIES
    KeptWhileRenewed
    ResumedStays
CHECK_DEADLOCK FALSE
