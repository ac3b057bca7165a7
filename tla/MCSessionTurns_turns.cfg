\* One session, two calls and an interrupt, in a process that may crash and start again; three
\* turns of up to eight messages.
SPECIFICATION MCSpec
CONSTANTS
    Process = {p}
    Session = {s}
    Task = {t1, t2}
    Interrupter = {i}
    Call = {c1, c2}
    MaxAtWork = 2
    Attaches = FALSE
    None = None
    Budgets = {24}
    Slots = 5
    Overhead = 3
    Least = 3
    ToolText = {1, 6}
    Short = 2
    MaxTurns = 3
    MaxMessages = 8
SYMMETRY Symmetry
INVARIANTS
    
    InterruptFindsTurn
    RequestSound
    RawFirst
PROPERTIES
    KeepsTranscript
    RecoveredTurnIsClosed
    CompactionKeeps
CHECK_DEADLOCK FALSE
