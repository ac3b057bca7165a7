SPECIFICATION MCSpec
CONSTANTS
    None = None
    Path = {a, b}
    MaxCheckpoints = 2
    MaxWritten = 2
    MaxTurns = 2
    Task = {t1, t2}
    Worktree = {w0, w1}
    Primary = w0
    Branch = {main, topic}
    Protected = {main}
    Topic = topic
    MaxCommits = 2
    MaxOthers = 1
    MaxActs = 2
    Writer = {x1, x2}
    Slot = {governor, coding}
    Profile = {custom}
    Legacy = Legacy
    Classic = Classic
SYMMETRY Symmetry

    
    
PROPERTIES
    FailedCallUndone
    
    SettingsStaySound
\* Every turn, every commit and every save may have been used.
CHECK_DEADLOCK FALSE
