\* One turn that makes one checkpoint, restored after it with its conversation.
SPECIFICATION Spec
CONSTANTS
    Path = {a}
    MaxCheckpoints = 1
    MaxWritten = 2
    MaxTurns = 1
    None = None
INVARIANT RunningHasTurn
CHECK_DEADLOCK FALSE
