\* A prompt after a turn whose approval was never given; the budget is no limit.
SPECIFICATION HistorySpec
CONSTANTS
    Budgets = {60}
    Slots = 8
    Overhead = 3
    Least = 3
    ToolText = {1}
    Short = 2
    MaxTurns = 3
    MaxMessages = 8
    None = None
INVARIANT RequestReachesModel
CHECK_DEADLOCK FALSE
