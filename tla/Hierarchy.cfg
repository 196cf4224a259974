CONSTANTS
    L1Size = 2
    L2Size = 2
    L3Size = 1
    AnchorTurns = 2
    TailCalls = 2
    CompactCalls = 2
    Cap = 5
    Histories = {2}
    Writes = 3
    MaxWaiting = 2
    MaxTroubles = 2
SPECIFICATION Spec
INVARIANTS RecordIsTrue NeverOverCounts
PROPERTIES SaidStays ChaptersKept NothingSkipped
CHECK_DEADLOCK FALSE
