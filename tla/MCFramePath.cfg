SPECIFICATION Spec
CONSTANTS
    DEPTH = 2
    SNDBUF = 2
    U16 = 4
    U32 = 3
    PASSES = 3
    FAILURES = 1
INVARIANTS
    TypeOK
    StatsAddUp
    StreamInOrder
    NothingVanishes
    ReportNotOvertaken
PROPERTIES
    PassesEnd
    QueueDrains
