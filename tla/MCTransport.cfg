SPECIFICATION Spec
CONSTANTS
    t1 = t1
    t2 = t2
    Scenarios <- AllScenarios
    HeaderLength = 2
    SegmentSize = 4
    MaxSegments = 3
    SeqNumbers = 6
    Delta = 1
    Second = 4
    SecondField = 8
    SecondWrap = 2
    MaxDelay = 1
    MaxClock = 7
CHECK_DEADLOCK FALSE
INVARIANTS
    OneSource
    Intact
    EachOnce
