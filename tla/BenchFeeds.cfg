CONSTANTS
    MaxCalls = 3
    Captures <- BenchCaptures
    Unreadable = Unreadable
    Missing = Missing
SPECIFICATION Spec
INVARIANTS UnitFed FramesFed
CHECK_DEADLOCK FALSE
