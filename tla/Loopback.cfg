SPECIFICATION Spec
CONSTANTS
    Lengths = {17, 18, 19, 20, 21, 22, 23, 24}
    Aborted = {20}
    IDS = 2
INVARIANTS FramesIntact GapKept AllReceived
