CONSTANTS
    BEAT = 8
    DEPTH = 6
    MAX_BYTES = 24
    Lengths = {8, 12, 20}
    MaxFrames = 3
    MaxGlitches = 1
SPECIFICATION FairSpec
INVARIANTS NeverReadsEmpty FramesIntact NoFrameVanishes
PROPERTY AllDrained
CHECK_DEADLOCK FALSE
