SPECIFICATION PathSpec
CONSTANTS
    Frames <- CaptureOnly
    MaxFrames = 2
    Clears = {"taken", "header", "short"}
    Units <- Captured
PROPERTY OnlyShortPairsAffected
