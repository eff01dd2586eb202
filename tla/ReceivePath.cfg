SPECIFICATION PathSpec
CONSTANTS
    Frames <- MixedFrames
    MaxFrames = 3
    Clears = {"taken", "header", "short"}
    Units <- Captured
INVARIANTS PayloadExact MessagesExact
PROPERTIES PipeDrains AllTaken
