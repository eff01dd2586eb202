CONSTANTS
    DEPTH = 2
    Data = {1}
    WriteRegs = {"DATA", "CLEAR"}
    ReadRegs = {"DATA"}
    ClearAlone = TRUE
SPECIFICATION LiveSpec
INVARIANTS TypeOK NoBeatSwallowed WithinDepth
PROPERTIES ReadAnswerStable KeepsContract AccessesAnswered
